------------------------------- MODULE Datagram -------------------------------
(***************************************************************************)
(* The datagram budget of a WebTransport session (server/quic/core.rs,     *)
(* WebTransportStream): one u64 token bucket shared by sending and         *)
(* receiving, refilled by whole elapsed seconds on every call.             *)
(*                                                                         *)
(* The session handler owns the stream (&mut self), so calls follow one    *)
(* another; time passes between them and while a receive is waiting.       *)
(* webtransport_datagram_rate is Some(Rate).  Module QuicConnection makes  *)
(* the calls.                                                              *)
(***************************************************************************)
EXTENDS Integers

CONSTANTS
    Rate,       \* datagram_per_sec
    RecordDrop, \* record_drop
    Second,     \* ticks per second
    MaxTime,    \* bound: the clock
    MaxCall     \* bound: calls

ASSUME DatagramAssumption ==
    /\ Rate \in Nat /\ RecordDrop \in BOOLEAN
    /\ Second \in Nat \ {0} /\ MaxTime \in Nat /\ MaxCall \in Nat

VARIABLES
    now,
    tokens,         \* datagram_tokens
    last_refill,
    reading,        \* recv_datagram is waiting in read_datagram
    result,         \* how the last call ended
    charged,        \* tokens taken in the observed window
    calls,
    from            \* start of the observed window

bucketVars == <<now, tokens, last_refill, reading, result, charged, calls, from>>

Time == 0..MaxTime

Result == {"none", "ok", "limited", "dropped", "oversize", "closed",
           "failed"}

BucketTypeOK ==
    /\ now \in Time /\ last_refill \in 0..now /\ from \in 0..now
    /\ tokens \in 0..Rate
    /\ reading \in BOOLEAN /\ result \in Result
    /\ charged \in Nat
    /\ calls \in 0..MaxCall

BucketInit ==
    /\ now = 0 /\ tokens = Rate /\ last_refill = 0
    /\ reading = FALSE /\ result = "none"
    /\ charged = 0 /\ calls = 0 /\ from = 0

Lesser(a, b) == IF a <= b THEN a ELSE b

\* Mutant: the sum is not capped at the rate.
RefilledUncapped == tokens + Rate * ((now - last_refill) \div Second)

\* refill(): elapsed.as_secs() drops the fraction of a second, and last_refill
\* moves to now all the same.
Refilled == Lesser(tokens + Rate * ((now - last_refill) \div Second), Rate)

Charge == charged' = charged + 1

Begin == ~reading /\ calls < MaxCall /\ calls' = calls + 1

\* try_send_datagram: refill, size check, token, then the QUIC connection,
\* whose refusal does not give the token back.
TrySend(fits, accepted) ==
    /\ Begin
    /\ last_refill' = now
    /\ \/ /\ ~fits \/ Refilled = 0
          /\ tokens' = Refilled
          /\ result' = IF fits THEN "limited" ELSE "oversize"
          /\ UNCHANGED charged
       \/ /\ fits /\ Refilled > 0
          /\ tokens' = Refilled - 1
          /\ Charge
          /\ result' = IF accepted THEN "ok" ELSE "failed"
    /\ UNCHANGED <<now, reading, from>>

\* WebTransportStream::new: a full bucket.
NewStream == tokens' = Rate /\ last_refill' = now

\* recv_data refills as well, after its own read, whatever it has read: data,
\* data beyond max_frame_size, or the end of the stream.
RecvData(read) ==
    /\ Begin
    /\ last_refill' = now
    /\ tokens' = Refilled
    /\ result' = read
    /\ UNCHANGED <<now, reading, charged, from>>

\* The read fails or times out.
RecvDataErr ==
    /\ Begin
    /\ result' = "failed"
    /\ UNCHANGED <<now, tokens, last_refill, reading, charged, from>>

\* recv_datagram up to its await: the refill happens before the wait.
RecvBegin ==
    /\ Begin
    /\ last_refill' = now
    /\ tokens' = Refilled
    /\ reading' = TRUE
    /\ UNCHANGED <<now, result, charged, from>>

\* An over-limit datagram: Ok(None), or Err when drops are not recorded.
Refuse(why) == result' = IF RecordDrop THEN "dropped" ELSE why

\* read_datagram returns: size check, token, Ok(Some(raw)).
RecvDatagram(fits) ==
    /\ reading
    /\ reading' = FALSE
    /\ \/ /\ ~fits \/ tokens = 0
          /\ Refuse(IF fits THEN "limited" ELSE "oversize")
          /\ UNCHANGED <<tokens, charged>>
       \/ /\ fits /\ tokens > 0
          /\ tokens' = tokens - 1
          /\ Charge
          /\ result' = "ok"
    /\ UNCHANGED <<now, last_refill, calls, from>>

\* The connection is closed (Ok(None)) or lost (Err).
RecvClosed(how) ==
    /\ reading
    /\ reading' = FALSE
    /\ result' = how
    /\ UNCHANGED <<now, tokens, last_refill, charged, calls, from>>

Tick ==
    /\ now < MaxTime
    /\ now' = now + 1
    /\ UNCHANGED <<tokens, last_refill, reading, result, charged, calls, from>>

\* An observer starts to count datagrams from the next tick on.
Observe ==
    /\ now < MaxTime
    /\ now' = now + 1
    /\ from' = now + 1 /\ charged' = 0
    /\ UNCHANGED <<tokens, last_refill, reading, result, calls>>

\* Time passes, for the session as for an observer.
Clock == Tick \/ Observe

-----------------------------------------------------------------------------
(* Properties                                                              *)

\* From any moment on no more datagrams pass than one full bucket and the rate
\* times the time since, plus the one a receive that was already waiting takes
\* from the bucket it refilled before its wait.
WithinRate ==
    charged * Second <= (Rate + 1) * Second + Rate * (now - from)

=============================================================================
