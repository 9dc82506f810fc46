------------------------ MODULE QuicConnectionProofs ------------------------
(***************************************************************************)
(* Theorems about QuicConnection and the Datagram bucket in it, for every  *)
(* rate, length of a second, number of requests and of chunks: the bucket  *)
(* keeps the rate in every window, and an echo is whole or absent.         *)
(***************************************************************************)
EXTENDS QuicConnection, SequenceTheorems, TLAPS

(* The bucket, counted from the start of the observed window.              *)

\* Until the first refill in the window, only a receive that was already
\* waiting has taken a token.
BeforeRefill == last_refill < from => charged <= (IF reading THEN 0 ELSE 1)

\* From then on, tokens taken and tokens left come out of one full bucket, that
\* one receive, and the refills up to last_refill.
AfterRefill ==
    from <= last_refill =>
        (charged + tokens) * Second
            <= (Rate + 1) * Second + Rate * (last_refill - from)

\* The bucket is filled for the session before a datagram is charged.
Early == {"none", "resolving", "plain", "answering", "opening"}

FreshBucket == task[Focus] \in Early => charged = 0

Bucket == BucketTypeOK /\ BeforeRefill /\ AfterRefill

(* The echo.                                                               *)

\* EchoHandler has collected the first chunks of the stream, one by one.
Collected ==
    /\ Len(chunks) <= MaxChunk /\ Len(payload) <= Len(chunks)
    /\ \A i \in 1..Len(payload) : payload[i] = i /\ chunks[i] # "big"

\* It leaves its read loop for the answer at the end of the stream only.
AtEnd ==
    task[Focus] = "replying" => fin /\ Len(payload) = Len(chunks)

\* The answer is its last step.
Replied == reply # <<>> => task[Focus] = "ended" /\ EchoWhole

EchoInv == Collected /\ AtEnd /\ Replied

\* TypeOK but for the bucket.
ConnectionTypeOK ==
    /\ link \in {"up", "lost"}
    /\ loop \in {"handshake", "building", "accepting", "ended"}
    /\ task \in [Requests -> TaskState]
    /\ handler \in {"echo", "user"}
    /\ chunks \in Seq(Kind) /\ fin \in BOOLEAN
    /\ payload \in Seq(1..MaxChunk) /\ reply \in Seq(Seq(0..MaxChunk))

IInv == ConnectionTypeOK /\ Bucket /\ FreshBucket /\ EchoInv

-----------------------------------------------------------------------------
(* The arithmetic of the bucket                                            *)

\* Products.
LEMMA Products ==
    /\ \A a, b \in Int : a * b \in Int
    /\ \A a, b \in Nat : a * b \in Nat
    /\ \A a, b, c \in Int : (a + b) * c = a * c + b * c
    /\ \A a, b, c \in Int : a * (b + c) = a * b + a * c
    /\ \A a, b, c \in Int : (a * b) * c = a * (b * c)
    /\ \A a, b, c \in Nat : a <= b => a * c <= b * c
    /\ \A a, b, c \in Nat : a <= b => c * a <= c * b
OBVIOUS

\* Whole seconds do not exceed the time they are taken from.
LEMMA WholeSeconds ==
    ASSUME NEW d \in Nat
    PROVE  d \div Second \in Nat /\ (d \div Second) * Second <= d
<1>1. Second \in Nat /\ Second > 0
    BY DatagramAssumption
<1>. QED
    BY <1>1

\* A refill keeps the bucket within its capacity.
LEMMA RefilledType ==
    ASSUME BucketTypeOK
    PROVE  Refilled \in 0..Rate
<1>1. now - last_refill \in Nat /\ Rate \in Nat /\ tokens \in 0..Rate
    BY DatagramAssumption DEF BucketTypeOK, Time
<1>2. Rate * ((now - last_refill) \div Second) \in Nat
    BY <1>1, WholeSeconds, Products
<1>. QED
    BY <1>1, <1>2 DEF Refilled, Lesser

\* What a refill adds is earned by the time since the last one.
LEMMA RefilledEarned ==
    ASSUME BucketTypeOK
    PROVE  Refilled * Second <= tokens * Second + Rate * (now - last_refill)
<1>. DEFINE d == now - last_refill
            k == d \div Second
<1>1. d \in Nat /\ Rate \in Nat /\ tokens \in Nat /\ Second \in Nat
    BY DatagramAssumption DEF BucketTypeOK, Time
<1>2. k \in Nat /\ k * Second <= d /\ k * Second \in Nat
    BY <1>1, WholeSeconds, Products
<1>3. Refilled <= tokens + Rate * k /\ Refilled \in Nat
    <2>1. Rate * k \in Nat
        BY <1>1, <1>2, Products
    <2>. QED
        BY <1>1, <2>1, RefilledType, DatagramAssumption DEF Refilled, Lesser
<1>. HIDE DEF k, d
<1>4. Rate * k \in Nat /\ (tokens + Rate * k) \in Nat
    BY <1>1, <1>2, Products
<1>5. Refilled * Second <= (tokens + Rate * k) * Second
    BY <1>1, <1>3, <1>4, Products
<1>6. (tokens + Rate * k) * Second = tokens * Second + (Rate * k) * Second
    BY <1>1, <1>4, Products
<1>7. (Rate * k) * Second = Rate * (k * Second)
    BY <1>1, <1>2, Products
<1>8. Rate * (k * Second) <= Rate * d
    BY <1>1, <1>2, Products
<1>9. /\ Refilled * Second \in Nat /\ tokens * Second \in Nat
      /\ Rate * (k * Second) \in Nat /\ Rate * d \in Nat
    BY <1>1, <1>2, <1>3, Products
<1>10. Refilled * Second <= tokens * Second + Rate * d
    BY <1>5, <1>6, <1>7, <1>8, <1>9
<1>. QED
    BY <1>10 DEF d

\* After a refill, what was charged and what is left fit the window up to now.
LEMMA RefilledWithin ==
    ASSUME BucketTypeOK, BeforeRefill, AfterRefill
    PROVE  (charged + Refilled) * Second <= (Rate + 1) * Second + Rate * (now - from)
<1>1. /\ Rate \in Nat /\ Second \in Nat /\ tokens \in Nat /\ charged \in Nat
      /\ now \in Nat /\ from \in Nat /\ last_refill \in Nat
      /\ last_refill <= now /\ from <= now
    BY DatagramAssumption DEF BucketTypeOK, Time
<1>2. Refilled \in Nat /\ Refilled <= Rate
    BY <1>1, RefilledType
<1>3. /\ (Rate + 1) * Second \in Nat /\ Rate * (now - from) \in Nat
      /\ (charged + Refilled) * Second = charged * Second + Refilled * Second
      /\ (charged + tokens) * Second = charged * Second + tokens * Second
      /\ charged * Second \in Nat /\ Refilled * Second \in Nat
      /\ tokens * Second \in Nat /\ Rate * (now - last_refill) \in Nat
    <2>1. /\ now - from \in Nat /\ now - last_refill \in Nat /\ Rate + 1 \in Nat
        BY <1>1
    <2>. QED
        BY <1>1, <1>2, <2>1, Products
<1>4. CASE last_refill < from
    <2>1. charged + Refilled <= Rate + 1 /\ charged + Refilled \in Nat
        BY <1>1, <1>2, <1>4 DEF BeforeRefill
    <2>2. (charged + Refilled) * Second <= (Rate + 1) * Second
        BY <1>1, <2>1, Products
    <2>. QED
        BY <1>3, <2>2
<1>5. CASE from <= last_refill
    <2>1. (charged + tokens) * Second
              <= (Rate + 1) * Second + Rate * (last_refill - from)
        BY <1>5 DEF AfterRefill
    <2>2. Refilled * Second <= tokens * Second + Rate * (now - last_refill)
        BY RefilledEarned
    <2>3. /\ Rate * (now - from)
                = Rate * (now - last_refill) + Rate * (last_refill - from)
          /\ Rate * (last_refill - from) \in Nat
        <3>1. /\ now - last_refill \in Nat /\ last_refill - from \in Nat
              /\ now - from = (now - last_refill) + (last_refill - from)
            BY <1>1, <1>5
        <3>. QED
            BY <1>1, <3>1, Products
    <2>. QED
        BY <1>3, <2>1, <2>2, <2>3
<1>. QED
    BY <1>1, <1>4, <1>5

-----------------------------------------------------------------------------
(* The calls of the bucket                                                 *)

\* The variables of the bucket, as arithmetic takes them.
LEMMA BucketNumbers ==
    ASSUME BucketTypeOK
    PROVE  /\ Rate \in Nat /\ Second \in Nat /\ Second > 0 /\ MaxTime \in Nat
           /\ MaxCall \in Nat
           /\ tokens \in Nat /\ tokens <= Rate /\ charged \in Nat
           /\ now \in Nat /\ now <= MaxTime /\ from \in Nat /\ from <= now
           /\ last_refill \in Nat /\ last_refill <= now
           /\ calls \in Nat /\ calls <= MaxCall
BY DatagramAssumption DEF BucketTypeOK, Time

\* A step that leaves the bucket alone.
LEMMA BucketSame ==
    ASSUME Bucket, UNCHANGED bucketVars
    PROVE  Bucket'
BY DEF Bucket, bucketVars, BucketTypeOK, BeforeRefill, AfterRefill

\* A refill, after which a token is taken or not.
LEMMA BucketRefill ==
    ASSUME Bucket, Begin, last_refill' = now, UNCHANGED <<now, from>>,
           reading' \in BOOLEAN, result' \in Result,
           \/ tokens' = Refilled /\ UNCHANGED charged
           \/ Refilled > 0 /\ tokens' = Refilled - 1 /\ Charge
    PROVE  Bucket'
<1>1. /\ now \in Time /\ now \in Nat /\ from \in 0..now /\ from \in Nat
      /\ from <= now /\ charged \in Nat /\ calls \in 0..MaxCall
      /\ Rate \in Nat /\ MaxCall \in Nat
    BY BucketNumbers DEF Bucket, BucketTypeOK
<1>2. Refilled \in 0..Rate
    BY RefilledType DEF Bucket
<1>. HIDE DEF Refilled
<1>3. /\ tokens' \in 0..Rate /\ charged' \in Nat
      /\ charged' + tokens' = charged + Refilled
    BY <1>1, <1>2 DEF Charge
<1>4. calls' \in 0..MaxCall /\ last_refill' \in 0..now
    BY <1>1 DEF Begin
<1>5. BucketTypeOK'
    BY <1>1, <1>3, <1>4 DEF BucketTypeOK, Time
<1>6. BeforeRefill'
    BY <1>1 DEF BeforeRefill
<1>7. (charged + Refilled) * Second <= (Rate + 1) * Second + Rate * (now - from)
    BY RefilledWithin DEF Bucket
<1>8. AfterRefill'
    BY <1>3, <1>7 DEF AfterRefill
<1>. QED
    BY <1>5, <1>6, <1>8 DEF Bucket

LEMMA BucketTrySend ==
    ASSUME Bucket, NEW fits \in BOOLEAN, NEW accepted \in BOOLEAN,
           TrySend(fits, accepted)
    PROVE  Bucket'
<1>1. /\ Begin /\ last_refill' = now /\ UNCHANGED <<now, from>>
      /\ reading' = reading /\ result' \in Result
      /\ \/ tokens' = Refilled /\ UNCHANGED charged
         \/ Refilled > 0 /\ tokens' = Refilled - 1 /\ Charge
    BY DEF TrySend, Result
<1>2. reading' \in BOOLEAN
    BY <1>1 DEF Bucket, BucketTypeOK
<1>. QED
    BY <1>1, <1>2, BucketRefill

LEMMA BucketRecvData ==
    ASSUME Bucket, NEW read \in {"ok", "oversize", "closed"}, RecvData(read)
    PROVE  Bucket'
<1>1. /\ Begin /\ last_refill' = now /\ UNCHANGED <<now, from>>
      /\ reading' = reading /\ result' \in Result
      /\ tokens' = Refilled /\ UNCHANGED charged
    BY DEF RecvData, Result
<1>2. reading' \in BOOLEAN
    BY <1>1 DEF Bucket, BucketTypeOK
<1>. QED
    BY <1>1, <1>2, BucketRefill

LEMMA BucketRecvBegin ==
    ASSUME Bucket, RecvBegin
    PROVE  Bucket'
<1>1. /\ Begin /\ last_refill' = now /\ UNCHANGED <<now, from>>
      /\ reading' \in BOOLEAN /\ result' = result
      /\ tokens' = Refilled /\ UNCHANGED charged
    BY DEF RecvBegin
<1>2. result' \in Result
    BY <1>1 DEF Bucket, BucketTypeOK
<1>. QED
    BY <1>1, <1>2, BucketRefill

LEMMA BucketRecvDataErr ==
    ASSUME Bucket, RecvDataErr
    PROVE  Bucket'
<1>1. UNCHANGED <<now, tokens, last_refill, reading, charged, from>>
    BY DEF RecvDataErr
<1>2. calls' \in 0..MaxCall /\ result' \in Result
    BY BucketNumbers DEF RecvDataErr, Begin, Result, Bucket
<1>3. BucketTypeOK'
    BY <1>1, <1>2 DEF Bucket, BucketTypeOK
<1>. QED
    BY <1>1, <1>3 DEF Bucket, BeforeRefill, AfterRefill

LEMMA BucketRecvDatagram ==
    ASSUME Bucket, NEW fits \in BOOLEAN, RecvDatagram(fits)
    PROVE  Bucket'
<1>1. /\ reading /\ reading' = FALSE
      /\ UNCHANGED <<now, last_refill, calls, from>>
      /\ \/ UNCHANGED <<tokens, charged>>
         \/ tokens > 0 /\ tokens' = tokens - 1 /\ charged' = charged + 1
    BY DEF RecvDatagram, Charge
<1>2. result' \in Result
    BY DEF RecvDatagram, Refuse, Result
<1>3. /\ Rate \in Nat /\ tokens \in Nat /\ tokens <= Rate /\ charged \in Nat
    BY BucketNumbers DEF Bucket
<1>4. /\ tokens' \in 0..Rate /\ charged' \in Nat /\ charged' <= charged + 1
      /\ charged' + tokens' = charged + tokens
    BY <1>1, <1>3
<1>5. BucketTypeOK'
    BY <1>1, <1>2, <1>4 DEF Bucket, BucketTypeOK
<1>6. BeforeRefill'
    BY <1>1, <1>3, <1>4 DEF Bucket, BeforeRefill
<1>7. AfterRefill'
    BY <1>1, <1>4 DEF Bucket, AfterRefill
<1>. QED
    BY <1>5, <1>6, <1>7 DEF Bucket

LEMMA BucketRecvClosed ==
    ASSUME Bucket, NEW how \in {"closed", "failed"}, RecvClosed(how)
    PROVE  Bucket'
<1>1. /\ reading /\ reading' = FALSE /\ result' \in Result
      /\ UNCHANGED <<now, tokens, last_refill, charged, calls, from>>
    BY DEF RecvClosed, Result
<1>2. charged \in Nat
    BY BucketNumbers DEF Bucket
<1>3. BucketTypeOK'
    BY <1>1 DEF Bucket, BucketTypeOK
<1>. QED
    BY <1>1, <1>2, <1>3 DEF Bucket, BeforeRefill, AfterRefill

LEMMA BucketClock ==
    ASSUME Bucket, Clock
    PROVE  Bucket'
<1>1. /\ now \in Nat /\ now' = now + 1 /\ now < MaxTime /\ MaxTime \in Nat
      /\ UNCHANGED <<tokens, last_refill, reading, result, calls>>
    BY BucketNumbers DEF Bucket, Clock, Tick, Observe
<1>2. /\ last_refill \in Nat /\ last_refill <= now
      /\ from \in Nat /\ from <= now /\ charged \in Nat
    BY BucketNumbers DEF Bucket
<1>3. CASE UNCHANGED <<charged, from>>
    <2>1. BucketTypeOK'
        BY <1>1, <1>2, <1>3 DEF Bucket, BucketTypeOK, Time
    <2>. QED
        BY <1>1, <1>3, <2>1 DEF Bucket, BeforeRefill, AfterRefill
<1>4. CASE from' = now + 1 /\ charged' = 0
    <2>1. BucketTypeOK'
        BY <1>1, <1>2, <1>4 DEF Bucket, BucketTypeOK, Time
    <2>2. BeforeRefill' /\ AfterRefill'
        BY <1>1, <1>2, <1>4 DEF BeforeRefill, AfterRefill
    <2>. QED
        BY <2>1, <2>2 DEF Bucket
<1>. QED
    BY <1>3, <1>4 DEF Clock, Tick, Observe

\* A bucket made full while nothing has been charged.
LEMMA BucketNewStream ==
    ASSUME Bucket, charged = 0, NewStream,
           UNCHANGED <<now, reading, result, charged, calls, from>>
    PROVE  Bucket'
<1>1. /\ Rate \in Nat /\ Second \in Nat /\ now \in Nat /\ from \in Nat
      /\ from <= now
    BY BucketNumbers DEF Bucket
<1>2. BucketTypeOK'
    BY <1>1 DEF NewStream, Bucket, BucketTypeOK
<1>3. BeforeRefill'
    BY <1>1 DEF NewStream, BeforeRefill
<1>4. /\ Rate * Second <= (Rate + 1) * Second /\ Rate * (now - from) \in Nat
      /\ Rate * Second \in Nat /\ (Rate + 1) * Second \in Nat
    <2>1. Rate + 1 \in Nat /\ Rate <= Rate + 1 /\ now - from \in Nat
        BY <1>1
    <2>. QED
        BY <1>1, <2>1, Products
<1>5. (0 + Rate) * Second <= (Rate + 1) * Second + Rate * (now - from)
    BY <1>1, <1>4
<1>6. AfterRefill'
    BY <1>5 DEF NewStream, AfterRefill
<1>. QED
    BY <1>2, <1>3, <1>6 DEF Bucket

\* The invariant bounds what was charged.
LEMMA BucketWithinRate ==
    ASSUME Bucket
    PROVE  WithinRate
<1>1. /\ Rate \in Nat /\ Second \in Nat /\ tokens \in Nat /\ charged \in Nat
      /\ now \in Nat /\ from \in Nat /\ last_refill \in Nat
      /\ last_refill <= now /\ from <= now
    BY BucketNumbers DEF Bucket
<1>2. /\ charged * Second \in Nat /\ (Rate + 1) * Second \in Nat
      /\ Rate * (now - from) \in Nat
    <2>1. Rate + 1 \in Nat /\ now - from \in Nat
        BY <1>1
    <2>. QED
        BY <1>1, <2>1, Products
<1>3. CASE last_refill < from
    <2>1. charged <= Rate + 1 /\ Rate + 1 \in Nat
        BY <1>1, <1>3 DEF Bucket, BeforeRefill
    <2>2. charged * Second <= (Rate + 1) * Second
        BY <1>1, <2>1, Products
    <2>. QED
        BY <1>2, <2>2 DEF WithinRate
<1>4. CASE from <= last_refill
    <2>1. charged * Second <= (charged + tokens) * Second
        <3>1. charged <= charged + tokens /\ charged + tokens \in Nat
            BY <1>1
        <3>. QED
            BY <1>1, <3>1, Products
    <2>2. Rate * (last_refill - from) <= Rate * (now - from)
        <3>1. /\ last_refill - from \in Nat /\ now - from \in Nat
              /\ last_refill - from <= now - from
            BY <1>1, <1>4
        <3>. QED
            BY <1>1, <3>1, Products
    <2>3. /\ (charged + tokens) * Second \in Nat
          /\ Rate * (last_refill - from) \in Nat
        <3>1. last_refill - from \in Nat /\ charged + tokens \in Nat
            BY <1>1, <1>4
        <3>. QED
            BY <1>1, <3>1, Products
    <2>. QED
        BY <1>2, <1>4, <2>1, <2>2, <2>3 DEF Bucket, AfterRefill, WithinRate
<1>. QED
    BY <1>1, <1>3, <1>4

-----------------------------------------------------------------------------
(* The connection and its tasks                                            *)

\* What a step may do to the state of a task.
LEMMA Moved ==
    ASSUME ConnectionTypeOK, NEW r \in Requests, NEW old, NEW new \in TaskState,
           Goto(r, old, new)
    PROVE  /\ task[r] = old /\ task'[r] = new
           /\ task' \in [Requests -> TaskState]
           /\ \A q \in Requests : q # r => task'[q] = task[q]
BY DEF Goto, ConnectionTypeOK

\* A step that leaves the stream and the echo alone and does not bring the
\* session's task to its answer.
LEMMA EchoSame ==
    ASSUME EchoInv, UNCHANGED <<streamVars, echoVars>>,
           task'[Focus] # "replying",
           task[Focus] = "ended" => task'[Focus] = "ended"
    PROVE  EchoInv'
<1>1. UNCHANGED <<chunks, fin, payload, reply>>
    BY DEF streamVars, echoVars
<1>2. Collected'
    BY <1>1 DEF EchoInv, Collected
<1>3. AtEnd'
    BY DEF AtEnd
<1>4. Replied'
    BY <1>1 DEF EchoInv, Replied, EchoWhole, Message
<1>. QED
    BY <1>2, <1>3, <1>4 DEF EchoInv

\* The same when no task moves.
LEMMA EchoStill ==
    ASSUME EchoInv, UNCHANGED <<streamVars, echoVars, task>>
    PROVE  EchoInv'
<1>1. UNCHANGED <<chunks, fin, payload, reply, task>>
    BY DEF streamVars, echoVars
<1>2. Collected'
    BY <1>1 DEF EchoInv, Collected
<1>3. AtEnd'
    BY <1>1 DEF EchoInv, AtEnd
<1>4. Replied'
    BY <1>1 DEF EchoInv, Replied, EchoWhole, Message
<1>. QED
    BY <1>2, <1>3, <1>4 DEF EchoInv

\* Steps of the connection future and of the link.
LEMMA LoopInv ==
    ASSUME IInv, Establish \/ Leave \/ Abort \/ Lose
    PROVE  IInv'
<1>1. UNCHANGED <<bucketVars, task, handler, streamVars, echoVars>>
    BY DEF Establish, Leave, Abort, Lose, OutsideLoop
<1>2. UNCHANGED <<charged, task, handler, chunks, fin, payload, reply>>
    BY <1>1 DEF bucketVars, streamVars, echoVars
<1>3. ConnectionTypeOK'
    BY <1>2 DEF ConnectionTypeOK, Establish, Leave, Abort, Lose, IInv
<1>4. Bucket'
    BY <1>1, BucketSame DEF IInv
<1>5. FreshBucket'
    BY <1>2 DEF FreshBucket, IInv
<1>6. EchoInv'
    BY <1>1, EchoStill DEF IInv
<1>. QED
    BY <1>3, <1>4, <1>5, <1>6 DEF IInv

\* A task moves and nothing else.
LEMMA TaskInv ==
    ASSUME IInv, NEW r \in Requests, NEW old, NEW new \in TaskState,
           Goto(r, old, new), old # "ended", new # "replying",
           new \in Early => old \in Early,
           UNCHANGED <<bucketVars, link, loop, handler, streamVars, echoVars>>
    PROVE  IInv'
<1>1. /\ task[r] = old /\ task'[r] = new
      /\ task' \in [Requests -> TaskState]
      /\ \A q \in Requests : q # r => task'[q] = task[q]
    BY Moved DEF IInv
<1>2. UNCHANGED <<charged, link, loop, handler, chunks, fin, payload, reply>>
    BY DEF bucketVars, streamVars, echoVars
<1>3. ConnectionTypeOK'
    BY <1>1, <1>2 DEF ConnectionTypeOK, IInv
<1>4. Bucket'
    BY BucketSame DEF IInv
<1>5. FreshBucket'
    BY <1>1, <1>2, QuicAssumption DEF FreshBucket, IInv
<1>6. EchoInv'
    <2>1. CASE r = Focus
        BY <1>1, <2>1, EchoSame DEF IInv
    <2>2. CASE r # Focus
        <3>1. task'[Focus] = task[Focus]
            BY <1>1, <2>2, QuicAssumption
        <3>2. Collected' /\ AtEnd'
            BY <1>2, <3>1 DEF EchoInv, Collected, AtEnd, IInv
        <3>3. Replied'
            BY <1>2, <3>1 DEF EchoInv, Replied, EchoWhole, Message, IInv
        <3>. QED
            BY <3>2, <3>3 DEF EchoInv
    <2>. QED
        BY <2>1, <2>2
<1>. QED
    BY <1>3, <1>4, <1>5, <1>6 DEF IInv

LEMMA RequestInv ==
    ASSUME IInv, NEW r \in Requests, Accept(r) \/ TaskStep(r)
    PROVE  IInv'
<1>1. CASE Accept(r)
    BY <1>1, TaskInv
       DEF Accept, OutsideLoop, Early, TaskState
<1>2. ASSUME NEW to \in {"plain", "answering", "ended"}, Resolve(r, to)
      PROVE  IInv'
    BY <1>2, TaskInv DEF Resolve, OutsideTask, Early, TaskState
<1>3. CASE Serve(r)
    <2>1. UNCHANGED <<bucketVars, link, loop, handler, streamVars, echoVars>>
        BY <1>3 DEF Serve, OutsideTask
    <2>2. CASE Goto(r, "plain", "ended")
        BY <2>1, <2>2, TaskInv DEF Early, TaskState
    <2>3. CASE Goto(r, "answering", "ended")
        BY <2>1, <2>3, TaskInv DEF Early, TaskState
    <2>. QED
        BY <1>3, <2>2, <2>3 DEF Serve
<1>. QED
    BY <1>1, <1>2, <1>3 DEF TaskStep

-----------------------------------------------------------------------------
(* The session                                                             *)

\* A call of the bucket in which no task moves.
LEMMA CallInv ==
    ASSUME IInv, Bucket', task[Focus] = "session" \/ UNCHANGED charged,
           UNCHANGED <<link, loop, task, handler, streamVars, echoVars>>
    PROVE  IInv'
<1>1. UNCHANGED <<link, loop, task, handler, chunks, fin, payload, reply>>
    BY DEF streamVars, echoVars
<1>2. ConnectionTypeOK'
    BY <1>1 DEF ConnectionTypeOK, IInv
<1>3. FreshBucket'
    BY <1>1 DEF FreshBucket, Early, IInv
<1>4. EchoInv'
    BY EchoStill DEF IInv
<1>. QED
    BY <1>2, <1>3, <1>4 DEF IInv

\* A call of the bucket with which the session's task moves, not to its answer.
LEMMA SessionMoveInv ==
    ASSUME IInv, Bucket', NEW old, NEW new \in TaskState,
           Goto(Focus, old, new), old # "ended", new # "replying",
           new \in Early => charged' = 0,
           UNCHANGED <<link, loop, handler, streamVars, echoVars>>
    PROVE  IInv'
<1>1. /\ task[Focus] = old /\ task'[Focus] = new
      /\ task' \in [Requests -> TaskState]
    BY Moved, QuicAssumption DEF IInv
<1>2. UNCHANGED <<link, loop, handler, chunks, fin, payload, reply>>
    BY DEF streamVars, echoVars
<1>3. ConnectionTypeOK'
    BY <1>1, <1>2 DEF ConnectionTypeOK, IInv
<1>4. FreshBucket'
    BY <1>1 DEF FreshBucket
<1>5. EchoInv'
    BY <1>1, EchoSame DEF IInv
<1>. QED
    BY <1>3, <1>4, <1>5 DEF IInv

LEMMA AnswerInv ==
    ASSUME IInv, Answer
    PROVE  IInv'
<1>1. /\ Goto(Focus, "answering", "opening") /\ NewStream
      /\ UNCHANGED <<now, reading, result, charged, calls, from>>
      /\ UNCHANGED <<link, loop, handler, streamVars, echoVars>>
    BY DEF Answer, OutsideTask
<1>2. charged = 0
    BY <1>1 DEF IInv, FreshBucket, Early, Goto
<1>3. Bucket'
    BY <1>1, <1>2, BucketNewStream DEF IInv
<1>. QED
    BY <1>1, <1>2, <1>3, SessionMoveInv DEF TaskState

LEMMA OpenInv ==
    ASSUME IInv, NEW accepted \in BOOLEAN, Open(accepted)
    PROVE  IInv'
<1>1. /\ Goto(Focus, "opening", "session") /\ TrySend(TRUE, accepted)
      /\ UNCHANGED <<link, loop, handler, streamVars, echoVars>>
    BY DEF Open, OutsideTask
<1>2. Bucket'
    BY <1>1, BucketTrySend DEF IInv
<1>. QED
    BY <1>1, <1>2, SessionMoveInv DEF TaskState, Early

\* The handler's read loop ends without an answer.
LEMMA EchoStopInv ==
    ASSUME IInv, EchoOver \/ EchoErr
    PROVE  IInv'
<1>1. /\ Goto(Focus, "session", "ended")
      /\ UNCHANGED <<link, loop, handler, streamVars, echoVars>>
    BY DEF EchoOver, EchoErr, OutsideTask
<1>2. Bucket'
    BY BucketRecvData, BucketRecvDataErr DEF IInv, EchoOver, EchoErr
<1>. QED
    BY <1>1, <1>2, SessionMoveInv DEF TaskState, Early

\* The next chunk is appended to the payload.
LEMMA EchoChunkInv ==
    ASSUME IInv, EchoChunk
    PROVE  IInv'
<1>1. /\ task[Focus] = "session" /\ Pending <= Len(chunks)
      /\ chunks[Pending] # "big" /\ payload' = Append(payload, Pending)
      /\ UNCHANGED <<link, loop, task, handler, chunks, fin, reply>>
    BY DEF EchoChunk, Echoing, OutsideTask, streamVars
<1>2. /\ payload \in Seq(1..MaxChunk) /\ chunks \in Seq(Kind) /\ Collected
      /\ Replied
    BY DEF IInv, ConnectionTypeOK, EchoInv
<1>3. /\ Len(payload) \in Nat /\ Len(chunks) \in Nat /\ MaxChunk \in Nat
      /\ Len(chunks) <= MaxChunk /\ Pending = Len(payload) + 1
    BY <1>2, QuicAssumption DEF Collected, Pending
<1>4. Pending \in 1..MaxChunk
    BY <1>1, <1>3
<1>. HIDE DEF Pending
<1>5. /\ payload' \in Seq(1..MaxChunk) /\ Len(payload') = Len(payload) + 1
      /\ \A i \in 1..Len(payload) : payload'[i] = payload[i]
      /\ payload'[Pending] = Pending
    BY <1>1, <1>2, <1>3, <1>4
<1>6. ConnectionTypeOK'
    BY <1>1, <1>5 DEF IInv, ConnectionTypeOK
<1>7. Bucket'
    BY BucketRecvData DEF IInv, EchoChunk
<1>8. FreshBucket' /\ AtEnd'
    BY <1>1 DEF FreshBucket, Early, AtEnd
<1>9. Collected'
    <2>1. ASSUME NEW i \in 1..Len(payload')
          PROVE  payload'[i] = i /\ chunks'[i] # "big"
        <3>1. CASE i = Pending
            BY <1>1, <1>5, <3>1
        <3>2. CASE i \in 1..Len(payload)
            BY <1>1, <1>2, <1>5, <3>2 DEF Collected
        <3>. QED
            BY <1>3, <1>5, <3>1, <3>2
    <2>. QED
        BY <1>1, <1>3, <1>5, <2>1 DEF Collected
<1>10. Replied'
    BY <1>1, <1>2 DEF Replied
<1>. QED
    BY <1>6, <1>7, <1>8, <1>9, <1>10 DEF IInv, EchoInv

\* The read loop ends with the stream.
LEMMA EchoEndInv ==
    ASSUME IInv, EchoEnd
    PROVE  IInv'
<1>1. /\ Goto(Focus, "session", "replying") /\ Pending > Len(chunks) /\ fin
      /\ UNCHANGED <<link, loop, handler, chunks, fin, payload, reply>>
    BY DEF EchoEnd, OutsideTask, streamVars, echoVars
<1>2. /\ task[Focus] = "session" /\ task'[Focus] = "replying"
      /\ task' \in [Requests -> TaskState]
    BY <1>1, Moved, QuicAssumption DEF IInv, TaskState
<1>3. ConnectionTypeOK'
    BY <1>1, <1>2 DEF IInv, ConnectionTypeOK
<1>4. Bucket'
    BY BucketRecvData DEF IInv, EchoEnd
<1>5. FreshBucket'
    BY <1>2 DEF FreshBucket, Early
<1>6. Collected'
    BY <1>1 DEF IInv, EchoInv, Collected
<1>7. Len(payload) = Len(chunks)
    <2>1. /\ Len(payload) \in Nat /\ Len(chunks) \in Nat
        BY DEF IInv, ConnectionTypeOK
    <2>. QED
        BY <1>1, <2>1 DEF IInv, EchoInv, Collected, Pending
<1>8. AtEnd'
    BY <1>1, <1>7 DEF AtEnd
<1>9. Replied'
    BY <1>1, <1>2 DEF IInv, EchoInv, Replied
<1>. QED
    BY <1>3, <1>4, <1>5, <1>6, <1>8, <1>9 DEF IInv, EchoInv

\* The answer.
LEMMA ReplyInv ==
    ASSUME IInv, NEW delivered \in BOOLEAN, Reply(delivered)
    PROVE  IInv'
<1>1. /\ Goto(Focus, "replying", "ended")
      /\ reply' = IF delivered THEN <<Message(payload)>> ELSE reply
      /\ UNCHANGED <<bucketVars, link, loop, handler, chunks, fin, payload>>
    BY DEF Reply, OutsideTask, streamVars
<1>2. /\ task[Focus] = "replying" /\ task'[Focus] = "ended"
      /\ task' \in [Requests -> TaskState]
    BY <1>1, Moved, QuicAssumption DEF IInv, TaskState
<1>3. /\ payload \in Seq(1..MaxChunk) /\ chunks \in Seq(Kind)
      /\ reply \in Seq(Seq(0..MaxChunk)) /\ MaxChunk \in Nat
    BY QuicAssumption DEF IInv, ConnectionTypeOK
<1>4. fin /\ Len(payload) = Len(chunks) /\ Collected
    BY <1>2 DEF IInv, EchoInv, AtEnd
<1>5. Message(payload) \in Seq(0..MaxChunk)
    <2>1. payload \in Seq(0..MaxChunk)
        BY <1>3
    <2>2. <<0>> \in Seq(0..MaxChunk)
        BY <1>3
    <2>. QED
        BY <2>1, <2>2 DEF Message
<1>6. reply' \in Seq(Seq(0..MaxChunk))
    <2>. DEFINE m == Message(payload)
                S == Seq(0..MaxChunk)
    <2>1. m \in S /\ reply \in Seq(S)
        BY <1>3, <1>5
    <2>. HIDE DEF m, S
    <2>2. <<m>> \in Seq(S)
        BY <2>1
    <2>3. reply' \in Seq(S)
        BY <1>1, <2>1, <2>2 DEF m
    <2>. QED
        BY <2>3 DEF S
<1>7. ConnectionTypeOK'
    BY <1>1, <1>2, <1>6 DEF IInv, ConnectionTypeOK
<1>8. Bucket'
    BY <1>1, BucketSame DEF IInv
<1>9. FreshBucket' /\ AtEnd' /\ Collected'
    BY <1>1, <1>2, <1>4 DEF FreshBucket, Early, AtEnd, Collected
<1>10. payload = [i \in DOMAIN chunks |-> i]
    BY <1>3, <1>4 DEF Collected
<1>11. \A i \in DOMAIN chunks : chunks[i] # "big"
    BY <1>3, <1>4 DEF Collected
<1>12. CASE delivered
    <2>1. reply'[1] = Message(payload)
        BY <1>1, <1>12
    <2>2. reply'[1] = Message([i \in DOMAIN chunks |-> i])
        BY <1>10, <2>1
    <2>3. EchoWhole'
        BY <1>1, <1>4, <1>11, <2>2 DEF EchoWhole, Message
    <2>. QED
        BY <1>2, <1>7, <1>8, <1>9, <2>3 DEF IInv, EchoInv, Replied
<1>13. CASE ~delivered
    <2>1. reply' = <<>>
        BY <1>1, <1>2, <1>13 DEF IInv, EchoInv, Replied
    <2>. QED
        BY <1>7, <1>8, <1>9, <2>1 DEF IInv, EchoInv, Replied
<1>. QED
    BY <1>12, <1>13

LEMMA UserInv ==
    ASSUME IInv,
           UserCall \/ (\E how \in {"closed", "failed"} : UserCut(how)) \/ Pass
    PROVE  IInv'
<1>1. CASE UserCall
    <2>1. Bucket'
        BY <1>1, BucketTrySend, BucketRecvData, BucketRecvDataErr,
           BucketRecvBegin, BucketRecvDatagram
           DEF IInv, UserCall
    <2>. QED
        BY <1>1, <2>1, CallInv DEF UserCall, OutsideTask
<1>2. ASSUME NEW how \in {"closed", "failed"}, UserCut(how)
      PROVE  IInv'
    <2>1. Bucket'
        BY <1>2, BucketRecvClosed DEF IInv, UserCut
    <2>2. UNCHANGED charged
        BY <1>2 DEF UserCut, RecvClosed
    <2>. QED
        BY <1>2, <2>1, <2>2, CallInv DEF UserCut, OutsideTask
<1>3. CASE Pass
    <2>1. Bucket'
        BY <1>3, BucketClock DEF IInv, Pass
    <2>. QED
        BY <1>3, <2>1, CallInv DEF Pass
<1>. QED
    BY <1>1, <1>2, <1>3

\* The client goes on with its stream while the handler reads it.
LEMMA StreamInv ==
    ASSUME IInv, SendFin \/ \E kind \in Kind : SendChunk(kind)
    PROVE  IInv'
<1>1. /\ task[Focus] = "session"
      /\ UNCHANGED <<bucketVars, link, loop, task, handler, payload, reply>>
    BY DEF SendFin, SendChunk, Streaming, echoVars
<1>2. Bucket'
    BY <1>1, BucketSame DEF IInv
<1>3. FreshBucket' /\ AtEnd'
    BY <1>1 DEF FreshBucket, Early, AtEnd
<1>4. Replied'
    BY <1>1 DEF IInv, EchoInv, Replied
<1>5. CASE SendFin
    <2>1. fin' = TRUE /\ chunks' = chunks
        BY <1>5 DEF SendFin
    <2>2. ConnectionTypeOK'
        BY <1>1, <2>1 DEF IInv, ConnectionTypeOK
    <2>3. Collected'
        BY <1>1, <2>1 DEF IInv, EchoInv, Collected
    <2>. QED
        BY <1>2, <1>3, <1>4, <2>2, <2>3 DEF IInv, EchoInv
<1>6. ASSUME NEW kind \in Kind, SendChunk(kind)
      PROVE  IInv'
    <2>1. /\ chunks' = Append(chunks, kind) /\ fin' = fin
          /\ Len(chunks) < MaxChunk
        BY <1>6 DEF SendChunk
    <2>2. /\ chunks \in Seq(Kind) /\ payload \in Seq(1..MaxChunk)
          /\ Collected /\ MaxChunk \in Nat
        BY QuicAssumption DEF IInv, ConnectionTypeOK, EchoInv
    <2>3. /\ chunks' \in Seq(Kind) /\ Len(chunks') = Len(chunks) + 1
          /\ Len(chunks) \in Nat /\ Len(payload) \in Nat
          /\ \A i \in 1..Len(chunks) : chunks'[i] = chunks[i]
        BY <2>1, <2>2
    <2>4. ConnectionTypeOK'
        BY <1>1, <2>1, <2>3 DEF IInv, ConnectionTypeOK
    <2>5. Collected'
        BY <1>1, <2>1, <2>2, <2>3 DEF Collected
    <2>. QED
        BY <1>2, <1>3, <1>4, <2>4, <2>5 DEF IInv, EchoInv
<1>. QED
    BY <1>5, <1>6

-----------------------------------------------------------------------------
(* Theorems                                                                *)

LEMMA InitInv == Init => IInv
<1>. SUFFICES ASSUME Init PROVE IInv
    OBVIOUS
<1>1. /\ Rate \in Nat /\ Second \in Nat /\ MaxTime \in Nat /\ MaxCall \in Nat
      /\ MaxChunk \in Nat
    BY DatagramAssumption, QuicAssumption
<1>2. BucketTypeOK
    <2>1. /\ now \in Time /\ last_refill \in 0..now /\ from \in 0..now
          /\ tokens \in 0..Rate /\ charged \in Nat /\ calls \in 0..MaxCall
        BY <1>1 DEF Init, BucketInit, Time
    <2>2. reading \in BOOLEAN /\ result \in Result
        BY DEF Init, BucketInit, Result
    <2>. QED
        BY <2>1, <2>2 DEF BucketTypeOK
<1>3. BeforeRefill /\ FreshBucket
    BY DEF Init, BucketInit, BeforeRefill, FreshBucket
<1>4. Rate * Second <= (Rate + 1) * Second + Rate * 0
    <2>1. /\ Rate + 1 \in Nat /\ Rate <= Rate + 1
        BY <1>1
    <2>2. Rate * Second <= (Rate + 1) * Second /\ (Rate + 1) * Second \in Nat
        BY <1>1, <2>1, Products
    <2>. QED
        BY <1>1, <2>2
<1>5. AfterRefill
    BY <1>1, <1>4 DEF Init, BucketInit, AfterRefill
<1>6. <<>> \in Seq(Kind) /\ <<>> \in Seq(1..MaxChunk)
    OBVIOUS
<1>7. <<>> \in Seq(Seq(0..MaxChunk))
    OBVIOUS
<1>8. task \in [Requests -> TaskState]
    BY DEF Init, TaskState
<1>9. ConnectionTypeOK
    BY <1>6, <1>7, <1>8 DEF Init, ConnectionTypeOK
<1>10. task[Focus] = "none"
    BY QuicAssumption DEF Init
<1>11. EchoInv
    BY <1>1, <1>10 DEF Init, EchoInv, Collected, AtEnd, Replied
<1>. QED
    BY <1>2, <1>3, <1>5, <1>9, <1>11 DEF IInv, Bucket

LEMMA NextInv == IInv /\ [Next]_vars => IInv'
<1>. SUFFICES ASSUME IInv, [Next]_vars PROVE IInv'
    OBVIOUS
<1>1. CASE LoopStep \/ Abort \/ Lose
    BY <1>1, LoopInv DEF LoopStep
<1>2. ASSUME NEW r \in Requests, Accept(r) \/ TaskStep(r)
      PROVE  IInv'
    BY <1>2, RequestInv
<1>3. CASE FocusStep
    <2>1. CASE AnswerErr \/ UserReturn
        BY <2>1, TaskInv, QuicAssumption
           DEF AnswerErr, UserReturn, OutsideTask, TaskState, Early
    <2>. QED
        BY <1>3, <2>1, AnswerInv, OpenInv, EchoChunkInv, EchoStopInv,
           EchoEndInv, ReplyInv, UserInv
           DEF FocusStep, OpenStep, EchoStep, CutStep
<1>4. CASE UserCall \/ Pass
    BY <1>4, UserInv
<1>5. CASE SendFin \/ \E kind \in Kind : SendChunk(kind)
    BY <1>5, StreamInv
<1>6. CASE UNCHANGED vars
    <2>1. UNCHANGED <<bucketVars, link, loop, task, handler, streamVars,
                      echoVars>>
        BY <1>6 DEF vars
    <2>2. Bucket' /\ UNCHANGED charged
        BY <2>1, BucketSame DEF IInv, bucketVars
    <2>. QED
        BY <2>1, <2>2, CallInv
<1>. QED
    BY <1>1, <1>2, <1>3, <1>4, <1>5, <1>6 DEF Next

\* The inductive invariant: the balance of the bucket in the observed window,
\* and what EchoHandler has collected from its stream.
THEOREM QuicInvariant == Spec => []IInv
<1>. QED
    BY InitInv, NextInv, PTL DEF Spec

\* Every reachable state is well typed; in particular the bucket never holds
\* more than datagram_per_sec tokens, whatever refill() adds.
THEOREM QuicTyped == Spec => []TypeOK
<1>1. IInv => TypeOK
    BY DEF IInv, ConnectionTypeOK, Bucket, TypeOK
<1>. QED
    BY <1>1, QuicInvariant, PTL

\* For every rate and clock, in any window of time the shared bucket of
\* try_send_datagram, recv_datagram and recv_data lets no more datagrams pass
\* than one full bucket, the rate times the window, and one receive that was
\* waiting when the window began.
THEOREM RateTheorem == Spec => []WithinRate
<1>1. IInv => WithinRate
    BY BucketWithinRate DEF IInv
<1>. QED
    BY <1>1, QuicInvariant, PTL

\* EchoHandler::handle answers with everything the client sent on the session's
\* stream, in order, or does not answer.
THEOREM EchoTheorem == Spec => []EchoWhole
<1>1. IInv => EchoWhole
    BY DEF IInv, EchoInv, Replied, EchoWhole
<1>. QED
    BY <1>1, QuicInvariant, PTL

=============================================================================
