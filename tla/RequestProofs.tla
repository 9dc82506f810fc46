---------------------------- MODULE RequestProofs -----------------------------
(***************************************************************************)
(* What a request meets before and in its handler: theorems about          *)
(* RateLimit, for every set of requests, capacity, rate and clock bound,   *)
(* about RequestBody, for every body, limit, number of calls and of        *)
(* uploaded files, and about RouteTree, for every set of patterns, paths   *)
(* and methods and any number of registrations.                            *)
(***************************************************************************)
EXTENDS RateLimit, RequestBody, RouteTree, SequenceTheorems,
        WellFoundedInduction, TLAPS

-----------------------------------------------------------------------------
(* RateLimiter: the bucket and its arithmetic                              *)

\* (x + y - 1) div y seconds of y units each are at least x units: the
\* rounding of retry_after_secs never promises too early a time.
LEMMA CeilCovers ==
    ASSUME NEW x \in Nat, NEW y \in Nat \ {0}
    PROVE  Ceil(x, y) \in Nat /\ Ceil(x, y) * y >= x
<1> DEFINE n == x + y - 1
<1> DEFINE q == n \div y
<1>1. n \in Nat /\ q \in Nat
  OBVIOUS
<1>2. q * y \in Nat
  BY <1>1
<1>3. q * y > n - y
  BY <1>1
<1>4. q * y >= x
  BY <1>2, <1>3
<1> QED
  BY <1>1, <1>4 DEF Ceil

\* The bucket after a refill: never more than its capacity.
LEMMA RefilledType ==
    ASSUME LimiterTypeOK
    PROVE  /\ Refilled \in 0..Full
           /\ Full \in Nat /\ Full >= Unit
           /\ Refilled <= tokens + (now - last_refill)
           /\ Refilled = Full \/ Refilled = tokens + (now - last_refill)
<1>1. Full \in Nat /\ Full >= Unit
  BY RateLimitAssumption DEF Full
<1>2. now \in Nat /\ last_refill \in Nat /\ last_refill <= now
  BY RateLimitAssumption DEF LimiterTypeOK
<1>3. tokens \in Nat /\ tokens <= Full
  BY <1>1 DEF LimiterTypeOK
<1> QED
  BY <1>1, <1>2, <1>3 DEF Refilled, Lesser

\* The Retry-After header is a whole number of seconds that covers the
\* missing part of a token.
LEMMA RetryAfterCovers ==
    ASSUME LimiterTypeOK
    PROVE  /\ RetryAfterSecs * Second \in Nat
           /\ tokens + RetryAfterSecs * Second >= Unit
<1>1. Second \in Nat \ {0} /\ Unit \in Nat /\ tokens \in Nat
  BY RateLimitAssumption DEF LimiterTypeOK, Full
<1>2. CASE tokens >= Unit
  <2>1. RetryAfterSecs = 1
    BY <1>1, <1>2 DEF RetryAfterSecs
  <2> QED
    BY <1>1, <1>2, <2>1
<1>3. CASE ~(tokens >= Unit)
  <2> DEFINE x == Unit - tokens
  <2> DEFINE s == Ceil(x, Second)
  <2>1. x \in Nat /\ x > 0
    BY <1>1, <1>3
  <2>2. s \in Nat /\ s * Second >= x
    BY <1>1, <2>1, CeilCovers
  <2>3. s # 0
    BY <1>1, <2>1, <2>2
  <2>4. RetryAfterSecs = s
    BY <1>3, <2>3 DEF RetryAfterSecs
  <2>5. s * Second \in Nat
    BY <1>1, <2>2
  <2> HIDE DEF s
  <2> QED
    BY <1>1, <2>1, <2>2, <2>4, <2>5
<1> QED
  BY <1>2, <1>3

-----------------------------------------------------------------------------
(* RateLimiter: type correctness                                           *)

LEMMA LimiterTypeInit == LimiterInit => LimiterTypeOK
<1> SUFFICES ASSUME LimiterInit PROVE LimiterTypeOK
  OBVIOUS
<1>1. Full \in Nat
  BY RateLimitAssumption DEF Full
<1> QED
  BY <1>1, RateLimitAssumption DEF LimiterInit, LimiterTypeOK

LEMMA LimiterTypeNext ==
    LimiterTypeOK /\ [LimiterNext]_limiterVars => LimiterTypeOK'
<1> SUFFICES ASSUME LimiterTypeOK, [LimiterNext]_limiterVars
             PROVE  LimiterTypeOK'
  OBVIOUS
<1> USE RateLimitAssumption
<1>1. ASSUME NEW r \in Req, TryAcquire(r) PROVE LimiterTypeOK'
  <2>1. Refilled \in 0..Full /\ Full \in Nat /\ Full >= Unit
    BY RefilledType
  <2>2. tokens' \in 0..Full
    BY <1>1, <2>1 DEF TryAcquire
  <2>3. last_refill' \in 0..now'
    BY <1>1 DEF TryAcquire, LimiterTypeOK
  <2>4. admitted' \in Nat /\ before' \in 0..admitted'
    BY <1>1 DEF TryAcquire, LimiterTypeOK
  <2>5. req' \in [Req -> {"new", "rejected", "answered", "admitted"}]
    BY <1>1 DEF TryAcquire, LimiterTypeOK
  <2>6. quiet' \in [Req -> BOOLEAN]
    BY <1>1 DEF TryAcquire, LimiterTypeOK
  <2> QED
    BY <1>1, <2>2, <2>3, <2>4, <2>5, <2>6 DEF TryAcquire, LimiterTypeOK, Full
<1>2. ASSUME NEW r \in Req, TooManyRequests(r) PROVE LimiterTypeOK'
  <2> DEFINE wait == RetryAfterSecs * Second
  <2>1. wait \in Nat
    BY RetryAfterCovers
  <2> HIDE DEF wait
  <2>2. promise' = [promise EXCEPT ![r] = now + wait]
    BY <1>2 DEF TooManyRequests, wait
  <2>3. promise' \in [Req -> Nat]
    BY <2>1, <2>2 DEF LimiterTypeOK
  <2> QED
    BY <1>2, <2>3 DEF TooManyRequests, LimiterTypeOK, Full
<1>3. CASE Tick
  BY <1>3 DEF Tick, LimiterTypeOK, Full
<1>4. CASE Observe
  BY <1>4 DEF Observe, LimiterTypeOK, Full
<1>5. CASE UNCHANGED limiterVars
  BY <1>5 DEF limiterVars, LimiterTypeOK, Full
<1> QED
  BY <1>1, <1>2, <1>3, <1>4, <1>5 DEF LimiterNext

\* The bucket never holds a negative number of tokens nor more than its
\* capacity, and the clock of its last refill never runs ahead.
THEOREM LimiterTyped == LimiterSpec => []LimiterTypeOK
<1>1. LimiterInit => LimiterTypeOK
  BY LimiterTypeInit
<1>2. LimiterTypeOK /\ [LimiterNext]_limiterVars => LimiterTypeOK'
  BY LimiterTypeNext
<1> QED
  BY <1>1, <1>2, PTL DEF LimiterSpec

-----------------------------------------------------------------------------
(* RateLimiter: the rate                                                   *)

LEMMA WindowNext ==
    LimiterTypeOK /\ WindowBound /\ [LimiterNext]_limiterVars => WindowBound'
<1> SUFFICES ASSUME LimiterTypeOK, WindowBound, [LimiterNext]_limiterVars
             PROVE  WindowBound'
  OBVIOUS
<1> USE RateLimitAssumption
<1>0. LimiterTypeOK'
  BY LimiterTypeNext
<1>1. /\ Refilled \in 0..Full /\ Full \in Nat /\ Full >= Unit
      /\ Refilled = Full \/ Refilled = tokens + (now - last_refill)
      /\ tokens + (now - last_refill) >= Refilled
  BY RefilledType DEF LimiterTypeOK
<1>2. now \in Nat /\ from \in Nat /\ last_refill \in Nat /\ tokens \in Nat
      /\ admitted \in Nat /\ before \in Nat /\ from <= now
      /\ last_refill <= now /\ tokens <= Full
  BY <1>1 DEF LimiterTypeOK
<1>3. ASSUME NEW r \in Req, TryAcquire(r) PROVE WindowBound'
  <2> DEFINE spent == (admitted - before) * Unit
  <2>1. spent \in Int /\ spent + Refilled <= Full + (now - from)
    BY <1>2 DEF WindowBound
  <2>2. tokens' \in Nat /\ tokens' <= Full /\ last_refill' = now /\ now' = now
        /\ from' = from /\ before' = before
    BY <1>0, <1>1, <1>3 DEF TryAcquire, LimiterTypeOK, Full
  <2>3. Refilled' = tokens'
    <3>0. now' - last_refill' = 0
      BY <1>2, <2>2
    <3>1. tokens' + (now' - last_refill') = tokens'
      BY <2>2, <3>0
    <3>2. Refilled' = Lesser(tokens', Full)
      BY <3>1 DEF Refilled, Full
    <3> QED
      BY <2>2, <3>2 DEF Lesser
  <2>4. CASE Refilled >= Unit /\ tokens' = Refilled - Unit
             /\ admitted' = admitted + 1
    <3>1. (admitted' - before') * Unit = spent + Unit
      BY <1>2, <2>2, <2>4
    <3> HIDE DEF spent
    <3> QED
      BY <1>1, <1>2, <2>1, <2>2, <2>3, <2>4, <3>1 DEF WindowBound, Full
  <2>5. CASE tokens' = Refilled /\ admitted' = admitted
    <3> QED
      BY <1>1, <1>2, <2>1, <2>2, <2>3, <2>5 DEF WindowBound, Full
  <2> QED
    BY <1>3, <2>4, <2>5 DEF TryAcquire
<1>4. ASSUME NEW r \in Req, TooManyRequests(r) PROVE WindowBound'
  BY <1>4 DEF TooManyRequests, WindowBound, Refilled, Full
<1>5. CASE Tick
  <2> DEFINE spent == (admitted - before) * Unit
  <2>1. spent \in Int /\ spent + Refilled <= Full + (now - from)
    BY <1>2 DEF WindowBound
  <2>2. now' = now + 1 /\ Refilled' <= Refilled + 1 /\ Refilled' \in Int
    BY <1>1, <1>2, <1>5 DEF Tick, Refilled, Lesser, Full
  <2>3. (admitted' - before') * Unit = spent /\ from' = from
    BY <1>5 DEF Tick
  <2> HIDE DEF spent
  <2> QED
    BY <1>1, <1>2, <2>1, <2>2, <2>3 DEF WindowBound, Full
<1>6. CASE Observe
  <2>1. Refilled' = Refilled /\ now' = now /\ from' = now
    BY <1>6 DEF Observe, Refilled, Full
  <2>2. (admitted' - before') * Unit = 0
    BY <1>2, <1>6 DEF Observe
  <2> QED
    BY <1>1, <1>2, <2>1, <2>2 DEF WindowBound, Full
<1>7. CASE UNCHANGED limiterVars
  BY <1>7 DEF limiterVars, WindowBound, Refilled, Full
<1> QED
  BY <1>3, <1>4, <1>5, <1>6, <1>7 DEF LimiterNext

LEMMA WindowInit == LimiterInit => WindowBound
<1> SUFFICES ASSUME LimiterInit PROVE WindowBound
  OBVIOUS
<1>1. Full \in Nat
  BY RateLimitAssumption DEF Full
<1>2. (admitted - before) * Unit = 0
  BY RateLimitAssumption DEF LimiterInit
<1>3. Refilled = Full /\ now = 0 /\ from = 0
  BY <1>1 DEF LimiterInit, Refilled, Lesser
<1> QED
  BY <1>1, <1>2, <1>3 DEF WindowBound

\* Over any stretch of time try_acquire admits at most the capacity plus what
\* the rate yields for its length.
THEOREM RateHolds == LimiterSpec => []WindowBound
<1>1. LimiterInit => LimiterTypeOK /\ WindowBound
  BY LimiterTypeInit, WindowInit
<1>2. LimiterTypeOK /\ WindowBound /\ [LimiterNext]_limiterVars
        => LimiterTypeOK' /\ WindowBound'
  BY LimiterTypeNext, WindowNext
<1> QED
  BY <1>1, <1>2, PTL DEF LimiterSpec

-----------------------------------------------------------------------------
(* RateLimiter: Retry-After                                                *)

\* By the promised time the bucket, if left alone, holds a token: what is in
\* it and what accrues from its last refill to the promised time.
PromiseCovered ==
    \A r \in Req :
        req[r] = "answered" /\ quiet[r] =>
            tokens + (promise[r] - last_refill) >= Unit

LEMMA PromiseNext ==
    LimiterTypeOK /\ PromiseCovered /\ [LimiterNext]_limiterVars
        => PromiseCovered'
<1> SUFFICES ASSUME LimiterTypeOK, PromiseCovered, [LimiterNext]_limiterVars,
                    NEW q \in Req, req'[q] = "answered", quiet'[q]
             PROVE  tokens' + (promise'[q] - last_refill') >= Unit
  BY DEF PromiseCovered
<1> USE RateLimitAssumption
<1>1. now \in Nat /\ last_refill \in Nat /\ tokens \in Nat
      /\ last_refill <= now /\ promise[q] \in Nat
  BY RefilledType DEF LimiterTypeOK
<1>2. ASSUME NEW r \in Req, TryAcquire(r)
      PROVE  tokens' + (promise'[q] - last_refill') >= Unit
  <2>1. CASE quiet' = [p \in Req |-> FALSE]
    BY <2>1
  <2>2. CASE /\ Refilled < Unit /\ tokens' = Refilled /\ quiet' = quiet
             /\ req' = [req EXCEPT ![r] = "rejected"]
    <3>1. q # r /\ req[q] = "answered" /\ quiet[q]
      BY <2>2 DEF LimiterTypeOK
    <3>2. tokens + (promise[q] - last_refill) >= Unit
      BY <3>1 DEF PromiseCovered
    <3>3. Refilled = tokens + (now - last_refill)
      BY <2>2, RefilledType
    <3>4. last_refill' = now /\ promise' = promise
      BY <1>2 DEF TryAcquire
    <3> QED
      BY <1>1, <2>2, <3>2, <3>3, <3>4
  <2> QED
    BY <1>2, <2>1, <2>2 DEF TryAcquire
<1>3. ASSUME NEW r \in Req, TooManyRequests(r)
      PROVE  tokens' + (promise'[q] - last_refill') >= Unit
  <2> DEFINE wait == RetryAfterSecs * Second
  <2>1. wait \in Nat /\ tokens + wait >= Unit
    BY RetryAfterCovers
  <2>2. promise' = [promise EXCEPT ![r] = now + wait]
        /\ tokens' = tokens /\ last_refill' = last_refill
    BY <1>3 DEF TooManyRequests
  <2> HIDE DEF wait
  <2>3. CASE q = r
    <3>1. promise'[q] = now + wait
      BY <2>2, <2>3 DEF LimiterTypeOK
    <3> QED
      BY <1>1, <2>1, <2>2, <3>1
  <2>4. CASE q # r
    <3>1. req[q] = "answered" /\ quiet[q] /\ promise'[q] = promise[q]
      BY <1>3, <2>2, <2>4 DEF TooManyRequests, LimiterTypeOK
    <3> QED
      BY <2>2, <3>1 DEF PromiseCovered
  <2> QED
    BY <2>3, <2>4
<1>4. CASE Tick
  BY <1>4 DEF Tick, PromiseCovered
<1>5. CASE Observe
  BY <1>5 DEF Observe, PromiseCovered
<1>6. CASE UNCHANGED limiterVars
  BY <1>6 DEF limiterVars, PromiseCovered
<1> QED
  BY <1>2, <1>3, <1>4, <1>5, <1>6 DEF LimiterNext

LEMMA PromiseSuffices == LimiterTypeOK /\ PromiseCovered => RetryAfterHonest
<1> SUFFICES ASSUME LimiterTypeOK, PromiseCovered, NEW r \in Req,
                    req[r] = "answered", quiet[r], now >= promise[r]
             PROVE  Refilled >= Unit
  BY DEF RetryAfterHonest
<1>1. now \in Nat /\ last_refill \in Nat /\ tokens \in Nat
      /\ promise[r] \in Nat /\ Unit \in Nat
  BY RateLimitAssumption, RefilledType DEF LimiterTypeOK
<1>2. tokens + (promise[r] - last_refill) >= Unit
  BY DEF PromiseCovered
<1>3. tokens + (now - last_refill) >= Unit
  BY <1>1, <1>2
<1> QED
  BY <1>1, <1>3, RefilledType

\* A client that comes back when Retry-After says so finds a token, unless
\* another request took it.
THEOREM RetryAfterKept == LimiterSpec => []RetryAfterHonest
<1>1. LimiterInit => LimiterTypeOK /\ PromiseCovered
  BY LimiterTypeInit DEF LimiterInit, PromiseCovered
<1>2. LimiterTypeOK /\ PromiseCovered /\ [LimiterNext]_limiterVars
        => LimiterTypeOK' /\ PromiseCovered'
  BY LimiterTypeNext, PromiseNext
<1> QED
  BY <1>1, <1>2, PromiseSuffices, PTL DEF LimiterSpec

-----------------------------------------------------------------------------
(* The body of a request                                                   *)

\* The client sends one chunk behind the other.
Gapless(chunks) ==
    \A i \in DOMAIN chunks :
        /\ chunks[i].from = IF i = 1 THEN 0 ELSE chunks[i - 1].to
        /\ chunks[i].from <= chunks[i].to

\* What is not read yet is the end of what was sent, what a reader was given
\* its beginning.
WireOK ==
    /\ Gapless(sent)
    /\ Len(wire) <= Len(sent)
    /\ \A i \in DOMAIN wire : wire[i] = sent[Len(sent) - Len(wire) + i]
    /\ Len(got) <= Len(sent) - Len(wire)
    /\ \A i \in DOMAIN got : got[i] = sent[i]

\* A chunk was read and refused.
Refused == Len(got) + Len(wire) # Len(sent)

\* The body is in the request or with one reader.  LimitedIncoming has counted
\* exactly what it let pass, until it refuses a chunk: then its count is over
\* the limit for good, and a call that takes the body after that gets nothing.
ReaderOK ==
    /\ variant # "Empty" => reader = "none" /\ cut = {} /\ creating = {}
    /\ reader = "none" <=> taken = "Empty"
    /\ variant = "Limited" \/ taken = "Limited" =>
          /\ EndOf(got) <= Limit
          /\ IF Refused THEN seen > Limit ELSE seen = EndOf(got)
    /\ variant = "Once" \/ taken = "Once" => ~Refused
    /\ start <= Len(got)
    /\ reader \in Parser => ctype = reader /\ (Refused => start = Len(got))
    /\ handler = "gone" => reader = "none"

\* What the OnceCells keep, and which calls they answer.
CacheOK ==
    /\ \A k \in Parser : \A kept \in cache[k] : ctype = "bare" \/ Entire(k, kept)
    /\ variant # "Empty" \/ reader # "none" =>
          /\ whole = {}
          /\ ctype # "bare" => \A k \in Parser : cache[k] = {}
    /\ \A k \in whole : cache[k] # {} /\ wellFormed /\ ctype = k

\* A directory belongs to a file being written, to a FilePart, to a thread that
\* will remove it, or to the one file that was interrupted.
FilesOK ==
    /\ dirs = parts \cup creating \cup dying \cup cut
    /\ creating \cap (parts \cup dying \cup cut) = {}
    /\ dying \cap (parts \cup cut) = {} /\ parts \cap cut = {}
    /\ \A f, g \in creating : f = g
    /\ creating # {} => reader = "multipart"
    /\ reader # "none" => cut = {}
    /\ OneCut
    /\ handler = "gone" => parts = {} /\ creating = {}

BInv == TypeOK /\ WireOK /\ ReaderOK /\ CacheOK /\ FilesOK /\ KeptParse

\* A sequence of chunks ends at some byte.
LEMMA EndOfType ==
    ASSUME NEW chunks \in Seq(Chunk)
    PROVE  EndOf(chunks) \in Nat
<1>1. CASE chunks = <<>>
  BY <1>1 DEF EndOf
<1>2. CASE chunks # <<>>
  <2>1. chunks[Len(chunks)] \in Chunk
    BY <1>2
  <2>2. chunks[Len(chunks)].to \in Nat
    BY <2>1 DEF Chunk
  <2> QED
    BY <1>2, <2>2 DEF EndOf
<1> QED
  BY <1>1, <1>2

\* Sequences that agree up to n have the same chunks up to n.
LEMMA SameChunks ==
    ASSUME NEW s \in Seq(Chunk), NEW t \in Seq(Chunk), NEW m \in Nat,
           NEW n \in Nat, n <= Len(s), n <= Len(t),
           \A i \in 1..n : s[i] = t[i]
    PROVE  SubSeq(s, m + 1, n) = SubSeq(t, m + 1, n)
<1>1. \A i \in 1..(n - m) : i + m \in 1..n
  OBVIOUS
<1> QED
  BY <1>1

\* The chunks behind the first m.
LEMMA RestOfChunks ==
    ASSUME NEW s \in Seq(Chunk), NEW m \in Nat, m <= Len(s)
    PROVE  /\ SubSeq(s, m + 1, Len(s)) \in Seq(Chunk)
           /\ DOMAIN SubSeq(s, m + 1, Len(s)) = 1..(Len(s) - m)
<1>1. \A i \in (m + 1)..Len(s) : s[i] \in Chunk
  OBVIOUS
<1>2. m + 1 \in Int /\ Len(s) \in Int
  OBVIOUS
<1>3. SubSeq(s, m + 1, Len(s)) \in Seq(Chunk)
  BY <1>1, <1>2
<1>4. DOMAIN SubSeq(s, m + 1, Len(s)) = 1..(Len(s) - m)
  BY <1>2
<1> QED
  BY <1>3, <1>4

LEMMA BodyInit == Init => BInv
<1> SUFFICES ASSUME Init PROVE BInv
  OBVIOUS
<1> USE RequestBodyAssumption
<1>1. <<>> \in Seq(Chunk)
  OBVIOUS
<1>2. sent \in Seq(Chunk) /\ wire = sent /\ Gapless(sent)
  <2>1. CASE sent = <<>> /\ wire = <<>>
    BY <1>1, <2>1 DEF Gapless
  <2>2. ASSUME NEW n \in ChunkLens, sent = <<[from |-> 0, to |-> n]>>,
               wire = sent
        PROVE  sent \in Seq(Chunk) /\ wire = sent /\ Gapless(sent)
    <3>1. [from |-> 0, to |-> n] \in Chunk
      BY DEF Chunk
    <3> QED
      BY <2>2, <3>1 DEF Gapless
  <2> QED
    BY <2>1, <2>2 DEF Init
<1>3. TypeOK
  <2>1. cache \in [Parser -> SUBSET Seq(Chunk)]
    BY DEF Init
  <2>2. closing \in 0..MaxChunks /\ start \in Nat
    BY DEF Init
  <2> QED
    BY <1>1, <1>2, <2>1, <2>2 DEF Init, TypeOK
<1>4. WireOK
  BY <1>2 DEF Init, WireOK
<1>5. ReaderOK
  <2>1. ~Refused /\ EndOf(got) = 0 /\ Len(got) = 0
    BY <1>2 DEF Init, Refused, EndOf
  <2> QED
    BY <1>2, <2>1 DEF Init, ReaderOK, Parser
<1>6. CacheOK /\ FilesOK /\ KeptParse
  BY DEF Init, CacheOK, FilesOK, OneCut, KeptParse
<1> QED
  BY <1>3, <1>4, <1>5, <1>6 DEF BInv

\* What the client does next is behind everything it sent so far.
LEMMA ClientSendOK ==
    ASSUME BInv, NEW n \in ChunkLens, ClientSend(n)
    PROVE  BInv'
<1> USE RequestBodyAssumption
<1> DEFINE chunk == [from |-> EndOf(sent), to |-> EndOf(sent) + n]
<1>0. sent \in Seq(Chunk) /\ wire \in Seq(Chunk) /\ got \in Seq(Chunk)
  BY DEF BInv, TypeOK
<1>1. EndOf(sent) \in Nat
  BY <1>0, EndOfType
<1>2. chunk \in Chunk /\ chunk.from = EndOf(sent) /\ chunk.from <= chunk.to
  BY <1>1 DEF Chunk
<1>3. sent' = Append(sent, chunk) /\ wire' = Append(wire, chunk)
  BY DEF ClientSend
<1> HIDE DEF chunk
<1>4. UNCHANGED <<ctype, wellFormed, closing, client, variant, taken, reader,
                  seen, got, start, cache, whole, result, calls, parts,
                  creating, dirs, dying, cut, handler>>
  BY DEF ClientSend, kindVars, bodyVars, fileVars
<1>5. /\ sent' \in Seq(Chunk) /\ wire' \in Seq(Chunk)
      /\ Len(sent') = Len(sent) + 1 /\ Len(wire') = Len(wire) + 1
      /\ \A i \in 1..Len(sent) : sent'[i] = sent[i]
      /\ \A i \in 1..Len(wire) : wire'[i] = wire[i]
      /\ sent'[Len(sent) + 1] = chunk /\ wire'[Len(wire) + 1] = chunk
  BY <1>0, <1>2, <1>3
<1>6. TypeOK'
  BY <1>4, <1>5 DEF BInv, TypeOK
<1>7. WireOK'
  <2>1. Gapless(sent')
    <3> SUFFICES ASSUME NEW i \in DOMAIN sent'
                 PROVE  /\ sent'[i].from = IF i = 1 THEN 0 ELSE sent'[i - 1].to
                        /\ sent'[i].from <= sent'[i].to
      BY DEF Gapless
    <3>1. i \in 1..(Len(sent) + 1) /\ Len(sent) \in Nat
      BY <1>0, <1>5
    <3>2. CASE i \in 1..Len(sent)
      <4>1. sent'[i] = sent[i]
        BY <1>5, <3>2
      <4>2. i # 1 => sent'[i - 1] = sent[i - 1]
        BY <1>5, <3>1, <3>2
      <4>3. i \in DOMAIN sent
        BY <1>0, <3>2
      <4> QED
        BY <4>1, <4>2, <4>3 DEF BInv, WireOK, Gapless
    <3>3. CASE i = Len(sent) + 1
      <4>1. sent'[i] = chunk
        BY <1>5, <3>3
      <4>2. CASE Len(sent) = 0
        BY <1>0, <1>2, <3>3, <4>1, <4>2 DEF EndOf
      <4>3. CASE Len(sent) # 0
        <5>1. sent'[i - 1] = sent[Len(sent)] /\ sent # <<>>
          BY <1>0, <1>5, <3>1, <3>3, <4>3
        <5> QED
          BY <1>2, <3>1, <3>3, <4>1, <4>3, <5>1 DEF EndOf
      <4> QED
        BY <4>2, <4>3
    <3> QED
      BY <3>1, <3>2, <3>3
  <2>2. Len(wire') <= Len(sent') /\ Len(got') <= Len(sent') - Len(wire')
    BY <1>0, <1>4, <1>5 DEF BInv, WireOK
  <2>3. \A i \in DOMAIN wire' : wire'[i] = sent'[Len(sent') - Len(wire') + i]
    <3> SUFFICES ASSUME NEW i \in DOMAIN wire'
                 PROVE  wire'[i] = sent'[Len(sent') - Len(wire') + i]
      OBVIOUS
    <3>1. i \in 1..(Len(wire) + 1) /\ Len(wire) \in Nat /\ Len(sent) \in Nat
          /\ Len(wire) <= Len(sent)
      BY <1>0, <1>5 DEF BInv, WireOK
    <3>2. CASE i \in 1..Len(wire)
      <4> DEFINE j == Len(sent) - Len(wire) + i
      <4>1. wire[i] = sent[j] /\ j \in 1..Len(sent)
        BY <1>0, <3>1, <3>2 DEF BInv, WireOK
      <4>2. Len(sent') - Len(wire') + i = j
        BY <1>5, <3>1
      <4> QED
        BY <1>5, <3>2, <4>1, <4>2
    <3>3. CASE i = Len(wire) + 1
      <4>1. Len(sent') - Len(wire') + i = Len(sent) + 1
        BY <1>5, <3>1, <3>3
      <4> QED
        BY <1>5, <3>3, <4>1
    <3> QED
      BY <3>1, <3>2, <3>3
  <2>4. \A i \in DOMAIN got' : got'[i] = sent'[i]
    <3> SUFFICES ASSUME NEW i \in DOMAIN got PROVE got[i] = sent'[i]
      BY <1>4
    <3>1. i \in 1..Len(got) /\ Len(got) \in Nat /\ Len(wire) \in Nat
          /\ Len(sent) \in Nat
      BY <1>0
    <3>2. Len(got) <= Len(sent) - Len(wire) /\ got[i] = sent[i]
      BY DEF BInv, WireOK
    <3>3. i \in 1..Len(sent)
      BY <3>1, <3>2
    <3> QED
      BY <1>5, <3>2, <3>3
  <2> QED
    BY <2>1, <2>2, <2>3, <2>4 DEF WireOK
<1>8. ReaderOK'
  <2>1. Refused' <=> Refused
    BY <1>0, <1>4, <1>5 DEF Refused
  <2> QED
    BY <1>4, <2>1 DEF BInv, ReaderOK, EndOf
<1>9. CacheOK'
  <2>1. ASSUME NEW k \in Parser, NEW kept \in cache[k], ctype # "bare"
        PROVE  Entire(k, kept)'
    <3>1. Entire(k, kept) /\ client = "open"
      BY <2>1 DEF BInv, CacheOK, ClientSend
    <3>2. k = "multipart" /\ start < closing
      BY <3>1 DEF Entire
    <3>3. PICK m \in closing..Len(sent) : kept = SubSeq(sent, start + 1, m)
      BY <3>1, <3>2 DEF Entire
    <3>4. m \in Nat /\ m <= Len(sent) /\ m <= Len(sent') /\ start \in Nat
      BY <1>0, <1>5, <3>3 DEF BInv, TypeOK
    <3>5. \A i \in 1..m : sent[i] = sent'[i]
      BY <1>0, <1>5, <3>4
    <3>6. kept = SubSeq(sent', start + 1, m)
      BY <1>0, <1>5, <3>3, <3>4, <3>5, SameChunks
    <3>7. m \in closing..Len(sent')
      BY <1>0, <1>5, <3>3
    <3> QED
      BY <1>4, <3>2, <3>6, <3>7 DEF Entire
  <2> QED
    BY <1>4, <2>1 DEF BInv, CacheOK
<1>10. FilesOK' /\ KeptParse'
  BY <1>4 DEF BInv, FilesOK, OneCut, KeptParse
<1> QED
  BY <1>6, <1>7, <1>8, <1>9, <1>10 DEF BInv

LEMMA ClientEndOK ==
    ASSUME BInv, NEW how \in {"end", "error"}, ClientEnd(how)
    PROVE  BInv'
<1>1. TypeOK'
  BY DEF BInv, TypeOK, ClientEnd, kindVars, bodyVars, fileVars
<1>2. WireOK' /\ ReaderOK'
  BY DEF BInv, WireOK, ReaderOK, Refused, EndOf, ClientEnd, kindVars, bodyVars,
     fileVars
<1>3. CacheOK'
  BY DEF BInv, CacheOK, Entire, ClientEnd, kindVars, bodyVars
<1>4. FilesOK' /\ KeptParse'
  BY DEF BInv, FilesOK, OneCut, KeptParse, ClientEnd, bodyVars, fileVars
<1> QED
  BY <1>1, <1>2, <1>3, <1>4 DEF BInv

\* The parse into the type asked for answers every call of a kind whose body
\* was read whole.
LEMMA TypedAnswers ==
    ASSUME NEW k \in Parser, Typed(k), k = "form" => wellFormed
    PROVE  result'.call = k /\ result'.is \in {"ok", "mismatch"}
BY DEF Typed, Answer

LEMMA AnswerType ==
    ASSUME NEW k \in Parser,
           \/ Typed(k)
           \/ \E r \in {"content_type", "empty", "malformed", "cancelled"} :
                 Answer(k, r)
    PROVE  /\ result'.call = k
           /\ result' \in [call : Parser \cup {"none"},
                           is : {"none", "content_type", "empty", "malformed",
                                 "mismatch", "ok", "cancelled"}]
BY DEF Typed, Answer

\* A call that leaves the body where it is.
LEMMA CallAnsweredOK ==
    ASSUME BInv, NEW k \in Parser, FromCache(k) \/ WrongType(k) \/ NoBody(k)
    PROVE  BInv'
<1>1. UNCHANGED <<ctype, wellFormed, closing, sent, client, wire, variant,
                  taken, reader, seen, got, start, cache, whole, parts,
                  creating, dirs, dying, cut, handler>>
  BY DEF FromCache, WrongType, NoBody, Call, kindVars, clientVars, fileVars
<1>2. calls' \in 0..MaxCalls
  BY RequestBodyAssumption
  DEF FromCache, WrongType, NoBody, Call, BInv, TypeOK
<1>3. /\ result'.call = k
      /\ result' \in [call : Parser \cup {"none"},
                      is : {"none", "content_type", "empty", "malformed",
                            "mismatch", "ok", "cancelled"}]
  BY AnswerType DEF FromCache, WrongType, NoBody
<1>4. TypeOK'
  BY <1>1, <1>2, <1>3 DEF BInv, TypeOK
<1>5. WireOK' /\ ReaderOK'
  BY <1>1 DEF BInv, WireOK, ReaderOK, Refused, EndOf
<1>6. CacheOK' /\ FilesOK'
  BY <1>1 DEF BInv, CacheOK, Entire, FilesOK, OneCut
<1>7. KeptParse'
  <2> SUFFICES ASSUME k \in whole PROVE result'.is \in {"ok", "mismatch"}
    BY <1>1, <1>3 DEF KeptParse
  <2>1. cache[k] # {} /\ wellFormed /\ ctype = k
    BY DEF BInv, CacheOK
  <2>2. FromCache(k)
    BY <2>1 DEF WrongType, NoBody, Accepts
  <2> QED
    BY <2>1, <2>2, TypedAnswers DEF FromCache
<1> QED
  BY <1>4, <1>5, <1>6, <1>7 DEF BInv

\* An empty form is kept for a body without a boundary.
LEMMA NoBoundaryOK ==
    ASSUME BInv, NoBoundary
    PROVE  BInv'
<1>1. UNCHANGED <<ctype, wellFormed, closing, sent, client, wire, taken,
                  reader, seen, got, start, whole, parts, creating, dirs,
                  dying, cut, handler>>
  BY DEF NoBoundary, Call, kindVars, clientVars, fileVars
<1>2. calls' \in 0..MaxCalls
  BY RequestBodyAssumption DEF NoBoundary, Call, BInv, TypeOK
<1>3. /\ result'.call = "multipart"
      /\ result' \in [call : Parser \cup {"none"},
                      is : {"none", "content_type", "empty", "malformed",
                            "mismatch", "ok", "cancelled"}]
  BY AnswerType DEF NoBoundary, Parser
<1>4. ctype = "bare" /\ variant' = "Empty"
      /\ cache' = [cache EXCEPT !["multipart"] = {<<>>}]
  BY DEF NoBoundary
<1>5. <<>> \in Seq(Chunk) /\ cache \in [Parser -> SUBSET Seq(Chunk)]
  BY DEF BInv, TypeOK
<1>6. cache' \in [Parser -> SUBSET Seq(Chunk)]
  BY <1>4, <1>5
<1>7. TypeOK'
  BY <1>1, <1>2, <1>3, <1>4, <1>6 DEF BInv, TypeOK
<1>8. WireOK' /\ ReaderOK'
  BY <1>1, <1>4 DEF BInv, WireOK, ReaderOK, Refused, EndOf
<1>9. whole = {}
  BY <1>4 DEF BInv, CacheOK, TypeOK, Parser
<1>10. CacheOK'
  BY <1>1, <1>4, <1>9 DEF BInv, CacheOK, Entire
<1>11. FilesOK' /\ KeptParse'
  BY <1>1, <1>9 DEF BInv, FilesOK, OneCut, KeptParse
<1> QED
  BY <1>7, <1>8, <1>10, <1>11 DEF BInv

\* The body leaves the request with its first reader.
LEMMA TakeOK ==
    ASSUME BInv, UserTake \/ \E k \in Parser : TakeBody(k)
    PROVE  BInv'
<1>1. UNCHANGED <<ctype, wellFormed, closing, sent, client, wire, seen, got,
                  cache, whole, result, parts, creating, dirs, dying, cut,
                  handler>>
  BY DEF UserTake, TakeBody, Call, kindVars, clientVars, fileVars
<1>2. calls' \in 0..MaxCalls
  BY RequestBodyAssumption DEF UserTake, TakeBody, Call, BInv, TypeOK
<1>3. /\ variant # "Empty" /\ taken' = variant /\ variant' = "Empty"
      /\ reader' \in Parser \cup {"user"}
      /\ reader' \in Parser => ctype = reader'
      /\ handler = "running"
  BY DEF UserTake, TakeBody, Call, Parser
<1>4. /\ reader = "none" /\ taken = "Empty" /\ cut = {} /\ creating = {}
      /\ start <= Len(got) /\ start \in Nat /\ Len(got) \in Nat
  BY <1>3 DEF BInv, ReaderOK, TypeOK
<1>5. /\ start' = start \/ start' = Len(got)
      /\ reader' \in Parser => start' = Len(got)
  BY DEF UserTake, TakeBody, Call, Parser
<1>6. TypeOK'
  BY <1>1, <1>2, <1>3, <1>4, <1>5 DEF BInv, TypeOK
<1>7. WireOK'
  BY <1>1 DEF BInv, WireOK
<1>8. ReaderOK'
  <2>1. Refused' <=> Refused
    BY <1>1 DEF Refused
  <2>2. reader' # "none" /\ taken' # "Empty"
    BY <1>3 DEF Parser
  <2>3. start' <= Len(got') /\ EndOf(got') = EndOf(got)
    BY <1>1, <1>4, <1>5
  <2> QED
    BY <1>1, <1>3, <1>5, <2>1, <2>2, <2>3 DEF BInv, ReaderOK
<1>9. CacheOK'
  BY <1>1, <1>3 DEF BInv, CacheOK
<1>10. FilesOK' /\ KeptParse'
  BY <1>1, <1>4 DEF BInv, FilesOK, OneCut, KeptParse
<1> QED
  BY <1>6, <1>7, <1>8, <1>9, <1>10 DEF BInv

\* The handler puts back what it has not read.
LEMMA ReplaceOK ==
    ASSUME BInv, ReplaceBody
    PROVE  BInv'
<1>1. UNCHANGED <<ctype, closing, sent, client, wire, seen, got, start, cache,
                  whole, result, parts, creating, dirs, dying, cut, handler>>
  BY DEF ReplaceBody, clientVars, fileVars
<1>2. calls' \in 0..MaxCalls
  BY RequestBodyAssumption DEF ReplaceBody, BInv, TypeOK
<1>3. /\ reader = "user" /\ reader' = "none" /\ taken' = "Empty"
      /\ variant' = "Empty" \/ variant' = taken
      /\ wellFormed' \in BOOLEAN
  BY DEF ReplaceBody, BInv, TypeOK
<1>4. cut = {} /\ creating = {} /\ whole = {}
  BY <1>3 DEF BInv, FilesOK, CacheOK
<1>5. TypeOK'
  BY <1>1, <1>2, <1>3 DEF BInv, TypeOK
<1>6. WireOK'
  BY <1>1 DEF BInv, WireOK
<1>7. ReaderOK'
  <2>1. (Refused' <=> Refused) /\ EndOf(got') = EndOf(got)
    BY <1>1 DEF Refused
  <2> QED
    BY <1>1, <1>3, <1>4, <2>1 DEF BInv, ReaderOK, Parser
<1>8. CacheOK'
  <2>1. \A k, kept : Entire(k, kept)' <=> Entire(k, kept)
    BY <1>1 DEF Entire
  <2> QED
    BY <1>1, <1>3, <1>4, <2>1 DEF BInv, CacheOK
<1>9. FilesOK' /\ KeptParse'
  BY <1>1, <1>3, <1>4 DEF BInv, FilesOK, OneCut, KeptParse
<1> QED
  BY <1>5, <1>6, <1>7, <1>8, <1>9 DEF BInv

\* The next chunk on the wire, while none was refused, is the one behind what
\* the reader was given.
LEMMA HeadOfWire ==
    ASSUME BInv, wire # <<>>
    PROVE  /\ Head(wire) \in Chunk /\ Size(Head(wire)) \in Nat
           /\ Tail(wire) \in Seq(Chunk)
           /\ Len(Tail(wire)) = Len(wire) - 1 /\ Len(wire) > 0
           /\ \A i \in DOMAIN Tail(wire) :
                 Tail(wire)[i] = sent[Len(sent) - Len(Tail(wire)) + i]
           /\ ~Refused => /\ Len(got) + 1 \in DOMAIN sent
                          /\ Head(wire) = sent[Len(got) + 1]
                          /\ Head(wire).to = EndOf(got) + Size(Head(wire))
<1>0. /\ sent \in Seq(Chunk) /\ wire \in Seq(Chunk) /\ got \in Seq(Chunk)
      /\ Len(sent) \in Nat /\ Len(wire) \in Nat /\ Len(got) \in Nat
  BY DEF BInv, TypeOK
<1>1. /\ Len(wire) > 0 /\ Head(wire) = wire[1] /\ Head(wire) \in Chunk
      /\ Tail(wire) \in Seq(Chunk) /\ Len(Tail(wire)) = Len(wire) - 1
      /\ \A i \in 1..(Len(wire) - 1) : Tail(wire)[i] = wire[i + 1]
      /\ DOMAIN Tail(wire) = 1..(Len(wire) - 1)
  BY <1>0
<1>2. Len(wire) <= Len(sent)
  BY DEF BInv, WireOK
<1> DEFINE h == Len(sent) - Len(wire) + 1
<1>3. h \in DOMAIN sent /\ Head(wire) = sent[h]
  <2>1. h \in 1..Len(sent) /\ 1 \in DOMAIN wire
    BY <1>0, <1>1, <1>2
  <2>2. wire[1] = sent[Len(sent) - Len(wire) + 1]
    BY <2>1 DEF BInv, WireOK
  <2> QED
    BY <1>0, <1>1, <2>1, <2>2
<1>4. /\ sent[h].from = IF h = 1 THEN 0 ELSE sent[h - 1].to
      /\ sent[h].from <= sent[h].to
  BY <1>3 DEF BInv, WireOK, Gapless
<1>5. Head(wire).from \in Nat /\ Head(wire).to \in Nat
  BY <1>1 DEF Chunk
<1>6. Size(Head(wire)) \in Nat
  BY <1>3, <1>4, <1>5 DEF Size
<1>7. \A i \in DOMAIN Tail(wire) :
         Tail(wire)[i] = sent[Len(sent) - Len(Tail(wire)) + i]
  <2> SUFFICES ASSUME NEW i \in 1..(Len(wire) - 1)
               PROVE  Tail(wire)[i] = sent[Len(sent) - Len(Tail(wire)) + i]
    BY <1>1
  <2>1. i + 1 \in DOMAIN wire
    BY <1>0
  <2>2. wire[i + 1] = sent[Len(sent) - Len(wire) + (i + 1)]
    BY <2>1 DEF BInv, WireOK
  <2>3. Len(sent) - Len(Tail(wire)) + i = Len(sent) - Len(wire) + (i + 1)
    BY <1>0, <1>1
  <2> QED
    BY <1>1, <2>2, <2>3
<1>8. ASSUME ~Refused
      PROVE  /\ Len(got) + 1 = h
             /\ Head(wire).to = EndOf(got) + Size(Head(wire))
  <2>1. Len(got) + 1 = h
    BY <1>0, <1>8 DEF Refused
  <2>2. Head(wire).from = EndOf(got)
    <3>1. CASE got = <<>>
      BY <1>3, <1>4, <2>1, <3>1 DEF EndOf
    <3>2. CASE got # <<>>
      <4>1. Len(got) \in DOMAIN got /\ h # 1 /\ h - 1 = Len(got)
        BY <1>0, <2>1, <3>2
      <4>2. got[Len(got)] = sent[Len(got)]
        BY <4>1 DEF BInv, WireOK
      <4> QED
        BY <1>3, <1>4, <3>2, <4>1, <4>2 DEF EndOf
    <3> QED
      BY <3>1, <3>2
  <2>3. EndOf(got) \in Nat
    BY <1>0, EndOfType
  <2> QED
    BY <1>5, <2>1, <2>2, <2>3 DEF Size
<1> HIDE DEF h
<1> QED
  BY <1>1, <1>3, <1>6, <1>7, <1>8

\* A chunk passes: never one behind a refused chunk, since the count of a
\* LimitedIncoming stays over its limit.
LEMMA FrameOK ==
    ASSUME BInv, Frame
    PROVE  BInv'
<1> USE RequestBodyAssumption
<1> DEFINE chunk == Head(wire)
<1> DEFINE n == Size(chunk)
<1>0. /\ sent \in Seq(Chunk) /\ wire \in Seq(Chunk) /\ got \in Seq(Chunk)
      /\ Len(sent) \in Nat /\ Len(wire) \in Nat /\ Len(got) \in Nat
      /\ seen \in Nat
  BY DEF BInv, TypeOK
<1>1. UNCHANGED <<ctype, wellFormed, closing, sent, client, variant, taken,
                  reader, start, cache, whole, result, calls, parts, creating,
                  dirs, dying, cut, handler>>
  BY DEF Frame, kindVars, fileVars
<1>2. reader # "none" /\ wire # <<>> /\ wire' = Tail(wire)
      /\ got' = Append(got, chunk) /\ ~Over(n) /\ seen' = Count(n)
  BY DEF Frame
<1>3. /\ chunk \in Chunk /\ n \in Nat
      /\ Tail(wire) \in Seq(Chunk)
      /\ Len(Tail(wire)) = Len(wire) - 1 /\ Len(wire) > 0
      /\ \A i \in DOMAIN Tail(wire) :
            Tail(wire)[i] = sent[Len(sent) - Len(Tail(wire)) + i]
      /\ ~Refused => /\ Len(got) + 1 \in DOMAIN sent
                     /\ chunk = sent[Len(got) + 1]
                     /\ chunk.to = EndOf(got) + n
  BY <1>2, HeadOfWire
<1> HIDE DEF n, chunk
<1>4. taken \in {"Once", "Limited"} /\ variant = "Empty"
  BY <1>2 DEF BInv, TypeOK, ReaderOK
<1>5. ~Refused
  BY <1>0, <1>2, <1>3, <1>4 DEF BInv, ReaderOK, Over
<1>6. /\ got' \in Seq(Chunk) /\ Len(got') = Len(got) + 1
      /\ \A i \in 1..Len(got) : got'[i] = got[i]
      /\ got'[Len(got) + 1] = chunk /\ got' # <<>>
  <2>1. chunk \in Chunk /\ got' = Append(got, chunk)
    BY <1>2, <1>3
  <2>2. /\ got' \in Seq(Chunk) /\ Len(got') = Len(got) + 1
        /\ \A i \in 1..Len(got) : got'[i] = got[i]
        /\ got'[Len(got) + 1] = chunk
    BY <1>0, <2>1
  <2>3. got' # <<>>
    BY <1>0, <2>2
  <2> QED
    BY <2>2, <2>3
<1>7. EndOf(got') = chunk.to
  BY <1>6 DEF EndOf
<1>8. TypeOK'
  <2>1. seen' \in Nat
    BY <1>0, <1>2, <1>3 DEF Count
  <2> QED
    BY <1>1, <1>2, <1>3, <1>6, <2>1 DEF BInv, TypeOK
<1>9. WireOK'
  <2>1. Gapless(sent')
    BY <1>1 DEF BInv, WireOK
  <2>2. Len(wire') <= Len(sent') /\ Len(got') <= Len(sent') - Len(wire')
    BY <1>0, <1>1, <1>2, <1>3, <1>5, <1>6 DEF Refused
  <2>3. \A i \in DOMAIN wire' : wire'[i] = sent'[Len(sent') - Len(wire') + i]
    BY <1>1, <1>2, <1>3
  <2>4. \A i \in DOMAIN got' : got'[i] = sent'[i]
    <3> SUFFICES ASSUME NEW i \in DOMAIN got' PROVE got'[i] = sent[i]
      BY <1>1
    <3>1. i \in 1..(Len(got) + 1)
      BY <1>6
    <3>2. CASE i \in 1..Len(got)
      <4>1. i \in DOMAIN got
        BY <1>0, <3>2
      <4> QED
        BY <1>6, <3>2, <4>1 DEF BInv, WireOK
    <3>3. CASE i = Len(got) + 1
      BY <1>3, <1>5, <1>6, <3>3
    <3> QED
      BY <1>0, <3>1, <3>2, <3>3
  <2> QED
    BY <2>1, <2>2, <2>3, <2>4 DEF WireOK
<1>10. ReaderOK'
  <2>1. ~Refused'
    <3>1. Len(got) + Len(wire) = Len(sent)
      BY <1>5 DEF Refused
    <3>2. Len(wire') = Len(wire) - 1 /\ Len(got') = Len(got) + 1
          /\ Len(sent') = Len(sent)
      BY <1>1, <1>2, <1>3, <1>6
    <3>3. Len(got') + Len(wire') = Len(sent')
      BY <1>0, <3>1, <3>2
    <3> QED
      BY <3>3 DEF Refused
  <2>2. taken = "Limited" => EndOf(got') <= Limit /\ seen' = EndOf(got')
    BY <1>0, <1>2, <1>3, <1>5, <1>7 DEF BInv, ReaderOK, Over, Count
  <2>3. start' <= Len(got')
    BY <1>0, <1>1, <1>6 DEF BInv, ReaderOK, TypeOK
  <2> QED
    BY <1>1, <1>4, <2>1, <2>2, <2>3 DEF BInv, ReaderOK
<1>11. CacheOK' /\ FilesOK' /\ KeptParse'
  BY <1>1 DEF BInv, CacheOK, Entire, FilesOK, OneCut, KeptParse
<1> QED
  BY <1>8, <1>9, <1>10, <1>11 DEF BInv

\* What is dropped with a reader: parts go to their threads, the file being
\* written is the interrupted one.
LEMMA DropFilesOK ==
    ASSUME FilesOK, DropFiles, reader' = "none",
           parts \subseteq FileId, creating \subseteq FileId,
           dirs \subseteq FileId, dying \subseteq FileId, cut \subseteq FileId
    PROVE  /\ FilesOK'
           /\ parts' \subseteq FileId /\ creating' \subseteq FileId
           /\ dirs' \subseteq FileId /\ dying' \subseteq FileId
           /\ cut' \subseteq FileId
<1>1. /\ dying' = dying \cup parts /\ cut' = cut \cup creating
      /\ parts' = {} /\ creating' = {} /\ dirs' = dirs
  BY DEF DropFiles
<1>2. OneCut'
  BY <1>1 DEF FilesOK, OneCut
<1>3. FilesOK'
  BY <1>1, <1>2 DEF FilesOK
<1> QED
  BY <1>1, <1>3

\* A call that fails or is given up drops its body and its files.
LEMMA AbortOK ==
    ASSUME BInv, NEW r \in {"empty", "malformed", "cancelled"},
           reader \in Parser, Abort(reader, r),
           UNCHANGED <<kindVars, clientVars, variant, seen, got, start, cache,
                       whole, calls, handler>>
    PROVE  BInv'
<1>1. UNCHANGED <<ctype, wellFormed, closing, sent, client, wire, variant,
                  seen, got, start, cache, whole, calls, handler>>
  BY DEF kindVars, clientVars
<1>2. reader' = "none" /\ taken' = "Empty" /\ Answer(reader, r) /\ DropFiles
  BY DEF Abort
<1>3. /\ result'.call = reader
      /\ result' \in [call : Parser \cup {"none"},
                      is : {"none", "content_type", "empty", "malformed",
                            "mismatch", "ok", "cancelled"}]
  BY <1>2, AnswerType
<1>4. /\ FilesOK'
      /\ parts' \subseteq FileId /\ creating' \subseteq FileId
      /\ dirs' \subseteq FileId /\ dying' \subseteq FileId
      /\ cut' \subseteq FileId
  BY <1>2, DropFilesOK DEF BInv, TypeOK
<1>5. TypeOK'
  BY <1>1, <1>2, <1>3, <1>4 DEF BInv, TypeOK
<1>6. WireOK'
  BY <1>1 DEF BInv, WireOK
<1>7. variant = "Empty"
  BY DEF BInv, ReaderOK, Parser
<1>8. ReaderOK'
  BY <1>1, <1>2, <1>7 DEF BInv, ReaderOK, Parser
<1>9. CacheOK'
  BY <1>1, <1>2 DEF BInv, CacheOK, Entire, TypeOK, Parser
<1>10. KeptParse'
  <2>1. whole = {}
    BY DEF BInv, CacheOK, Parser
  <2> QED
    BY <1>1, <2>1 DEF KeptParse
<1> QED
  BY <1>4, <1>5, <1>6, <1>8, <1>9, <1>10 DEF BInv

\* Errors of the body or of a file, and a call given up.
LEMMA FailedCallOK ==
    ASSUME BInv, Broken \/ FinishBad \/ Cancel
    PROVE  BInv'
<1>1. ReadError \in {"empty", "malformed", "cancelled"}
  BY DEF ReadError
<1> QED
  BY <1>1, AbortOK DEF Broken, FinishBad, Cancel

\* A refused chunk leaves the count over the limit; only a handler that polls
\* the body itself can go on.
LEMMA OverLimitOK ==
    ASSUME BInv, OverLimit
    PROVE  BInv'
<1> USE RequestBodyAssumption
<1> DEFINE n == Size(Head(wire))
<1>0. /\ sent \in Seq(Chunk) /\ wire \in Seq(Chunk) /\ got \in Seq(Chunk)
      /\ Len(sent) \in Nat /\ Len(wire) \in Nat /\ Len(got) \in Nat
      /\ seen \in Nat
  BY DEF BInv, TypeOK
<1>1. UNCHANGED <<ctype, wellFormed, closing, sent, client, variant, got,
                  start, cache, whole, calls, handler>>
  BY DEF OverLimit, kindVars
<1>2. reader # "none" /\ wire # <<>> /\ Over(n) /\ seen' = Count(n)
      /\ wire' = Tail(wire)
  BY DEF OverLimit
<1>3. /\ n \in Nat /\ Tail(wire) \in Seq(Chunk)
      /\ Len(Tail(wire)) = Len(wire) - 1 /\ Len(wire) > 0
      /\ \A i \in DOMAIN Tail(wire) :
            Tail(wire)[i] = sent[Len(sent) - Len(Tail(wire)) + i]
  BY <1>2, HeadOfWire
<1> HIDE DEF n
<1>4. taken = "Limited" /\ variant = "Empty" /\ seen' \in Nat /\ seen' > Limit
  BY <1>0, <1>2, <1>3 DEF BInv, ReaderOK, Over, Count
<1>5. WireOK'
  <2>1. Len(wire') <= Len(sent') /\ Len(got') <= Len(sent') - Len(wire')
    <3>1. Len(wire) <= Len(sent) /\ Len(got) <= Len(sent) - Len(wire)
      BY DEF BInv, WireOK
    <3>2. Len(wire') = Len(wire) - 1 /\ sent' = sent /\ got' = got
      BY <1>1, <1>2, <1>3
    <3> QED
      BY <1>0, <3>1, <3>2
  <2>2. \A i \in DOMAIN wire' : wire'[i] = sent'[Len(sent') - Len(wire') + i]
    BY <1>1, <1>2, <1>3
  <2>3. Gapless(sent') /\ \A i \in DOMAIN got' : got'[i] = sent'[i]
    BY <1>1 DEF BInv, WireOK
  <2> QED
    BY <2>1, <2>2, <2>3 DEF WireOK
<1>6. CASE reader = "user" /\ UNCHANGED <<taken, reader, result, fileVars>>
  <2>1. UNCHANGED <<taken, reader, result, parts, creating, dirs, dying, cut>>
    BY <1>6 DEF fileVars
  <2>2. TypeOK'
    BY <1>1, <1>2, <1>3, <1>4, <2>1 DEF BInv, TypeOK
  <2>3. Refused'
    <3>1. Len(wire) <= Len(sent) /\ Len(got) <= Len(sent) - Len(wire)
      BY DEF BInv, WireOK
    <3>2. Len(wire') = Len(wire) - 1 /\ sent' = sent /\ got' = got
      BY <1>1, <1>2, <1>3
    <3>3. Len(got') + Len(wire') # Len(sent')
      BY <1>0, <3>1, <3>2
    <3> QED
      BY <3>3 DEF Refused
  <2>4. ReaderOK'
    <3>1. EndOf(got') <= Limit
      BY <1>1, <1>4 DEF BInv, ReaderOK
    <3>2. "user" \notin Parser
      BY DEF Parser
    <3> QED
      BY <1>1, <1>4, <1>6, <2>1, <2>3, <3>1, <3>2 DEF BInv, ReaderOK
  <2>5. CacheOK' /\ FilesOK' /\ KeptParse'
    BY <1>1, <2>1 DEF BInv, CacheOK, Entire, FilesOK, OneCut, KeptParse
  <2> QED
    BY <1>5, <2>2, <2>4, <2>5 DEF BInv
<1>7. CASE reader # "user" /\ Abort(reader, ReadError)
  <2>1. reader \in Parser
    BY <1>2, <1>7 DEF BInv, TypeOK
  <2>2. reader' = "none" /\ taken' = "Empty" /\ Answer(reader, ReadError)
        /\ DropFiles /\ ReadError \in {"empty", "malformed"}
    BY <1>7 DEF Abort, ReadError
  <2>3. /\ result'.call = reader
        /\ result' \in [call : Parser \cup {"none"},
                        is : {"none", "content_type", "empty", "malformed",
                              "mismatch", "ok", "cancelled"}]
    BY <2>1, <2>2, AnswerType
  <2>4. /\ FilesOK'
        /\ parts' \subseteq FileId /\ creating' \subseteq FileId
        /\ dirs' \subseteq FileId /\ dying' \subseteq FileId
        /\ cut' \subseteq FileId
    BY <2>2, DropFilesOK DEF BInv, TypeOK
  <2>5. TypeOK'
    BY <1>1, <1>2, <1>3, <1>4, <2>2, <2>3, <2>4 DEF BInv, TypeOK
  <2>6. ReaderOK'
    BY <1>1, <1>4, <2>2 DEF BInv, ReaderOK, Parser
  <2>7. CacheOK'
    BY <1>1, <2>2 DEF BInv, CacheOK, Entire, TypeOK, Parser
  <2>8. KeptParse'
    <3>1. whole = {}
      BY <2>1 DEF BInv, CacheOK, Parser
    <3> QED
      BY <1>1, <3>1 DEF KeptParse
  <2> QED
    BY <1>5, <2>4, <2>5, <2>6, <2>7, <2>8 DEF BInv
<1> QED
  BY <1>6, <1>7 DEF OverLimit

\* Files come and go without touching the body.
LEMMA FileStepOK ==
    ASSUME BInv,
           FileEnd \/ \E f \in FileId : FileBegin(f) \/ RemoveUpload(f)
    PROVE  BInv'
<1>1. UNCHANGED <<ctype, wellFormed, closing, sent, client, wire, variant,
                  taken, reader, seen, got, start, cache, whole, result,
                  calls, handler>>
  BY DEF FileEnd, FileBegin, RemoveUpload, kindVars, clientVars, bodyVars
<1>2. /\ FilesOK'
      /\ parts' \subseteq FileId /\ creating' \subseteq FileId
      /\ dirs' \subseteq FileId /\ dying' \subseteq FileId
      /\ cut' \subseteq FileId
      /\ cut' = cut /\ (variant # "Empty" => creating' = {})
  <2>0. /\ parts \subseteq FileId /\ creating \subseteq FileId
        /\ dirs \subseteq FileId /\ dying \subseteq FileId
        /\ cut \subseteq FileId
        /\ variant # "Empty" => reader = "none" /\ creating = {}
        /\ reader # "none" => handler # "gone"
    BY DEF BInv, TypeOK, ReaderOK
  <2>1. CASE FileEnd
    <3>1. /\ reader = "multipart" /\ parts' = parts \cup creating
          /\ creating' = {}
          /\ UNCHANGED <<dirs, dying, cut>>
      BY <2>1 DEF FileEnd
    <3>2. FilesOK'
      BY <1>1, <2>0, <3>1 DEF BInv, FilesOK, OneCut
    <3> QED
      BY <1>1, <2>0, <3>1, <3>2
  <2>2. ASSUME NEW f \in FileId, FileBegin(f)
        PROVE  /\ FilesOK'
               /\ parts' \subseteq FileId /\ creating' \subseteq FileId
               /\ dirs' \subseteq FileId /\ dying' \subseteq FileId
               /\ cut' \subseteq FileId
               /\ cut' = cut /\ (variant # "Empty" => creating' = {})
    <3>1. /\ reader = "multipart" /\ creating = {} /\ creating' = {f}
          /\ f \notin dirs \cup parts \cup cut \cup dying
          /\ dirs' = dirs \cup {f} /\ UNCHANGED <<parts, dying, cut>>
      BY <2>2 DEF FileBegin
    <3>2. FilesOK'
      BY <1>1, <2>0, <3>1 DEF BInv, FilesOK, OneCut
    <3> QED
      BY <1>1, <2>0, <3>1, <3>2
  <2>3. ASSUME NEW f \in FileId, RemoveUpload(f)
        PROVE  /\ FilesOK'
               /\ parts' \subseteq FileId /\ creating' \subseteq FileId
               /\ dirs' \subseteq FileId /\ dying' \subseteq FileId
               /\ cut' \subseteq FileId
               /\ cut' = cut /\ (variant # "Empty" => creating' = {})
    <3>1. /\ f \in dying /\ dying' = dying \ {f} /\ dirs' = dirs \ {f}
          /\ UNCHANGED <<parts, creating, cut>>
      BY <2>3 DEF RemoveUpload
    <3>2. FilesOK'
      BY <1>1, <3>1 DEF BInv, FilesOK, OneCut
    <3> QED
      BY <1>1, <2>0, <3>1, <3>2
  <2> QED
    BY <2>1, <2>2, <2>3
<1>3. TypeOK'
  BY <1>1, <1>2 DEF BInv, TypeOK
<1>4. WireOK'
  BY <1>1 DEF BInv, WireOK
<1>5. ReaderOK'
  BY <1>1, <1>2 DEF BInv, ReaderOK, Refused, EndOf
<1>6. CacheOK' /\ KeptParse'
  BY <1>1 DEF BInv, CacheOK, Entire, KeptParse
<1> QED
  BY <1>2, <1>3, <1>4, <1>5, <1>6 DEF BInv

\* The body is complete: nothing was refused, so what its readers were given is
\* all the client sent, or all of it up to a chunk behind the closing boundary.
LEMMA FinishOK ==
    ASSUME BInv, Finish
    PROVE  BInv'
<1>0. /\ sent \in Seq(Chunk) /\ wire \in Seq(Chunk) /\ got \in Seq(Chunk)
      /\ cache \in [Parser -> SUBSET Seq(Chunk)]
  BY DEF BInv, TypeOK
<1>1. UNCHANGED <<ctype, wellFormed, closing, sent, client, wire, variant,
                  seen, got, start, calls, parts, creating, dirs, dying, cut,
                  handler>>
  BY DEF Finish, kindVars, clientVars, fileVars
<1>2. /\ reader \in Parser /\ creating = {}
      /\ reader' = "none" /\ taken' = "Empty"
      /\ cache' = [cache EXCEPT ![reader] = {Gathered}]
      /\ Typed(reader)
      /\ whole' = IF wellFormed THEN whole \cup {reader} ELSE whole
  BY DEF Finish
<1>19. Complete /\ ~NoBytes(Gathered)
  BY Zenon DEF Finish
<1>3. /\ start \in Nat /\ Len(got) \in Nat /\ start <= Len(got)
      /\ whole = {} /\ ctype = reader
      /\ Len(got) <= Len(sent) - Len(wire) /\ Len(wire) \in Nat
      /\ Len(sent) \in Nat
      /\ \A i \in 1..Len(got) : got[i] = sent[i]
  BY <1>0, <1>2 DEF BInv, TypeOK, ReaderOK, CacheOK, WireOK, Parser
<1>20. ~Refused
  <2>1. start # Len(got)
    <3> SUFFICES ASSUME start = Len(got) PROVE NoBytes(Gathered)
      BY <1>19
    <3>1. DOMAIN Gathered = 1..(Len(got) - start)
      BY <1>0, <1>3, RestOfChunks, Zenon DEF Gathered
    <3>2. DOMAIN Gathered = {}
      BY <1>3, <3>1
    <3> QED
      BY <3>2 DEF NoBytes
  <2> QED
    BY <1>2, <2>1 DEF BInv, ReaderOK
<1>21. Gathered \in Seq(Chunk)
  BY <1>0, <1>3, RestOfChunks, Zenon DEF Gathered
<1>22. Gathered = SubSeq(sent, start + 1, Len(got)) /\ Len(got) <= Len(sent)
  <2>1. Len(got) <= Len(sent) /\ Len(got) <= Len(got)
    BY <1>3
  <2>2. SubSeq(got, start + 1, Len(got)) = SubSeq(sent, start + 1, Len(got))
    BY <1>0, <1>3, <2>1, SameChunks, Zenon
  <2> QED
    BY <2>1, <2>2 DEF Gathered
<1>23. Entire(reader, Gathered)
  <2>1. CASE reader = "multipart"
    <3>1. closing \in start + 1..Len(got)
      BY <1>19, <2>1 DEF Complete
    <3>2. start < closing /\ Len(got) \in closing..Len(sent)
      BY <1>3, <1>22, <3>1
    <3> QED
      BY <2>1, <1>22, <3>2 DEF Entire
  <2>2. CASE reader # "multipart"
    <3>1. wire = <<>> /\ client = "end"
      BY <1>19, <2>2 DEF Complete, AtEnd
    <3>2. Len(got) = Len(sent)
      BY <1>3, <1>20, <3>1 DEF Refused
    <3> QED
      BY <2>2, <1>22, <3>1, <3>2 DEF Entire
  <2> QED
    BY <2>1, <2>2
<1>4. /\ result'.call = reader
      /\ result' \in [call : Parser \cup {"none"},
                      is : {"none", "content_type", "empty", "malformed",
                            "mismatch", "ok", "cancelled"}]
  BY <1>2, AnswerType
<1>5. cache' \in [Parser -> SUBSET Seq(Chunk)]
  BY <1>0, <1>2, <1>21
<1>6. TypeOK'
  <2>1. whole' \subseteq Parser
    BY <1>2 DEF BInv, TypeOK
  <2> QED
    BY <1>1, <1>2, <1>4, <1>5, <2>1 DEF BInv, TypeOK
<1>7. WireOK'
  BY <1>1 DEF BInv, WireOK
<1>8. ReaderOK'
  <2>1. (Refused' <=> Refused) /\ EndOf(got') = EndOf(got)
    BY <1>1 DEF Refused
  <2> QED
    BY <1>1, <1>2, <2>1 DEF BInv, ReaderOK, Parser
<1>9. CacheOK'
  <2>1. ASSUME NEW k \in Parser, NEW kept \in cache'[k], ctype # "bare"
        PROVE  Entire(k, kept)'
    <3>1. Entire(k, kept)
      <4>1. CASE k = reader
        BY <1>0, <1>2, <1>23, <2>1, <4>1
      <4>2. CASE k # reader
        BY <1>0, <1>2, <2>1, <4>2 DEF BInv, CacheOK
      <4> QED
        BY <4>1, <4>2
    <3> QED
      BY <1>1, <3>1 DEF Entire
  <2>2. variant' = "Empty" /\ reader' = "none"
    BY <1>1, <1>2 DEF BInv, ReaderOK, Parser
  <2>3. ASSUME NEW k \in whole'
        PROVE  cache'[k] # {} /\ wellFormed' /\ ctype' = k
    <3>1. CASE k = reader /\ wellFormed
      <4>1. cache'[k] # {}
        BY <1>0, <1>2, <3>1
      <4>2. ctype = k
        BY <1>2, <3>1 DEF BInv, ReaderOK, Parser
      <4> QED
        BY <1>1, <3>1, <4>1, <4>2
    <3> QED
      BY <1>2, <1>3, <2>3, <3>1
  <2> QED
    BY <1>1, <2>1, <2>2, <2>3 DEF CacheOK
<1>10. FilesOK'
  BY <1>1, <1>2 DEF BInv, FilesOK, OneCut
<1>11. KeptParse'
  <2> SUFFICES ASSUME reader \in whole' PROVE result'.is \in {"ok", "mismatch"}
    BY <1>4 DEF KeptParse
  <2>1. wellFormed
    BY <1>2, <1>3
  <2> QED
    BY <1>2, <2>1, TypedAnswers
<1> QED
  BY <1>6, <1>7, <1>8, <1>9, <1>10, <1>11 DEF BInv

\* The request is dropped with its handler.
LEMMA GoneOK ==
    ASSUME BInv, Gone
    PROVE  BInv'
<1>1. UNCHANGED <<ctype, wellFormed, closing, sent, client, wire, variant,
                  seen, got, start, cache, whole, result, calls>>
  BY DEF Gone, kindVars, clientVars
<1>2. /\ handler' = "gone" /\ reader' = "none" /\ taken' = "Empty"
      /\ DropFiles
  BY DEF Gone
<1>3. /\ FilesOK'
      /\ parts' \subseteq FileId /\ creating' \subseteq FileId
      /\ dirs' \subseteq FileId /\ dying' \subseteq FileId
      /\ cut' \subseteq FileId
  BY <1>2, DropFilesOK DEF BInv, TypeOK
<1>4. TypeOK'
  BY <1>1, <1>2, <1>3 DEF BInv, TypeOK
<1>5. WireOK'
  BY <1>1 DEF BInv, WireOK
<1>6. variant # "Empty" => cut' = {} /\ creating' = {}
  BY <1>2 DEF BInv, ReaderOK, DropFiles
<1>7. ReaderOK'
  <2>1. (Refused' <=> Refused) /\ EndOf(got') = EndOf(got)
    BY <1>1 DEF Refused
  <2> QED
    BY <1>1, <1>2, <1>6, <2>1 DEF BInv, ReaderOK, Parser
<1>8. CacheOK' /\ KeptParse'
  BY <1>1, <1>2 DEF BInv, CacheOK, Entire, KeptParse, TypeOK, Parser
<1> QED
  BY <1>3, <1>4, <1>5, <1>7, <1>8 DEF BInv

LEMMA BodyNext == BInv /\ [Next]_vars => BInv'
<1> SUFFICES ASSUME BInv, [Next]_vars PROVE BInv'
  OBVIOUS
<1>1. ASSUME NEW n \in ChunkLens, ClientSend(n) PROVE BInv'
  BY <1>1, ClientSendOK
<1>2. ASSUME NEW how \in {"end", "error"}, ClientEnd(how) PROVE BInv'
  BY <1>2, ClientEndOK
<1>3. CASE CallStep
  BY <1>3, CallAnsweredOK, NoBoundaryOK, TakeOK, ReplaceOK DEF CallStep
<1>4. CASE ReadStep
  BY <1>4, FrameOK, OverLimitOK, FailedCallOK, FinishOK, FileStepOK
  DEF ReadStep
<1>5. CASE Cancel
  BY <1>5, FailedCallOK
<1>6. CASE Gone
  BY <1>6, GoneOK
<1>7. ASSUME NEW f \in FileId, RemoveUpload(f) PROVE BInv'
  BY <1>7, FileStepOK
<1>8. CASE UNCHANGED vars
  <2>1. TypeOK'
    BY <1>8 DEF vars, BInv, TypeOK
  <2>2. WireOK' /\ ReaderOK'
    BY <1>8 DEF vars, BInv, WireOK, ReaderOK, Refused, EndOf
  <2>3. CacheOK' /\ FilesOK' /\ KeptParse'
    BY <1>8 DEF vars, BInv, CacheOK, Entire, FilesOK, OneCut, KeptParse
  <2> QED
    BY <2>1, <2>2, <2>3 DEF BInv
<1> QED
  BY <1>1, <1>2, <1>3, <1>4, <1>5, <1>6, <1>7, <1>8 DEF Next

\* The inductive invariant of a request's body, for every body and limit.
THEOREM BodyInvariant == Spec => []BInv
<1>1. Init => BInv
  BY BodyInit
<1>2. BInv /\ [Next]_vars => BInv'
  BY BodyNext
<1> QED
  BY <1>1, <1>2, PTL DEF Spec

\* Type correctness of the body, its caches and its uploads.
THEOREM BodyTyped == Spec => []TypeOK
<1>1. BInv => TypeOK
  BY DEF BInv
<1> QED
  BY <1>1, BodyInvariant, PTL

\* ReqBody::poll_frame gives its readers a prefix of the body within the limit,
\* and nothing behind a refused chunk, also when take_body and replace_body hand
\* the body from one to the next; json_parse and form_parse keep all that was
\* left of the body of a client that finished it, form_data all of it up to the
\* closing boundary at least, or nothing.
THEOREM WholeBodyTheorem == Spec => []WholeBody
<1>1. BInv => WholeBody
  <2> SUFFICES ASSUME BInv PROVE WholeBody
    OBVIOUS
  <2>1. ASSUME NEW i \in DOMAIN got PROVE i \in DOMAIN sent /\ got[i] = sent[i]
    <3>1. /\ Len(sent) \in Nat /\ Len(wire) \in Nat /\ Len(got) \in Nat
          /\ DOMAIN got = 1..Len(got) /\ DOMAIN sent = 1..Len(sent)
      BY DEF BInv, TypeOK
    <3>2. Len(got) <= Len(sent) - Len(wire) /\ got[i] = sent[i]
      BY DEF BInv, WireOK
    <3> QED
      BY <3>1, <3>2
  <2>2. variant = "Limited" \/ taken = "Limited" => EndOf(got) <= Limit
    BY DEF BInv, ReaderOK
  <2>3. \A k \in Parser : \A kept \in cache[k] :
           ctype = "bare" \/ Entire(k, kept)
    BY DEF BInv, CacheOK
  <2> QED
    BY <2>1, <2>2, <2>3 DEF WholeBody
<1> QED
  BY <1>1, BodyInvariant, PTL

\* After json_parse, form_parse or form_data has read a well-formed body, every
\* later call of that kind is answered from it, also when a type did not fit.
THEOREM KeptParseTheorem == Spec => []KeptParse
<1>1. BInv => KeptParse
  BY DEF BInv
<1> QED
  BY <1>1, BodyInvariant, PTL

\* Every temporary directory of an upload has an owner: the file being written,
\* a FilePart, or the thread its drop has spawned; only a file interrupted in
\* FilePart::create has none, there is at most one of those in a request, and
\* once the request is gone nothing but threads and that file is left.
UploadsOwned ==
    /\ dirs = parts \cup creating \cup dying \cup cut
    /\ OneCut
    /\ handler = "gone" => dirs = dying \cup cut

\* The safety half of UploadsReleased: FilePart::create and FilePart::drop lose
\* track of no directory but the interrupted one.
THEOREM UploadsOwnedTheorem == Spec => []UploadsOwned
<1>1. BInv => UploadsOwned
  BY DEF BInv, FilesOK, UploadsOwned
<1> QED
  BY <1>1, BodyInvariant, PTL

-----------------------------------------------------------------------------
(* Routing: the invariant                                                  *)

\* The request and the phases.
WalkTyped ==
    /\ phase \in {"build", "idle", "walk"}
    /\ request.path \in Seq(STRING)
    /\ reply.status \in {"none", "ok", "not_found", "not_allowed"}
    /\ phase # "idle" => reply = NoReply

\* Handler k serves method m of node n: it was registered for them, and none
\* before it was.
Serves(rs, k, n, m) ==
    /\ k \in DOMAIN rs /\ rs[k].pat = n /\ rs[k].method = m
    /\ \A j \in 1..(k - 1) : ~(rs[j].pat = n /\ rs[j].method = m)

Increasing(s) == \A i, j \in DOMAIN s : i < j => s[i] < s[j]

\* The registrations that hooked a middleware on node n.
Hooked(rs, n) ==
    {k \in DOMAIN rs :
        /\ n # <<>> /\ rs[k].hook = Len(n)
        /\ SubSeq(rs[k].pat, 1, Len(n)) = n}

HandlersOK(rs, n, handlers) ==
    /\ handlers = [m \in DOMAIN handlers |-> handlers[m]]
    /\ \A m \in DOMAIN handlers : Serves(rs, handlers[m], n, m)

MiddlewaresOK(rs, n, mws) ==
    /\ mws \in Seq(Nat) /\ Increasing(mws)
    /\ Rng(mws) = Hooked(rs, n)

ChildrenOK(nodes, n, children) ==
    /\ children \in Seq(STRING)
    /\ \A c \in Rng(children) : Append(n, c) \in nodes

NodeOK(rs, nodes, n, node) ==
    /\ n \in Seq(STRING)
    /\ \A d \in 0..Len(n) : SubSeq(n, 1, d) \in nodes
    /\ HandlersOK(rs, n, node.handler)
    /\ MiddlewaresOK(rs, n, node.mws)
    /\ ChildrenOK(nodes, n, node.children)

\* A registration is in the Route: its nodes, and a handler for its method.
Registered(nodes, r, handlers) ==
    /\ \A d \in 0..Len(r.pat) : SubSeq(r.pat, 1, d) \in nodes
    /\ r.method \in DOMAIN handlers

\* Everything is registered under the root Route's own segment.
UnderRoot ==
    \E b \in STRING :
        /\ root[<<>>].children = <<b>>
        /\ \A k \in DOMAIN regs : regs[k].pat[1] = b

\* The root Route holds what was registered, and nothing else.
RootOK ==
    /\ regs \in Seq(Specs)
    /\ <<>> \in DOMAIN root
    /\ UnderRoot
    /\ \A n \in DOMAIN root : NodeOK(regs, DOMAIN root, n, root[n])
    /\ \A k \in DOMAIN regs :
          Registered(DOMAIN root, regs[k], root[regs[k].pat].handler)

\* The tree has the nodes of the root Route, and a node of it runs that node's
\* middlewares.
TreeOK ==
    phase # "build" =>
        /\ DOMAIN tree = DOMAIN root
        /\ \A n \in DOMAIN root :
              /\ tree[n].handler = root[n].handler
              /\ tree[n].children = root[n].children
              /\ Own(n) = HookFirst(n)

\* The path up to offset is cut into a piece for every segment of the node.
Cut(p, n, o, ends) ==
    /\ o \in 0..Len(p)
    /\ ends \in [DOMAIN n -> 0..Len(p)]
    /\ \A i \in DOMAIN n :
          /\ From(ends, i) <= ends[i]
          /\ Takes(n[i], p, Piece(p, ends, i), FALSE)
          /\ Greedy(n[i], p, Piece(p, ends, i), Left(p, ends, i))
    /\ From(ends, Len(n) + 1) <= o
    /\ NamesIn(p, From(ends, Len(n) + 1), o) = {}

\* What is captured for a segment that took the names in piece of those left:
\* these names, in a range of the path, or nothing where nothing was left.
CaptureOK(p, seg, r, piece, left) ==
    /\ NamesIn(p, r.from, r.to) = IF Kind(seg) = "full" THEN left ELSE piece
    /\ Readable(p, r, seg) \/ (Kind(seg) = "path" /\ left = {})

\* The captures are those of the pieces.
Bound(p, n, ends, bound) ==
    /\ {b.place : b \in bound} = LastOfKey(n)
    /\ \A b \in bound :
          /\ b.key = Special[n[b.place]].key
          /\ CaptureOK(p, n[b.place], b,
                       Piece(p, ends, b.place), Left(p, ends, b.place))

\* The middlewares run are those of the nodes entered.
RanOK ==
    /\ ran \in Seq(Seq(Nat)) /\ Len(ran) = Len(at)
    /\ \A d \in 1..Len(at) :
          /\ SubSeq(at, 1, d) \in DOMAIN root
          /\ ran[d] = HookFirst(SubSeq(at, 1, d))

WalkOK ==
    /\ at \in DOMAIN root /\ at # <<>>
    /\ RanOK
    /\ \E ends \in [DOMAIN at -> 0..Len(request.path)] :
          /\ Cut(request.path, at, offset, ends)
          /\ Bound(request.path, at, ends, params)

\* A handler was called, or refused the method, where the path ended.
EndOK ==
    /\ offset = Len(request.path) \/ IsFullPath(at)
    /\ \E k \in DOMAIN regs : regs[k].pat = at
    /\ reply.status = "ok" =>
          Serves(regs, reply.handler, at, regs[reply.handler].method)

RouteInv ==
    /\ WalkTyped /\ RootOK /\ TreeOK
    /\ phase = "walk" => WalkOK
    /\ reply.status \in {"ok", "not_allowed"} => WalkOK /\ EndOK

-----------------------------------------------------------------------------
(* Routing: one segment                                                    *)

LEMMA KindType ==
    ASSUME NEW seg
    PROVE  /\ Kind(seg) \in {"root", "static"} \cup Parameter
           /\ Kind(seg) = "root" <=> seg = ""
           /\ IsStatic(seg) <=> Kind(seg) = "static"
<1>1. CASE seg = ""
  BY <1>1 DEF Kind, IsStatic, Parameter
<1>2. CASE seg # "" /\ seg \in DOMAIN Special
  <2>1. Special[seg].kind \in Parameter
    BY <1>2, RouteTreeAssumption
  <2>. QED
    BY <1>2, <2>1 DEF Kind, IsStatic, Parameter
<1>3. CASE seg # "" /\ seg \notin DOMAIN Special
  BY <1>3 DEF Kind, IsStatic, Parameter
<1>. QED
  BY <1>1, <1>2, <1>3

\* strip_leading_slash skips no name.
LEMMA StripSlashType ==
    ASSUME NEW p \in Seq(STRING), NEW o \in 0..Len(p)
    PROVE  /\ StripLeadingSlash(p, o) \in o..Len(p)
           /\ NamesIn(p, o, StripLeadingSlash(p, o)) = {}
  BY DEF StripLeadingSlash, NamesIn

\* What strip_one_segment returns at offset o: where, and which names.
StripWhere(p, o, one) ==
    /\ one.remain \in o..Len(p)
    /\ one.from \in 0..Len(p) /\ one.to \in 0..Len(p)

StripNone(p, o, one) ==
    /\ one.seg = "" /\ NamesIn(p, o, one.remain) = {}
    /\ one.from = one.to

StripName(p, o, one) ==
    /\ one.to = one.from + 1 /\ p[one.to] = one.seg
    /\ NamesIn(p, o, one.remain) = {one.to}
    /\ NamesIn(p, one.from, one.to) = {one.to}

\* No name is left where none is taken, if no segment of the path is empty.
StripGreedy(p, o, one) ==
    Canonical(p) /\ NamesIn(p, o, one.remain) = {} =>
        NamesIn(p, o, Len(p)) = {}

StripOK(p, o, one) ==
    /\ StripWhere(p, o, one)
    /\ StripNone(p, o, one) \/ StripName(p, o, one)
    /\ StripGreedy(p, o, one)

\* strip_one_segment takes no name and returns "", or takes the one name it
\* returns; the range it returns holds the names it takes.
LEMMA StripOneSound ==
    ASSUME NEW p \in Seq(STRING), NEW o \in 0..Len(p)
    PROVE  StripOK(p, o, StripOneSegment(p, o))
<1> DEFINE t == StripLeadingSlash(p, o)
           one == StripOneSegment(p, o)
<1>1. t \in o..Len(p) /\ NamesIn(p, o, t) = {}
  BY StripSlashType
<1>. SUFFICES StripOK(p, o, one)
  OBVIOUS
<1>. HIDE DEF t
<1>2. CASE t = Len(p)
  <2>1. one = [seg |-> "", from |-> t, to |-> t, remain |-> t]
    BY <1>2 DEF StripOneSegment, t
  <2>. HIDE DEF one
  <2>2. t \in 0..Len(p)
    BY <1>1
  <2>3. StripWhere(p, o, one)
    BY <1>1, <2>1, <2>2 DEF StripWhere
  <2>4. StripNone(p, o, one)
    BY <1>1, <2>1 DEF StripNone
  <2>5. StripGreedy(p, o, one)
    BY <1>1, <1>2, <2>1 DEF StripGreedy
  <2>. QED
    BY <2>3, <2>4, <2>5 DEF StripOK
<1>3. CASE t # Len(p) /\ p[t + 1] = "/"
  <2>1. one = [seg |-> "", from |-> t, to |-> t, remain |-> t + 1]
    BY <1>3 DEF StripOneSegment, t
  <2>. HIDE DEF one
  <2>2. NamesIn(p, o, t + 1) = {}
    BY <1>1, <1>3 DEF NamesIn
  <2>3. t + 1 \in o..Len(p) /\ t \in 0..Len(p)
    BY <1>1, <1>3
  <2>4. StripWhere(p, o, one)
    BY <2>1, <2>3 DEF StripWhere
  <2>5. StripNone(p, o, one)
    BY <2>1, <2>2 DEF StripNone
  <2>6. ~Canonical(p)
    <3>1. t = o + 1 /\ p[t] = "/" /\ t \in 1..(Len(p) - 1)
      BY <1>1, <1>3 DEF StripLeadingSlash, t
    <3>. QED
      BY <1>3, <3>1 DEF Canonical
  <2>. QED
    BY <2>4, <2>5, <2>6 DEF StripOK, StripGreedy
<1>4. CASE t # Len(p) /\ p[t + 1] # "/"
  <2> DEFINE r == StripLeadingSlash(p, t + 1)
  <2>1. one = [seg |-> p[t + 1], from |-> t, to |-> t + 1, remain |-> r]
    BY <1>4 DEF StripOneSegment, t
  <2>2. t + 1 \in 0..Len(p) /\ t \in 0..Len(p)
    BY <1>1, <1>4
  <2>3. r \in (t + 1)..Len(p) /\ NamesIn(p, t + 1, r) = {}
    BY <2>2, StripSlashType
  <2>. HIDE DEF r, one
  <2>4. NamesIn(p, o, r) = {t + 1}
    BY <1>1, <1>4, <2>2, <2>3 DEF NamesIn
  <2>5. NamesIn(p, t, t + 1) = {t + 1}
    BY <1>4, <2>2 DEF NamesIn
  <2>6. r \in o..Len(p)
    BY <1>1, <2>3
  <2>7. /\ one.remain = r /\ one.from = t /\ one.to = t + 1
        /\ one.seg = p[t + 1]
    BY <2>1
  <2>8. StripWhere(p, o, one)
    BY <2>2, <2>6, <2>7 DEF StripWhere
  <2>9. StripName(p, o, one)
    BY <2>4, <2>5, <2>7 DEF StripName
  <2>10. StripGreedy(p, o, one)
    BY <2>4, <2>7 DEF StripGreedy
  <2>. QED
    BY <2>8, <2>9, <2>10 DEF StripOK
<1>. QED
  BY <1>2, <1>3, <1>4

\* A range of one segment can be read: it lies in the path, over one name.
InPath(p, r) ==
    /\ r.from <= r.to /\ r.to <= Len(p)
    /\ \A i \in (r.from + 1)..r.to : p[i] # "/"

\* The ranges CapturedStr may have hold the names the segment took, and can be
\* read unless nothing was left of the path.
LEMMA CapturedSound ==
    ASSUME NEW p \in Seq(STRING), NEW o \in 0..Len(p),
           NEW r \in Captured(p, StripOneSegment(p, o))
    PROVE  /\ NamesIn(p, r.from, r.to) =
                  NamesIn(p, o, StripOneSegment(p, o).remain)
           /\ \/ InPath(p, r)
              \/ /\ StripOneSegment(p, o).seg = ""
                 /\ NamesIn(p, o, Len(p)) = {}
<1> DEFINE one == StripOneSegment(p, o)
<1>1. StripOK(p, o, one)
  BY StripOneSound
<1>2. r \in Captured(p, one)
  OBVIOUS
<1>6. one.from = Len(p) => NamesIn(p, o, Len(p)) = {}
  <2> DEFINE t == StripLeadingSlash(p, o)
  <2>1. t \in o..Len(p) /\ NamesIn(p, o, t) = {}
    BY StripSlashType
  <2>2. one.from = t
    BY DEF StripOneSegment
  <2>. QED
    BY <2>1, <2>2
<1>. SUFFICES /\ NamesIn(p, r.from, r.to) = NamesIn(p, o, one.remain)
              /\ \/ InPath(p, r)
                 \/ one.seg = "" /\ NamesIn(p, o, Len(p)) = {}
  OBVIOUS
<1>. HIDE DEF one
<1>3. \A e \in Nat : NamesIn(p, e, e) = {}
  BY DEF NamesIn
<1>7. StripWhere(p, o, one)
  BY <1>1 DEF StripOK
<1>4. CASE one.from = Len(p)
  <2>1. r.from \in Nat /\ r.to = r.from
    BY <1>2, <1>4 DEF Captured
  <2>3. one.to # one.from + 1
    BY <1>4, <1>7 DEF StripWhere
  <2>4. NamesIn(p, o, one.remain) = {} /\ one.seg = ""
    BY <1>1, <2>3 DEF StripOK, StripNone, StripName
  <2>. QED
    BY <1>3, <1>4, <1>6, <2>1, <2>4
<1>5. CASE one.from # Len(p)
  <2>1. r.from = one.from /\ r.to = one.to
    BY <1>2, <1>5 DEF Captured
  <2>4. /\ one.from \in Nat /\ one.to \in Nat /\ Len(p) \in Nat
        /\ one.to <= Len(p)
    BY <1>7 DEF StripWhere
  <2>2. CASE one.from = one.to /\ NamesIn(p, o, one.remain) = {}
    <3>1. InPath(p, r)
      BY <2>1, <2>2, <2>4 DEF InPath
    <3>. QED
      BY <1>3, <2>1, <2>2, <2>4, <3>1
  <2>3. CASE /\ one.to = one.from + 1
             /\ NamesIn(p, o, one.remain) = {one.to}
             /\ NamesIn(p, one.from, one.to) = {one.to}
    <3>1. \A i \in (one.from + 1)..one.to : i = one.to
      BY <2>3, <2>4
    <3>2. p[one.to] # "/"
      BY <2>3 DEF NamesIn
    <3>3. InPath(p, r)
      BY <2>1, <2>3, <2>4, <3>1, <3>2 DEF InPath
    <3>. QED
      BY <2>1, <2>3, <3>3
  <2>. QED
    BY <1>1, <2>2, <2>3 DEF StripOK, StripNone, StripName
<1>. QED
  BY <1>4, <1>5

\* What a match of one segment leaves and captures, for every segment pattern,
\* path and offset.
MatchOK(seg, p, o, m) ==
    /\ m.remain \in o..Len(p)
    /\ Takes(seg, p, NamesIn(p, o, m.remain), FALSE)
    /\ Greedy(seg, p, NamesIn(p, o, m.remain), NamesIn(p, o, Len(p)))
    /\ IF Kind(seg) \in Parameter
       THEN \E r : /\ m.capture = {r}
                   /\ CaptureOK(p, seg, r, NamesIn(p, o, m.remain),
                                NamesIn(p, o, Len(p)))
       ELSE m.capture = {}

\* call_path_only is sound: the part of the path it takes is one the segment
\* stands for, and the capture is that part.
LEMMA SegmentSound ==
    ASSUME NEW seg, NEW leaf, NEW p \in Seq(STRING), NEW o \in 0..Len(p),
           NEW m \in CallPathOnly(seg, leaf, p, o)
    PROVE  MatchOK(seg, p, o, m)
<1> DEFINE one == StripOneSegment(p, o)
<1> DEFINE names == NamesIn(p, o, one.remain)
<1> DEFINE left == NamesIn(p, o, Len(p))
<1>1. /\ one.remain \in o..Len(p)
      /\ one.from \in 0..Len(p) /\ one.to \in 0..Len(p)
      /\ \/ one.seg = "" /\ names = {}
         \/ names = {one.to} /\ p[one.to] = one.seg
  BY StripOneSound DEF StripOK, StripWhere, StripNone, StripName
<1>2. \A r \in Captured(p, one) :
          /\ NamesIn(p, r.from, r.to) = names
          /\ InPath(p, r) \/ (one.seg = "" /\ left = {})
  BY CapturedSound
<1>3. AtMostOne(names) /\ AtMostOne({})
  BY <1>1 DEF AtMostOne
<1>8. Greedy(seg, p, names, left)
  BY StripOneSound DEF StripOK, StripGreedy, Greedy
<1>4. CASE Kind(seg) = "root"
  <2> DEFINE n == IF o + 1 = Len(p) /\ p[o + 1] = "/" THEN Len(p) ELSE o
  <2>1. m = [remain |-> n, capture |-> {}]
    BY <1>4 DEF CallPathOnly
  <2>2. n \in o..Len(p) /\ NamesIn(p, o, n) = {}
    BY DEF NamesIn
  <2>. QED
    BY <1>4, <2>1, <2>2 DEF MatchOK, Takes, Parameter, Greedy
<1>5. CASE Kind(seg) \in {"string", "int", "path"}
  <2>1. PICK r \in Captured(p, one) :
            m = [remain |-> one.remain, capture |-> {r}]
    BY <1>5 DEF CallPathOnly
  <2>2. /\ Kind(seg) # "path" => one.seg # ""
        /\ Kind(seg) = "int" => one.seg \in Numeric
    BY <1>5 DEF CallPathOnly, Parses
  <2>3. /\ NamesIn(p, r.from, r.to) = names
        /\ InPath(p, r) \/ (one.seg = "" /\ left = {})
    BY <1>2
  <2>. HIDE DEF one
  <2>4. Takes(seg, p, names, FALSE)
    BY <1>1, <1>3, <1>5, <2>2 DEF Takes
  <2>5. Kind(seg) \in Parameter /\ Kind(seg) # "full"
    BY <1>5 DEF Parameter
  <2>6. InPath(p, r) => Readable(p, r, seg)
    BY DEF InPath, Readable
  <2>7. CaptureOK(p, seg, r, names, left)
    BY <1>5, <2>2, <2>3, <2>5, <2>6 DEF CaptureOK
  <2>8. m.remain = one.remain /\ m.capture = {r}
    BY <2>1
  <2>. HIDE DEF names, left
  <2>. QED
    BY <1>1, <1>8, <2>4, <2>5, <2>7, <2>8 DEF MatchOK, names, left
<1>6. CASE Kind(seg) = "full"
  <2> DEFINE r == FullCapture(p, o)
  <2>1. m = [remain |-> one.remain, capture |-> {r}]
    BY <1>6 DEF CallPathOnly
  <2>2. NamesIn(p, r.from, r.to) = left /\ r.from <= r.to /\ r.to <= Len(p)
    <3>1. /\ StripLeadingSlash(p, o) \in o..Len(p)
          /\ NamesIn(p, o, StripLeadingSlash(p, o)) = {}
      BY StripSlashType
    <3>2. r.from = StripLeadingSlash(p, o) /\ r.to = Len(p)
      BY DEF FullCapture
    <3>. HIDE DEF r
    <3>. QED
      BY <3>1, <3>2 DEF NamesIn
  <2>3. Takes(seg, p, names, FALSE)
    BY <1>3, <1>6 DEF Takes
  <2>. HIDE DEF r
  <2>4. CaptureOK(p, seg, r, names, left)
    BY <1>6, <2>2 DEF CaptureOK, Readable
  <2>5. m.remain = one.remain /\ m.capture = {r}
    BY <2>1
  <2>6. Kind(seg) \in Parameter
    BY <1>6 DEF Parameter
  <2>. HIDE DEF one
  <2>. QED
    BY <1>1, <1>8, <2>3, <2>4, <2>5, <2>6 DEF MatchOK
<1>7. CASE Kind(seg) = "static"
  <2>1. m = [remain |-> one.remain, capture |-> {}] /\ one.seg = seg
    BY <1>7 DEF CallPathOnly
  <2>. HIDE DEF one
  <2>4. seg # ""
    BY <1>7, KindType
  <2>2. names = {one.to} /\ p[one.to] = seg
    BY <1>1, <2>1, <2>4
  <2>3. Takes(seg, p, names, FALSE)
    BY <1>3, <1>7, <2>2 DEF Takes
  <2>. QED
    BY <1>1, <1>7, <1>8, <2>1, <2>3 DEF MatchOK, Parameter
<1>. QED
  BY <1>4, <1>5, <1>6, <1>7, KindType DEF Parameter

-----------------------------------------------------------------------------
(* Routing: cutting the path along a node                                  *)

LEMMA AppendFacts ==
    ASSUME NEW S, NEW s \in Seq(S), NEW x \in S
    PROVE  /\ Append(s, x) \in Seq(S) /\ Len(Append(s, x)) = Len(s) + 1
           /\ Append(s, x)[Len(s) + 1] = x
           /\ \A i \in 1..Len(s) : Append(s, x)[i] = s[i]
  OBVIOUS

\* The names of two adjoining pieces of a path are those of both.
LEMMA NamesJoin ==
    ASSUME NEW p, NEW a \in Nat, NEW b \in Nat, NEW c \in Nat, a <= b, b <= c
    PROVE  /\ NamesIn(p, a, b) = {} => NamesIn(p, a, c) = NamesIn(p, b, c)
           /\ NamesIn(p, b, c) = {} => NamesIn(p, a, c) = NamesIn(p, a, b)
  BY DEF NamesIn

\* The last parameters of each key after one more segment.
LEMMA LastOfKeyStep ==
    ASSUME NEW n \in Seq(STRING), NEW seg \in STRING
    PROVE  LastOfKey(Append(n, seg)) =
               {i \in LastOfKey(n) :
                   Kind(seg) \in Parameter =>
                       Special[n[i]].key # Special[seg].key}
               \cup {i \in {Len(n) + 1} : Kind(seg) \in Parameter}
<1> DEFINE l == Len(n) + 1
           k == Append(n, seg)
           isp(x) == Kind(x) \in Parameter
           key(x) == Special[x].key
<1>1. /\ l \in Nat /\ l > 0 /\ DOMAIN n = 1..(l - 1) /\ DOMAIN k = 1..l
      /\ k[l] = seg /\ \A i \in 1..(l - 1) : k[i] = n[i]
  <2>1. k \in Seq(STRING) /\ Len(k) = Len(n) + 1
    BY AppendFacts, Zenon
  <2>2. k[Len(n) + 1] = seg
    BY AppendFacts, Zenon
  <2>3. ASSUME NEW i \in 1..Len(n) PROVE k[i] = n[i]
    BY AppendFacts
  <2>. QED
    BY <2>1, <2>2, <2>3
<1>2. LastOfKey(k) = {i \in 1..l : isp(k[i]) /\ \A j \in 1..l :
                          j > i /\ isp(k[j]) => key(k[j]) # key(k[i])}
  BY <1>1 DEF LastOfKey
<1>3. LastOfKey(n) = {i \in 1..(l - 1) : isp(n[i]) /\ \A j \in 1..(l - 1) :
                          j > i /\ isp(n[j]) => key(n[j]) # key(n[i])}
  BY <1>1 DEF LastOfKey
<1>. HIDE DEF l, k, isp, key
<1>4. ASSUME NEW i \in 1..(l - 1)
      PROVE  i \in LastOfKey(k) <=>
                 i \in LastOfKey(n) /\ (isp(seg) => key(n[i]) # key(seg))
  <2>1. i \in 1..l /\ l > i /\ l \in 1..l
    BY <1>1
  <2>2. \A j \in 1..l : j = l \/ j \in 1..(l - 1)
    BY <1>1
  <2>3. \A j \in 1..(l - 1) : j \in 1..l
    BY <1>1
  <2>. QED
    BY <1>1, <1>2, <1>3, <2>1, <2>2, <2>3
<1>5. l \in LastOfKey(k) <=> isp(seg)
  <2>1. l \in 1..l /\ \A j \in 1..l : ~(j > l)
    BY <1>1
  <2>. QED
    BY <1>1, <1>2, <2>1
<1>6. \A i \in LastOfKey(k) : i = l \/ i \in 1..(l - 1)
  BY <1>1, <1>2
<1>7. \A i \in LastOfKey(n) : i \in 1..(l - 1) /\ i # l
  BY <1>1, <1>3
<1>8. LastOfKey(k) = {i \in LastOfKey(n) : isp(seg) => key(n[i]) # key(seg)}
                     \cup {i \in {l} : isp(seg)}
  BY <1>4, <1>5, <1>6, <1>7
<1>. QED
  BY <1>8 DEF l, k, isp, key

\* The pieces after one more segment: those there were, and one that ends
\* where the match ends.
LEMMA CutStep ==
    ASSUME NEW p \in Seq(STRING), NEW n \in Seq(STRING), NEW seg \in STRING,
           NEW o \in 0..Len(p), NEW ends \in [DOMAIN n -> 0..Len(p)],
           NEW m, NEW bound,
           Cut(p, n, o, ends), Bound(p, n, ends, bound),
           MatchOK(seg, p, o, m)
    PROVE  \E e \in [DOMAIN Append(n, seg) -> 0..Len(p)] :
              /\ Cut(p, Append(n, seg), m.remain, e)
              /\ Bound(p, Append(n, seg), e,
                       BindParams(bound, Append(n, seg), m))
<1> DEFINE l == Len(n) + 1
           k == Append(n, seg)
           rem == m.remain
           e == [i \in 1..l |-> IF i = l THEN rem ELSE ends[i]]
           a == From(ends, l)
<1>1. /\ l \in Nat /\ l > 0 /\ DOMAIN n = 1..(l - 1) /\ Len(p) \in Nat
      /\ Len(n) = l - 1
  OBVIOUS
<1>2. /\ k \in Seq(STRING) /\ Len(k) = l /\ DOMAIN k = 1..l
      /\ k[l] = seg /\ \A i \in 1..(l - 1) : k[i] = n[i]
  <2>1. k \in Seq(STRING) /\ Len(k) = Len(n) + 1
    BY AppendFacts, Zenon
  <2>2. DOMAIN k = 1..Len(k)
    BY <2>1
  <2>3. k[Len(n) + 1] = seg /\ \A i \in 1..Len(n) : k[i] = n[i]
    <3>1. k[Len(n) + 1] = seg
      BY AppendFacts, Zenon
    <3>2. ASSUME NEW i \in 1..Len(n) PROVE k[i] = n[i]
      BY AppendFacts
    <3>. QED
      BY <3>1, <3>2
  <2>. QED
    BY <1>1, <2>1, <2>2, <2>3
<1>3. rem \in o..Len(p) /\ rem \in 0..Len(p)
  <2>1. rem \in o..Len(p)
    BY Zenon DEF MatchOK
  <2>. HIDE DEF rem
  <2>. QED
    BY <2>1
<1>. HIDE DEF l, rem
<1>4. a \in 0..o
  <2>1. CASE l = 1
    BY <2>1 DEF From
  <2>2. CASE l # 1
    <3>1. a = ends[l - 1] /\ l - 1 \in DOMAIN n
      BY <1>1, <2>2 DEF From
    <3>2. a \in 0..Len(p)
      BY <3>1
    <3>3. a <= o
      BY <1>1 DEF Cut
    <3>. QED
      BY <3>2, <3>3
  <2>. QED
    BY <2>1, <2>2
<1>5. e \in [1..l -> 0..Len(p)]
  <2>. SUFFICES ASSUME NEW i \in 1..l
                PROVE  (IF i = l THEN rem ELSE ends[i]) \in 0..Len(p)
    OBVIOUS
  <2>1. i # l => i \in DOMAIN n
    BY <1>1
  <2>. QED
    BY <1>3, <2>1
<1>6. e[l] = rem /\ \A i \in 1..(l - 1) : e[i] = ends[i]
  BY <1>1
<1>. HIDE DEF e
<1>7. \A i \in 1..l : From(e, i) = From(ends, i)
  <2>. SUFFICES ASSUME NEW i \in 1..l, i # 1
                PROVE  e[i - 1] = ends[i - 1]
    BY DEF From
  <2>1. i - 1 \in 1..(l - 1)
    BY <1>1
  <2>. QED
    BY <1>6, <2>1
<1>8. From(e, l + 1) = rem
  BY <1>1, <1>6 DEF From
<1>9. \A i \in 1..(l - 1) : /\ Piece(p, e, i) = Piece(p, ends, i)
                            /\ Left(p, e, i) = Left(p, ends, i)
  BY <1>1, <1>6, <1>7 DEF Piece, Left
<1>10. NamesIn(p, a, o) = {}
  BY <1>1 DEF Cut
<1>11. /\ Piece(p, e, l) = NamesIn(p, o, rem)
       /\ Left(p, e, l) = NamesIn(p, o, Len(p))
  <2>1. From(e, l) = a
    BY <1>1, <1>7
  <2>2. /\ a \in Nat /\ o \in Nat /\ rem \in Nat /\ Len(p) \in Nat
        /\ a <= o /\ o <= rem /\ o <= Len(p)
    BY <1>1, <1>3, <1>4
  <2>. HIDE DEF a
  <2>3. /\ NamesIn(p, a, rem) = NamesIn(p, o, rem)
        /\ NamesIn(p, a, Len(p)) = NamesIn(p, o, Len(p))
    BY <1>10, <2>2, NamesJoin
  <2>. QED
    BY <1>6, <2>1, <2>3 DEF Piece, Left
<1>. HIDE DEF k
<1>12. Cut(p, k, rem, e)
  <2>1. ASSUME NEW i \in 1..l
        PROVE  /\ From(e, i) <= e[i]
               /\ Takes(k[i], p, Piece(p, e, i), FALSE)
               /\ Greedy(k[i], p, Piece(p, e, i), Left(p, e, i))
    <3>1. CASE i = l
      <4>1. From(e, l) = a /\ a <= rem
        BY <1>1, <1>3, <1>4, <1>7
      <4>2. /\ Takes(seg, p, NamesIn(p, o, rem), FALSE)
            /\ Greedy(seg, p, NamesIn(p, o, rem), NamesIn(p, o, Len(p)))
        BY DEF MatchOK, rem
      <4>. QED
        BY <1>2, <1>6, <1>11, <3>1, <4>1, <4>2
    <3>2. CASE i # l
      <4>1. i \in 1..(l - 1) /\ i \in DOMAIN n
        BY <1>1, <3>2
      <4>2. /\ From(ends, i) <= ends[i]
            /\ Takes(n[i], p, Piece(p, ends, i), FALSE)
            /\ Greedy(n[i], p, Piece(p, ends, i), Left(p, ends, i))
        BY <4>1 DEF Cut
      <4>. QED
        BY <1>2, <1>6, <1>7, <1>9, <4>1, <4>2
    <3>. QED
      BY <3>1, <3>2
  <2>2. NamesIn(p, rem, rem) = {}
    BY <1>3 DEF NamesIn
  <2>3. rem <= rem
    BY <1>3
  <2>. QED
    BY <1>2, <1>3, <1>5, <1>8, <2>1, <2>2, <2>3 DEF Cut
<1>13. Bound(p, k, e, BindParams(bound, k, m))
  <2> DEFINE key == Special[seg].key
             new == {[key |-> key, place |-> l, from |-> r.from,
                      to |-> r.to] : r \in m.capture}
             kept == {b \in bound : \A c \in new : c.key # b.key}
             named == Kind(seg) \in Parameter
  <2>0. BindParams(bound, k, m) = kept \cup new
    <3>1. k # <<>>
      BY <1>1, <1>2
    <3>2. SegmentOf(k) = seg /\ Len(k) = l
      BY <1>2, <3>1 DEF SegmentOf
    <3>. QED
      BY <3>2 DEF BindParams
  <2>1. \A c \in new : c.place = l /\ c.key = key
    OBVIOUS
  <2>2. /\ named => \E r : /\ m.capture = {r}
                           /\ CaptureOK(p, seg, r, NamesIn(p, o, rem),
                                        NamesIn(p, o, Len(p)))
        /\ ~named => m.capture = {}
    BY DEF MatchOK, rem
  <2>3. new # {} <=> named
    BY <2>2
  <2>4. /\ {b.place : b \in bound} = LastOfKey(n)
        /\ \A b \in bound :
              /\ b.key = Special[n[b.place]].key
              /\ CaptureOK(p, n[b.place], b,
                           Piece(p, ends, b.place), Left(p, ends, b.place))
    BY Zenon DEF Bound
  <2>5. ASSUME NEW c \in new
        PROVE  \E r \in m.capture : c.from = r.from /\ c.to = r.to
    OBVIOUS
  <2>6. kept = {b \in bound : named => b.key # key}
    BY <2>1, <2>3
  <2>7. LastOfKey(k) = {i \in LastOfKey(n) :
                           named => Special[n[i]].key # key}
                       \cup {i \in {l} : named}
    BY LastOfKeyStep DEF l, k
  <2>8. LastOfKey(n) \subseteq 1..(l - 1)
    BY <1>1 DEF LastOfKey
  <2>. HIDE DEF new, kept, named, key
  <2>9. {b.place : b \in kept \cup new} = LastOfKey(k)
    <3>1. {b.place : b \in kept} =
              {i \in LastOfKey(n) : named => Special[n[i]].key # key}
      <4>1. ASSUME NEW b \in kept
            PROVE  b.place \in {i \in LastOfKey(n) :
                                   named => Special[n[i]].key # key}
        BY <2>4, <2>6
      <4>2. ASSUME NEW i \in LastOfKey(n), named => Special[n[i]].key # key
            PROVE  \E b \in kept : i = b.place
        <5>1. PICK b \in bound : i = b.place
          BY <2>4
        <5>. QED
          BY <2>4, <2>6, <4>2, <5>1
      <4>. QED
        BY <4>1, <4>2
    <3>2. {b.place : b \in new} = {i \in {l} : named}
      BY <2>1, <2>3
    <3>3. {b.place : b \in kept \cup new} =
              {b.place : b \in kept} \cup {b.place : b \in new}
      OBVIOUS
    <3>. QED
      BY <2>7, <3>1, <3>2, <3>3
  <2>10. ASSUME NEW b \in kept
         PROVE  /\ b.key = Special[k[b.place]].key
                /\ CaptureOK(p, k[b.place], b,
                             Piece(p, e, b.place), Left(p, e, b.place))
    <3>1. b \in bound
      BY <2>6
    <3>2. b.place \in 1..(l - 1)
      BY <2>4, <2>8, <3>1
    <3>3. /\ k[b.place] = n[b.place]
          /\ Left(p, e, b.place) = Left(p, ends, b.place)
          /\ Piece(p, e, b.place) = Piece(p, ends, b.place)
      BY <1>2, <1>9, <3>2
    <3>. QED
      BY <2>4, <3>1, <3>3
  <2>11. ASSUME NEW b \in new
         PROVE  /\ b.key = Special[k[b.place]].key
                /\ CaptureOK(p, k[b.place], b,
                             Piece(p, e, b.place), Left(p, e, b.place))
    <3>1. PICK r \in m.capture : b.from = r.from /\ b.to = r.to
      BY <2>5
    <3>2. b.place = l /\ b.key = key
      BY <2>1
    <3>3. named
      BY <2>3
    <3>4. CaptureOK(p, seg, r, NamesIn(p, o, rem), NamesIn(p, o, Len(p)))
      BY <2>2, <3>3
    <3>5. CaptureOK(p, seg, b, NamesIn(p, o, rem), NamesIn(p, o, Len(p)))
      BY <3>1, <3>4 DEF CaptureOK, Readable
    <3>. QED
      BY <1>2, <1>11, <3>2, <3>5 DEF key
  <2>12. \A b \in kept \cup new :
             /\ b.key = Special[k[b.place]].key
             /\ CaptureOK(p, k[b.place], b,
                          Piece(p, e, b.place), Left(p, e, b.place))
    BY <2>10, <2>11
  <2>13. Bound(p, k, e, kept \cup new)
    BY <2>9, <2>12, Zenon DEF Bound
  <2>. QED
    BY <2>0, <2>13
<1>. QED
  BY <1>2, <1>5, <1>12, <1>13 DEF k, rem

\* Where the path ends, or all of it is taken, the pieces are a reading of it.
LEMMA CutReads ==
    ASSUME NEW p \in Seq(STRING), NEW n \in Seq(STRING), n # <<>>,
           NEW o \in 0..Len(p), NEW ends \in [DOMAIN n -> 0..Len(p)],
           NEW bound,
           Cut(p, n, o, ends), Bound(p, n, ends, bound),
           o = Len(p) \/ Kind(n[Len(n)]) = "full"
    PROVE  \E e \in Cuts(n, p) : Reads(n, p, e) /\ Bound(p, n, e, bound)
<1> DEFINE l == Len(n)
           e == [ends EXCEPT ![l] = Len(p)]
<1>1. l \in Nat /\ l > 0 /\ DOMAIN n = 1..l /\ Len(p) \in Nat
  OBVIOUS
<1>. HIDE DEF l
<1>2. /\ e \in [1..l -> 0..Len(p)] /\ e[l] = Len(p)
      /\ \A i \in 1..(l - 1) : e[i] = ends[i]
  BY <1>1
<1>. HIDE DEF e
<1>3. \A i \in 1..l : From(e, i) = From(ends, i)
  <2>. SUFFICES ASSUME NEW i \in 1..l, i # 1
                PROVE  e[i - 1] = ends[i - 1]
    BY DEF From
  <2>1. i - 1 \in 1..(l - 1)
    BY <1>1
  <2>. QED
    BY <1>2, <2>1
<1>9. \A i \in 1..l : Left(p, e, i) = Left(p, ends, i)
  BY <1>3 DEF Left
<1>4. \A i \in 1..l : From(ends, i) \in 0..Len(p)
  <2>. SUFFICES ASSUME NEW i \in 1..l, i # 1
                PROVE  ends[i - 1] \in 0..Len(p)
    BY <1>1 DEF From
  <2>1. i - 1 \in DOMAIN n
    BY <1>1
  <2>. QED
    BY <2>1
<1>5. \A i \in 1..(l - 1) : Piece(p, e, i) = Piece(p, ends, i)
  BY <1>1, <1>2, <1>3 DEF Piece
<1>6. o = Len(p) => Piece(p, e, l) = Piece(p, ends, l)
  <2>. SUFFICES ASSUME o = Len(p)
                PROVE  NamesIn(p, From(ends, l), Len(p))
                           = NamesIn(p, From(ends, l), ends[l])
    BY <1>1, <1>2, <1>3 DEF Piece
  <2>1. From(ends, l + 1) = ends[l]
    BY <1>1 DEF From
  <2>2. /\ ends[l] <= Len(p) /\ NamesIn(p, ends[l], Len(p)) = {}
        /\ From(ends, l) <= ends[l]
    <3>1. /\ From(ends, Len(n) + 1) <= o
          /\ NamesIn(p, From(ends, Len(n) + 1), o) = {}
      BY Zenon DEF Cut
    <3>2. l \in DOMAIN n
      BY <1>1
    <3>3. From(ends, l) <= ends[l]
      BY <3>2, Zenon DEF Cut
    <3>. QED
      BY <2>1, <3>1, <3>3 DEF l
  <2>3. From(ends, l) \in Nat /\ ends[l] \in Nat /\ Len(p) \in Nat
    BY <1>1, <1>4
  <2>. QED
    BY <2>2, <2>3, NamesJoin
<1>7. Reads(n, p, e)
  <2>1. ASSUME NEW i \in 1..l
        PROVE  /\ From(e, i) <= e[i]
               /\ Takes(n[i], p, Piece(p, e, i), i = l)
               /\ Greedy(n[i], p, Piece(p, e, i), Left(p, e, i))
    <3>1. /\ From(ends, i) <= ends[i]
          /\ Takes(n[i], p, Piece(p, ends, i), FALSE)
          /\ Greedy(n[i], p, Piece(p, ends, i), Left(p, ends, i))
      BY <1>1 DEF Cut
    <3>2. CASE i = l
      <4>1. From(e, i) <= e[i]
        BY <1>1, <1>2, <1>3, <1>4, <3>2
      <4>2. Kind(n[l]) = "full" => Takes(n[l], p, Piece(p, e, l), TRUE)
        BY DEF Takes
      <4>4. Kind(n[l]) = "full" =>
              Greedy(n[l], p, Piece(p, e, l), Left(p, e, l))
        BY <1>2 DEF Greedy, Piece, Left
      <4>3. Takes(n[l], p, Piece(p, ends, l), TRUE)
        BY <3>1, <3>2 DEF Takes
      <4>. QED
        BY <1>6, <1>9, <3>1, <3>2, <4>1, <4>2, <4>3, <4>4 DEF l
    <3>3. CASE i # l
      <4>1. i \in 1..(l - 1)
        BY <1>1, <3>3
      <4>2. (i = l) = FALSE
        BY <3>3
      <4>. QED
        BY <1>2, <1>3, <1>5, <1>9, <3>1, <4>1, <4>2
    <3>. QED
      BY <3>2, <3>3
  <2>. QED
    BY <1>1, <1>2, <2>1 DEF Reads, l
<1>8. Bound(p, n, e, bound)
  <2>1. ASSUME NEW b \in bound
        PROVE  /\ b.key = Special[n[b.place]].key
               /\ CaptureOK(p, n[b.place], b,
                            Piece(p, e, b.place), Left(p, e, b.place))
    <3>1. b.place \in 1..l
      BY <1>1 DEF Bound, LastOfKey
    <3>2. Left(p, e, b.place) = Left(p, ends, b.place)
      BY <1>9, <3>1
    <3>3. Kind(n[b.place]) # "full" =>
              Piece(p, e, b.place) = Piece(p, ends, b.place)
      <4>1. b.place # l => b.place \in 1..(l - 1)
        BY <1>1, <3>1
      <4>. QED
        BY <1>5, <1>6, <4>1 DEF l
    <3>4. /\ b.key = Special[n[b.place]].key
          /\ CaptureOK(p, n[b.place], b,
                       Piece(p, ends, b.place), Left(p, ends, b.place))
      BY Zenon DEF Bound
    <3>. QED
      BY <3>2, <3>3, <3>4 DEF CaptureOK
  <2>2. {b.place : b \in bound} = LastOfKey(n)
    BY Zenon DEF Bound
  <2>. QED
    BY <2>1, <2>2, Zenon DEF Bound
<1>. QED
  BY <1>1, <1>2, <1>7, <1>8 DEF Cuts

-----------------------------------------------------------------------------
(* Routing: prefixes of patterns                                           *)

LEMMA SingleFacts ==
    ASSUME NEW S, NEW x \in S
    PROVE  <<x>> \in Seq(S) /\ Len(<<x>>) = 1 /\ Rng(<<x>>) = {x}
  BY DEF Rng

LEMMA EmptyRng ==
    ASSUME NEW S, NEW s \in Seq(S), Rng(s) = {}
    PROVE  s = <<>>
<1>1. DOMAIN s = {} /\ DOMAIN s = 1..Len(s) /\ Len(s) \in Nat
  BY DEF Rng
<1>2. Len(s) = 0
  BY <1>1
<1>. QED
  BY <1>2

LEMMA JoinFacts ==
    ASSUME NEW S, NEW a \in Seq(S), NEW b \in Seq(S)
    PROVE  a \o b \in Seq(S) /\ Rng(a \o b) \subseteq Rng(a) \cup Rng(b)
<1>1. a \o b \in Seq(S)
  OBVIOUS
<1>2. ASSUME NEW x \in Rng(a \o b) PROVE x \in Rng(a) \cup Rng(b)
  <2>1. PICK i \in DOMAIN (a \o b) : x = (a \o b)[i]
    BY DEF Rng
  <2>2. i \in 1..(Len(a) + Len(b))
    BY <1>1
  <2>3. CASE i <= Len(a)
    <3>1. i \in DOMAIN a /\ x = a[i]
      BY <2>1, <2>2, <2>3
    <3>. QED
      BY <3>1 DEF Rng
  <2>4. CASE i > Len(a)
    <3>1. i - Len(a) \in DOMAIN b /\ x = b[i - Len(a)]
      BY <2>1, <2>2, <2>4
    <3>. QED
      BY <3>1 DEF Rng
  <2>. QED
    BY <2>2, <2>3, <2>4
<1>. QED
  BY <1>1, <1>2

LEMMA SeqSubset ==
    ASSUME NEW S, NEW T, S \subseteq T, NEW s \in Seq(S)
    PROVE  s \in Seq(T)
  OBVIOUS

LEMMA SeqSame ==
    ASSUME NEW S, NEW s \in Seq(S), NEW t \in Seq(S), Len(s) = Len(t),
           \A i \in 1..Len(s) : s[i] = t[i]
    PROVE  s = t
  OBVIOUS

LEMMA PrefixFacts ==
    ASSUME NEW S, NEW s \in Seq(S), NEW d \in 0..Len(s)
    PROVE  /\ SubSeq(s, 1, d) \in Seq(S) /\ Len(SubSeq(s, 1, d)) = d
           /\ \A i \in 1..d : SubSeq(s, 1, d)[i] = s[i]
<1>1. \A i \in 1..d : s[i] \in S
  OBVIOUS
<1>2. SubSeq(s, 1, d) = [i \in 1..d |-> s[i]]
  OBVIOUS
<1>3. SubSeq(s, 1, d) \in Seq(S)
  BY <1>1, <1>2
<1>4. Len(SubSeq(s, 1, d)) = d
  OBVIOUS
<1>. QED
  BY <1>2, <1>3, <1>4

LEMMA PrefixEnds ==
    ASSUME NEW S, NEW s \in Seq(S)
    PROVE  SubSeq(s, 1, 0) = <<>> /\ SubSeq(s, 1, Len(s)) = s
<1>1. SubSeq(s, 1, 0) = <<>>
  OBVIOUS
<1>2. /\ SubSeq(s, 1, Len(s)) \in Seq(S) /\ Len(SubSeq(s, 1, Len(s))) = Len(s)
      /\ \A i \in 1..Len(s) : SubSeq(s, 1, Len(s))[i] = s[i]
  BY PrefixFacts
<1>3. SubSeq(s, 1, Len(s)) = s
  BY <1>2, SeqSame
<1>. QED
  BY <1>1, <1>3

\* A prefix and the next segment are a prefix.
LEMMA PrefixStep ==
    ASSUME NEW S, NEW s \in Seq(S), NEW d \in Nat, d < Len(s)
    PROVE  Append(SubSeq(s, 1, d), s[d + 1]) = SubSeq(s, 1, d + 1)
<1> DEFINE a == SubSeq(s, 1, d)
           b == SubSeq(s, 1, d + 1)
           x == s[d + 1]
<1>0. d \in 0..Len(s) /\ d + 1 \in 0..Len(s) /\ x \in S
  OBVIOUS
<1>1. a \in Seq(S) /\ Len(a) = d /\ \A i \in 1..d : a[i] = s[i]
  BY <1>0, PrefixFacts
<1>2. b \in Seq(S) /\ Len(b) = d + 1 /\ \A i \in 1..(d + 1) : b[i] = s[i]
  BY <1>0, PrefixFacts
<1>. HIDE DEF a, b, x
<1>3. /\ Append(a, x) \in Seq(S) /\ Len(Append(a, x)) = d + 1
      /\ Append(a, x)[d + 1] = x
      /\ \A i \in 1..d : Append(a, x)[i] = s[i]
  BY <1>0, <1>1
<1>4. ASSUME NEW i \in 1..(d + 1) PROVE Append(a, x)[i] = b[i]
  <2>1. CASE i = d + 1
    <3>1. b[i] = s[i] /\ s[i] = x
      BY <1>2, <2>1 DEF x
    <3>. QED
      BY <1>3, <2>1, <3>1
  <2>2. CASE i \in 1..d
    <3>1. b[i] = s[i]
      BY <1>2
    <3>2. Append(a, x)[i] = s[i]
      BY <1>3, <2>2
    <3>. QED
      BY <3>1, <3>2
  <2>3. i = d + 1 \/ i \in 1..d
    OBVIOUS
  <2>. QED
    BY <2>1, <2>2, <2>3
<1>5. Append(a, x) = b
  BY <1>2, <1>3, <1>4, SeqSame
<1>. QED
  BY <1>5 DEF a, b, x

\* The prefixes of a sequence are prefixes of what it is extended to.
LEMMA PrefixOfAppend ==
    ASSUME NEW S, NEW s \in Seq(S), NEW x \in S, NEW d \in 0..Len(s)
    PROVE  SubSeq(Append(s, x), 1, d) = SubSeq(s, 1, d)
<1> DEFINE t == Append(s, x)
<1>1. /\ t \in Seq(S) /\ Len(t) = Len(s) + 1
      /\ \A i \in 1..Len(s) : t[i] = s[i]
  BY AppendFacts
<1>. HIDE DEF t
<1>2. /\ SubSeq(t, 1, d) \in Seq(S) /\ Len(SubSeq(t, 1, d)) = d
      /\ \A i \in 1..d : SubSeq(t, 1, d)[i] = t[i]
  BY <1>1, PrefixFacts
<1>3. /\ SubSeq(s, 1, d) \in Seq(S) /\ Len(SubSeq(s, 1, d)) = d
      /\ \A i \in 1..d : SubSeq(s, 1, d)[i] = s[i]
  BY PrefixFacts
<1>4. \A i \in 1..d : i \in 1..Len(s)
  OBVIOUS
<1>5. \A i \in 1..d : SubSeq(t, 1, d)[i] = SubSeq(s, 1, d)[i]
  BY <1>1, <1>2, <1>3, <1>4
<1>6. SubSeq(t, 1, d) = SubSeq(s, 1, d)
  BY <1>2, <1>3, <1>5, SeqSame
<1>. QED
  BY <1>6 DEF t

LEMMA PrefixOfPrefix ==
    ASSUME NEW S, NEW s \in Seq(S), NEW c \in 0..Len(s), NEW d \in 0..c
    PROVE  SubSeq(SubSeq(s, 1, c), 1, d) = SubSeq(s, 1, d)
<1> DEFINE t == SubSeq(s, 1, c)
<1>1. t \in Seq(S) /\ Len(t) = c /\ \A i \in 1..c : t[i] = s[i]
  BY PrefixFacts
<1>. HIDE DEF t
<1>2. /\ SubSeq(t, 1, d) \in Seq(S) /\ Len(SubSeq(t, 1, d)) = d
      /\ \A i \in 1..d : SubSeq(t, 1, d)[i] = t[i]
  BY <1>1, PrefixFacts
<1>3. d \in 0..Len(s) /\ \A i \in 1..d : i \in 1..c
  OBVIOUS
<1>4. /\ SubSeq(s, 1, d) \in Seq(S) /\ Len(SubSeq(s, 1, d)) = d
      /\ \A i \in 1..d : SubSeq(s, 1, d)[i] = s[i]
  BY <1>3, PrefixFacts
<1>5. \A i \in 1..d : SubSeq(t, 1, d)[i] = SubSeq(s, 1, d)[i]
  BY <1>1, <1>2, <1>3, <1>4
<1>6. SubSeq(t, 1, d) = SubSeq(s, 1, d)
  BY <1>2, <1>4, <1>5, SeqSame
<1>. QED
  BY <1>6 DEF t

-----------------------------------------------------------------------------
(* Routing: a registration                                                 *)

LEMMA SpecFacts ==
    ASSUME NEW s \in Specs
    PROVE  /\ s.pat \in Seq(STRING) /\ Len(s.pat) \in Nat /\ Len(s.pat) > 0
           /\ s.hook \in Nat /\ s.hook <= Len(s.pat) /\ s.method \in STRING
<1>1. s \in [pat : Seq(STRING), hook : Nat, method : STRING]
  BY RouteTreeAssumption
<1>2. Len(s.pat) > 0 /\ s.hook <= Len(s.pat)
  BY RouteTreeAssumption
<1>3. s.pat \in Seq(STRING) /\ s.hook \in Nat /\ s.method \in STRING
  BY <1>1
<1>. QED
  BY <1>2, <1>3

\* The nodes of a new route are the prefixes of its pattern.
LEMMA NewRouteNodes ==
    ASSUME NEW s \in Specs, NEW k
    PROVE  /\ \A d \in 0..Len(s.pat) :
                 SubSeq(s.pat, 1, d) \in DOMAIN NewRoute(s, k)
           /\ \A n \in DOMAIN NewRoute(s, k) :
                 /\ n \in Seq(STRING) /\ Len(n) \in 0..Len(s.pat)
                 /\ n = SubSeq(s.pat, 1, Len(n))
           /\ s.pat \in DOMAIN NewRoute(s, k)
<1>1. DOMAIN NewRoute(s, k) = {SubSeq(s.pat, 1, i) : i \in 0..Len(s.pat)}
  BY DEF NewRoute
<1>2. s.pat \in Seq(STRING) /\ Len(s.pat) \in Nat
  BY SpecFacts
<1>3. \A d \in 0..Len(s.pat) :
          /\ SubSeq(s.pat, 1, d) \in Seq(STRING)
          /\ Len(SubSeq(s.pat, 1, d)) = d
  BY <1>2, PrefixFacts
<1>4. ASSUME NEW n \in DOMAIN NewRoute(s, k)
      PROVE  /\ n \in Seq(STRING) /\ Len(n) \in 0..Len(s.pat)
             /\ n = SubSeq(s.pat, 1, Len(n))
  <2>1. PICK d \in 0..Len(s.pat) : n = SubSeq(s.pat, 1, d)
    BY <1>1
  <2>2. n \in Seq(STRING) /\ Len(n) = d
    BY <1>3, <2>1
  <2>. QED
    BY <2>1, <2>2
<1>5. s.pat = SubSeq(s.pat, 1, Len(s.pat)) /\ Len(s.pat) \in 0..Len(s.pat)
  BY <1>2, PrefixEnds
<1>. QED
  BY <1>1, <1>4, <1>5

\* The child of a node of a new route is a node of it.
LEMMA NewRouteChild ==
    ASSUME NEW s \in Specs, NEW k, NEW n \in DOMAIN NewRoute(s, k)
    PROVE  /\ NewRoute(s, k)[n].children \in Seq(STRING)
           /\ \A c \in Rng(NewRoute(s, k)[n].children) :
                 Append(n, c) \in DOMAIN NewRoute(s, k)
<1> DEFINE ch == NewRoute(s, k)[n].children
<1>1. s.pat \in Seq(STRING) /\ Len(s.pat) \in Nat
  BY SpecFacts
<1>2. n \in Seq(STRING) /\ Len(n) \in 0..Len(s.pat)
      /\ n = SubSeq(s.pat, 1, Len(n))
  BY NewRouteNodes
<1>3. ch = IF n = s.pat THEN <<>> ELSE <<s.pat[Len(n) + 1]>>
  BY DEF NewRoute
<1>. HIDE DEF ch
<1>4. CASE n = s.pat
  <2>1. ch = <<>>
    BY <1>3, <1>4
  <2>. QED
    BY <2>1 DEF Rng, ch
<1>5. CASE n # s.pat
  <2>1. Len(n) < Len(s.pat)
    <3>1. Len(n) # Len(s.pat)
      BY <1>1, <1>2, <1>5, PrefixEnds
    <3>. QED
      BY <1>1, <1>2, <3>1
  <2> DEFINE x == s.pat[Len(n) + 1]
  <2>2. x \in STRING
    BY <1>1, <1>2, <2>1
  <2>3. Append(n, x) = SubSeq(s.pat, 1, Len(n) + 1)
    <3>1. Len(n) \in Nat
      BY <1>2
    <3>2. Append(SubSeq(s.pat, 1, Len(n)), x) = SubSeq(s.pat, 1, Len(n) + 1)
      BY <1>1, <2>1, <3>1, PrefixStep
    <3>. QED
      BY <1>2, <3>2
  <2>4. Len(n) + 1 \in 0..Len(s.pat)
    BY <1>1, <1>2, <2>1
  <2>5. Append(n, x) \in DOMAIN NewRoute(s, k)
    BY <2>3, <2>4, NewRouteNodes
  <2>. HIDE DEF x
  <2>6. ch = <<x>>
    BY <1>3, <1>5 DEF x
  <2>7. ch \in Seq(STRING) /\ Rng(ch) = {x}
    <3>1. <<x>> \in Seq(STRING) /\ Rng(<<x>>) = {x}
      BY <2>2, SingleFacts, Zenon
    <3>. QED
      BY <2>6, <3>1
  <2>. QED
    BY <2>5, <2>7 DEF ch
<1>. QED
  BY <1>4, <1>5

\* Registration s with number k = Len(regs) + 1.
Adds(s) ==
    /\ root[<<>>].children = <<s.pat[1]>>
    /\ regs' = Append(regs, s)
    /\ root' = Merge(root, NewRoute(s, Len(regs) + 1))

\* The list of registrations after one more.
LEMMA AddsRegs ==
    ASSUME RootOK, NEW s \in Specs, Adds(s)
    PROVE  /\ regs' \in Seq(Specs) /\ DOMAIN regs' = 1..(Len(regs) + 1)
           /\ DOMAIN regs = 1..Len(regs) /\ Len(regs) \in Nat
           /\ regs'[Len(regs) + 1] = s
           /\ \A j \in 1..Len(regs) : regs'[j] = regs[j]
<1>1. regs \in Seq(Specs)
  BY DEF RootOK
<1>2. regs' = Append(regs, s)
  BY DEF Adds
<1>3. /\ Append(regs, s) \in Seq(Specs)
      /\ Len(Append(regs, s)) = Len(regs) + 1
      /\ Append(regs, s)[Len(regs) + 1] = s
      /\ \A i \in 1..Len(regs) : Append(regs, s)[i] = regs[i]
  BY <1>1, AppendFacts
<1>4. DOMAIN Append(regs, s) = 1..(Len(regs) + 1)
  BY <1>3
<1>. QED
  BY <1>1, <1>2, <1>3, <1>4

\* The nodes after one more registration.
LEMMA AddsNodes ==
    ASSUME NEW s \in Specs, Adds(s)
    PROVE  /\ DOMAIN root' = DOMAIN root \cup DOMAIN NewRoute(s, Len(regs) + 1)
           /\ \A n \in DOMAIN root' :
                 root'[n] =
                     IF n \notin DOMAIN NewRoute(s, Len(regs) + 1)
                     THEN root[n]
                     ELSE IF n \notin DOMAIN root
                     THEN NewRoute(s, Len(regs) + 1)[n]
                     ELSE MergeFrom(root[n], NewRoute(s, Len(regs) + 1)[n])
  BY DEF Adds, Merge

\* A registered pattern is a node, and so is every prefix of it.
LEMMA RegisteredNodes ==
    ASSUME RootOK, NEW j \in DOMAIN regs
    PROVE  /\ regs[j] \in Specs
           /\ regs[j].pat \in DOMAIN root
           /\ \A n : j \in Hooked(regs, n) => n \in DOMAIN root
<1>1. regs[j] \in Specs
  BY DEF RootOK
<1>2. /\ regs[j].pat \in Seq(STRING) /\ Len(regs[j].pat) \in Nat
      /\ regs[j].hook \in Nat /\ regs[j].hook <= Len(regs[j].pat)
  BY <1>1, SpecFacts
<1>3. \A d \in 0..Len(regs[j].pat) : SubSeq(regs[j].pat, 1, d) \in DOMAIN root
  BY DEF RootOK, Registered
<1>4. regs[j].pat \in DOMAIN root
  <2>1. SubSeq(regs[j].pat, 1, Len(regs[j].pat)) = regs[j].pat
    BY <1>2, PrefixEnds
  <2>2. Len(regs[j].pat) \in 0..Len(regs[j].pat)
    BY <1>2
  <2>. QED
    BY <1>3, <2>1, <2>2
<1>5. ASSUME NEW n, j \in Hooked(regs, n) PROVE n \in DOMAIN root
  <2>1. regs[j].hook = Len(n) /\ SubSeq(regs[j].pat, 1, Len(n)) = n
    BY <1>5 DEF Hooked
  <2>2. Len(n) \in 0..Len(regs[j].pat)
    BY <1>2, <2>1
  <2>. QED
    BY <1>3, <2>1, <2>2
<1>. QED
  BY <1>1, <1>4, <1>5

\* A registration does not take a method from an earlier one.
LEMMA ServesKept ==
    ASSUME RootOK, NEW s \in Specs, Adds(s), NEW j, NEW n, NEW m,
           Serves(regs, j, n, m)
    PROVE  Serves(regs', j, n, m)
<1> DEFINE l == Len(regs)
<1>1. /\ l \in Nat /\ DOMAIN regs = 1..l /\ DOMAIN regs' = 1..(l + 1)
      /\ \A i \in 1..l : regs'[i] = regs[i]
  BY AddsRegs
<1>. HIDE DEF l
<1>2. /\ j \in 1..l /\ regs[j].pat = n /\ regs[j].method = m
      /\ \A i \in 1..(j - 1) : ~(regs[i].pat = n /\ regs[i].method = m)
  BY <1>1 DEF Serves
<1>3. j \in 1..(l + 1) /\ \A i \in 1..(j - 1) : i \in 1..l
  BY <1>1, <1>2
<1>. QED
  BY <1>1, <1>2, <1>3 DEF Serves

LEMMA ServesNew ==
    ASSUME RootOK, NEW s \in Specs, Adds(s),
           \A j \in DOMAIN regs :
               ~(regs[j].pat = s.pat /\ regs[j].method = s.method)
    PROVE  Serves(regs', Len(regs) + 1, s.pat, s.method)
<1> DEFINE l == Len(regs)
<1>1. /\ l \in Nat /\ DOMAIN regs = 1..l /\ DOMAIN regs' = 1..(l + 1)
      /\ regs'[l + 1] = s
      /\ \A i \in 1..l : regs'[i] = regs[i]
  BY AddsRegs
<1>. SUFFICES Serves(regs', l + 1, s.pat, s.method)
  OBVIOUS
<1>. HIDE DEF l
<1>2. l + 1 \in 1..(l + 1) /\ \A i \in 1..(l + 1 - 1) : i \in 1..l
  BY <1>1
<1>. QED
  BY <1>1, <1>2 DEF Serves

\* A registration hooks its middleware on one node of its own.
LEMMA HookedGrows ==
    ASSUME RootOK, NEW s \in Specs, Adds(s), NEW n
    PROVE  LET k == Len(regs) + 1
           IN  Hooked(regs', n) =
                   IF /\ n \in DOMAIN NewRoute(s, k)
                      /\ n # <<>> /\ Len(n) = s.hook
                   THEN Hooked(regs, n) \cup {k} ELSE Hooked(regs, n)
<1> DEFINE l == Len(regs)
           k == l + 1
           here == n # <<>> /\ Len(n) = s.hook
           mine == here /\ SubSeq(s.pat, 1, Len(n)) = n
<1>1. /\ l \in Nat /\ DOMAIN regs = 1..l /\ DOMAIN regs' = 1..k
      /\ regs'[k] = s
      /\ \A i \in 1..l : regs'[i] = regs[i]
  BY AddsRegs
<1>2. here => (n \in DOMAIN NewRoute(s, k) <=> SubSeq(s.pat, 1, Len(n)) = n)
  <2>. SUFFICES ASSUME here
                PROVE  n \in DOMAIN NewRoute(s, k)
                           <=> SubSeq(s.pat, 1, Len(n)) = n
    OBVIOUS
  <2>1. Len(n) \in 0..Len(s.pat)
    BY SpecFacts
  <2>. QED
    BY <2>1, NewRouteNodes
<1>3. 1..k = (1..l) \cup {k} /\ k \notin 1..l
  BY <1>1
<1>. HIDE DEF l, k
<1>4. Hooked(regs', n) =
          {j \in 1..k : /\ n # <<>> /\ regs'[j].hook = Len(n)
                        /\ SubSeq(regs'[j].pat, 1, Len(n)) = n}
  BY <1>1 DEF Hooked
<1>5. Hooked(regs, n) =
          {j \in 1..l : /\ n # <<>> /\ regs[j].hook = Len(n)
                        /\ SubSeq(regs[j].pat, 1, Len(n)) = n}
  BY <1>1 DEF Hooked
<1>6. \A j \in 1..l : j \in Hooked(regs', n) <=> j \in Hooked(regs, n)
  BY <1>1, <1>3, <1>4, <1>5
<1>7. k \in Hooked(regs', n) <=> mine
  BY <1>1, <1>3, <1>4
<1>8. /\ Hooked(regs', n) \subseteq (1..l) \cup {k}
      /\ Hooked(regs, n) \subseteq 1..l
  BY <1>3, <1>4, <1>5
<1>. HIDE DEF mine
<1>9. Hooked(regs', n) = IF mine THEN Hooked(regs, n) \cup {k}
                                 ELSE Hooked(regs, n)
  <2>1. CASE mine
    <3>1. \A j : j \in Hooked(regs', n) <=> j \in Hooked(regs, n) \cup {k}
      BY <1>6, <1>7, <1>8, <2>1
    <3>. QED
      BY <2>1, <3>1
  <2>2. CASE ~mine
    <3>1. \A j : j \in Hooked(regs', n) <=> j \in Hooked(regs, n)
      BY <1>6, <1>7, <1>8, <2>2
    <3>. QED
      BY <2>2, <3>1
  <2>. QED
    BY <2>1, <2>2
<1>. QED
  BY <1>2, <1>9 DEF k, l, mine

\* Middlewares are pushed, so they stay in the order of registration.
LEMMA PushKept ==
    ASSUME NEW a \in Seq(Nat), Increasing(a), NEW k \in Nat,
           \A x \in Rng(a) : x < k
    PROVE  /\ a \o <<k>> \in Seq(Nat) /\ Increasing(a \o <<k>>)
           /\ Rng(a \o <<k>>) = Rng(a) \cup {k}
<1> DEFINE l == Len(a)
           b == a \o <<k>>
<1>1. /\ b \in Seq(Nat) /\ Len(b) = l + 1 /\ l \in Nat /\ b[l + 1] = k
  OBVIOUS
<1>2. \A i \in 1..l : b[i] = a[i]
  OBVIOUS
<1>3. DOMAIN b = 1..(l + 1) /\ DOMAIN a = 1..l
  BY <1>1
<1>. HIDE DEF b, l
<1>4. \A i \in 1..l : a[i] < k
  BY <1>3 DEF Rng
<1>5. Increasing(b)
  <2>. SUFFICES ASSUME NEW i \in 1..(l + 1), NEW j \in 1..(l + 1), i < j
                PROVE  b[i] < b[j]
    BY <1>3 DEF Increasing
  <2>1. i \in 1..l
    BY <1>1
  <2>2. CASE j = l + 1
    BY <1>1, <1>2, <1>4, <2>1, <2>2
  <2>3. CASE j # l + 1
    <3>1. j \in 1..l
      BY <1>1, <2>3
    <3>2. a[i] < a[j]
      BY <1>3, <2>1, <3>1 DEF Increasing
    <3>. QED
      BY <1>2, <2>1, <3>1, <3>2
  <2>. QED
    BY <2>2, <2>3
<1>6. Rng(b) = Rng(a) \cup {k}
  <2>1. Rng(b) = {b[i] : i \in 1..(l + 1)} /\ Rng(a) = {a[i] : i \in 1..l}
    BY <1>3 DEF Rng
  <2>2. 1..(l + 1) = (1..l) \cup {l + 1}
    BY <1>1
  <2>3. {b[i] : i \in 1..(l + 1)} = {b[i] : i \in 1..l} \cup {b[l + 1]}
    BY <2>2
  <2>4. {b[i] : i \in 1..l} = {a[i] : i \in 1..l}
    BY <1>2
  <2>. QED
    BY <1>1, <2>1, <2>3, <2>4
<1>. QED
  BY <1>1, <1>5, <1>6 DEF b

\* The handlers of a node after a registration: or_insert keeps the first.
LEMMA AddsHandlers ==
    ASSUME RootOK, NEW s \in Specs, Adds(s), NEW n \in DOMAIN root'
    PROVE  /\ HandlersOK(regs', n, root'[n].handler)
           /\ n = s.pat => s.method \in DOMAIN root'[n].handler
           /\ n \in DOMAIN root =>
                 DOMAIN root[n].handler \subseteq DOMAIN root'[n].handler
<1> DEFINE k == Len(regs) + 1
           new == NewRoute(s, k)
           h == root'[n].handler
           old == root[n].handler
           mine == [m \in {s.method} |-> k]
<1>1. /\ DOMAIN root' = DOMAIN root \cup DOMAIN new
      /\ root'[n] = IF n \notin DOMAIN new THEN root[n]
                    ELSE IF n \notin DOMAIN root THEN new[n]
                    ELSE MergeFrom(root[n], new[n])
  BY AddsNodes
<1>2. s.pat \in DOMAIN new
  BY NewRouteNodes
<1>3. n \in DOMAIN new =>
          new[n].handler = IF n = s.pat THEN mine ELSE NoHandler
  BY DEF NewRoute
<1>4. n \in DOMAIN root => HandlersOK(regs, n, old)
  BY DEF RootOK, NodeOK
<1>5. ASSUME n \in DOMAIN root, NEW m \in DOMAIN old
      PROVE  Serves(regs', old[m], n, m)
  <2>1. Serves(regs, old[m], n, m)
    BY <1>4, <1>5 DEF HandlersOK
  <2>. QED
    BY <2>1, ServesKept
<1>6. (n = s.pat /\ (n \in DOMAIN root => s.method \notin DOMAIN old))
          => Serves(regs', k, n, s.method)
  <2>. SUFFICES ASSUME n = s.pat,
                       n \in DOMAIN root => s.method \notin DOMAIN old,
                       NEW j \in DOMAIN regs,
                       regs[j].pat = s.pat, regs[j].method = s.method
                PROVE  FALSE
    BY ServesNew
  <2>1. n \in DOMAIN root
    BY RegisteredNodes
  <2>2. regs[j].method \in DOMAIN root[regs[j].pat].handler
    BY DEF RootOK, Registered
  <2>. QED
    BY <2>1, <2>2
<1>. HIDE DEF new, k
<1>7. CASE n \notin DOMAIN new
  <2>1. h = old /\ n \in DOMAIN root /\ n # s.pat
    BY <1>1, <1>2, <1>7
  <2>2. HandlersOK(regs', n, old)
    BY <1>4, <1>5, <2>1 DEF HandlersOK
  <2>. QED
    BY <2>1, <2>2
<1>8. CASE n \in DOMAIN new /\ n \notin DOMAIN root
  <2>1. h = IF n = s.pat THEN mine ELSE NoHandler
    BY <1>1, <1>3, <1>8
  <2>2. CASE n = s.pat
    <3>1. h = mine /\ Serves(regs', k, n, s.method)
      BY <1>6, <1>8, <2>1, <2>2
    <3>2. HandlersOK(regs', n, mine)
      BY <3>1 DEF HandlersOK
    <3>. QED
      BY <1>8, <3>1, <3>2
  <2>3. CASE n # s.pat
    <3>1. h = NoHandler
      BY <2>1, <2>3
    <3>2. HandlersOK(regs', n, NoHandler)
      BY DEF HandlersOK, NoHandler
    <3>. QED
      BY <1>8, <2>3, <3>1, <3>2
  <2>. QED
    BY <2>2, <2>3
<1>9. CASE n \in DOMAIN new /\ n \in DOMAIN root
  <2>1. h = InsertHandlers(old, new[n].handler)
    BY <1>1, <1>9 DEF MergeFrom
  <2>2. CASE n = s.pat
    <3>1. h = InsertHandlers(old, mine)
      BY <1>3, <1>9, <2>1, <2>2
    <3>2. /\ DOMAIN h = DOMAIN old \cup {s.method}
          /\ h = [m \in DOMAIN h |-> h[m]]
          /\ \A m \in DOMAIN h : h[m] = IF m \in DOMAIN old THEN old[m] ELSE k
      BY <3>1 DEF InsertHandlers
    <3>. HIDE DEF h, old
    <3>3. ASSUME NEW m \in DOMAIN h PROVE Serves(regs', h[m], n, m)
      <4>1. CASE m \in DOMAIN old
        BY <1>5, <1>9, <3>2, <4>1
      <4>2. CASE m \notin DOMAIN old
        <5>1. m = s.method /\ h[m] = k
          BY <3>2, <4>2
        <5>. QED
          BY <1>6, <2>2, <4>2, <5>1
      <4>. QED
        BY <4>1, <4>2
    <3>4. HandlersOK(regs', n, h)
      BY <3>2, <3>3 DEF HandlersOK
    <3>. QED
      BY <3>2, <3>4 DEF h, old
  <2>3. CASE n # s.pat
    <3>1. h = InsertHandlers(old, NoHandler)
      BY <1>3, <1>9, <2>1, <2>3
    <3>2. /\ DOMAIN h = DOMAIN old
          /\ h = [m \in DOMAIN h |-> h[m]]
          /\ \A m \in DOMAIN h : h[m] = old[m]
      BY <3>1 DEF InsertHandlers, NoHandler
    <3>. HIDE DEF h, old
    <3>3. ASSUME NEW m \in DOMAIN h PROVE Serves(regs', h[m], n, m)
      BY <1>5, <1>9, <3>2
    <3>4. HandlersOK(regs', n, h)
      BY <3>2, <3>3 DEF HandlersOK
    <3>. QED
      BY <2>3, <3>2, <3>4 DEF h, old
  <2>. QED
    BY <2>2, <2>3
<1>. QED
  BY <1>7, <1>8, <1>9

\* The middlewares of a node after a registration: pushed at the end.
LEMMA AddsMiddlewares ==
    ASSUME RootOK, NEW s \in Specs, Adds(s), NEW n \in DOMAIN root'
    PROVE  MiddlewaresOK(regs', n, root'[n].mws)
<1> DEFINE k == Len(regs) + 1
           new == NewRoute(s, k)
           old == root[n].mws
           here == n # <<>> /\ Len(n) = s.hook
<1>1. /\ DOMAIN root' = DOMAIN root \cup DOMAIN new
      /\ root'[n] = IF n \notin DOMAIN new THEN root[n]
                    ELSE IF n \notin DOMAIN root THEN new[n]
                    ELSE MergeFrom(root[n], new[n])
  BY AddsNodes
<1>2. n \in DOMAIN new => new[n].mws = IF here THEN <<k>> ELSE <<>>
  BY DEF NewRoute
<1>3. Hooked(regs', n) = IF n \in DOMAIN new /\ here
                         THEN Hooked(regs, n) \cup {k} ELSE Hooked(regs, n)
  BY HookedGrows
<1>4. n \in DOMAIN root => MiddlewaresOK(regs, n, old)
  BY DEF RootOK, NodeOK
<1>5. k \in Nat /\ \A j \in Hooked(regs, n) : j < k
  BY DEF Hooked, RootOK
<1>6. n \notin DOMAIN root => Hooked(regs, n) = {}
  BY RegisteredNodes DEF Hooked
<1>. HIDE DEF new, k, here
<1>7. <<>> \in Seq(Nat) /\ Increasing(<<>>) /\ Rng(<<>>) = {}
  BY DEF Increasing, Rng
<1>8. CASE n \notin DOMAIN new
  BY <1>1, <1>3, <1>4, <1>8 DEF MiddlewaresOK
<1>9. CASE n \in DOMAIN new /\ n \notin DOMAIN root
  <2>1. root'[n].mws = IF here THEN <<k>> ELSE <<>>
    BY <1>1, <1>2, <1>9
  <2>2. CASE here
    <3>1. Hooked(regs', n) = {k}
      BY <1>3, <1>6, <1>9, <2>2
    <3>2. <<k>> \in Seq(Nat) /\ Rng(<<k>>) = {k} /\ Len(<<k>>) = 1
      BY <1>5, SingleFacts
    <3>3. Increasing(<<k>>)
      BY <3>2 DEF Increasing
    <3>. QED
      BY <2>1, <2>2, <3>1, <3>2, <3>3 DEF MiddlewaresOK
  <2>3. CASE ~here
    <3>1. Hooked(regs', n) = {} /\ root'[n].mws = <<>>
      BY <1>3, <1>6, <1>9, <2>1, <2>3
    <3>. QED
      BY <1>7, <3>1 DEF MiddlewaresOK
  <2>. QED
    BY <2>2, <2>3
<1>10. CASE n \in DOMAIN new /\ n \in DOMAIN root
  <2>1. root'[n].mws = old \o new[n].mws
    <3>1. root'[n] = MergeFrom(root[n], new[n])
      BY <1>1, <1>10
    <3>2. MergeFrom(root[n], new[n]).mws = root[n].mws \o new[n].mws
      BY DEF MergeFrom
    <3>. QED
      BY <3>1, <3>2
  <2>2. old \in Seq(Nat) /\ Increasing(old) /\ Rng(old) = Hooked(regs, n)
    BY <1>4, <1>10 DEF MiddlewaresOK
  <2>. HIDE DEF old
  <2>3. CASE here
    <3>1. root'[n].mws = old \o <<k>> /\ Hooked(regs', n) = Rng(old) \cup {k}
      BY <1>2, <1>3, <1>10, <2>1, <2>2, <2>3
    <3>2. /\ old \o <<k>> \in Seq(Nat) /\ Increasing(old \o <<k>>)
          /\ Rng(old \o <<k>>) = Rng(old) \cup {k}
      BY <1>5, <2>2, PushKept
    <3>. QED
      BY <3>1, <3>2 DEF MiddlewaresOK
  <2>4. CASE ~here
    <3>1. root'[n].mws = old \o <<>> /\ Hooked(regs', n) = Rng(old)
      BY <1>2, <1>3, <1>10, <2>1, <2>2, <2>4
    <3>2. old \o <<>> = old
      BY <2>2
    <3>. QED
      BY <2>2, <3>1, <3>2 DEF MiddlewaresOK
  <2>. QED
    BY <2>3, <2>4
<1>. QED
  BY <1>8, <1>9, <1>10

\* The children of a node after a registration are nodes.
LEMMA AddsChildren ==
    ASSUME RootOK, NEW s \in Specs, Adds(s), NEW n \in DOMAIN root'
    PROVE  ChildrenOK(DOMAIN root', n, root'[n].children)
<1> DEFINE k == Len(regs) + 1
           new == NewRoute(s, k)
           a == root[n].children
           b == new[n].children
<1>1. /\ DOMAIN root' = DOMAIN root \cup DOMAIN new
      /\ root'[n] = IF n \notin DOMAIN new THEN root[n]
                    ELSE IF n \notin DOMAIN root THEN new[n]
                    ELSE MergeFrom(root[n], new[n])
  BY AddsNodes
<1>2. n \in DOMAIN new => b \in Seq(STRING)
                          /\ \A c \in Rng(b) : Append(n, c) \in DOMAIN new
  BY NewRouteChild
<1>3. n \in DOMAIN root => a \in Seq(STRING)
                           /\ \A c \in Rng(a) : Append(n, c) \in DOMAIN root
  BY DEF RootOK, NodeOK, ChildrenOK
<1>4. n \in DOMAIN new /\ n \in DOMAIN root =>
          root'[n].children = IF Rng(b) \subseteq Rng(a) THEN a ELSE a \o b
  BY <1>1 DEF MergeFrom, MergeChild
<1>5. n \in DOMAIN new /\ n \in DOMAIN root =>
          a \o b \in Seq(STRING) /\ Rng(a \o b) \subseteq Rng(a) \cup Rng(b)
  BY <1>2, <1>3, JoinFacts
<1>. HIDE DEF new, b, a
<1>6. CASE n \notin DOMAIN new
  BY <1>1, <1>3, <1>6 DEF ChildrenOK, a
<1>7. CASE n \in DOMAIN new /\ n \notin DOMAIN root
  BY <1>1, <1>2, <1>7 DEF ChildrenOK, b
<1>8. CASE n \in DOMAIN new /\ n \in DOMAIN root
  BY <1>1, <1>2, <1>3, <1>4, <1>5, <1>8 DEF ChildrenOK
<1>. QED
  BY <1>6, <1>7, <1>8

\* The root Route keeps its own segment.
LEMMA AddsRootChild ==
    ASSUME RootOK, NEW s \in Specs, Adds(s)
    PROVE  root'[<<>>].children = root[<<>>].children
<1> DEFINE k == Len(regs) + 1
           new == NewRoute(s, k)
           a == root[<<>>].children
<1>1. s.pat \in Seq(STRING) /\ Len(s.pat) > 0
  BY SpecFacts
<1>2. <<>> \in DOMAIN root /\ <<>> \in DOMAIN new
  <2>1. SubSeq(s.pat, 1, 0) = <<>> /\ 0 \in 0..Len(s.pat)
    BY <1>1, PrefixEnds
  <2>2. SubSeq(s.pat, 1, 0) \in DOMAIN new
    BY <2>1, NewRouteNodes
  <2>. QED
    BY <2>1, <2>2 DEF RootOK
<1>3. new[<<>>].children = <<s.pat[1]>>
  <2>1. <<>> # s.pat /\ Len(<<>>) + 1 = 1
    BY <1>1
  <2>. QED
    BY <1>2, <2>1 DEF NewRoute
<1>4. root'[<<>>] = MergeFrom(root[<<>>], new[<<>>])
  BY <1>2, AddsNodes
<1>5. new[<<>>].children = a
  BY <1>3 DEF Adds
<1>. HIDE DEF new, a
<1>6. root'[<<>>].children = MergeChild(a, new[<<>>].children)
  BY <1>4 DEF MergeFrom, a
<1>. QED
  BY <1>5, <1>6 DEF MergeChild, a

\* A registration goes into the Route, and none is lost from it.
LEMMA AddsRoot ==
    ASSUME RootOK, NEW s \in Specs, Adds(s)
    PROVE  RootOK'
<1> DEFINE l == Len(regs)
           new == NewRoute(s, l + 1)
<1>1. /\ regs' \in Seq(Specs) /\ DOMAIN regs' = 1..(l + 1)
      /\ DOMAIN regs = 1..l /\ l \in Nat /\ regs'[l + 1] = s
      /\ \A j \in 1..l : regs'[j] = regs[j]
  BY AddsRegs
<1>2. DOMAIN root' = DOMAIN root \cup DOMAIN new
  BY AddsNodes
<1>3. ASSUME NEW n \in DOMAIN root'
      PROVE  NodeOK(regs', DOMAIN root', n, root'[n])
  <2>1. n \in Seq(STRING)
    BY <1>2, NewRouteNodes DEF RootOK, NodeOK
  <2>2. \A d \in 0..Len(n) : SubSeq(n, 1, d) \in DOMAIN root'
    <3>. SUFFICES ASSUME NEW d \in 0..Len(n)
                  PROVE  SubSeq(n, 1, d) \in DOMAIN root'
      OBVIOUS
    <3>1. CASE n \in DOMAIN root
      BY <1>2, <3>1 DEF RootOK, NodeOK
    <3>2. CASE n \in DOMAIN new
      <4>1. n = SubSeq(s.pat, 1, Len(n)) /\ Len(n) \in 0..Len(s.pat)
        BY <3>2, NewRouteNodes
      <4>2. s.pat \in Seq(STRING)
        BY SpecFacts
      <4>3. SubSeq(n, 1, d) = SubSeq(s.pat, 1, d)
        BY <4>1, <4>2, PrefixOfPrefix
      <4>4. d \in 0..Len(s.pat)
        BY <4>1, <4>2
      <4>. QED
        BY <1>2, <4>3, <4>4, NewRouteNodes
    <3>. QED
      BY <1>2, <3>1, <3>2
  <2>. QED
    BY <2>1, <2>2, AddsHandlers, AddsMiddlewares, AddsChildren DEF NodeOK
<1>4. ASSUME NEW j \in DOMAIN regs'
      PROVE  Registered(DOMAIN root', regs'[j], root'[regs'[j].pat].handler)
  <2>1. CASE j = l + 1
    <3>1. /\ \A d \in 0..Len(s.pat) : SubSeq(s.pat, 1, d) \in DOMAIN new
          /\ s.pat \in DOMAIN new
      BY NewRouteNodes
    <3>2. s.method \in DOMAIN root'[s.pat].handler
      BY <1>2, <3>1, AddsHandlers
    <3>3. regs'[j] = s
      BY <1>1, <2>1
    <3>. HIDE DEF new
    <3>. QED
      BY <1>2, <3>1, <3>2, <3>3 DEF Registered
  <2>2. CASE j # l + 1
    <3>1. j \in DOMAIN regs /\ regs'[j] = regs[j]
      BY <1>1, <2>2
    <3>2. Registered(DOMAIN root, regs[j], root[regs[j].pat].handler)
      BY <3>1 DEF RootOK
    <3>3. regs[j].pat \in DOMAIN root
      BY <3>1, RegisteredNodes
    <3>4. DOMAIN root[regs[j].pat].handler
              \subseteq DOMAIN root'[regs[j].pat].handler
      BY <1>2, <3>3, AddsHandlers
    <3>. QED
      BY <1>2, <3>1, <3>2, <3>4 DEF Registered
  <2>. QED
    BY <2>1, <2>2
<1>5. <<>> \in DOMAIN root'
  BY <1>2 DEF RootOK
<1>6. UnderRoot'
  <2>1. PICK b \in STRING : /\ root[<<>>].children = <<b>>
                            /\ \A j \in DOMAIN regs : regs[j].pat[1] = b
    BY DEF RootOK, UnderRoot
  <2>2. s.pat[1] = b
    BY <2>1 DEF Adds
  <2>3. \A j \in DOMAIN regs' : regs'[j].pat[1] = b
    <3>. SUFFICES ASSUME NEW j \in 1..(l + 1) PROVE regs'[j].pat[1] = b
      BY <1>1
    <3>1. j = l + 1 \/ j \in 1..l
      BY <1>1
    <3>. QED
      BY <1>1, <2>1, <2>2, <3>1
  <2>4. root'[<<>>].children = <<b>>
    BY <2>1, <2>2, AddsRootChild
  <2>. QED
    BY <2>3, <2>4 DEF UnderRoot
<1>. QED
  BY <1>1, <1>3, <1>4, <1>5, <1>6 DEF RootOK

-----------------------------------------------------------------------------
(* Routing: the conversion                                                 *)

\* A non-empty set of numbers has a least one.
LEMMA LeastNumber ==
    ASSUME NEW T \in SUBSET Nat, T # {}
    PROVE  \E x \in T : \A y \in T : x <= y
<1>. DEFINE R == {q \in Nat \X Nat : q[1] < q[2]}
<1>1. IsWellFoundedOn(R, Nat)
  BY NatLessThanWellFounded, Zenon DEF OpToRel
<1>. HIDE DEF R
<1>2. PICK x \in T : \A y \in T : ~(<<y, x>> \in R)
  BY <1>1, WFMin, Zenon
<1>3. ASSUME NEW y \in T PROVE x <= y
  <2>1. <<y, x>> \in Nat \X Nat /\ <<y, x>>[1] = y /\ <<y, x>>[2] = x
    OBVIOUS
  <2>2. ~(y < x)
    BY <1>2, <2>1 DEF R
  <2>. QED
    BY <2>2
<1>. QED
  BY <1>3

\* The chain that grows from list to list of w.
Grown(w, l, f) ==
    [i \in 0..l |-> IF i = 0 THEN <<>> ELSE f[i - 1] \o w[i - 1]]

\* There is such a chain, of any length ...
LEMMA GrownExists ==
    ASSUME NEW w, NEW l \in Nat
    PROVE  \E f : f = Grown(w, l, f)
<1> DEFINE Bad == {d \in Nat : ~\E f : f = Grown(w, d, f)}
<1>. SUFFICES ASSUME l \in Bad PROVE FALSE
  OBVIOUS
<1>1. PICK x \in Bad : \A y \in Bad : x <= y
  <2>1. Bad \in SUBSET Nat /\ Bad # {}
    OBVIOUS
  <2>. HIDE DEF Bad
  <2>. QED
    BY <2>1, LeastNumber
<1>2. x \in Nat /\ ~\E f : f = Grown(w, x, f)
  OBVIOUS
<1>3. CASE x = 0
  <2> DEFINE f == [i \in 0..0 |-> <<>>]
  <2>1. f = Grown(w, 0, f)
    BY DEF Grown
  <2>. QED
    BY <1>2, <1>3, <2>1
<1>4. CASE x # 0
  <2>1. x - 1 \in Nat /\ x - 1 \notin Bad
    BY <1>1, <1>2, <1>4
  <2>2. PICK f : f = Grown(w, x - 1, f)
    BY <2>1
  <2> DEFINE g == [i \in 0..x |-> IF i = x THEN f[x - 1] \o w[x - 1]
                                            ELSE f[i]]
  <2>3. g = Grown(w, x, g)
    <3>. SUFFICES ASSUME NEW i \in 0..x
                  PROVE  g[i] = IF i = 0 THEN <<>> ELSE g[i - 1] \o w[i - 1]
      BY DEF Grown
    <3>1. CASE i = 0
      <4>1. g[0] = f[0] /\ 0 \in 0..(x - 1)
        BY <1>2, <1>4
      <4>2. f[0] = <<>>
        BY <2>2, <4>1 DEF Grown
      <4>. QED
        BY <3>1, <4>1, <4>2
    <3>2. CASE i = x
      <4>1. g[x] = f[x - 1] \o w[x - 1] /\ g[x - 1] = f[x - 1]
        BY <1>2, <1>4
      <4>. QED
        BY <1>4, <3>2, <4>1
    <3>3. CASE i # 0 /\ i # x
      <4>1. /\ i \in 0..(x - 1) /\ i - 1 \in 0..x /\ i - 1 # x
            /\ g[i] = f[i] /\ g[i - 1] = f[i - 1]
        BY <1>2, <3>3
      <4>2. f[i] = f[i - 1] \o w[i - 1]
        BY <2>2, <3>3, <4>1 DEF Grown
      <4>. QED
        BY <3>3, <4>1, <4>2
    <3>. QED
      BY <3>1, <3>2, <3>3
  <2>. QED
    BY <1>2, <2>3
<1>. QED
  BY <1>3, <1>4

\* ... and it is a sequence all along.
LEMMA GrownType ==
    ASSUME NEW S, NEW l \in Nat, NEW w, \A i \in 0..(l - 1) : w[i] \in Seq(S),
           NEW f, f = Grown(w, l, f)
    PROVE  f[l] \in Seq(S)
<1> DEFINE Bad == {d \in 0..l : f[d] \notin Seq(S)}
<1>. SUFFICES ASSUME l \in Bad PROVE FALSE
  OBVIOUS
<1>1. PICK x \in Bad : \A y \in Bad : x <= y
  <2>1. Bad \in SUBSET Nat /\ Bad # {}
    OBVIOUS
  <2>. HIDE DEF Bad
  <2>. QED
    BY <2>1, LeastNumber
<1>2. x \in 0..l /\ f[x] \notin Seq(S)
  OBVIOUS
<1>3. f[x] = IF x = 0 THEN <<>> ELSE f[x - 1] \o w[x - 1]
  BY <1>2 DEF Grown
<1>4. x # 0
  <2>1. <<>> \in Seq(S)
    OBVIOUS
  <2>. QED
    BY <1>2, <1>3, <2>1
<1>5. x - 1 \in 0..l /\ x - 1 \notin Bad /\ x - 1 \in 0..(l - 1)
  BY <1>1, <1>2, <1>4
<1>6. f[x - 1] \in Seq(S) /\ w[x - 1] \in Seq(S)
  BY <1>5
<1>7. f[x - 1] \o w[x - 1] \in Seq(S)
  BY <1>6, JoinFacts
<1>. QED
  BY <1>2, <1>3, <1>4, <1>7

LEMMA HookFirstType ==
    ASSUME RootOK, NEW n \in DOMAIN root
    PROVE  HookFirst(n) \in Seq(Nat)
<1>1. root[n].mws \in Seq(Nat)
  BY DEF RootOK, NodeOK, MiddlewaresOK
<1>2. <<0>> \in Seq(Nat)
  BY SingleFacts
<1>. QED
  BY <1>1, <1>2, JoinFacts DEF HookFirst

\* The middlewares a node inherits are a sequence, so the node's own come
\* right after them.
LEMMA InheritedType ==
    ASSUME RootOK, NEW n \in DOMAIN root
    PROVE  Inherited(n) \in Seq(Nat)
<1> DEFINE w == [i \in 0..Len(n) |-> HookFirst(SubSeq(n, 1, i))]
           above[i \in 0..Len(n)] ==
               IF i = 0 THEN <<>>
               ELSE above[i - 1] \o HookFirst(SubSeq(n, 1, i - 1))
<1>1. n \in Seq(STRING) /\ \A d \in 0..Len(n) : SubSeq(n, 1, d) \in DOMAIN root
  BY DEF RootOK, NodeOK
<1>2. Len(n) \in Nat
  BY <1>1
<1>3. ASSUME NEW d \in 0..Len(n) PROVE w[d] \in Seq(Nat)
  <2>1. SubSeq(n, 1, d) \in DOMAIN root
    BY <1>1
  <2>. QED
    BY <2>1, HookFirstType
<1>4. Inherited(n) = above[Len(n)]
  BY DEF Inherited
<1>5. ASSUME NEW f
      PROVE  Grown(w, Len(n), f) =
                 [i \in 0..Len(n) |->
                     IF i = 0 THEN <<>>
                     ELSE f[i - 1] \o HookFirst(SubSeq(n, 1, i - 1))]
  <2>1. ASSUME NEW i \in 0..Len(n), i # 0
        PROVE  w[i - 1] = HookFirst(SubSeq(n, 1, i - 1))
    <3>1. i - 1 \in 0..Len(n)
      BY <1>2, <2>1
    <3>. QED
      BY <3>1
  <2>. HIDE DEF w
  <2>. QED
    BY <2>1 DEF Grown
<1>. HIDE DEF w
<1>6. above = CHOOSE f : f = Grown(w, Len(n), f)
  BY <1>5
<1>. HIDE DEF above
<1>7. \E f : f = Grown(w, Len(n), f)
  BY <1>2, GrownExists
<1>8. above = Grown(w, Len(n), above)
  BY <1>6, <1>7, Zenon
<1>9. \A i \in 0..(Len(n) - 1) : w[i] \in Seq(Nat)
  BY <1>2, <1>3
<1>10. above[Len(n)] \in Seq(Nat)
  BY <1>2, <1>8, <1>9, GrownType
<1>. QED
  BY <1>4, <1>10

\* What follows the first sequence of two is the second.
LEMMA TailOfJoin ==
    ASSUME NEW S, NEW a \in Seq(S), NEW b \in Seq(S)
    PROVE  SubSeq(a \o b, Len(a) + 1, Len(a \o b)) = b
  OBVIOUS

\* The tree is the root Route, and every node of it runs its own middlewares.
LEMMA ConvertTree ==
    ASSUME RootOK, Convert
    PROVE  TreeOK'
<1>1. tree' = IntoTree /\ root' = root
  BY DEF Convert
<1>2. DOMAIN tree' = DOMAIN root
  BY <1>1 DEF IntoTree
<1>3. ASSUME NEW n \in DOMAIN root
      PROVE  /\ tree'[n].handler = root[n].handler
             /\ tree'[n].children = root[n].children
             /\ Own(n)' = HookFirst(n)'
  <2>1. tree'[n] = [handler |-> root[n].handler,
                    children |-> root[n].children,
                    chain |-> Inherited(n) \o HookFirst(n),
                    start |-> MiddlewareStart(Inherited(n))]
    BY <1>1 DEF IntoTree
  <2>2. Inherited(n) \in Seq(Nat) /\ HookFirst(n) \in Seq(Nat)
    BY InheritedType, HookFirstType
  <2>3. tree'[n].chain = Inherited(n) \o HookFirst(n)
        /\ tree'[n].start = Len(Inherited(n))
    BY <2>1 DEF MiddlewareStart
  <2>4. Own(n)' = HookFirst(n)
    BY <2>2, <2>3, TailOfJoin DEF Own
  <2>5. HookFirst(n)' = HookFirst(n)
    BY <1>1 DEF HookFirst
  <2>. QED
    BY <2>1, <2>4, <2>5
<1>. QED
  BY <1>1, <1>2, <1>3 DEF TreeOK

-----------------------------------------------------------------------------
(* Routing: a request                                                      *)

LEMMA PathFacts ==
    ASSUME NEW p \in Paths
    PROVE  p \in Seq(STRING)
<1>1. p \in Seq(STRING \ {""})
  BY RouteTreeAssumption
<1>2. STRING \ {""} \subseteq STRING
  OBVIOUS
<1>. QED
  BY <1>1, <1>2, SeqSubset, Zenon

\* A node without handlers, middlewares or registrations.
LEMMA EmptyNode ==
    ASSUME NEW nodes, NEW n \in Seq(STRING), NEW node,
           node.handler = NoHandler, node.mws = <<>>,
           \A d \in 0..Len(n) : SubSeq(n, 1, d) \in nodes,
           ChildrenOK(nodes, n, node.children)
    PROVE  NodeOK(<<>>, nodes, n, node)
<1>1. HandlersOK(<<>>, n, NoHandler)
  BY DEF HandlersOK, NoHandler
<1>2. MiddlewaresOK(<<>>, n, <<>>)
  BY DEF MiddlewaresOK, Increasing, Rng, Hooked
<1>. QED
  BY <1>1, <1>2 DEF NodeOK

LEMMA RouteInitInv == RouteInit => RouteInv
<1>. SUFFICES ASSUME RouteInit PROVE RouteInv
  OBVIOUS
<1>0. PICK s \in Specs : root = RootRoute(s.pat[1])
  BY DEF RouteInit
<1> DEFINE b == s.pat[1]
<1>1. b \in STRING
  <2>1. s.pat \in Seq(STRING) /\ Len(s.pat) \in Nat /\ Len(s.pat) > 0
    BY SpecFacts
  <2>. QED
    BY <2>1
<1>. HIDE DEF b
<1>2. /\ regs = <<>> /\ DOMAIN root = {<<>>, <<b>>}
      /\ root[<<>>] = [handler |-> NoHandler, mws |-> <<>>,
                       children |-> <<b>>]
      /\ root[<<b>>] = [handler |-> NoHandler, mws |-> <<>>,
                        children |-> <<>>]
  BY <1>0 DEF RouteInit, RootRoute, b
<1>3. /\ <<>> \in Seq(STRING) /\ <<b>> \in Seq(STRING)
      /\ Len(<<>>) = 0 /\ Len(<<b>>) = 1
      /\ Rng(<<b>>) = {b} /\ Rng(<<>>) = {}
      /\ Append(<<>>, b) = <<b>>
  <2>1. <<b>> \in Seq(STRING) /\ Len(<<b>>) = 1 /\ Rng(<<b>>) = {b}
    BY <1>1, SingleFacts, Zenon
  <2>2. Rng(<<>>) = {}
    BY DEF Rng
  <2>3. /\ <<>> \in Seq(STRING) /\ Len(<<>>) = 0 /\ Append(<<>>, b) = <<b>>
    OBVIOUS
  <2>. QED
    BY <2>1, <2>2, <2>3
<1>4. /\ SubSeq(<<>>, 1, 0) = <<>> /\ SubSeq(<<b>>, 1, 0) = <<>>
      /\ SubSeq(<<b>>, 1, 1) = <<b>>
  <2>1. SubSeq(<<>>, 1, 0) = <<>>
    BY <1>3, PrefixEnds, Zenon
  <2>2. SubSeq(<<b>>, 1, 0) = <<>>
    BY <1>3, PrefixEnds, Zenon
  <2>3. SubSeq(<<b>>, 1, Len(<<b>>)) = <<b>>
    BY <1>3, PrefixEnds, Zenon
  <2>. QED
    BY <1>3, <2>1, <2>2, <2>3
<1>5. NodeOK(<<>>, DOMAIN root, <<>>, root[<<>>])
  <2>1. \A d \in 0..Len(<<>>) : SubSeq(<<>>, 1, d) \in DOMAIN root
    <3>1. \A d \in 0..Len(<<>>) : d = 0
      BY <1>3
    <3>. QED
      BY <1>2, <1>4, <3>1
  <2>2. ChildrenOK(DOMAIN root, <<>>, root[<<>>].children)
    BY <1>2, <1>3 DEF ChildrenOK
  <2>. QED
    BY <1>2, <1>3, <2>1, <2>2, EmptyNode
<1>6. NodeOK(<<>>, DOMAIN root, <<b>>, root[<<b>>])
  <2>1. \A d \in 0..Len(<<b>>) : SubSeq(<<b>>, 1, d) \in DOMAIN root
    <3>1. \A d \in 0..Len(<<b>>) : d = 0 \/ d = 1
      BY <1>3
    <3>. QED
      BY <1>2, <1>4, <3>1
  <2>2. ChildrenOK(DOMAIN root, <<b>>, root[<<b>>].children)
    BY <1>2, <1>3 DEF ChildrenOK
  <2>. QED
    BY <1>2, <1>3, <2>1, <2>2, EmptyNode
<1>7. RootOK
  <2>1. regs \in Seq(Specs) /\ DOMAIN regs = {}
    BY <1>2
  <2>2. UnderRoot
    BY <1>1, <1>2, <2>1 DEF UnderRoot
  <2>. QED
    BY <1>2, <1>5, <1>6, <2>1, <2>2 DEF RootOK
<1>8. WalkTyped
  <2>1. request.path = <<>> /\ phase = "build" /\ reply = NoReply
    BY DEF RouteInit
  <2>. QED
    BY <1>3, <2>1 DEF WalkTyped, NoReply
<1>. QED
  BY <1>7, <1>8 DEF RouteInv, RouteInit, TreeOK, NoReply

\* The tree, the walk and the reply say the same of unchanged variables.
LEMMA SameTree ==
    ASSUME RouteInv, UNCHANGED buildVars
    PROVE  /\ RootOK'
           /\ phase # "build" => TreeOK'
           /\ UNCHANGED <<walkVars, request>> /\ WalkOK => WalkOK'
<1>1. UNCHANGED <<regs, root, tree>>
  BY DEF buildVars
<1>2. RootOK'
  BY <1>1 DEF RouteInv, RootOK, UnderRoot
<1>3. phase # "build" => TreeOK'
  BY <1>1 DEF RouteInv, TreeOK, Own, HookFirst
<1>4. UNCHANGED <<walkVars, request>> /\ WalkOK => WalkOK'
  <2>. SUFFICES ASSUME UNCHANGED <<walkVars, request>>, WalkOK PROVE WalkOK'
    OBVIOUS
  <2>1. UNCHANGED <<at, offset, ran, params, request>>
    BY DEF walkVars
  <2>. QED
    BY <1>1, <2>1 DEF WalkOK, RanOK, HookFirst
<1>. QED
  BY <1>2, <1>3, <1>4

LEMMA AppendRouteInv ==
    ASSUME RouteInv, NEW s \in Specs, AppendRoute(s)
    PROVE  RouteInv'
<1>1. RootOK'
  <2>1. Adds(s) /\ RootOK
    BY DEF AppendRoute, Adds, RouteInv
  <2>. QED
    BY <2>1, AddsRoot
<1>2. /\ phase = "build" /\ phase' = phase /\ reply' = reply
      /\ request' = request /\ reply = NoReply
  BY DEF AppendRoute, RouteInv, WalkTyped
<1>3. WalkTyped'
  BY <1>2 DEF RouteInv, WalkTyped
<1>. QED
  BY <1>1, <1>2, <1>3 DEF RouteInv, TreeOK, NoReply

LEMMA ConvertInv ==
    ASSUME RouteInv, Convert
    PROVE  RouteInv'
<1>1. /\ phase = "build" /\ phase' = "idle" /\ reply' = reply
      /\ regs' = regs /\ root' = root /\ request' = request
      /\ reply = NoReply
  BY DEF Convert, RouteInv, WalkTyped
<1>2. RootOK' /\ TreeOK'
  BY <1>1, ConvertTree DEF RouteInv, RootOK, UnderRoot
<1>3. WalkTyped'
  BY <1>1 DEF RouteInv, WalkTyped
<1>. QED
  BY <1>1, <1>2, <1>3 DEF RouteInv, NoReply

\* The root node, and what the tree says of it.
LEMMA RootNode ==
    ASSUME RouteInv, NEW b, root[<<>>].children = <<b>>
    PROVE  /\ b \in STRING /\ <<b>> \in DOMAIN root /\ <<b>> \in Seq(STRING)
           /\ \A k \in DOMAIN regs : regs[k].pat[1] = b
           /\ Append(<<>>, b) = <<b>> /\ Len(<<b>>) = 1 /\ <<b>> # <<>>
           /\ SegmentOf(<<b>>) = b
           /\ phase # "build" => Child(<<>>, 1) = <<b>>
<1>1. PICK x \in STRING : /\ root[<<>>].children = <<x>>
                          /\ \A k \in DOMAIN regs : regs[k].pat[1] = x
  BY DEF RouteInv, RootOK, UnderRoot
<1>2. b = x
  BY <1>1
<1>3. <<b>> \in Seq(STRING) /\ Len(<<b>>) = 1 /\ Rng(<<b>>) = {b}
  BY <1>1, <1>2, SingleFacts, Zenon
<1>4. /\ Append(<<>>, b) = <<b>> /\ <<b>> # <<>> /\ <<b>>[1] = b
      /\ SegmentOf(<<b>>) = b
  BY <1>3 DEF SegmentOf
<1>5. ChildrenOK(DOMAIN root, <<>>, root[<<>>].children)
  BY DEF RouteInv, RootOK, NodeOK
<1>6. <<b>> \in DOMAIN root
  BY <1>3, <1>4, <1>5 DEF ChildrenOK
<1>7. phase # "build" => Child(<<>>, 1) = <<b>>
  <2>. SUFFICES ASSUME phase # "build" PROVE Child(<<>>, 1) = <<b>>
    OBVIOUS
  <2>1. tree[<<>>].children = <<b>>
    BY DEF RouteInv, RootOK, TreeOK
  <2>. QED
    BY <1>4, <2>1 DEF Child
<1>. QED
  BY <1>1, <1>2, <1>3, <1>4, <1>6, <1>7

\* The walk starts at the root node, of segment b.
Starts(p, b, match) ==
    /\ phase = "idle" /\ UNCHANGED buildVars /\ request'.path = p
    /\ root[<<>>].children = <<b>>
    /\ \E leaf : match \in CallPathOnly(b, leaf, p, 0)
    /\ at' = <<b>> /\ offset' = match.remain
    /\ ran' = <<Own(<<b>>)>> /\ params' = BindParams({}, <<b>>, match)

\* There the root's own segment is matched and bound.
LEMMA WalkStarts ==
    ASSUME RouteInv, NEW p \in Paths, NEW b, NEW match, Starts(p, b, match)
    PROVE  WalkOK'
<1>0. p \in Seq(STRING)
  BY PathFacts
<1>1. Len(p) \in Nat /\ 0 \in 0..Len(p)
  BY <1>0
<1>2. /\ b \in STRING /\ <<b>> \in DOMAIN root /\ <<b>> \in Seq(STRING)
      /\ Append(<<>>, b) = <<b>> /\ Len(<<b>>) = 1 /\ <<b>> # <<>>
  <2>1. root[<<>>].children = <<b>>
    BY DEF Starts
  <2>. QED
    BY <2>1, RootNode, Zenon
<1>3. MatchOK(b, p, 0, match)
  <2>1. PICK leaf : match \in CallPathOnly(b, leaf, p, 0)
    BY Zenon DEF Starts
  <2>. QED
    BY <1>0, <1>1, <2>1, SegmentSound, Zenon
<1>4. Own(<<b>>) = HookFirst(<<b>>) /\ HookFirst(<<b>>) \in Seq(Nat)
  BY <1>2, HookFirstType DEF RouteInv, TreeOK, Starts
<1>5. root' = root /\ at' = <<b>> /\ ran' = <<Own(<<b>>)>>
  BY DEF Starts, buildVars
<1>6. RanOK'
  <2> DEFINE w == HookFirst(<<b>>)
             n == <<b>>
  <2>1. <<w>> \in Seq(Seq(Nat)) /\ Len(<<w>>) = 1 /\ <<w>>[1] = w
    <3>1. <<w>> \in Seq(Seq(Nat)) /\ Len(<<w>>) = 1
      BY <1>4, SingleFacts, Zenon
    <3>. QED
      BY <3>1
  <2>2. HookFirst(n)' = w
    BY <1>5 DEF HookFirst
  <2>3. SubSeq(n, 1, Len(n)) = n /\ n \in DOMAIN root /\ Len(n) = 1
    BY <1>2, PrefixEnds, Zenon
  <2>. HIDE DEF w
  <2>4. ran' = <<w>>
    BY <1>4, <1>5 DEF w
  <2>. HIDE DEF n
  <2>5. at' = n /\ Len(at') = 1
    BY <1>5, <2>3 DEF n
  <2>6. ran'[1] = w /\ Len(ran') = 1 /\ ran' \in Seq(Seq(Nat))
    BY <2>1, <2>4
  <2>7. ASSUME NEW d \in 1..Len(at')
        PROVE  /\ SubSeq(at', 1, d) \in DOMAIN root'
               /\ ran'[d] = HookFirst(SubSeq(at, 1, d))'
    <3>1. d = 1
      BY <2>5
    <3>2. SubSeq(at', 1, d) = n
      BY <2>3, <2>5, <3>1
    <3>3. HookFirst(SubSeq(at, 1, d))' = HookFirst(n)'
      BY <3>2 DEF HookFirst
    <3>. QED
      BY <1>5, <2>2, <2>3, <2>6, <3>1, <3>2, <3>3
  <2>. QED
    BY <2>5, <2>6, <2>7 DEF RanOK
<1> DEFINE e == [i \in {} |-> 0]
<1>7. e \in [DOMAIN <<>> -> 0..Len(p)]
  <2>1. DOMAIN <<>> = {}
    OBVIOUS
  <2>2. e \in [{} -> 0..Len(p)]
    OBVIOUS
  <2>. QED
    BY <2>1, <2>2
<1>8. Cut(p, <<>>, 0, e)
  <2>1. Len(<<>>) + 1 = 1
    OBVIOUS
  <2>2. From(e, Len(<<>>) + 1) = 0
    BY <2>1 DEF From
  <2>3. 0 <= 0 /\ NamesIn(p, 0, 0) = {}
    BY DEF NamesIn
  <2>. HIDE DEF e
  <2>4. \A i \in DOMAIN <<>> : FALSE
    OBVIOUS
  <2>. QED
    BY <1>1, <1>7, <2>2, <2>3, <2>4 DEF Cut
<1>9. Bound(p, <<>>, e, {})
  <2>1. LastOfKey(<<>>) = {}
    BY DEF LastOfKey
  <2>. HIDE DEF e
  <2>. QED
    BY <2>1 DEF Bound
<1>. HIDE DEF e
<1>10. <<>> \in Seq(STRING)
  OBVIOUS
<1>11. \E f \in [DOMAIN Append(<<>>, b) -> 0..Len(p)] :
          /\ Cut(p, Append(<<>>, b), match.remain, f)
          /\ Bound(p, Append(<<>>, b), f,
                   BindParams({}, Append(<<>>, b), match))
  BY <1>0, <1>1, <1>2, <1>3, <1>7, <1>8, <1>9, <1>10, CutStep, Zenon
<1>12. /\ request'.path = p /\ offset' = match.remain
       /\ params' = BindParams({}, <<b>>, match)
  BY DEF Starts
<1>. QED
  BY <1>2, <1>5, <1>6, <1>11, <1>12 DEF WalkOK

\* A call that is not refused by the root starts a walk.
LEMMA CallStarts ==
    ASSUME RouteInv, NEW p \in Paths, NEW m \in Methods, CallTree(p, m),
           ~(/\ reply' = [status |-> "not_found", handler |-> 0]
             /\ UNCHANGED <<phase, walkVars>>)
    PROVE  /\ phase' = "walk" /\ reply' = NoReply
           /\ \E b, match : Starts(p, b, match)
<1>1. phase = "idle" /\ UNCHANGED buildVars /\ request'.path = p
  BY DEF CallTree
<1>2. PICK b : root[<<>>].children = <<b>>
  BY DEF RouteInv, RootOK, UnderRoot
<1>3. Child(<<>>, 1) = <<b>> /\ SegmentOf(<<b>>) = b
  BY <1>1, <1>2, RootNode
<1> DEFINE top == Child(<<>>, 1)
           leaf == tree[top].children = <<>>
<1>4. PICK match \in CallPathOnly(SegmentOf(top), leaf, p, 0) :
          /\ phase' = "walk" /\ reply' = NoReply
          /\ at' = top /\ offset' = match.remain
          /\ ran' = <<Own(top)>>
          /\ params' = BindParams({}, top, match)
  BY DEF CallTree
<1>. HIDE DEF leaf
<1>5. Starts(p, b, match)
  BY <1>1, <1>2, <1>3, <1>4 DEF Starts
<1>. QED
  BY <1>4, <1>5

LEMMA CallTreeInv ==
    ASSUME RouteInv, NEW p \in Paths, NEW m \in Methods, CallTree(p, m)
    PROVE  RouteInv'
<1>1. phase = "idle" /\ UNCHANGED buildVars /\ request'.path = p
  BY DEF CallTree
<1>2. RootOK' /\ TreeOK'
  BY <1>1, SameTree
<1>3. p \in Seq(STRING)
  BY PathFacts
<1>4. CASE /\ reply' = [status |-> "not_found", handler |-> 0]
           /\ UNCHANGED <<phase, walkVars>>
  <2>1. reply'.status = "not_found" /\ phase' = "idle"
    BY <1>1, <1>4
  <2>2. WalkTyped'
    BY <1>1, <1>3, <2>1 DEF WalkTyped
  <2>. QED
    BY <1>2, <2>1, <2>2 DEF RouteInv
<1>5. CASE ~(/\ reply' = [status |-> "not_found", handler |-> 0]
             /\ UNCHANGED <<phase, walkVars>>)
  <2>1. PICK b, match : /\ phase' = "walk" /\ reply' = NoReply
                        /\ Starts(p, b, match)
    BY <1>5, CallStarts
  <2>2. reply'.status = "none"
    BY <2>1 DEF NoReply
  <2>3. WalkOK'
    BY <2>1, WalkStarts
  <2>4. WalkTyped'
    BY <1>1, <1>3, <2>1, <2>2 DEF WalkTyped
  <2>. QED
    BY <1>2, <2>1, <2>2, <2>3, <2>4 DEF RouteInv
<1>. QED
  BY <1>4, <1>5

\* The walk goes down from node n at offset o to child c by match m.
Enters(c, m) ==
    /\ at' = Append(at, c) /\ offset' = m.remain
    /\ ran' = Append(ran, Own(Append(at, c)))
    /\ params' = BindParams(params, Append(at, c), m)
    /\ UNCHANGED <<buildVars, request>>

\* The middlewares run, after one more node.
LEMMA RanStep ==
    ASSUME RouteInv, phase = "walk", NEW c \in STRING, NEW m, Enters(c, m),
           Append(at, c) \in DOMAIN root
    PROVE  RanOK'
<1>1. /\ at' = Append(at, c) /\ ran' = Append(ran, Own(Append(at, c)))
      /\ root' = root
  BY DEF Enters, buildVars
<1>2. WalkOK /\ RootOK /\ TreeOK
  BY DEF RouteInv
<1> DEFINE n == Append(at, c)
           x == HookFirst(n)
           l == Len(at) + 1
<1>3. Own(n) = x /\ x \in Seq(Nat)
  BY <1>2, HookFirstType DEF TreeOK
<1>5. at \in Seq(STRING) /\ Len(at) \in Nat
  <2>1. at \in Seq(STRING)
    BY <1>2 DEF WalkOK, RootOK, NodeOK
  <2>. QED
    BY <2>1
<1>4. ran \in Seq(Seq(Nat)) /\ Len(ran) = l - 1
  BY <1>2, <1>5 DEF WalkOK, RanOK
<1>6. n \in Seq(STRING) /\ Len(n) = l
  BY <1>5, AppendFacts, Zenon
<1>7. /\ Append(ran, x) \in Seq(Seq(Nat)) /\ Len(Append(ran, x)) = l
      /\ Append(ran, x)[l] = x
      /\ \A i \in 1..(l - 1) : Append(ran, x)[i] = ran[i]
  <2>1. /\ Append(ran, x) \in Seq(Seq(Nat))
        /\ Len(Append(ran, x)) = Len(ran) + 1
        /\ Append(ran, x)[Len(ran) + 1] = x
        /\ \A i \in 1..Len(ran) : Append(ran, x)[i] = ran[i]
    BY <1>3, <1>4, AppendFacts
  <2>2. Len(ran) + 1 = l
    BY <1>4, <1>5
  <2>. QED
    BY <1>4, <2>1, <2>2
<1>8. ran' = Append(ran, x) /\ at' = n
  BY <1>1, <1>3
<1>9. ASSUME NEW d \in 1..l
      PROVE  /\ SubSeq(n, 1, d) \in DOMAIN root
             /\ Append(ran, x)[d] = HookFirst(SubSeq(n, 1, d))
  <2>1. CASE d = l
    <3>1. SubSeq(n, 1, l) = n
      BY <1>6, PrefixEnds, Zenon
    <3>. QED
      BY <1>7, <2>1, <3>1
  <2>2. CASE d # l
    <3>1. d \in 0..Len(at) /\ d \in 1..(l - 1) /\ d \in 1..Len(at)
      BY <1>5, <2>2
    <3>2. SubSeq(n, 1, d) = SubSeq(at, 1, d)
      BY <1>5, <3>1, PrefixOfAppend
    <3>3. /\ SubSeq(at, 1, d) \in DOMAIN root
          /\ ran[d] = HookFirst(SubSeq(at, 1, d))
      BY <1>2, <3>1 DEF WalkOK, RanOK
    <3>. HIDE DEF n, x, l
    <3>. QED
      BY <1>7, <3>1, <3>2, <3>3
  <2>. QED
    BY <2>1, <2>2
<1>. HIDE DEF n, x, l
<1>10. ASSUME NEW d \in 1..l
       PROVE  HookFirst(SubSeq(at, 1, d))' = HookFirst(SubSeq(n, 1, d))
  BY <1>1, <1>8 DEF HookFirst
<1>. QED
  BY <1>1, <1>6, <1>7, <1>8, <1>9, <1>10 DEF RanOK

\* The walk after one more node.
LEMMA WalkStep ==
    ASSUME RouteInv, phase = "walk", NEW c \in STRING, NEW m, Enters(c, m),
           Append(at, c) \in DOMAIN root,
           MatchOK(c, request.path, offset, m)
    PROVE  WalkOK'
<1> DEFINE p == request.path
<1>1. WalkOK /\ RootOK /\ p \in Seq(STRING)
  BY DEF RouteInv, WalkTyped
<1>2. at \in Seq(STRING)
  BY <1>1 DEF WalkOK, RootOK, NodeOK
<1>. HIDE DEF p
<1>3. PICK ends \in [DOMAIN at -> 0..Len(p)] :
          Cut(p, at, offset, ends) /\ Bound(p, at, ends, params)
  BY <1>1 DEF WalkOK, p
<1>4. offset \in 0..Len(p)
  BY <1>3, Zenon DEF Cut
<1>5. MatchOK(c, p, offset, m)
  BY DEF p
<1>6. \E e \in [DOMAIN Append(at, c) -> 0..Len(p)] :
          /\ Cut(p, Append(at, c), m.remain, e)
          /\ Bound(p, Append(at, c), e,
                   BindParams(params, Append(at, c), m))
  BY <1>1, <1>2, <1>3, <1>4, <1>5, CutStep, Zenon
<1>7. RanOK'
  BY RanStep
<1>8. /\ at' = Append(at, c) /\ offset' = m.remain /\ root' = root
      /\ params' = BindParams(params, Append(at, c), m)
      /\ request'.path = p /\ at' # <<>>
  <2>1. Append(at, c) # <<>>
    BY <1>2
  <2>. QED
    BY <2>1 DEF Enters, buildVars, p
<1>. QED
  BY <1>6, <1>7, <1>8 DEF WalkOK

LEMMA DescendInv ==
    ASSUME RouteInv, Descend
    PROVE  RouteInv'
<1>1. phase = "walk" /\ UNCHANGED <<buildVars, phase, request, reply>>
  BY DEF Descend
<1>2. WalkOK /\ RootOK /\ TreeOK /\ reply = NoReply
  BY <1>1 DEF RouteInv, WalkTyped
<1>3. at \in DOMAIN root /\ at \in Seq(STRING)
  BY <1>2 DEF WalkOK, RootOK, NodeOK
<1>4. tree[at].children = root[at].children
  BY <1>1, <1>2, <1>3 DEF TreeOK
<1>0. PICK i \in Resolving(at, offset) :
          \E m \in Match(Child(at, i), offset) :
              /\ at' = Child(at, i) /\ offset' = m.remain
              /\ ran' = Append(ran, Own(Child(at, i)))
              /\ params' = BindParams(params, Child(at, i), m)
  BY DEF Descend
<1>5. PICK m \in Match(Child(at, i), offset) :
          /\ at' = Child(at, i) /\ offset' = m.remain
          /\ ran' = Append(ran, Own(Child(at, i)))
          /\ params' = BindParams(params, Child(at, i), m)
  BY <1>0
<1> DEFINE c == tree[at].children[i]
<1>6. i \in DOMAIN tree[at].children
  <2>1. i \in Candidates(at, offset)
    BY <1>0, Zenon DEF Resolving
  <2>. QED
    BY <2>1 DEF Candidates
<1>7. c \in STRING /\ Append(at, c) \in DOMAIN root
  <2>1. ChildrenOK(DOMAIN root, at, tree[at].children)
    BY <1>2, <1>3, <1>4 DEF RootOK, NodeOK
  <2>2. c \in Rng(tree[at].children)
    BY <1>6 DEF Rng
  <2>3. c \in STRING
    BY <1>6, <2>1 DEF ChildrenOK
  <2>. HIDE DEF c
  <2>. QED
    BY <2>1, <2>2, <2>3 DEF ChildrenOK
<1>8. Child(at, i) = Append(at, c)
  BY DEF Child
<1>. HIDE DEF c
<1>9. SegmentOf(Append(at, c)) = c
  <2>1. /\ Len(Append(at, c)) = Len(at) + 1
        /\ Append(at, c)[Len(at) + 1] = c
    BY <1>3, <1>7, AppendFacts
  <2>2. Append(at, c) # <<>>
    <3>1. Len(at) \in Nat
      BY <1>3
    <3>2. Len(Append(at, c)) # 0
      BY <2>1, <3>1
    <3>3. Len(<<>>) = 0
      OBVIOUS
    <3>. QED
      BY <3>2, <3>3, Zenon
  <2>. QED
    BY <2>1, <2>2 DEF SegmentOf
<1>10. MatchOK(c, request.path, offset, m)
  <2>1. PICK leaf : m \in CallPathOnly(c, leaf, request.path, offset)
    BY <1>5, <1>8, <1>9 DEF Match
  <2>2. request.path \in Seq(STRING) /\ offset \in 0..Len(request.path)
    BY <1>2, Zenon DEF RouteInv, WalkTyped, WalkOK, Cut
  <2>. QED
    BY <2>1, <2>2, SegmentSound, Zenon
<1>11. Enters(c, m)
  <2>1. UNCHANGED <<buildVars, request>>
    BY <1>1
  <2>. QED
    BY <1>5, <1>8, <2>1 DEF Enters
<1>12. WalkOK'
  BY <1>1, <1>7, <1>10, <1>11, WalkStep
<1>13. UNCHANGED buildVars
  BY <1>1
<1>14. RootOK' /\ TreeOK'
  BY <1>1, <1>13, SameTree
<1>15. /\ phase' = phase /\ request' = request /\ reply' = reply
  BY <1>1
<1>16. WalkTyped'
  BY <1>15 DEF RouteInv, WalkTyped
<1>17. reply'.status = "none"
  BY <1>2, <1>15 DEF NoReply
<1>. QED
  BY <1>12, <1>14, <1>16, <1>17 DEF RouteInv

\* What a handler map answers.
LEMMA CallHandlerFacts ==
    ASSUME NEW rs, NEW n, NEW handlers, HandlersOK(rs, n, handlers),
           handlers # NoHandler, NEW method
    PROVE  LET r == CallHandler(handlers, method)
           IN  /\ r.status \in {"ok", "not_allowed"}
               /\ \E k \in DOMAIN rs : rs[k].pat = n
               /\ r.status = "ok" =>
                     Serves(rs, r.handler, n, rs[r.handler].method)
<1>1. \A m \in DOMAIN handlers : Serves(rs, handlers[m], n, m)
  BY DEF HandlersOK
<1>2. DOMAIN handlers # {}
  <2>. SUFFICES ASSUME DOMAIN handlers = {} PROVE FALSE
    OBVIOUS
  <2>1. handlers = [m \in {} |-> handlers[m]]
    BY DEF HandlersOK
  <2>2. [m \in {} |-> handlers[m]] = [m \in {} |-> 0]
    OBVIOUS
  <2>. QED
    BY <2>1, <2>2 DEF NoHandler
<1>3. \E k \in DOMAIN rs : rs[k].pat = n
  BY <1>1, <1>2 DEF Serves
<1>4. \A m \in DOMAIN handlers :
          Serves(rs, handlers[m], n, rs[handlers[m]].method)
  BY <1>1 DEF Serves
<1> DEFINE r == CallHandler(handlers, method)
<1>5. /\ r.status \in {"ok", "not_allowed"}
      /\ r.status = "ok" => \E m \in DOMAIN handlers : r.handler = handlers[m]
  BY DEF CallHandler
<1>. HIDE DEF r
<1>6. r.status = "ok" => Serves(rs, r.handler, n, rs[r.handler].method)
  BY <1>4, <1>5
<1>. QED
  BY <1>3, <1>5, <1>6 DEF r

LEMMA ConcludeInv ==
    ASSUME RouteInv, Conclude
    PROVE  RouteInv'
<1>1. /\ phase = "walk" /\ phase' = "idle"
      /\ UNCHANGED <<buildVars, request, walkVars>>
  BY DEF Conclude
<1>2. WalkOK /\ RootOK /\ TreeOK
  BY <1>1 DEF RouteInv
<1>3. at \in DOMAIN root
  BY <1>2 DEF WalkOK
<1>4. RootOK' /\ TreeOK' /\ WalkOK'
  <2>1. UNCHANGED buildVars /\ UNCHANGED <<walkVars, request>>
    BY <1>1
  <2>. QED
    BY <1>1, <1>2, <2>1, SameTree
<1>5. /\ tree[at].handler = root[at].handler
      /\ HandlersOK(regs, at, root[at].handler)
  BY <1>1, <1>2, <1>3 DEF TreeOK, RootOK, NodeOK
<1> DEFINE handlers == tree[at].handler
           last == offset = Len(request.path) \/ IsFullPath(at)
<1>6. CASE handlers # NoHandler /\ last
  <2>1. reply' = CallHandler(handlers, request.method)
    BY <1>6 DEF Conclude
  <2>2. HandlersOK(regs, at, handlers)
    BY <1>5
  <2>. HIDE DEF handlers
  <2>3. /\ reply'.status \in {"ok", "not_allowed"}
        /\ \E k \in DOMAIN regs : regs[k].pat = at
        /\ reply'.status = "ok" =>
              Serves(regs, reply'.handler, at, regs[reply'.handler].method)
    BY <1>6, <2>1, <2>2, CallHandlerFacts
  <2>4. /\ regs' = regs /\ at' = at /\ offset' = offset
        /\ request' = request
    BY <1>1 DEF buildVars, walkVars
  <2>5. EndOK'
    BY <1>6, <2>3, <2>4 DEF EndOK, IsFullPath, SegmentOf
  <2>6. WalkTyped'
    BY <1>1, <2>3, <2>4 DEF RouteInv, WalkTyped
  <2>. QED
    BY <1>1, <1>4, <2>5, <2>6 DEF RouteInv
<1>7. CASE ~(handlers # NoHandler /\ last)
  <2>1. reply' = [status |-> "not_found", handler |-> 0]
    BY <1>7 DEF Conclude
  <2>2. reply'.status = "not_found" /\ request' = request
    BY <1>1, <2>1
  <2>3. WalkTyped'
    BY <1>1, <2>2 DEF RouteInv, WalkTyped
  <2>. QED
    BY <1>1, <1>4, <2>2, <2>3 DEF RouteInv
<1>. QED
  BY <1>6, <1>7

LEMMA RouteStutterInv ==
    ASSUME RouteInv, UNCHANGED routeVars
    PROVE  RouteInv'
<1>1. /\ UNCHANGED buildVars /\ UNCHANGED <<walkVars, request>>
      /\ phase' = phase /\ reply' = reply /\ request' = request
      /\ regs' = regs /\ at' = at /\ offset' = offset
  BY DEF routeVars, buildVars, walkVars
<1>2. RootOK' /\ (phase # "build" => TreeOK') /\ (WalkOK => WalkOK')
  BY <1>1, SameTree
<1>3. TreeOK'
  BY <1>1, <1>2 DEF TreeOK
<1>4. WalkTyped' /\ (EndOK => EndOK')
  BY <1>1 DEF RouteInv, WalkTyped, EndOK, IsFullPath, SegmentOf
<1>. QED
  BY <1>1, <1>2, <1>3, <1>4 DEF RouteInv

\* The invariant of routing, for every set of patterns, paths and methods and
\* any number of registrations.
THEOREM RouteInvariant == RouteSpec => []RouteInv
<1>1. RouteInit => RouteInv
  BY RouteInitInv
<1>2. RouteInv /\ [RouteNext]_routeVars => RouteInv'
  BY AppendRouteInv, ConvertInv, CallTreeInv, DescendInv, ConcludeInv,
     RouteStutterInv DEF RouteNext
<1>. QED
  BY <1>1, <1>2, PTL DEF RouteSpec

\* Where a handler was called, or refused the method, the path reads as the
\* node's pattern, with the captures bound.
LEMMA EndReads ==
    ASSUME RouteInv, reply.status \in {"ok", "not_allowed"}
    PROVE  /\ \E e \in Cuts(at, request.path) :
                 /\ Reads(at, request.path, e)
                 /\ Bound(request.path, at, e, params)
           /\ \E k \in DOMAIN regs : regs[k].pat = at
           /\ reply.status = "ok" =>
                 Serves(regs, reply.handler, at, regs[reply.handler].method)
<1> DEFINE p == request.path
<1>1. WalkOK /\ EndOK /\ RootOK /\ p \in Seq(STRING)
  BY DEF RouteInv, WalkTyped
<1>2. at \in Seq(STRING)
  BY <1>1 DEF WalkOK, RootOK, NodeOK
<1>3. at # <<>>
  BY <1>1 DEF WalkOK
<1>4. offset = Len(p) \/ Kind(at[Len(at)]) = "full"
  BY <1>1, <1>3 DEF EndOK, IsFullPath, SegmentOf
<1>. HIDE DEF p
<1>5. PICK ends \in [DOMAIN at -> 0..Len(p)] :
          Cut(p, at, offset, ends) /\ Bound(p, at, ends, params)
  BY <1>1 DEF WalkOK, p
<1>6. offset \in 0..Len(p)
  BY <1>5, Zenon DEF Cut
<1>7. \E e \in Cuts(at, p) : Reads(at, p, e) /\ Bound(p, at, e, params)
  BY <1>1, <1>2, <1>3, <1>4, <1>5, <1>6, CutReads, Zenon
<1>. QED
  BY <1>1, <1>7 DEF EndOK, p

\* No request runs a handler on a path its pattern does not stand for, and none
\* is answered 405 for a path no pattern stands for: whatever is registered,
\* and however the path is written (RouteTree::call_children); of several
\* registrations of one pattern and method the first is served (or_insert in
\* Route::merge_from).
THEOREM DispatchTheorem == RouteSpec => []DispatchSound
<1>1. RouteInv => DispatchSound
  <2>. SUFFICES ASSUME RouteInv PROVE DispatchSound
    OBVIOUS
  <2>1. ASSUME reply.status = "ok" PROVE Matches(Chosen.pat, request.path)
    <3>1. Chosen.pat = at
      BY <2>1, EndReads DEF Serves, Chosen
    <3>. QED
      BY <2>1, <3>1, EndReads DEF Matches
  <2>2. ASSUME reply.status = "not_allowed"
        PROVE  \E k \in DOMAIN regs : Matches(regs[k].pat, request.path)
    BY <2>2, EndReads DEF Matches
  <2>3. ASSUME reply.status = "ok" PROVE FirstRegistration
    <3>1. Serves(regs, reply.handler, at, regs[reply.handler].method)
      BY <2>3, EndReads
    <3>. QED
      BY <3>1 DEF FirstRegistration, Serves, Chosen
  <2>. QED
    BY <2>1, <2>2, <2>3 DEF DispatchSound
<1>. QED
  BY <1>1, RouteInvariant, PTL

\* The parameters a handler gets are those of its pattern, the last of each
\* key; they are a way the pattern reads the path, and can be read from it,
\* but for a "<*>" with nothing left (call_path_only, bind_params).
THEOREM CapturesTheorem == RouteSpec => []CapturesAgree
<1>1. RouteInv => CapturesAgree
  <2>. SUFFICES ASSUME RouteInv, reply.status = "ok"
                PROVE  CapturesAgree
    BY DEF CapturesAgree
  <2>1. Chosen.pat = at
    BY EndReads DEF Serves, Chosen
  <2>2. PICK e \in Cuts(at, request.path) :
            /\ Reads(at, request.path, e)
            /\ Bound(request.path, at, e, params)
    BY EndReads
  <2> DEFINE p == request.path
  <2>3. /\ {b.place : b \in params} = LastOfKey(at)
        /\ \A b \in params :
              /\ b.key = Special[at[b.place]].key
              /\ CaptureOK(p, at[b.place], b,
                           Piece(p, e, b.place), Left(p, e, b.place))
    BY <2>2, Zenon DEF Bound
  <2>. HIDE DEF p
  <2>4. \A b \in params :
           /\ NamesIn(p, b.from, b.to) =
                  IF Kind(at[b.place]) = "full"
                  THEN Left(p, e, b.place) ELSE Piece(p, e, b.place)
           /\ \/ Readable(p, b, at[b.place])
              \/ Kind(at[b.place]) = "path" /\ Left(p, e, b.place) = {}
    BY <2>3 DEF CaptureOK
  <2>. QED
    BY <2>1, <2>2, <2>3, <2>4, Zenon DEF CapturesAgree, p
<1>. QED
  BY <1>1, RouteInvariant, PTL

\* Middlewares put before all others come first.
LEMMA ZeroFirst ==
    ASSUME NEW a \in Seq(Nat), Increasing(a), 0 \notin Rng(a)
    PROVE  Increasing(<<0>> \o a) /\ Rng(<<0>> \o a) = Rng(a) \cup {0}
<1> DEFINE b == <<0>> \o a
           l == Len(a)
<1>1. /\ b \in Seq(Nat) /\ Len(b) = l + 1 /\ l \in Nat /\ b[1] = 0
  OBVIOUS
<1>2. \A i \in 2..(l + 1) : b[i] = a[i - 1]
  OBVIOUS
<1>3. DOMAIN b = 1..(l + 1) /\ DOMAIN a = 1..l
  BY <1>1
<1>. HIDE DEF b, l
<1>4. ASSUME NEW i \in 1..l PROVE a[i] \in Nat /\ a[i] > 0
  <2>1. a[i] \in Nat
    BY DEF l
  <2>2. a[i] # 0
    BY <1>3 DEF Rng
  <2>. QED
    BY <2>1, <2>2
<1>5. Increasing(b)
  <2>. SUFFICES ASSUME NEW i \in 1..(l + 1), NEW j \in 1..(l + 1), i < j
                PROVE  b[i] < b[j]
    BY <1>3 DEF Increasing
  <2>1. j \in 2..(l + 1) /\ j - 1 \in 1..l
    BY <1>1
  <2>2. CASE i = 1
    BY <1>1, <1>2, <1>4, <2>1, <2>2
  <2>3. CASE i # 1
    <3>1. i \in 2..(l + 1) /\ i - 1 \in 1..l /\ i - 1 < j - 1
      BY <1>1, <2>3
    <3>2. a[i - 1] < a[j - 1]
      BY <1>3, <2>1, <3>1 DEF Increasing
    <3>. QED
      BY <1>2, <2>1, <3>1, <3>2
  <2>. QED
    BY <2>2, <2>3
<1>6. Rng(b) = Rng(a) \cup {0}
  <2>1. ASSUME NEW i \in 1..(l + 1) PROVE b[i] \in Rng(a) \cup {0}
    <3>1. CASE i = 1
      BY <1>1, <3>1
    <3>2. CASE i # 1
      <4>1. i \in 2..(l + 1) /\ i - 1 \in DOMAIN a
        BY <1>1, <1>3, <3>2
      <4>. QED
        BY <1>2, <4>1 DEF Rng
    <3>. QED
      BY <3>1, <3>2
  <2>2. ASSUME NEW i \in 1..l PROVE a[i] \in Rng(b)
    <3>1. i + 1 \in 2..(l + 1) /\ i + 1 \in DOMAIN b /\ (i + 1) - 1 = i
      BY <1>1, <1>3
    <3>2. b[i + 1] = a[i]
      BY <1>2, <3>1
    <3>. QED
      BY <3>1, <3>2 DEF Rng
  <2>3. 0 \in Rng(b)
    <3>1. 1 \in DOMAIN b
      BY <1>1, <1>3
    <3>. QED
      BY <1>1, <3>1 DEF Rng
  <2>4. \A x : x \in Rng(b) <=> x \in Rng(a) \cup {0}
    BY <1>3, <2>1, <2>2, <2>3 DEF Rng
  <2>. QED
    BY <2>4
<1>. QED
  BY <1>5, <1>6 DEF b

\* A handler runs behind exactly the middlewares hooked on the nodes of its
\* pattern, in order (Route::merge_from, hook_first, middleware_start).
THEOREM MiddlewareTheorem == RouteSpec => []MiddlewareChain
<1>1. RouteInv => MiddlewareChain
  <2>. SUFFICES ASSUME RouteInv, reply.status = "ok"
                PROVE  MiddlewareChain
    BY DEF MiddlewareChain
  <2>1. Chosen.pat = at
    BY EndReads DEF Serves, Chosen
  <2>2. RootOK /\ RanOK /\ at \in DOMAIN root
    BY DEF RouteInv, WalkOK
  <2>3. at \in Seq(STRING)
    BY <2>2 DEF RootOK, NodeOK
  <2>4. ASSUME NEW d \in DOMAIN at
        PROVE  Rng(ran[d]) = HookedAt(at, d) /\ Increasing(ran[d])
    <3> DEFINE n == SubSeq(at, 1, d)
               mws == root[n].mws
    <3>1. d \in 0..Len(at) /\ d # 0 /\ d \in 1..Len(at)
      BY <2>3
    <3>2. n \in Seq(STRING) /\ Len(n) = d
      BY <2>3, <3>1, PrefixFacts
    <3>3. n # <<>>
      BY <3>1, <3>2
    <3>4. HookedAt(at, d) =
              Hooked(regs, n) \cup (IF d = 1 THEN {0} ELSE {})
      BY <3>2, <3>3 DEF Hooked, HookedAt
    <3>5. ran[d] = HookFirst(n) /\ n \in DOMAIN root
      BY <2>2, <3>1 DEF RanOK
    <3>6. ran[d] = IF d = 1 THEN <<0>> \o mws ELSE mws
      BY <3>2, <3>5 DEF HookFirst
    <3>7. MiddlewaresOK(regs, n, mws)
      BY <2>2, <3>5 DEF RootOK, NodeOK
    <3>. HIDE DEF mws, n
    <3>8. /\ mws \in Seq(Nat) /\ Increasing(mws)
          /\ Rng(mws) = Hooked(regs, n)
      BY <3>7 DEF MiddlewaresOK
    <3>9. 0 \notin Rng(mws)
      <4>1. Hooked(regs, n) \subseteq DOMAIN regs
        BY DEF Hooked
      <4>2. 0 \notin DOMAIN regs
        BY <2>2 DEF RootOK
      <4>. QED
        BY <3>8, <4>1, <4>2
    <3>10. /\ Increasing(<<0>> \o mws)
           /\ Rng(<<0>> \o mws) = Rng(mws) \cup {0}
      BY <3>8, <3>9, ZeroFirst
    <3>. QED
      BY <3>4, <3>6, <3>8, <3>10
  <2>5. Len(ran) = Len(at)
    BY <2>2 DEF RanOK
  <2>. QED
    BY <2>1, <2>4, <2>5 DEF MiddlewareChain, Increasing
<1>. QED
  BY <1>1, RouteInvariant, PTL

-----------------------------------------------------------------------------
(* Routing: the shape of the tree                                          *)

PrefixOf(n, pat) == Len(n) <= Len(pat) /\ SubSeq(pat, 1, Len(n)) = n

\* Below the root node, which the children of its place name, the nodes are
\* prefixes of the patterns registered, the children of a node hold the segments
\* the patterns go on with, and there is a deepest node.
ShapeOK ==
    /\ \E depth \in Nat : \A n \in DOMAIN root : Len(n) <= depth
    /\ \A n \in DOMAIN root : n \notin {<<>>, root[<<>>].children} =>
          \E k \in DOMAIN regs : PrefixOf(n, regs[k].pat)
    /\ \A k \in DOMAIN regs : \A d \in 0..(Len(regs[k].pat) - 1) :
          regs[k].pat[d + 1] \in Rng(root[SubSeq(regs[k].pat, 1, d)].children)

LEMMA JoinKeeps ==
    ASSUME NEW S, NEW a \in Seq(S), NEW b \in Seq(S)
    PROVE  Rng(a) \cup Rng(b) \subseteq Rng(a \o b)
<1>1. ASSUME NEW x \in Rng(a) PROVE x \in Rng(a \o b)
  <2>1. PICK i \in DOMAIN a : x = a[i]
    BY DEF Rng
  <2>2. i \in DOMAIN (a \o b) /\ (a \o b)[i] = a[i]
    BY <2>1
  <2>. QED
    BY <2>1, <2>2 DEF Rng
<1>2. ASSUME NEW x \in Rng(b) PROVE x \in Rng(a \o b)
  <2>1. PICK i \in DOMAIN b : x = b[i]
    BY DEF Rng
  <2>2. Len(a) + i \in DOMAIN (a \o b) /\ (a \o b)[Len(a) + i] = b[i]
    BY <2>1
  <2>. QED
    BY <2>1, <2>2 DEF Rng
<1>. QED
  BY <1>1, <1>2

\* A registration takes no child from a node, and gives it its own.
LEMMA AddsKeepsChildren ==
    ASSUME RootOK, NEW s \in Specs, Adds(s), NEW n \in DOMAIN root'
    PROVE  LET new == NewRoute(s, Len(regs) + 1)
               has == Rng(root'[n].children)
           IN  /\ n \in DOMAIN root => Rng(root[n].children) \subseteq has
               /\ n \in DOMAIN new => Rng(new[n].children) \subseteq has
<1> DEFINE new == NewRoute(s, Len(regs) + 1)
           a == root[n].children
           b == new[n].children
<1>1. root'[n] = IF n \notin DOMAIN new THEN root[n]
                 ELSE IF n \notin DOMAIN root THEN new[n]
                 ELSE MergeFrom(root[n], new[n])
  BY AddsNodes
<1>2. n \in DOMAIN new => b \in Seq(STRING)
  BY NewRouteChild
<1>3. n \in DOMAIN root => a \in Seq(STRING)
  BY DEF RootOK, NodeOK, ChildrenOK
<1>4. n \in DOMAIN new /\ n \in DOMAIN root =>
          root'[n].children = IF Rng(b) \subseteq Rng(a) THEN a ELSE a \o b
  BY <1>1 DEF MergeFrom, MergeChild
<1>5. n \in DOMAIN new /\ n \in DOMAIN root =>
          Rng(a) \cup Rng(b) \subseteq Rng(a \o b)
  BY <1>2, <1>3, JoinKeeps
<1>6. n \notin DOMAIN new => root'[n].children = a
  BY <1>1
<1>7. n \in DOMAIN new /\ n \notin DOMAIN root => root'[n].children = b
  BY <1>1
<1>8. /\ n \in DOMAIN root => Rng(a) \subseteq Rng(root'[n].children)
      /\ n \in DOMAIN new => Rng(b) \subseteq Rng(root'[n].children)
  <2>. HIDE DEF new, a, b
  <2>. QED
    BY <1>4, <1>5, <1>6, <1>7
<1>. QED
  BY <1>8

LEMMA AddsShape ==
    ASSUME RootOK, ShapeOK, NEW s \in Specs, Adds(s)
    PROVE  ShapeOK'
<1> DEFINE l == Len(regs)
           new == NewRoute(s, l + 1)
<1>1. /\ DOMAIN regs' = 1..(l + 1) /\ DOMAIN regs = 1..l /\ l \in Nat
      /\ regs'[l + 1] = s /\ \A j \in 1..l : regs'[j] = regs[j]
  BY AddsRegs
<1>2. DOMAIN root' = DOMAIN root \cup DOMAIN new
  BY AddsNodes
<1>3. /\ \A d \in 0..Len(s.pat) : SubSeq(s.pat, 1, d) \in DOMAIN new
      /\ \A n \in DOMAIN new : /\ n \in Seq(STRING) /\ Len(n) \in 0..Len(s.pat)
                               /\ n = SubSeq(s.pat, 1, Len(n))
  BY NewRouteNodes
<1>4. s.pat \in Seq(STRING) /\ Len(s.pat) \in Nat
  BY SpecFacts
<1>5. ASSUME NEW d \in 0..(Len(s.pat) - 1)
      PROVE  s.pat[d + 1] \in Rng(new[SubSeq(s.pat, 1, d)].children)
  <2> DEFINE n == SubSeq(s.pat, 1, d)
  <2>1. d \in 0..Len(s.pat)
    BY <1>4
  <2>2. n \in DOMAIN new
    BY <1>3, <2>1
  <2>3. Len(n) = d
    BY <1>4, <2>1, PrefixFacts
  <2>4. n # s.pat
    BY <1>4, <2>3
  <2>5. new[n].children = <<s.pat[d + 1]>>
    BY <2>2, <2>3, <2>4 DEF NewRoute
  <2>. HIDE DEF n, new
  <2>6. s.pat[d + 1] \in STRING
    BY <1>4
  <2>7. Rng(<<s.pat[d + 1]>>) = {s.pat[d + 1]}
    BY <2>6, SingleFacts
  <2>. QED
    BY <2>5, <2>7 DEF n
<1>6. /\ \A n \in DOMAIN root : Rng(root[n].children)
                                    \subseteq Rng(root'[n].children)
      /\ \A n \in DOMAIN new : Rng(new[n].children)
                                    \subseteq Rng(root'[n].children)
  BY <1>2, AddsKeepsChildren
<1>7. ASSUME NEW k \in DOMAIN regs, NEW d \in 0..(Len(regs[k].pat) - 1)
      PROVE  SubSeq(regs[k].pat, 1, d) \in DOMAIN root
  <2>1. Len(regs[k].pat) \in Nat
    BY RegisteredNodes, SpecFacts
  <2>2. d \in 0..Len(regs[k].pat)
    BY <2>1
  <2>. QED
    BY <2>2 DEF RootOK, Registered
<1>. HIDE DEF new, l
<1>8. \E depth \in Nat : \A n \in DOMAIN root' : Len(n) <= depth
  <2>1. PICK depth \in Nat : \A n \in DOMAIN root : Len(n) <= depth
    BY DEF ShapeOK
  <2>2. \A n \in DOMAIN root' : Len(n) \in Nat
    BY <1>2, <1>3 DEF RootOK, NodeOK
  <2>3. depth + Len(s.pat) \in Nat
    BY <1>4
  <2>4. ASSUME NEW n \in DOMAIN root' PROVE Len(n) <= depth + Len(s.pat)
    <3>1. Len(n) <= depth \/ Len(n) <= Len(s.pat)
      BY <1>2, <1>3, <2>1
    <3>. QED
      BY <1>4, <2>2, <3>1
  <2>. QED
    BY <2>3, <2>4
<1>11. root'[<<>>].children = root[<<>>].children
  BY AddsRootChild
<1>9. ASSUME NEW n \in DOMAIN root', n \notin {<<>>, root[<<>>].children}
      PROVE  \E k \in DOMAIN regs' : PrefixOf(n, regs'[k].pat)
  <2>1. CASE n \in DOMAIN root
    <3>1. PICK k \in DOMAIN regs : PrefixOf(n, regs[k].pat)
      BY <1>9, <2>1 DEF ShapeOK
    <3>2. k \in DOMAIN regs' /\ regs'[k] = regs[k]
      BY <1>1
    <3>. QED
      BY <3>1, <3>2
  <2>2. CASE n \in DOMAIN new
    <3>1. PrefixOf(n, s.pat)
      BY <1>3, <1>4, <2>2 DEF PrefixOf
    <3>2. l + 1 \in DOMAIN regs'
      BY <1>1
    <3>. QED
      BY <1>1, <3>1, <3>2
  <2>. QED
    BY <1>2, <2>1, <2>2
<1>10. ASSUME NEW k \in DOMAIN regs', NEW d \in 0..(Len(regs'[k].pat) - 1)
       PROVE  regs'[k].pat[d + 1]
                  \in Rng(root'[SubSeq(regs'[k].pat, 1, d)].children)
  <2>1. CASE k = l + 1
    <3>1. regs'[k] = s
      BY <1>1, <2>1
    <3>2. d \in 0..(Len(s.pat) - 1) /\ d \in 0..Len(s.pat)
      BY <1>4, <3>1
    <3>. QED
      BY <1>3, <1>5, <1>6, <3>1, <3>2
  <2>2. CASE k # l + 1
    <3>1. k \in DOMAIN regs /\ regs'[k] = regs[k]
      BY <1>1, <2>2
    <3>. QED
      BY <1>6, <1>7, <3>1 DEF ShapeOK
  <2>. QED
    BY <2>1, <2>2
<1>. QED
  BY <1>8, <1>9, <1>10, <1>11 DEF ShapeOK

-----------------------------------------------------------------------------
(* Routing: a segment that can be matched is                               *)

\* Where no name is left nothing is.
WellPlaced(p, o) == NamesIn(p, o, Len(p)) = {} => o = Len(p)

LEMMA StripOnePlaced ==
    ASSUME NEW p \in Seq(STRING), Canonical(p), NEW o \in 0..Len(p)
    PROVE  WellPlaced(p, StripOneSegment(p, o).remain)
<1> DEFINE t == StripLeadingSlash(p, o)
           one == StripOneSegment(p, o)
<1>1. t \in o..Len(p)
  BY StripSlashType
<1>. SUFFICES WellPlaced(p, one.remain)
  OBVIOUS
<1>2. CASE t = Len(p)
  <2>1. one.remain = Len(p)
    BY <1>2 DEF StripOneSegment, t
  <2>. QED
    BY <2>1 DEF WellPlaced
<1>3. CASE t # Len(p) /\ p[t + 1] = "/"
  <2>1. t = o + 1 /\ p[t] = "/" /\ t \in 1..(Len(p) - 1)
    BY <1>1, <1>3 DEF StripLeadingSlash, t
  <2>. QED
    BY <1>3, <2>1 DEF Canonical
<1>4. CASE t # Len(p) /\ p[t + 1] # "/"
  <2> DEFINE r == StripLeadingSlash(p, t + 1)
  <2>1. one.remain = r
    BY <1>4 DEF StripOneSegment, t
  <2>2. t \in Nat /\ t + 1 \in 1..Len(p) /\ Len(p) \in Nat
    BY <1>1, <1>4
  <2>. HIDE DEF t, one
  <2>3. r \in (t + 1)..Len(p)
    BY <2>2, StripSlashType
  <2>4. ASSUME r # Len(p) PROVE p[r + 1] # "/"
    <3>1. CASE p[t + 2] = "/"
      <4>1. r = t + 2 /\ t + 2 \in 1..(Len(p) - 1) /\ p[r] = "/"
        BY <2>2, <2>4, <3>1 DEF StripLeadingSlash
      <4>. QED
        BY <4>1 DEF Canonical
    <3>2. CASE p[t + 2] # "/"
      <4>1. r = t + 1
        BY <2>2, <3>2 DEF StripLeadingSlash
      <4>2. r + 1 = t + 2
        BY <2>2, <4>1
      <4>. QED
        BY <3>2, <4>2
    <3>. QED
      BY <3>1, <3>2
  <2>. HIDE DEF r
  <2>5. WellPlaced(p, r)
    <3>. SUFFICES ASSUME r # Len(p) PROVE NamesIn(p, r, Len(p)) # {}
      BY DEF WellPlaced
    <3>1. r + 1 \in (r + 1)..Len(p) /\ p[r + 1] # "/"
      BY <2>2, <2>3, <2>4
    <3>2. r + 1 \in NamesIn(p, r, Len(p))
      BY <3>1 DEF NamesIn
    <3>. QED
      BY <3>2
  <2>. QED
    BY <2>1, <2>5
<1>. QED
  BY <1>2, <1>3, <1>4

Single(S) == \E x : S = {x}

\* Two places with the same names left: taking one name from both takes the
\* same name and leaves the same names.
LEMMA FirstName ==
    ASSUME NEW p, NEW o \in Nat, NEW r \in Nat, NEW a \in Nat, NEW b \in Nat,
           NEW l \in Nat, o <= r, r <= l, a <= b, b <= l,
           NamesIn(p, o, l) = NamesIn(p, a, l),
           Single(NamesIn(p, o, r)), Single(NamesIn(p, a, b))
    PROVE  /\ NamesIn(p, o, r) = NamesIn(p, a, b)
           /\ NamesIn(p, r, l) = NamesIn(p, b, l)
<1>7. PICK x, y : NamesIn(p, o, r) = {x} /\ NamesIn(p, a, b) = {y}
  BY DEF Single
<1>1. /\ x \in (o + 1)..r /\ p[x] # "/"
      /\ \A i \in (o + 1)..r : p[i] # "/" => i = x
  BY <1>7 DEF NamesIn
<1>2. /\ y \in (a + 1)..b /\ p[y] # "/"
      /\ \A i \in (a + 1)..b : p[i] # "/" => i = y
  BY <1>7 DEF NamesIn
<1>3. \A i \in Nat : (i > o /\ i <= l /\ p[i] # "/")
                         <=> (i > a /\ i <= l /\ p[i] # "/")
  <2>. SUFFICES ASSUME NEW i \in Nat
                PROVE  (i > o /\ i <= l /\ p[i] # "/")
                           <=> (i > a /\ i <= l /\ p[i] # "/")
    OBVIOUS
  <2>1. i \in NamesIn(p, o, l) <=> (i > o /\ i <= l /\ p[i] # "/")
    BY DEF NamesIn
  <2>2. i \in NamesIn(p, a, l) <=> (i > a /\ i <= l /\ p[i] # "/")
    BY DEF NamesIn
  <2>. QED
    BY <2>1, <2>2
<1>4. x = y
  BY <1>1, <1>2, <1>3
<1>5. ASSUME NEW i \in Nat, i <= l, p[i] # "/"
      PROVE  i > r <=> i > b
  BY <1>1, <1>2, <1>3, <1>4, <1>5
<1>6. NamesIn(p, r, l) = NamesIn(p, b, l)
  BY <1>5 DEF NamesIn
<1>. QED
  BY <1>4, <1>6, <1>7

\* What is left after the piece a..b of the path was matched at offset o.
MatchLeaves(p, b, m) ==
    /\ m.remain \in 0..Len(p) /\ WellPlaced(p, m.remain)
    /\ NamesIn(p, m.remain, Len(p)) = NamesIn(p, b, Len(p))

\* The offset stands for a: the same names are left.
SameLeft(p, o, a) ==
    WellPlaced(p, o) /\ NamesIn(p, o, Len(p)) = NamesIn(p, a, Len(p))

\* strip_one_segment takes the piece a..b where that is at most one name.
LEMMA StripComplete ==
    ASSUME NEW p \in Seq(STRING), Canonical(p), NEW o \in 0..Len(p),
           NEW a \in 0..Len(p), NEW b \in a..Len(p), SameLeft(p, o, a),
           AtMostOne(NamesIn(p, a, b)),
           NamesIn(p, a, b) = {} => NamesIn(p, a, Len(p)) = {}
    PROVE  /\ MatchLeaves(p, b, StripOneSegment(p, o))
           /\ \A y \in NamesIn(p, a, b) : StripOneSegment(p, o).seg = p[y]
<1> DEFINE one == StripOneSegment(p, o)
           names == NamesIn(p, a, b)
           l == Len(p)
           r == one.remain
<1>0. l \in Nat
  OBVIOUS
<1>1. StripOK(p, o, one)
  BY StripOneSound
<1>2. WellPlaced(p, r)
  BY StripOnePlaced
<1>. SUFFICES MatchLeaves(p, b, one) /\ \A y \in names : one.seg = p[y]
  OBVIOUS
<1>. HIDE DEF one
<1>3. r \in o..l
  BY <1>1 DEF StripOK, StripWhere
<1>4. NamesIn(p, o, l) = NamesIn(p, a, l)
  BY DEF SameLeft
<1>5. CASE names = {}
  <2>1. NamesIn(p, a, l) = {} /\ NamesIn(p, o, l) = {}
    BY <1>4, <1>5
  <2>2. NamesIn(p, b, l) = {} /\ NamesIn(p, r, l) = {}
    BY <1>3, <2>1 DEF NamesIn
  <2>. QED
    BY <1>2, <1>3, <1>5, <2>2 DEF MatchLeaves
<1>6. CASE names # {}
  <2>1. PICK y \in names : TRUE
    BY <1>6
  <2>2. names = {y}
    BY <2>1 DEF AtMostOne
  <2>3. NamesIn(p, a, l) # {}
    <3>1. y \in NamesIn(p, a, l)
      BY <2>1 DEF NamesIn
    <3>. QED
      BY <3>1
  <2>4. NamesIn(p, o, r) # {}
    BY <1>1, <1>4, <2>3 DEF StripOK, StripGreedy
  <2>5. NamesIn(p, o, r) = {one.to} /\ p[one.to] = one.seg
    BY <1>1, <2>4 DEF StripOK, StripNone, StripName
  <2>6. /\ o \in Nat /\ r \in Nat /\ a \in Nat /\ b \in Nat
        /\ o <= r /\ r <= l /\ a <= b /\ b <= l
    BY <1>0, <1>3
  <2>. HIDE DEF r, l
  <2>7. one.to = y /\ NamesIn(p, r, l) = NamesIn(p, b, l)
    <3>1. Single(NamesIn(p, o, r)) /\ Single(NamesIn(p, a, b))
      BY <2>2, <2>5 DEF Single
    <3>2. /\ NamesIn(p, o, r) = NamesIn(p, a, b)
          /\ NamesIn(p, r, l) = NamesIn(p, b, l)
      BY <1>0, <1>4, <2>6, <3>1, FirstName
    <3>. QED
      BY <2>2, <2>5, <3>2
  <2>8. r \in 0..l
    BY <1>0, <2>6
  <2>. QED
    BY <1>2, <2>2, <2>5, <2>7, <2>8 DEF MatchLeaves, r, l
<1>. QED
  BY <1>5, <1>6

\* Segment seg may take the piece a..b, and not as the last of a pattern.
TakesPiece(seg, p, a, b) ==
    /\ Takes(seg, p, NamesIn(p, a, b), FALSE)
    /\ Greedy(seg, p, NamesIn(p, a, b), NamesIn(p, a, Len(p)))

NoEmptyName(p) == \A i \in 1..Len(p) : p[i] # ""

\* call_path_only is complete: what a segment pattern takes of a path without
\* empty segments is matched, and nothing else is.
LEMMA SegmentComplete ==
    ASSUME NEW p \in Seq(STRING), Canonical(p), NEW o \in 0..Len(p),
           NoEmptyName(p),
           NEW a \in 0..Len(p), NEW b \in a..Len(p), SameLeft(p, o, a),
           NEW seg, NEW leaf \in BOOLEAN,
           TakesPiece(seg, p, a, b),
           leaf => NamesIn(p, b, Len(p)) = {}
    PROVE  /\ CallPathOnly(seg, leaf, p, o) # {}
           /\ \A m \in CallPathOnly(seg, leaf, p, o) : MatchLeaves(p, b, m)
<1> DEFINE one == StripOneSegment(p, o)
           names == NamesIn(p, a, b)
           C == CallPathOnly(seg, leaf, p, o)
<1>1. Captured(p, one) # {}
  BY DEF Captured
<1>2. CASE Kind(seg) = "root"
  <2> DEFINE n == IF o + 1 = Len(p) /\ p[o + 1] = "/" THEN Len(p) ELSE o
  <2>1. names = {}
    BY <1>2 DEF TakesPiece, Takes
  <2>2. NamesIn(p, a, Len(p)) = NamesIn(p, b, Len(p))
    <3>1. a \in Nat /\ b \in Nat /\ Len(p) \in Nat /\ a <= b /\ b <= Len(p)
      OBVIOUS
    <3>. QED
      BY <2>1, <3>1, NamesJoin
  <2>3. n = o
    <3>. SUFFICES ASSUME o + 1 = Len(p), p[o + 1] = "/" PROVE FALSE
      OBVIOUS
    <3>1. NamesIn(p, o, Len(p)) = {}
      BY DEF NamesIn
    <3>. QED
      BY <3>1 DEF SameLeft, WellPlaced
  <2>4. leaf => n = Len(p)
    BY <2>2, <2>3 DEF SameLeft, WellPlaced
  <2>5. C = {[remain |-> n, capture |-> {}]}
    BY <1>2, <2>4 DEF CallPathOnly
  <2>. HIDE DEF n, C
  <2>6. MatchLeaves(p, b, [remain |-> o, capture |-> {}])
    BY <2>2 DEF MatchLeaves, SameLeft
  <2>. QED
    BY <2>3, <2>5, <2>6 DEF C
<1>3. CASE Kind(seg) # "root"
  <2>1. AtMostOne(names)
    BY <1>3 DEF TakesPiece, Takes
  <2>2. names = {} => Kind(seg) \in {"path", "full"}
    BY <1>3 DEF TakesPiece, Takes
  <2>3. names = {} => NamesIn(p, a, Len(p)) = {}
    BY <2>2 DEF TakesPiece, Greedy
  <2>4. MatchLeaves(p, b, one) /\ \A y \in names : one.seg = p[y]
    BY <2>1, <2>3, StripComplete, Zenon
  <2>5. \A m : m.remain = one.remain => MatchLeaves(p, b, m)
    BY <2>4 DEF MatchLeaves
  <2>6. \A y \in names : one.seg = p[y] /\ one.seg # ""
    <3>. SUFFICES ASSUME NEW y \in names PROVE y \in 1..Len(p)
      BY <2>4 DEF NoEmptyName
    <3>1. y \in (a + 1)..b
      BY DEF NamesIn
    <3>. QED
      BY <3>1
  <2>. HIDE DEF one
  <2>7. CASE Kind(seg) \in {"string", "int", "path"}
    <3>1. /\ Kind(seg) # "path" => one.seg # ""
          /\ Kind(seg) = "int" => Parses(one.seg)
      BY <2>2, <2>6, <2>7 DEF TakesPiece, Takes, Parses
    <3>2. C = {[remain |-> one.remain, capture |-> {r}] :
                  r \in Captured(p, one)}
      BY <2>7, <3>1 DEF CallPathOnly, one
    <3>. HIDE DEF C
    <3>. QED
      BY <1>1, <2>5, <3>2 DEF C
  <2>8. CASE Kind(seg) = "full"
    <3>1. C = {[remain |-> one.remain, capture |-> {FullCapture(p, o)}]}
      BY <2>8 DEF CallPathOnly, one
    <3>. HIDE DEF C
    <3>. QED
      BY <2>5, <3>1 DEF C
  <2>9. CASE Kind(seg) = "static"
    <3>1. one.seg = seg
      BY <2>2, <2>6, <2>9 DEF TakesPiece, Takes
    <3>2. C = {[remain |-> one.remain, capture |-> {}]}
      BY <2>9, <3>1 DEF CallPathOnly, one
    <3>. HIDE DEF C
    <3>. QED
      BY <2>5, <3>2 DEF C
  <2>. QED
    BY <1>3, <2>7, <2>8, <2>9, KindType DEF Parameter
<1>. QED
  BY <1>2, <1>3

-----------------------------------------------------------------------------
(* Routing: what path_can_resolve computes                                 *)

\* The matches of node n of tree t, at offset o of path p.
MatchAt(t, p, n, o) ==
    CallPathOnly(SegmentOf(n), t[n].children = <<>>, p, o)

\* The search goes from node n and offset o into the child of segment s, and
\* from there on at offset r.
Goes(t, p, n, o, s, r) ==
    /\ s \in Rng(t[n].children)
    /\ \E m \in MatchAt(t, p, Append(n, s), o) : m.remain = r

\* One round of the search: what n resolves if its children resolve what f
\* says.
Resolves(t, p, f, n) ==
    {o \in 0..Len(p) :
        \/ \E s, r : Goes(t, p, n, o, s, r) /\ r \in f[Append(n, s)]
        \/ o = Len(p) \/ IsFullPath(n)}

GoodTree(t) ==
    /\ \A n \in DOMAIN t :
          /\ n \in Seq(STRING) /\ t[n].children \in Seq(STRING)
          /\ \A s \in Rng(t[n].children) : Append(n, s) \in DOMAIN t
    /\ \E depth \in Nat : \A n \in DOMAIN t : Len(n) <= depth

LEMMA ChildFacts ==
    ASSUME NEW t, GoodTree(t), NEW n \in DOMAIN t,
           NEW s \in Rng(t[n].children)
    PROVE  /\ n \in Seq(STRING) /\ s \in STRING
           /\ Append(n, s) \in DOMAIN t /\ Append(n, s) # <<>>
           /\ Len(n) \in Nat /\ Len(Append(n, s)) = Len(n) + 1
           /\ SegmentOf(Append(n, s)) = s
<1>1. /\ n \in Seq(STRING) /\ t[n].children \in Seq(STRING)
      /\ Append(n, s) \in DOMAIN t
  BY DEF GoodTree
<1>2. s \in STRING
  BY <1>1 DEF Rng
<1>3. /\ Len(Append(n, s)) = Len(n) + 1 /\ Append(n, s)[Len(n) + 1] = s
      /\ Len(n) \in Nat
  BY <1>1, <1>2, AppendFacts
<1>4. Append(n, s) # <<>>
  <2>1. Len(Append(n, s)) # 0 /\ Len(<<>>) = 0
    BY <1>3
  <2>. QED
    BY <2>1, Zenon
<1>5. SegmentOf(Append(n, s)) = s
  BY <1>3, <1>4 DEF SegmentOf
<1>. QED
  BY <1>1, <1>2, <1>3, <1>4, <1>5

\* The nodes less than d levels above depth h.
Lowest(t, h, d) == {n \in DOMAIN t : Len(n) + d > h}

\* The search ends: going up from the deepest nodes, there is a function that
\* satisfies its recursion.
LEMMA ResolverExists ==
    ASSUME NEW t, GoodTree(t), NEW p
    PROVE  \E f : f = [n \in DOMAIN t |-> Resolves(t, p, f, n)]
<1>1. PICK h \in Nat : \A n \in DOMAIN t : Len(n) <= h
  BY DEF GoodTree
<1> DEFINE D(d) == Lowest(t, h, d)
           Ok(d) == \E f : f = [n \in D(d) |-> Resolves(t, p, f, n)]
           Bad == {d \in Nat : ~Ok(d)}
<1>2. ASSUME NEW x \in Bad, \A y \in Bad : x <= y PROVE FALSE
  <2>1. x \in Nat /\ ~Ok(x)
    OBVIOUS
  <2>2. x # 0
    <3>. SUFFICES ASSUME x = 0 PROVE FALSE
      OBVIOUS
    <3>1. D(0) = {}
      <4>. SUFFICES ASSUME NEW n \in D(0) PROVE FALSE
        OBVIOUS
      <4>1. Len(n) > h /\ Len(n) <= h /\ Len(n) \in Nat
        BY <1>1 DEF GoodTree, Lowest
      <4>. QED
        BY <4>1
    <3> DEFINE f == [n \in {} |-> {}]
    <3>2. f = [n \in D(0) |-> Resolves(t, p, f, n)]
      BY <3>1
    <3>. QED
      BY <2>1, <3>2
  <2>3. x - 1 \in Nat /\ x - 1 \notin Bad
    BY <1>2, <2>1, <2>2
  <2>4. PICK f : f = [n \in D(x - 1) |-> Resolves(t, p, f, n)]
    BY <2>3
  <2> DEFINE g == [n \in D(x) |-> Resolves(t, p, f, n)]
  <2>5. ASSUME NEW n \in D(x), NEW s \in Rng(t[n].children)
        PROVE  f[Append(n, s)] = g[Append(n, s)]
    <3> DEFINE c == Append(n, s)
    <3>1. n \in DOMAIN t /\ Len(n) + x > h
      BY DEF Lowest
    <3>2. c \in DOMAIN t /\ Len(c) = Len(n) + 1 /\ Len(n) \in Nat
      BY <3>1, ChildFacts
    <3>. HIDE DEF c
    <3>3. c \in D(x - 1) /\ c \in D(x)
      BY <2>1, <3>1, <3>2 DEF Lowest
    <3>. HIDE DEF D
    <3>4. f[c] = Resolves(t, p, f, c)
      BY <2>4, <3>3
    <3>. QED
      BY <3>3, <3>4 DEF c
  <2>. HIDE DEF D
  <2>6. ASSUME NEW n \in D(x)
        PROVE  Resolves(t, p, f, n) = Resolves(t, p, g, n)
    <3>. HIDE DEF g
    <3>1. \A s, r, o : Goes(t, p, n, o, s, r) =>
              f[Append(n, s)] = g[Append(n, s)]
      BY <2>5 DEF Goes
    <3>. QED
      BY <3>1 DEF Resolves
  <2>7. g = [n \in D(x) |-> Resolves(t, p, g, n)]
    BY <2>6
  <2>. HIDE DEF g
  <2>. QED
    BY <2>1, <2>7
<1>3. Bad = {}
  <2>1. Bad \in SUBSET Nat
    OBVIOUS
  <2>. HIDE DEF Bad
  <2>. QED
    BY <1>2, <2>1, LeastNumber
<1>4. Ok(h + 1)
  <2>1. h + 1 \in Nat
    BY <1>1
  <2>. HIDE DEF Ok
  <2>. QED
    BY <1>3, <2>1
<1>5. D(h + 1) = DOMAIN t
  <2>1. ASSUME NEW n \in DOMAIN t PROVE Len(n) + (h + 1) > h
    <3>1. Len(n) \in Nat
      BY DEF GoodTree
    <3>. QED
      BY <1>1, <3>1
  <2>. QED
    BY <2>1 DEF Lowest
<1>. HIDE DEF D
<1>. QED
  BY <1>4, <1>5

\* A static child that matches is one of those looked at.
LEMMA MatchIsCandidate ==
    ASSUME GoodTree(tree), NEW n \in DOMAIN tree, NEW o,
           NEW i \in DOMAIN tree[n].children, NEW m \in Match(Child(n, i), o)
    PROVE  i \in Candidates(n, o)
<1> DEFINE s == tree[n].children[i]
           one == StripOneSegment(request.path, o)
<1>1. SegmentOf(Append(n, s)) = s
  BY ChildFacts DEF Rng
<1>2. Child(n, i) = Append(n, s)
  BY DEF Child
<1>3. PICK leaf : m \in CallPathOnly(s, leaf, request.path, o)
  BY <1>1, <1>2 DEF Match
<1>. HIDE DEF s
<1>4. IsStatic(s) => one.seg = s
  BY <1>3 DEF CallPathOnly, IsStatic
<1>. HIDE DEF one
<1>. QED
  BY <1>4 DEF Candidates, s, one

\* The children of n that are looked at and resolve what f says, by segment.
LEMMA ByIndexOrSegment ==
    ASSUME GoodTree(tree), NEW n \in DOMAIN tree, NEW o, NEW f
    PROVE  (\E i \in Candidates(n, o) : \E m \in Match(Child(n, i), o) :
               m.remain \in f[Child(n, i)])
           <=> (\E s, r : /\ Goes(tree, request.path, n, o, s, r)
                          /\ r \in f[Append(n, s)])
<1>1. ASSUME NEW i \in Candidates(n, o), NEW m \in Match(Child(n, i), o),
             m.remain \in f[Child(n, i)]
      PROVE  \E s, r : /\ Goes(tree, request.path, n, o, s, r)
                       /\ r \in f[Append(n, s)]
  <2> DEFINE s == tree[n].children[i]
  <2>1. s \in Rng(tree[n].children)
    BY DEF Candidates, Rng
  <2>2. Child(n, i) = Append(n, s)
    BY DEF Child
  <2>3. m \in MatchAt(tree, request.path, Append(n, s), o)
    BY <2>2 DEF Match, MatchAt
  <2>. HIDE DEF s
  <2>4. Goes(tree, request.path, n, o, s, m.remain)
    BY <2>1, <2>3 DEF Goes
  <2>. QED
    BY <1>1, <2>2, <2>4
<1>2. ASSUME NEW s, NEW r, Goes(tree, request.path, n, o, s, r),
             r \in f[Append(n, s)]
      PROVE  \E i \in Candidates(n, o) : \E m \in Match(Child(n, i), o) :
                 m.remain \in f[Child(n, i)]
  <2>1. PICK i \in DOMAIN tree[n].children : s = tree[n].children[i]
    BY <1>2 DEF Goes, Rng
  <2>2. Child(n, i) = Append(n, s)
    BY <2>1 DEF Child
  <2>3. PICK m \in MatchAt(tree, request.path, Append(n, s), o) :
            m.remain = r
    BY <1>2 DEF Goes
  <2>4. m \in Match(Child(n, i), o)
    BY <2>2, <2>3 DEF Match, MatchAt
  <2>5. i \in Candidates(n, o)
    BY <2>4, MatchIsCandidate
  <2>. QED
    BY <1>2, <2>2, <2>3, <2>4, <2>5
<1>. QED
  BY <1>1, <1>2

\* path_can_resolve, on any tree and path.
Resolver(t, p) ==
    CHOOSE f : f = [n \in DOMAIN t |-> Resolves(t, p, f, n)]

\* f is what path_can_resolve computes on tree t and path p.
IsResolver(t, p, f) == \A n \in DOMAIN t : f[n] = Resolves(t, p, f, n)

LEMMA ResolverUnfolds ==
    ASSUME NEW t, GoodTree(t), NEW p
    PROVE  IsResolver(t, p, Resolver(t, p))
<1> DEFINE F(f) == [n \in DOMAIN t |-> Resolves(t, p, f, n)]
           g == Resolver(t, p)
<1>1. \E f : f = F(f)
  BY ResolverExists
<1>2. g = CHOOSE f : f = F(f)
  BY DEF Resolver
<1>. HIDE DEF F, g
<1>3. g = F(g)
  BY <1>1, <1>2, Zenon
<1>4. \A n \in DOMAIN t : g[n] = Resolves(t, p, g, n)
  BY <1>3 DEF F
<1>. QED
  BY <1>4 DEF IsResolver, g

LEMMA CanResolveIs ==
    ASSUME GoodTree(tree)
    PROVE  CanResolve = Resolver(tree, request.path)
<1> DEFINE F(f) == [k \in DOMAIN tree |-> Resolves(tree, request.path, f, k)]
<1>1. ASSUME NEW f
      PROVE  [k \in DOMAIN tree |->
                 {o \in 0..Len(request.path) :
                     \/ \E i \in Candidates(k, o) :
                           \E m \in Match(Child(k, i), o) :
                              m.remain \in f[Child(k, i)]
                     \/ o = Len(request.path) \/ IsFullPath(k)}]
             = F(f)
  BY ByIndexOrSegment DEF Resolves
<1>2. Resolver(tree, request.path) = CHOOSE f : f = F(f)
  BY DEF Resolver
<1>. HIDE DEF F
<1>3. CanResolve = CHOOSE f : f = F(f)
  BY <1>1 DEF CanResolve
<1>. QED
  BY <1>2, <1>3

\* The nodes of a pattern are in the tree, one below the other.
HasPattern(t, pat) ==
    /\ pat \in Seq(STRING) /\ Len(pat) > 0
    /\ \A d \in 0..Len(pat) : SubSeq(pat, 1, d) \in DOMAIN t
    /\ \A d \in 0..(Len(pat) - 1) :
          pat[d + 1] \in Rng(t[SubSeq(pat, 1, d)].children)

\* A path to dispatch: one without empty segments.
GoodPath(p) == p \in Seq(STRING) /\ Canonical(p) /\ NoEmptyName(p)

\* The next node of a pattern, below the one of its first d segments.
LEMMA NextNode ==
    ASSUME NEW t, GoodTree(t), NEW pat, HasPattern(t, pat),
           NEW d \in 0..(Len(pat) - 1)
    PROVE  /\ SubSeq(pat, 1, d) \in DOMAIN t
           /\ SubSeq(pat, 1, d + 1) \in DOMAIN t
           /\ pat[d + 1] \in Rng(t[SubSeq(pat, 1, d)].children)
           /\ Append(SubSeq(pat, 1, d), pat[d + 1]) = SubSeq(pat, 1, d + 1)
           /\ SegmentOf(SubSeq(pat, 1, d + 1)) = pat[d + 1]
           /\ t[SubSeq(pat, 1, d + 1)].children = <<>> => d + 1 = Len(pat)
<1>1. pat \in Seq(STRING) /\ Len(pat) \in Nat
  BY DEF HasPattern
<1>2. d \in Nat /\ d < Len(pat) /\ d \in 0..Len(pat) /\ d + 1 \in 0..Len(pat)
  BY <1>1
<1>3. /\ SubSeq(pat, 1, d) \in DOMAIN t /\ SubSeq(pat, 1, d + 1) \in DOMAIN t
      /\ pat[d + 1] \in Rng(t[SubSeq(pat, 1, d)].children)
  BY <1>2 DEF HasPattern
<1>4. Append(SubSeq(pat, 1, d), pat[d + 1]) = SubSeq(pat, 1, d + 1)
  BY <1>1, <1>2, PrefixStep
<1>5. SegmentOf(SubSeq(pat, 1, d + 1)) = pat[d + 1]
  BY <1>3, <1>4, ChildFacts
<1>6. ASSUME t[SubSeq(pat, 1, d + 1)].children = <<>>, d + 1 # Len(pat)
      PROVE  FALSE
  <2>1. d + 1 \in 0..(Len(pat) - 1)
    BY <1>1, <1>2, <1>6
  <2>2. pat[(d + 1) + 1] \in Rng(t[SubSeq(pat, 1, d + 1)].children)
    BY <2>1 DEF HasPattern
  <2>3. Rng(<<>>) = {}
    BY DEF Rng
  <2>. QED
    BY <1>6, <2>2, <2>3
<1>. QED
  BY <1>3, <1>4, <1>5, <1>6

\* A reading, piece by piece.
LEMMA ReadsFacts ==
    ASSUME NEW p \in Seq(STRING), NEW pat \in Seq(STRING), Len(pat) > 0,
           NEW ends \in Cuts(pat, p), Reads(pat, p, ends),
           NEW d \in 0..(Len(pat) - 1)
    PROVE  /\ From(ends, d + 1) \in 0..Len(p)
           /\ From(ends, d + 2) \in From(ends, d + 1)..Len(p)
           /\ d + 1 = Len(pat) => From(ends, d + 2) = Len(p)
           /\ ~(d + 1 = Len(pat) /\ Kind(pat[d + 1]) = "full") =>
                 TakesPiece(pat[d + 1], p, From(ends, d + 1),
                            From(ends, d + 2))
<1> DEFINE i == d + 1
<1>1. /\ Len(pat) \in Nat /\ DOMAIN pat = 1..Len(pat) /\ i \in DOMAIN pat
      /\ i \in Nat /\ i > 0 /\ Len(p) \in Nat /\ d + 2 = i + 1 /\ i <= Len(pat)
  OBVIOUS
<1>. SUFFICES /\ From(ends, i) \in 0..Len(p)
              /\ From(ends, i + 1) \in From(ends, i)..Len(p)
              /\ i = Len(pat) => From(ends, i + 1) = Len(p)
              /\ ~(i = Len(pat) /\ Kind(pat[i]) = "full") =>
                   TakesPiece(pat[i], p, From(ends, i), From(ends, i + 1))
  BY <1>1
<1>. HIDE DEF i
<1>2. ends \in [DOMAIN pat -> 0..Len(p)]
  BY DEF Cuts
<1>3. From(ends, i + 1) = ends[i]
  BY <1>1 DEF From
<1>4. From(ends, i) \in 0..Len(p)
  <2>1. i # 1 => i - 1 \in DOMAIN pat
    BY <1>1
  <2>. QED
    BY <1>1, <1>2, <2>1 DEF From
<1>5. ends[i] \in 0..Len(p) /\ From(ends, i) <= ends[i]
  BY <1>1, <1>2 DEF Reads
<1>6. i = Len(pat) => ends[i] = Len(p)
  BY DEF Reads
<1>7. ASSUME ~(i = Len(pat) /\ Kind(pat[i]) = "full")
      PROVE  TakesPiece(pat[i], p, From(ends, i), ends[i])
  <2>1. /\ Takes(pat[i], p, Piece(p, ends, i), i = Len(pat))
        /\ Greedy(pat[i], p, Piece(p, ends, i), Left(p, ends, i))
    BY <1>1, Zenon DEF Reads
  <2>2. Takes(pat[i], p, Piece(p, ends, i), FALSE)
    BY <1>7, <2>1 DEF Takes
  <2>. QED
    BY <2>1, <2>2 DEF TakesPiece, Piece, Left
<1>8. From(ends, i + 1) \in From(ends, i)..Len(p)
  BY <1>1, <1>3, <1>4, <1>5
<1>. QED
  BY <1>3, <1>4, <1>6, <1>7, <1>8

\* The next node of a pattern that reads the path matches, wherever the names
\* left are those the reading leaves.
LEMMA MatchesAlong ==
    ASSUME NEW t, GoodTree(t), NEW pat, HasPattern(t, pat),
           NEW p, GoodPath(p), NEW ends \in Cuts(pat, p), Reads(pat, p, ends),
           NEW d \in 0..(Len(pat) - 1), NEW o \in 0..Len(p),
           SameLeft(p, o, From(ends, d + 1)),
           ~(d + 1 = Len(pat) /\ Kind(pat[d + 1]) = "full")
    PROVE  /\ MatchAt(t, p, SubSeq(pat, 1, d + 1), o) # {}
           /\ \A m \in MatchAt(t, p, SubSeq(pat, 1, d + 1), o) :
                 /\ m.remain \in 0..Len(p)
                 /\ SameLeft(p, m.remain, From(ends, d + 2))
<1> DEFINE c == SubSeq(pat, 1, d + 1)
           leaf == t[c].children = <<>>
           a == From(ends, d + 1)
           b == From(ends, d + 2)
           seg == pat[d + 1]
<1>1. p \in Seq(STRING) /\ Canonical(p) /\ NoEmptyName(p)
  BY DEF GoodPath
<1>2. pat \in Seq(STRING) /\ Len(pat) > 0
  BY DEF HasPattern
<1>3. /\ a \in 0..Len(p) /\ b \in a..Len(p)
      /\ d + 1 = Len(pat) => b = Len(p)
      /\ TakesPiece(seg, p, a, b)
  BY <1>1, <1>2, ReadsFacts, Zenon
<1>4. SegmentOf(c) = seg /\ (leaf => d + 1 = Len(pat))
  BY NextNode
<1>5. NamesIn(p, Len(p), Len(p)) = {}
  BY <1>1 DEF NamesIn
<1>6. leaf \in BOOLEAN /\ (leaf => NamesIn(p, b, Len(p)) = {})
  BY <1>3, <1>4, <1>5
<1>7. SameLeft(p, o, a)
  OBVIOUS
<1>. HIDE DEF leaf, a, b, seg, c
<1>8. /\ CallPathOnly(seg, leaf, p, o) # {}
      /\ \A m \in CallPathOnly(seg, leaf, p, o) : MatchLeaves(p, b, m)
  BY <1>1, <1>3, <1>6, <1>7, SegmentComplete, Zenon
<1>9. MatchAt(t, p, c, o) = CallPathOnly(seg, leaf, p, o)
  BY <1>4 DEF MatchAt, leaf
<1>. QED
  BY <1>8, <1>9 DEF MatchLeaves, SameLeft, b, c

\* A "<**>" matches everywhere.
LEMMA FullMatches ==
    ASSUME NEW t, NEW p \in Seq(STRING), NEW n, NEW o \in 0..Len(p),
           IsFullPath(n)
    PROVE  \E m \in MatchAt(t, p, n, o) : m.remain \in 0..Len(p)
<1> DEFINE one == StripOneSegment(p, o)
           m == [remain |-> one.remain, capture |-> {FullCapture(p, o)}]
<1>1. m \in MatchAt(t, p, n, o)
  BY DEF MatchAt, CallPathOnly, IsFullPath
<1>2. one.remain \in 0..Len(p)
  BY StripOneSound DEF StripOK, StripWhere
<1>. HIDE DEF one
<1>3. m.remain = one.remain
  OBVIOUS
<1>. QED
  BY <1>1, <1>2, <1>3

\* The first d segments of pat, of which ends is a reading, resolve every
\* offset that leaves the names the reading leaves, and where pat goes on they
\* do so by its next segment.
Along(t, p, f, pat, ends, d) ==
    \A o \in 0..Len(p) : SameLeft(p, o, From(ends, d + 1)) =>
        /\ o \in f[SubSeq(pat, 1, d)]
        /\ d < Len(pat) =>
              \E r : /\ Goes(t, p, SubSeq(pat, 1, d), o, pat[d + 1], r)
                     /\ r \in f[SubSeq(pat, 1, d + 1)]

LEMMA AlongStep ==
    ASSUME NEW t, GoodTree(t), NEW pat, HasPattern(t, pat),
           NEW p, GoodPath(p), NEW ends \in Cuts(pat, p), Reads(pat, p, ends),
           NEW f, IsResolver(t, p, f),
           NEW d \in 0..(Len(pat) - 1), Along(t, p, f, pat, ends, d + 1)
    PROVE  Along(t, p, f, pat, ends, d)
<1> DEFINE n == SubSeq(pat, 1, d)
           c == SubSeq(pat, 1, d + 1)
           seg == pat[d + 1]
<1>0. p \in Seq(STRING) /\ pat \in Seq(STRING) /\ Len(pat) \in Nat
  BY DEF GoodPath, HasPattern
<1>1. /\ n \in DOMAIN t /\ c \in DOMAIN t /\ seg \in Rng(t[n].children)
      /\ Append(n, seg) = c /\ SegmentOf(c) = seg
  BY NextNode
<1>. SUFFICES ASSUME NEW o \in 0..Len(p), SameLeft(p, o, From(ends, d + 1))
              PROVE  /\ o \in f[n]
                     /\ \E r : Goes(t, p, n, o, seg, r) /\ r \in f[c]
  BY DEF Along
<1>2. \E m \in MatchAt(t, p, c, o) : m.remain \in f[c]
  <2>1. CASE d + 1 = Len(pat) /\ Kind(seg) = "full"
    <3>1. PICK m \in MatchAt(t, p, c, o) : m.remain \in 0..Len(p)
      BY <1>0, <1>1, <2>1, FullMatches DEF IsFullPath
    <3>2. m.remain \in Resolves(t, p, f, c)
      BY <1>1, <2>1, <3>1 DEF Resolves, IsFullPath
    <3>. QED
      BY <1>1, <3>1, <3>2 DEF IsResolver
  <2>2. CASE ~(d + 1 = Len(pat) /\ Kind(seg) = "full")
    <3>1. /\ MatchAt(t, p, c, o) # {}
          /\ \A m \in MatchAt(t, p, c, o) :
                /\ m.remain \in 0..Len(p)
                /\ SameLeft(p, m.remain, From(ends, d + 2))
      BY <2>2, MatchesAlong
    <3>2. (d + 1) + 1 = d + 2
      OBVIOUS
    <3>3. PICK m \in MatchAt(t, p, c, o) :
              /\ m.remain \in 0..Len(p)
              /\ SameLeft(p, m.remain, From(ends, d + 2))
      BY <3>1
    <3>4. m.remain \in f[c]
      BY <3>2, <3>3 DEF Along
    <3>. QED
      BY <3>4
  <2>. QED
    BY <2>1, <2>2
<1>3. PICK m \in MatchAt(t, p, c, o) : m.remain \in f[c]
  BY <1>2
<1>. HIDE DEF n, c, seg
<1>4. Goes(t, p, n, o, seg, m.remain)
  BY <1>1, <1>3 DEF Goes
<1>5. o \in Resolves(t, p, f, n)
  BY <1>1, <1>3, <1>4 DEF Resolves
<1>6. o \in f[n]
  BY <1>1, <1>5 DEF IsResolver
<1>. QED
  BY <1>3, <1>4, <1>6

\* path_can_resolve is complete: a pattern of the tree that reads the path is
\* found from each of its nodes.
LEMMA ResolveComplete ==
    ASSUME NEW t, GoodTree(t), NEW pat, HasPattern(t, pat),
           NEW p, GoodPath(p), NEW ends \in Cuts(pat, p), Reads(pat, p, ends),
           NEW f, IsResolver(t, p, f), NEW d \in 0..Len(pat)
    PROVE  Along(t, p, f, pat, ends, d)
<1> DEFINE l == Len(pat)
           Bad == {e \in 0..l : ~Along(t, p, f, pat, ends, l - e)}
<1>1. l \in Nat /\ pat \in Seq(STRING) /\ l > 0
  BY DEF HasPattern
<1>2. Along(t, p, f, pat, ends, l)
  <2>. SUFFICES ASSUME NEW o \in 0..Len(p), SameLeft(p, o, From(ends, l + 1))
                PROVE  o \in f[SubSeq(pat, 1, l)]
    BY <1>1 DEF Along
  <2>1. From(ends, l + 1) = Len(p)
    BY <1>1 DEF From, Reads
  <2>2. NamesIn(p, Len(p), Len(p)) = {}
    <3>1. Len(p) \in Nat
      BY DEF GoodPath
    <3>. QED
      BY <3>1 DEF NamesIn
  <2>3. o = Len(p)
    BY <2>1, <2>2 DEF SameLeft, WellPlaced
  <2>4. SubSeq(pat, 1, l) \in DOMAIN t
    BY <1>1 DEF HasPattern
  <2>5. o \in Resolves(t, p, f, SubSeq(pat, 1, l))
    BY <2>3 DEF Resolves
  <2>. QED
    BY <2>4, <2>5 DEF IsResolver
<1>3. ASSUME NEW x \in Bad, \A y \in Bad : x <= y PROVE FALSE
  <2>1. x \in 0..l /\ ~Along(t, p, f, pat, ends, l - x)
    OBVIOUS
  <2>2. x # 0
    <3>1. l - 0 = l
      BY <1>1
    <3>. QED
      BY <1>2, <2>1, <3>1
  <2>3. x - 1 \in 0..l /\ x - 1 \notin Bad
    BY <1>1, <1>3, <2>1, <2>2
  <2>4. l - x \in 0..(l - 1) /\ l - (x - 1) = (l - x) + 1
    BY <1>1, <2>1, <2>2
  <2>5. Along(t, p, f, pat, ends, (l - x) + 1)
    BY <2>3, <2>4
  <2>6. Along(t, p, f, pat, ends, l - x)
    BY <2>4, <2>5, AlongStep, Zenon
  <2>. QED
    BY <2>1, <2>6
<1>4. Bad = {}
  <2>1. Bad \in SUBSET Nat
    BY <1>1
  <2>. HIDE DEF Bad
  <2>. QED
    BY <1>3, <2>1, LeastNumber
<1>5. l - d \in 0..l /\ l - (l - d) = d
  BY <1>1
<1>. QED
  BY <1>4, <1>5

LEMMA PrefixTrans ==
    ASSUME NEW n \in Seq(STRING), NEW s \in STRING, NEW k \in Seq(STRING),
           PrefixOf(Append(n, s), k)
    PROVE  PrefixOf(n, k) /\ Len(n) < Len(k)
<1> DEFINE c == Append(n, s)
           l == Len(n)
<1>1. c \in Seq(STRING) /\ Len(c) = l + 1 /\ l \in Nat /\ Len(k) \in Nat
  <2>1. c \in Seq(STRING) /\ Len(c) = l + 1
    BY AppendFacts, Zenon
  <2>2. l \in Nat /\ Len(k) \in Nat
    OBVIOUS
  <2>. QED
    BY <2>1, <2>2, Zenon
<1>2. SubSeq(c, 1, l) = SubSeq(n, 1, l)
  BY <1>1, PrefixOfAppend
<1>3. SubSeq(n, 1, l) = n
  BY PrefixEnds
<1>4. SubSeq(k, 1, l + 1) = c /\ l + 1 <= Len(k)
  BY <1>1 DEF PrefixOf
<1>. HIDE DEF c, l
<1>5. l + 1 \in 0..Len(k) /\ l \in 0..(l + 1)
  BY <1>1, <1>4
<1>6. SubSeq(SubSeq(k, 1, l + 1), 1, l) = SubSeq(k, 1, l)
  BY <1>5, PrefixOfPrefix
<1>7. SubSeq(k, 1, l) = n
  BY <1>2, <1>3, <1>4, <1>6
<1>8. l <= Len(k) /\ l < Len(k)
  BY <1>1, <1>4
<1>. QED
  BY <1>7, <1>8 DEF PrefixOf, l

LEMMA PrefixSelf ==
    ASSUME NEW n \in Seq(STRING)
    PROVE  PrefixOf(n, n)
<1>1. SubSeq(n, 1, Len(n)) = n
  BY PrefixEnds
<1>2. Len(n) <= Len(n)
  OBVIOUS
<1>. QED
  BY <1>1, <1>2 DEF PrefixOf

\* The pieces along node n, up to offset o.
Placed(p, n, o) ==
    \E ends \in [DOMAIN n -> 0..Len(p)] : \E bound :
        Cut(p, n, o, ends) /\ Bound(p, n, ends, bound)

\* A node below n, or n, reads all of the path.
ReadBelow(t, p, n) == \E k \in DOMAIN t : PrefixOf(n, k) /\ Matches(k, p)

\* The pieces after one more step of the search.
LEMMA PlacedStep ==
    ASSUME NEW t, GoodTree(t), NEW p \in Seq(STRING), NEW n \in DOMAIN t,
           NEW o, Placed(p, n, o), NEW s, NEW r, Goes(t, p, n, o, s, r)
    PROVE  Placed(p, Append(n, s), r)
<1>1. s \in Rng(t[n].children)
  BY DEF Goes
<1>2. n \in Seq(STRING) /\ s \in STRING /\ SegmentOf(Append(n, s)) = s
  BY <1>1, ChildFacts
<1>3. PICK m \in MatchAt(t, p, Append(n, s), o) : m.remain = r
  BY DEF Goes
<1>4. PICK ends, bound :
          /\ ends \in [DOMAIN n -> 0..Len(p)]
          /\ Cut(p, n, o, ends) /\ Bound(p, n, ends, bound)
  BY DEF Placed
<1>5. o \in 0..Len(p)
  BY <1>4, Zenon DEF Cut
<1>6. MatchOK(s, p, o, m)
  <2>1. PICK leaf : m \in CallPathOnly(s, leaf, p, o)
    BY <1>2, <1>3 DEF MatchAt
  <2>. QED
    BY <1>5, <2>1, SegmentSound, Zenon
<1>7. \E e \in [DOMAIN Append(n, s) -> 0..Len(p)] :
          /\ Cut(p, Append(n, s), m.remain, e)
          /\ Bound(p, Append(n, s), e,
                   BindParams(bound, Append(n, s), m))
  BY <1>2, <1>4, <1>5, <1>6, CutStep, Zenon
<1>. QED
  BY <1>3, <1>7 DEF Placed

\* Where the search stops, the node reads the path.
LEMMA PlacedEnd ==
    ASSUME NEW p \in Seq(STRING), NEW n \in Seq(STRING), n # <<>>,
           NEW o, Placed(p, n, o), o = Len(p) \/ IsFullPath(n)
    PROVE  Matches(n, p)
<1>1. PICK ends, bound :
          /\ ends \in [DOMAIN n -> 0..Len(p)]
          /\ Cut(p, n, o, ends) /\ Bound(p, n, ends, bound)
  BY DEF Placed
<1>2. o \in 0..Len(p)
  BY <1>1, Zenon DEF Cut
<1>3. o = Len(p) \/ Kind(n[Len(n)]) = "full"
  BY DEF SegmentOf, IsFullPath
<1>4. \E e \in Cuts(n, p) : Reads(n, p, e) /\ Bound(p, n, e, bound)
  BY <1>1, <1>2, <1>3, CutReads, Zenon
<1>. QED
  BY <1>4 DEF Matches

\* path_can_resolve is sound: what it finds is a node that reads the path.
LEMMA ResolveSound ==
    ASSUME NEW t, GoodTree(t), NEW p \in Seq(STRING), NEW f,
           IsResolver(t, p, f), NEW n \in DOMAIN t, n # <<>>,
           NEW o \in f[n], Placed(p, n, o)
    PROVE  ReadBelow(t, p, n)
<1>1. PICK h \in Nat : \A k \in DOMAIN t : Len(k) <= h
  BY DEF GoodTree
<1> DEFINE Ok(d) == \A k \in Lowest(t, h, d) : k # <<>> =>
                        \A x \in f[k] : Placed(p, k, x) => ReadBelow(t, p, k)
           Bad == {d \in Nat : ~Ok(d)}
<1>2. ASSUME NEW x \in Bad, \A y \in Bad : x <= y PROVE FALSE
  <2>1. x \in Nat /\ ~Ok(x)
    OBVIOUS
  <2>2. PICK k \in Lowest(t, h, x) :
            /\ k # <<>>
            /\ \E y \in f[k] : Placed(p, k, y) /\ ~ReadBelow(t, p, k)
    BY <2>1
  <2>3. PICK y \in f[k] : Placed(p, k, y) /\ ~ReadBelow(t, p, k)
    BY <2>2
  <2>4. /\ k \in DOMAIN t /\ Len(k) + x > h /\ Len(k) <= h
        /\ k \in Seq(STRING) /\ Len(k) \in Nat
    BY <1>1 DEF Lowest, GoodTree
  <2>5. x # 0
    BY <2>1, <2>4
  <2>6. x - 1 \in Nat /\ x - 1 \notin Bad
    BY <1>2, <2>1, <2>5
  <2>7. Ok(x - 1)
    BY <2>6
  <2>. HIDE DEF Bad
  <2>8. y \in Resolves(t, p, f, k)
    BY <2>3, <2>4 DEF IsResolver
  <2>9. CASE y = Len(p) \/ IsFullPath(k)
    <3>1. Matches(k, p)
      BY <2>2, <2>3, <2>4, <2>9, PlacedEnd
    <3>2. PrefixOf(k, k)
      BY <2>4, PrefixSelf
    <3>. QED
      BY <2>3, <2>4, <3>1, <3>2 DEF ReadBelow
  <2>10. CASE \E s, r : Goes(t, p, k, y, s, r) /\ r \in f[Append(k, s)]
    <3>1. PICK s, r : Goes(t, p, k, y, s, r) /\ r \in f[Append(k, s)]
      BY <2>10
    <3> DEFINE c == Append(k, s)
    <3>2. s \in Rng(t[k].children)
      BY <3>1 DEF Goes
    <3>3. c \in DOMAIN t /\ c # <<>> /\ Len(c) = Len(k) + 1 /\ s \in STRING
      BY <2>4, <3>2, ChildFacts
    <3>4. Placed(p, c, r)
      BY <2>3, <2>4, <3>1, PlacedStep
    <3>5. r \in f[c]
      BY <3>1
    <3>. HIDE DEF c
    <3>6. c \in Lowest(t, h, x - 1)
      BY <2>1, <2>4, <3>3 DEF Lowest
    <3>7. ReadBelow(t, p, c)
      BY <2>7, <3>3, <3>4, <3>5, <3>6
    <3>8. PICK q \in DOMAIN t : PrefixOf(c, q) /\ Matches(q, p)
      BY <3>7 DEF ReadBelow
    <3>9. q \in Seq(STRING)
      BY DEF GoodTree
    <3>10. PrefixOf(k, q)
      BY <2>4, <3>3, <3>8, <3>9, PrefixTrans DEF c
    <3>. QED
      BY <2>3, <3>8, <3>10 DEF ReadBelow
  <2>. QED
    BY <2>8, <2>9, <2>10 DEF Resolves
<1>3. Bad = {}
  <2>1. Bad \in SUBSET Nat
    OBVIOUS
  <2>. HIDE DEF Bad
  <2>. QED
    BY <1>2, <2>1, LeastNumber
<1>4. Ok(h + 1)
  <2>1. h + 1 \in Nat
    BY <1>1
  <2>. HIDE DEF Ok
  <2>. QED
    BY <1>3, <2>1
<1>5. n \in Lowest(t, h, h + 1)
  <2>1. Len(n) \in Nat
    BY DEF GoodTree
  <2>. QED
    BY <1>1, <2>1 DEF Lowest
<1>. QED
  BY <1>4, <1>5

-----------------------------------------------------------------------------
(* Routing: what is found                                                  *)

\* The walk is where path_can_resolve found a way on ...
Resolved == Len(at) > 1 => offset \in Resolver(tree, request.path)[at]

\* ... at the root it has left what every reading of the path leaves there ...
Started ==
    Len(at) = 1 /\ Canonical(request.path) =>
        \A k \in DOMAIN regs :
            /\ PrefixOf(at, regs[k].pat)
            /\ \A ends \in Cuts(regs[k].pat, request.path) :
                  /\ Reads(regs[k].pat, request.path, ends)
                  /\ ~(Len(regs[k].pat) = 1 /\ Kind(regs[k].pat[1]) = "full")
                  => SameLeft(request.path, offset, From(ends, 2))

\* ... and it is on the way to the node of the path, if there is one.
Straight ==
    \A k \in DOMAIN regs :
        Canonical(request.path) /\ Exact(k, request.path) =>
            /\ PrefixOf(at, regs[k].pat)
            /\ \A ends \in Cuts(regs[k].pat, request.path) :
                  Reads(regs[k].pat, request.path, ends) =>
                      SameLeft(request.path, offset, From(ends, Len(at) + 1))

PathKnown == phase = "walk" \/ reply.status # "none" => request.path \in Paths

FoundInv ==
    /\ RouteInv /\ ShapeOK /\ PathKnown
    /\ phase = "walk" => Resolved /\ Started /\ Straight
    /\ NotFoundOnlyAtPrefix /\ ExactStaticWins

LEMMA TreeGood ==
    ASSUME RouteInv, ShapeOK, phase # "build"
    PROVE  /\ GoodTree(tree) /\ DOMAIN tree = DOMAIN root
           /\ \A k \in DOMAIN regs : HasPattern(tree, regs[k].pat)
<1>1. /\ DOMAIN tree = DOMAIN root
      /\ \A n \in DOMAIN root : tree[n].children = root[n].children
  BY DEF RouteInv, TreeOK
<1>2. \A n \in DOMAIN root :
          n \in Seq(STRING) /\ ChildrenOK(DOMAIN root, n, root[n].children)
  BY DEF RouteInv, RootOK, NodeOK
<1>3. GoodTree(tree)
  BY <1>1, <1>2 DEF GoodTree, ChildrenOK, ShapeOK
<1>4. ASSUME NEW k \in DOMAIN regs PROVE HasPattern(tree, regs[k].pat)
  <2> DEFINE pat == regs[k].pat
  <2>1. pat \in Seq(STRING) /\ Len(pat) > 0 /\ Len(pat) \in Nat
    BY RegisteredNodes, SpecFacts DEF RouteInv
  <2>2. \A d \in 0..Len(pat) : SubSeq(pat, 1, d) \in DOMAIN root
    BY DEF RouteInv, RootOK, Registered
  <2>3. \A d \in 0..(Len(pat) - 1) :
            pat[d + 1] \in Rng(root[SubSeq(pat, 1, d)].children)
    BY DEF ShapeOK
  <2>4. \A d \in 0..(Len(pat) - 1) : d \in 0..Len(pat)
    BY <2>1
  <2>. HIDE DEF pat
  <2>5. HasPattern(tree, pat)
    BY <1>1, <2>1, <2>2, <2>3, <2>4 DEF HasPattern
  <2>. QED
    BY <2>5 DEF pat
<1>. QED
  BY <1>1, <1>3, <1>4

LEMMA PathGood ==
    ASSUME NEW p \in Paths, Canonical(p)
    PROVE  GoodPath(p)
<1> DEFINE S == STRING \ {""}
<1>1. p \in Seq(S) /\ p \in Seq(STRING)
  BY PathFacts, RouteTreeAssumption, Zenon
<1>2. NoEmptyName(p)
  <2>1. S \cap {""} = {}
    OBVIOUS
  <2>. HIDE DEF S
  <2>2. \A i \in 1..Len(p) : p[i] \in S
    BY <1>1
  <2>. QED
    BY <2>1, <2>2 DEF NoEmptyName
<1>. QED
  BY <1>1, <1>2 DEF GoodPath

\* A match does not depend on whether the node is a leaf, which can only refuse
\* it.
LEMMA LeafRefuses ==
    ASSUME NEW seg, NEW leaf, NEW p, NEW o
    PROVE  CallPathOnly(seg, leaf, p, o) \subseteq CallPathOnly(seg, FALSE, p, o)
<1>1. CASE Kind(seg) = "root"
  BY <1>1 DEF CallPathOnly
<1>2. CASE Kind(seg) # "root"
  BY <1>2 DEF CallPathOnly
<1>. QED
  BY <1>1, <1>2

\* At the root, where a path starts with its slash: what the root's segment
\* takes of the path is matched.
LEMMA RootComplete ==
    ASSUME NEW p \in Paths, Canonical(p), NEW b \in 0..Len(p),
           NEW seg, NEW leaf \in BOOLEAN, TakesPiece(seg, p, 0, b),
           leaf => NamesIn(p, b, Len(p)) = {}
    PROVE  /\ CallPathOnly(seg, leaf, p, 0) # {}
           /\ \A m \in CallPathOnly(seg, leaf, p, 0) : MatchLeaves(p, b, m)
<1>1. p \in Seq(STRING) /\ p # <<>> /\ p[1] = "/" /\ NoEmptyName(p)
  BY PathFacts, PathGood, RouteTreeAssumption DEF GoodPath
<1>2. Len(p) \in Nat /\ Len(p) > 0
  BY <1>1
<1> DEFINE C == CallPathOnly(seg, leaf, p, 0)
<1>3. CASE Len(p) = 1
  <2>1. \A i \in 0..Len(p) : NamesIn(p, i, Len(p)) = {}
    BY <1>1, <1>3 DEF NamesIn
  <2>2. NamesIn(p, 0, b) = {}
    <3>1. \A i \in (0 + 1)..b : i = 1
      BY <1>3
    <3>. QED
      BY <1>1, <3>1 DEF NamesIn
  <2>3. Kind(seg) \in {"root", "path", "full"}
    <3>1. Takes(seg, p, {}, FALSE)
      BY <2>2 DEF TakesPiece
    <3>. QED
      BY <3>1, KindType DEF Takes, Parameter
  <2>4. \A m : m.remain = Len(p) => MatchLeaves(p, b, m)
    <3>1. Len(p) \in 0..Len(p)
      BY <1>2
    <3>. QED
      BY <2>1, <3>1 DEF MatchLeaves, WellPlaced
  <2>5. StripOneSegment(p, 0).remain = Len(p)
    <3>1. 0 < Len(p) /\ p[0 + 1] = "/"
      BY <1>1, <1>3
    <3>2. StripLeadingSlash(p, 0) = 0 + 1
      BY <3>1 DEF StripLeadingSlash
    <3>. QED
      BY <1>3, <3>2 DEF StripOneSegment
  <2>6. C # {} /\ \A m \in C : m.remain = Len(p)
    <3>1. CASE Kind(seg) = "root"
      <4>1. 0 + 1 = Len(p) /\ p[0 + 1] = "/"
        BY <1>1, <1>3
      <4>2. C = {[remain |-> Len(p), capture |-> {}]}
        BY <3>1, <4>1 DEF CallPathOnly
      <4>. HIDE DEF C
      <4>. QED
        BY <4>2
    <3>2. CASE Kind(seg) = "path"
      <4> DEFINE one == StripOneSegment(p, 0)
      <4>1. Captured(p, one) # {}
        BY DEF Captured
      <4>2. C = {[remain |-> one.remain, capture |-> {r}] :
                    r \in Captured(p, one)}
        BY <3>2 DEF CallPathOnly
      <4>. HIDE DEF C, one
      <4>3. one.remain = Len(p)
        BY <2>5 DEF one
      <4>4. \A m \in C : m.remain = one.remain
        BY <4>2
      <4>5. C # {}
        BY <4>1, <4>2
      <4>. QED
        BY <4>3, <4>4, <4>5
    <3>3. CASE Kind(seg) = "full"
      <4> DEFINE one == StripOneSegment(p, 0)
      <4>1. C = {[remain |-> one.remain, capture |-> {FullCapture(p, 0)}]}
        BY <3>3 DEF CallPathOnly
      <4>. HIDE DEF C, one
      <4>2. one.remain = Len(p)
        BY <2>5 DEF one
      <4>. QED
        BY <4>1, <4>2
    <3>. QED
      BY <2>3, <3>1, <3>2, <3>3
  <2>. HIDE DEF C
  <2>7. C # {} /\ \A m \in C : MatchLeaves(p, b, m)
    BY <2>4, <2>6
  <2>. QED
    BY <2>7 DEF C
<1>4. CASE Len(p) > 1
  <2>1. 2 \in NamesIn(p, 0, Len(p))
    <3>1. 1 \in 1..(Len(p) - 1) /\ 1 + 1 = 2 /\ 2 \in (0 + 1)..Len(p)
      BY <1>2, <1>4
    <3>2. p[2] # "/"
      BY <1>1, <3>1 DEF Canonical
    <3>. QED
      BY <3>1, <3>2 DEF NamesIn
  <2>2. SameLeft(p, 0, 0)
    BY <2>1 DEF SameLeft, WellPlaced
  <2>3. 0 \in 0..Len(p)
    BY <1>2
  <2>. QED
    BY <1>1, <2>2, <2>3, SegmentComplete, Zenon
<1>5. Len(p) = 1 \/ Len(p) > 1
  <2> DEFINE l == Len(p)
  <2>1. l \in Nat /\ l > 0
    BY <1>2
  <2>. HIDE DEF l
  <2>2. l = 1 \/ l > 1
    BY <2>1
  <2>. QED
    BY <2>2 DEF l
<1>. QED
  BY <1>3, <1>4, <1>5

LEMMA RootLength ==
    ASSUME RouteInv
    PROVE  Len(root[<<>>].children) = 1
<1>1. PICK b : root[<<>>].children = <<b>>
  BY DEF RouteInv, RootOK, UnderRoot
<1>. QED
  BY <1>1, RootNode

\* The root node is the first of every pattern.
LEMMA RootFirst ==
    ASSUME RouteInv, ShapeOK, phase # "build", NEW k \in DOMAIN regs,
           NEW b, root[<<>>].children = <<b>>
    PROVE  /\ regs[k].pat \in Seq(STRING) /\ Len(regs[k].pat) \in Nat
           /\ Len(regs[k].pat) > 0 /\ 0 \in 0..(Len(regs[k].pat) - 1)
           /\ regs[k].pat[1] = b /\ SubSeq(regs[k].pat, 1, 1) = <<b>>
           /\ PrefixOf(<<b>>, regs[k].pat)
           /\ tree[<<b>>].children = <<>> => Len(regs[k].pat) = 1
<1> DEFINE pat == regs[k].pat
<1>1. HasPattern(tree, pat) /\ GoodTree(tree)
  BY TreeGood
<1>2. pat[1] = b /\ Append(<<>>, b) = <<b>> /\ Len(<<b>>) = 1
  BY RootNode
<1>. HIDE DEF pat
<1>3. pat \in Seq(STRING) /\ Len(pat) \in Nat /\ Len(pat) > 0
  BY <1>1 DEF HasPattern
<1>4. 0 \in 0..(Len(pat) - 1) /\ SubSeq(pat, 1, 0) = <<>> /\ 0 + 1 = 1
  BY <1>3, PrefixEnds
<1>5. /\ Append(SubSeq(pat, 1, 0), pat[0 + 1]) = SubSeq(pat, 1, 0 + 1)
      /\ tree[SubSeq(pat, 1, 0 + 1)].children = <<>> => 0 + 1 = Len(pat)
  BY <1>1, <1>4, NextNode
<1>6. SubSeq(pat, 1, 1) = <<b>>
  BY <1>2, <1>4, <1>5
<1>7. PrefixOf(<<b>>, pat)
  BY <1>2, <1>3, <1>6 DEF PrefixOf
<1>8. tree[<<b>>].children = <<>> => Len(pat) = 1
  BY <1>4, <1>5, <1>6
<1>. QED
  BY <1>2, <1>3, <1>4, <1>6, <1>7, <1>8 DEF pat

\* What the root's segment takes in a reading of a registered pattern.
LEMMA RootTakes ==
    ASSUME RouteInv, ShapeOK, phase # "build", NEW k \in DOMAIN regs,
           NEW b, root[<<>>].children = <<b>>, NEW p \in Paths,
           NEW ends \in Cuts(regs[k].pat, p), Reads(regs[k].pat, p, ends),
           ~(Len(regs[k].pat) = 1 /\ Kind(regs[k].pat[1]) = "full")
    PROVE  /\ From(ends, 2) \in 0..Len(p)
           /\ TakesPiece(b, p, 0, From(ends, 2))
           /\ Len(regs[k].pat) = 1 => From(ends, 2) = Len(p)
<1> DEFINE pat == regs[k].pat
<1>1. /\ pat \in Seq(STRING) /\ Len(pat) > 0 /\ 0 \in 0..(Len(pat) - 1)
      /\ pat[1] = b
  BY RootFirst
<1>2. p \in Seq(STRING)
  BY PathFacts
<1>3. 0 + 1 = 1 /\ 0 + 2 = 2
  OBVIOUS
<1>4. /\ ends \in Cuts(pat, p) /\ Reads(pat, p, ends)
      /\ ~(0 + 1 = Len(pat) /\ Kind(pat[0 + 1]) = "full")
  BY <1>3
<1>. HIDE DEF pat
<1>5. /\ From(ends, 0 + 1) \in 0..Len(p)
      /\ From(ends, 0 + 2) \in From(ends, 0 + 1)..Len(p)
      /\ 0 + 1 = Len(pat) => From(ends, 0 + 2) = Len(p)
      /\ TakesPiece(pat[0 + 1], p, From(ends, 0 + 1), From(ends, 0 + 2))
  BY <1>1, <1>2, <1>4, ReadsFacts, Zenon
<1>6. From(ends, 1) = 0
  BY DEF From
<1>7. /\ From(ends, 2) \in 0..Len(p)
      /\ Len(pat) = 1 => From(ends, 2) = Len(p)
  BY <1>3, <1>5, <1>6
<1>8. TakesPiece(b, p, 0, From(ends, 2))
  BY <1>1, <1>3, <1>5, <1>6
<1>. QED
  BY <1>7, <1>8 DEF pat

\* The root refuses only a path no registration stands for.
LEMMA RootRefuses ==
    ASSUME RouteInv, ShapeOK, phase # "build",
           NEW b, root[<<>>].children = <<b>>,
           NEW p \in Paths, Canonical(p),
           CallPathOnly(b, tree[<<b>>].children = <<>>, p, 0) = {},
           NEW k \in DOMAIN regs
    PROVE  ~Matches(regs[k].pat, p)
<1>. SUFFICES ASSUME Matches(regs[k].pat, p) PROVE FALSE
  OBVIOUS
<1>1. PICK ends \in Cuts(regs[k].pat, p) : Reads(regs[k].pat, p, ends)
  BY DEF Matches
<1>2. /\ regs[k].pat[1] = b
      /\ tree[<<b>>].children = <<>> => Len(regs[k].pat) = 1
  BY RootFirst
<1> DEFINE leaf == tree[<<b>>].children = <<>>
<1>3. CASE Kind(b) = "full"
  BY <1>3 DEF CallPathOnly
<1>4. CASE Kind(b) # "full"
  <2>1. /\ From(ends, 2) \in 0..Len(p)
        /\ TakesPiece(b, p, 0, From(ends, 2))
        /\ Len(regs[k].pat) = 1 => From(ends, 2) = Len(p)
    BY <1>1, <1>2, <1>4, RootTakes
  <2>2. NamesIn(p, Len(p), Len(p)) = {}
    BY PathFacts DEF NamesIn
  <2>3. leaf \in BOOLEAN /\ (leaf => NamesIn(p, From(ends, 2), Len(p)) = {})
    BY <1>2, <2>1, <2>2
  <2>4. CallPathOnly(b, leaf, p, 0) = {}
    OBVIOUS
  <2>. HIDE DEF leaf
  <2>5. CallPathOnly(b, leaf, p, 0) # {}
    BY <2>1, <2>3, RootComplete, Zenon
  <2>. QED
    BY <2>4, <2>5
<1>. QED
  BY <1>3, <1>4

\* Some child resolves if the search goes on.
LEMMA ResolvingWhen ==
    ASSUME GoodTree(tree), NEW n \in DOMAIN tree, NEW o
    PROVE  LET f == Resolver(tree, request.path)
           IN  Resolving(n, o) # {} <=>
                   \E s, r : /\ Goes(tree, request.path, n, o, s, r)
                             /\ r \in f[Append(n, s)]
<1> DEFINE f == Resolver(tree, request.path)
<1>1. CanResolve = f
  BY CanResolveIs
<1>2. (\E i \in Candidates(n, o) : \E m \in Match(Child(n, i), o) :
          m.remain \in f[Child(n, i)])
      <=> (\E s, r : /\ Goes(tree, request.path, n, o, s, r)
                     /\ r \in f[Append(n, s)])
  BY ByIndexOrSegment
<1>. HIDE DEF f
<1>3. Resolving(n, o) = {i \in Candidates(n, o) :
                            \E m \in Match(Child(n, i), o) :
                                m.remain \in f[Child(n, i)]}
  BY <1>1 DEF Resolving
<1>4. Resolving(n, o) # {} <=>
          \E s, r : /\ Goes(tree, request.path, n, o, s, r)
                    /\ r \in f[Append(n, s)]
  BY <1>2, <1>3
<1>. QED
  BY <1>4 DEF f

\* Every match of a segment leaves the same.
LEMMA SameRemain ==
    ASSUME NEW seg, NEW leaf, NEW p, NEW o,
           NEW m \in CallPathOnly(seg, leaf, p, o),
           NEW k \in CallPathOnly(seg, leaf, p, o)
    PROVE  m.remain = k.remain
<1> DEFINE one == StripOneSegment(p, o)
           C == CallPathOnly(seg, leaf, p, o)
<1>1. CASE Kind(seg) = "root"
  <2> DEFINE n == IF o + 1 = Len(p) /\ p[o + 1] = "/" THEN Len(p) ELSE o
  <2>1. m = [remain |-> n, capture |-> {}]
    BY <1>1 DEF CallPathOnly
  <2>2. k = [remain |-> n, capture |-> {}]
    BY <1>1 DEF CallPathOnly
  <2>. HIDE DEF n
  <2>. QED
    BY <2>1, <2>2
<1>2. CASE Kind(seg) \in {"string", "int", "path"}
  <2>1. ASSUME NEW x \in C PROVE x.remain = one.remain
    <3>1. PICK r \in Captured(p, one) :
              x = [remain |-> one.remain, capture |-> {r}]
      BY <1>2 DEF CallPathOnly
    <3>. QED
      BY <3>1
  <2>. HIDE DEF C, one
  <2>. QED
    BY <2>1 DEF C
<1>3. CASE Kind(seg) = "full"
  BY <1>3 DEF CallPathOnly
<1>4. CASE Kind(seg) = "static"
  BY <1>4 DEF CallPathOnly
<1>. QED
  BY <1>1, <1>2, <1>3, <1>4, KindType DEF Parameter

\* What is known of the walk.
LEMMA WalkFacts ==
    ASSUME FoundInv, phase = "walk"
    PROVE  /\ GoodTree(tree) /\ at \in DOMAIN tree /\ at \in Seq(STRING)
           /\ Len(at) \in Nat /\ Len(at) > 0
           /\ DOMAIN tree = DOMAIN root
           /\ request.path \in Paths /\ request.path \in Seq(STRING)
           /\ offset \in 0..Len(request.path)
           /\ Placed(request.path, at, offset)
           /\ IsResolver(tree, request.path, Resolver(tree, request.path))
           /\ Resolved /\ Started /\ Straight
<1>1. RouteInv /\ ShapeOK /\ PathKnown /\ Resolved /\ Started /\ Straight
  BY DEF FoundInv
<1>2. GoodTree(tree) /\ DOMAIN tree = DOMAIN root
  BY <1>1, TreeGood
<1>3. WalkOK
  BY <1>1 DEF RouteInv
<1>4. /\ at \in DOMAIN tree /\ at \in Seq(STRING)
      /\ Len(at) \in Nat /\ Len(at) > 0
  <2>1. at \in DOMAIN tree /\ at \in Seq(STRING) /\ at # <<>>
    BY <1>2, <1>3 DEF WalkOK, GoodTree
  <2>. QED
    BY <2>1
<1>5. request.path \in Paths
  BY <1>1 DEF PathKnown
<1>6. request.path \in Seq(STRING)
  BY <1>5, PathFacts
<1>7. PICK ends \in [DOMAIN at -> 0..Len(request.path)] :
          /\ Cut(request.path, at, offset, ends)
          /\ Bound(request.path, at, ends, params)
  BY <1>3 DEF WalkOK
<1>8. offset \in 0..Len(request.path)
  BY <1>7, Zenon DEF Cut
<1>9. Placed(request.path, at, offset)
  BY <1>7 DEF Placed
<1>10. IsResolver(tree, request.path, Resolver(tree, request.path))
  BY <1>2, ResolverUnfolds
<1>. QED
  BY <1>1, <1>2, <1>4, <1>5, <1>6, <1>8, <1>9, <1>10

\* Above the node of a pattern that reads the path, the search goes on by the
\* next segment of the pattern.
LEMMA SearchGoesOn ==
    ASSUME FoundInv, phase = "walk", Canonical(request.path),
           NEW k \in DOMAIN regs,
           NEW ends \in Cuts(regs[k].pat, request.path),
           Reads(regs[k].pat, request.path, ends),
           PrefixOf(at, regs[k].pat), Len(at) < Len(regs[k].pat),
           SameLeft(request.path, offset, From(ends, Len(at) + 1))
    PROVE  LET seg == regs[k].pat[Len(at) + 1]
           IN  /\ Len(at) \in 0..(Len(regs[k].pat) - 1)
               /\ Append(at, seg) = SubSeq(regs[k].pat, 1, Len(at) + 1)
               /\ \E r : /\ Goes(tree, request.path, at, offset, seg, r)
                         /\ r \in Resolver(tree, request.path)[Append(at, seg)]
<1> DEFINE p == request.path
           pat == regs[k].pat
           d == Len(at)
           seg == pat[d + 1]
           f == Resolver(tree, p)
<1>1. /\ GoodTree(tree) /\ at \in Seq(STRING) /\ p \in Paths
      /\ offset \in 0..Len(p) /\ IsResolver(tree, p, f)
  BY WalkFacts
<1>2. GoodPath(p)
  BY <1>1, PathGood
<1>3. HasPattern(tree, pat)
  BY TreeGood DEF FoundInv
<1>4. pat \in Seq(STRING) /\ Len(pat) \in Nat /\ d \in Nat
  BY <1>1, <1>3 DEF HasPattern
<1>5. d \in 0..(Len(pat) - 1) /\ d \in 0..Len(pat) /\ d < Len(pat)
  BY <1>4
<1>6. SubSeq(pat, 1, d) = at
  BY DEF PrefixOf
<1>7. SameLeft(p, offset, From(ends, d + 1))
  OBVIOUS
<1>8. ends \in Cuts(pat, p) /\ Reads(pat, p, ends)
  OBVIOUS
<1>. HIDE DEF p, pat, d, f
<1>9. Along(tree, p, f, pat, ends, d)
  BY <1>1, <1>2, <1>3, <1>5, <1>8, ResolveComplete, Zenon
<1>10. \E r : /\ Goes(tree, p, at, offset, seg, r)
              /\ r \in f[SubSeq(pat, 1, d + 1)]
  BY <1>1, <1>5, <1>6, <1>7, <1>9 DEF Along
<1>11. Append(at, seg) = SubSeq(pat, 1, d + 1)
  BY <1>1, <1>3, <1>5, <1>6, NextNode
<1>. QED
  BY <1>5, <1>10, <1>11 DEF p, pat, d, f, seg

\* Where no child resolves and the walk is below the root, the path ends.
LEMMA StuckAtEnd ==
    ASSUME FoundInv, phase = "walk", Len(at) > 1, Resolving(at, offset) = {}
    PROVE  /\ offset = Len(request.path) \/ IsFullPath(at)
           /\ Matches(at, request.path)
<1> DEFINE p == request.path
           f == Resolver(tree, p)
<1>1. /\ GoodTree(tree) /\ at \in DOMAIN tree /\ at \in Seq(STRING)
      /\ p \in Seq(STRING) /\ Placed(p, at, offset)
      /\ IsResolver(tree, p, f) /\ Resolved
  BY WalkFacts
<1>2. ~\E s, r : Goes(tree, p, at, offset, s, r) /\ r \in f[Append(at, s)]
  BY <1>1, ResolvingWhen
<1>3. offset \in f[at]
  BY <1>1 DEF Resolved
<1>. HIDE DEF f, p
<1>4. offset \in Resolves(tree, p, f, at)
  BY <1>1, <1>3 DEF IsResolver
<1>5. offset = Len(p) \/ IsFullPath(at)
  BY <1>2, <1>4 DEF Resolves
<1>6. Matches(at, p)
  BY <1>1, <1>5, PlacedEnd
<1>. QED
  BY <1>5, <1>6 DEF p

\* A registered pattern has a handler.
LEMMA HasHandler ==
    ASSUME RouteInv, phase # "build", NEW k \in DOMAIN regs
    PROVE  tree[regs[k].pat].handler # NoHandler
<1> DEFINE n == regs[k].pat
<1>1. n \in DOMAIN root /\ regs[k].method \in DOMAIN root[n].handler
  BY RegisteredNodes DEF RouteInv, RootOK, Registered
<1>2. tree[n].handler = root[n].handler
  BY <1>1 DEF RouteInv, TreeOK
<1>3. DOMAIN NoHandler = {}
  BY DEF NoHandler
<1>. QED
  BY <1>1, <1>2, <1>3

\* What NotFoundOnlyAtPrefix says of the node dispatch stopped at.
StoppedShort(n, p) ==
    /\ n # <<>> /\ Matches(n, p)
    /\ \A j \in DOMAIN regs : regs[j].pat # n
    /\ \E j \in DOMAIN regs :
          /\ Len(n) < Len(regs[j].pat)
          /\ SubSeq(regs[j].pat, 1, Len(n)) = n

\* At the root the walk goes on, or finds the handler of the root.
LEMMA RootAnswers ==
    ASSUME FoundInv, phase = "walk", Canonical(request.path), Len(at) = 1,
           Resolving(at, offset) = {},
           NEW k \in DOMAIN regs, Matches(regs[k].pat, request.path)
    PROVE  /\ tree[at].handler # NoHandler
           /\ offset = Len(request.path) \/ IsFullPath(at)
<1> DEFINE p == request.path
           pat == regs[k].pat
<1>1. /\ GoodTree(tree) /\ at \in DOMAIN tree /\ at \in Seq(STRING)
      /\ p \in Paths /\ p \in Seq(STRING) /\ Started
  BY WalkFacts
<1>2. PICK ends \in Cuts(pat, p) : Reads(pat, p, ends)
  BY DEF Matches
<1>3. PrefixOf(at, pat)
  BY <1>1 DEF Started
<1>4. pat \in Seq(STRING) /\ Len(pat) \in Nat /\ Len(pat) > 0
  BY RegisteredNodes, SpecFacts DEF FoundInv, RouteInv
<1>5. ~(Len(pat) = 1 /\ Kind(pat[1]) = "full") =>
          SameLeft(p, offset, From(ends, 2))
  BY <1>1, <1>2 DEF Started
<1>6. Len(pat) = 1
  <2>. SUFFICES ASSUME Len(pat) # 1 PROVE FALSE
    OBVIOUS
  <2>1. Len(at) < Len(pat) /\ Len(at) + 1 = 2
    <3> DEFINE l == Len(pat)
    <3>1. l \in Nat /\ l > 0 /\ l # 1
      BY <1>4
    <3>. HIDE DEF l
    <3>2. 1 < l
      BY <3>1
    <3>. QED
      BY <3>2 DEF l
  <2>2. SameLeft(p, offset, From(ends, Len(at) + 1))
    BY <1>5, <2>1
  <2>3. \E s, r : /\ Goes(tree, p, at, offset, s, r)
                  /\ r \in Resolver(tree, p)[Append(at, s)]
    BY <1>2, <1>3, <2>1, <2>2, SearchGoesOn
  <2>. QED
    BY <1>1, <2>3, ResolvingWhen
<1>7. at = pat
  <2>1. SubSeq(pat, 1, Len(at)) = at
    BY <1>3 DEF PrefixOf
  <2>. QED
    BY <1>4, <1>6, <2>1, PrefixEnds
<1>8. tree[pat].handler # NoHandler
  BY HasHandler DEF FoundInv
<1>9. CASE Kind(pat[1]) = "full"
  <2>1. SegmentOf(at) = pat[1]
    <3>1. pat # <<>>
      BY <1>4
    <3>. QED
      BY <1>6, <1>7, <3>1 DEF SegmentOf
  <2>. QED
    BY <1>7, <1>8, <1>9, <2>1 DEF IsFullPath
<1>10. CASE Kind(pat[1]) # "full"
  <2>. HIDE DEF p, pat
  <2>1. From(ends, 2) = Len(p)
    <3>1. ends[1] = Len(p)
      BY <1>2, <1>6 DEF Reads
    <3>. QED
      BY <3>1 DEF From
  <2>2. NamesIn(p, Len(p), Len(p)) = {}
    BY <1>1 DEF NamesIn
  <2>3. offset = Len(p)
    BY <1>5, <1>10, <2>1, <2>2 DEF SameLeft, WellPlaced
  <2>. QED
    BY <1>7, <1>8, <2>3 DEF p
<1>. QED
  BY <1>9, <1>10

\* The walk does not stop short of a pattern that reads the path: it is at a
\* node that does, and that has no handler.
LEMMA NotFoundWhy ==
    ASSUME FoundInv, phase = "walk", Canonical(request.path),
           Resolving(at, offset) = {},
           ~(/\ tree[at].handler # NoHandler
             /\ offset = Len(request.path) \/ IsFullPath(at)),
           NEW k \in DOMAIN regs, Matches(regs[k].pat, request.path)
    PROVE  StoppedShort(at, request.path)
<1> DEFINE p == request.path
<1>1. /\ GoodTree(tree) /\ at \in DOMAIN tree /\ at \in Seq(STRING)
      /\ DOMAIN tree = DOMAIN root /\ Len(at) \in Nat /\ Len(at) > 0
  BY WalkFacts
<1>2. Len(at) # 1
  BY RootAnswers
<1>3. Len(at) > 1
  <2> DEFINE l == Len(at)
  <2>1. l \in Nat /\ l > 0 /\ l # 1
    BY <1>1, <1>2
  <2>. HIDE DEF l
  <2>2. l > 1
    BY <2>1
  <2>. QED
    BY <2>2 DEF l
<1>4. tree[at].handler = NoHandler /\ Matches(at, p)
  BY <1>3, StuckAtEnd
<1>5. at \notin {<<>>, root[<<>>].children}
  <2>1. Len(root[<<>>].children) = 1
    BY RootLength DEF FoundInv
  <2>2. Len(<<>>) = 0 /\ ~(0 > 1) /\ ~(1 > 1)
    OBVIOUS
  <2>. QED
    BY <1>3, <2>1, <2>2, Zenon
<1>6. PICK j \in DOMAIN regs : PrefixOf(at, regs[j].pat)
  BY <1>1, <1>5 DEF FoundInv, ShapeOK
<1>7. \A i \in DOMAIN regs : regs[i].pat # at
  BY <1>4, HasHandler DEF FoundInv
<1> DEFINE pat == regs[j].pat
<1>8. pat \in Seq(STRING) /\ Len(pat) \in Nat
  BY RegisteredNodes, SpecFacts DEF FoundInv, RouteInv
<1>9. SubSeq(pat, 1, Len(at)) = at /\ Len(at) <= Len(pat) /\ pat # at
  BY <1>6, <1>7 DEF PrefixOf
<1>. HIDE DEF pat
<1>10. Len(at) # Len(pat)
  BY <1>8, <1>9, PrefixEnds
<1>11. Len(at) < Len(pat)
  <2> DEFINE a == Len(at)
             l == Len(pat)
  <2>1. a \in Nat /\ l \in Nat /\ a <= l /\ a # l
    BY <1>1, <1>8, <1>9, <1>10
  <2>. HIDE DEF a, l
  <2>2. a < l
    BY <2>1
  <2>. QED
    BY <2>2 DEF a, l
<1>. QED
  BY <1>4, <1>5, <1>7, <1>9, <1>11 DEF StoppedShort, pat

\* The walk for a path of static names stops at the node of those names.
LEMMA ExactEnd ==
    ASSUME FoundInv, phase = "walk", Canonical(request.path),
           Resolving(at, offset) = {},
           NEW k \in DOMAIN regs, Exact(k, request.path)
    PROVE  /\ at = regs[k].pat /\ offset = Len(request.path)
           /\ tree[at].handler # NoHandler
<1> DEFINE p == request.path
           pat == regs[k].pat
<1>1. /\ GoodTree(tree) /\ at \in DOMAIN tree /\ at \in Seq(STRING)
      /\ p \in Seq(STRING) /\ Straight
  BY WalkFacts
<1>2. PICK ends \in Cuts(pat, p) : Reads(pat, p, ends)
  BY DEF Exact, Matches
<1>3. PrefixOf(at, pat) /\ SameLeft(p, offset, From(ends, Len(at) + 1))
  BY <1>1, <1>2 DEF Straight
<1>4. pat \in Seq(STRING) /\ Len(pat) \in Nat /\ Len(pat) > 0
  BY RegisteredNodes, SpecFacts DEF FoundInv, RouteInv
<1>5. ~(Len(at) < Len(pat))
  <2>. SUFFICES ASSUME Len(at) < Len(pat) PROVE FALSE
    OBVIOUS
  <2>1. \E s, r : /\ Goes(tree, p, at, offset, s, r)
                  /\ r \in Resolver(tree, p)[Append(at, s)]
    BY <1>2, <1>3, SearchGoesOn
  <2>. QED
    BY <1>1, <2>1, ResolvingWhen
<1>6. Len(at) = Len(pat) /\ SubSeq(pat, 1, Len(at)) = at
  <2>1. Len(at) <= Len(pat) /\ SubSeq(pat, 1, Len(at)) = at
    BY <1>3 DEF PrefixOf
  <2>2. Len(at) \in Nat
    BY <1>1
  <2>. QED
    BY <1>4, <1>5, <2>1, <2>2
<1>7. at = pat
  BY <1>4, <1>6, PrefixEnds
<1>8. offset = Len(p)
  <2>. HIDE DEF p, pat
  <2>1. From(ends, Len(pat) + 1) = Len(p)
    <3>1. Len(pat) + 1 # 1 /\ (Len(pat) + 1) - 1 = Len(pat)
      BY <1>4
    <3>2. ends[Len(pat)] = Len(p)
      BY <1>2 DEF Reads
    <3>. QED
      BY <3>1, <3>2 DEF From
  <2>2. NamesIn(p, Len(p), Len(p)) = {}
    BY <1>1 DEF NamesIn
  <2>. QED
    BY <1>3, <1>6, <2>1, <2>2 DEF SameLeft, WellPlaced
<1>9. tree[pat].handler # NoHandler
  BY HasHandler DEF FoundInv
<1>. QED
  BY <1>7, <1>8, <1>9

\* A static child that matches has the name of the next segment of the path.
LEMMA StaticName ==
    ASSUME NEW t, GoodTree(t), NEW n \in DOMAIN t,
           NEW s \in Rng(t[n].children), IsStatic(s), NEW p, NEW o,
           NEW m \in MatchAt(t, p, Append(n, s), o)
    PROVE  StripOneSegment(p, o).seg = s
<1> DEFINE one == StripOneSegment(p, o)
<1>1. SegmentOf(Append(n, s)) = s
  BY ChildFacts
<1>2. PICK leaf : m \in CallPathOnly(s, leaf, p, o)
  BY <1>1 DEF MatchAt
<1>3. one.seg = s
  BY <1>2 DEF CallPathOnly, IsStatic
<1>. QED
  BY <1>3

\* call_children takes child c of the node the walk is at, by match m.
Chooses(c, m) ==
    /\ c \in Rng(tree[at].children)
    /\ m \in MatchAt(tree, request.path, Append(at, c), offset)
    /\ m.remain \in Resolver(tree, request.path)[Append(at, c)]
    /\ at' = Append(at, c) /\ offset' = m.remain
    /\ \A s \in Rng(tree[at].children) : \A r :
          /\ IsStatic(s) /\ Goes(tree, request.path, at, offset, s, r)
          /\ r \in Resolver(tree, request.path)[Append(at, s)]
          => IsStatic(c)

LEMMA DescendChooses ==
    ASSUME FoundInv, Descend
    PROVE  \E c, m : Chooses(c, m)
<1> DEFINE p == request.path
           f == Resolver(tree, p)
<1>0. phase = "walk"
  BY DEF Descend
<1>1. GoodTree(tree) /\ at \in DOMAIN tree
  BY <1>0, WalkFacts
<1>2. CanResolve = f
  BY <1>1, CanResolveIs
<1>. HIDE DEF f
<1>3. PICK i \in Resolving(at, offset) :
          /\ \A j \in Resolving(at, offset) : TriedNoLater(at, i, j)
          /\ \E m \in Match(Child(at, i), offset) :
                at' = Child(at, i) /\ offset' = m.remain
  BY DEF Descend
<1>4. PICK m \in Match(Child(at, i), offset) :
          at' = Child(at, i) /\ offset' = m.remain
  BY <1>3
<1> DEFINE c == tree[at].children[i]
<1>5. Child(at, i) = Append(at, c)
  BY DEF Child
<1>6. /\ i \in DOMAIN tree[at].children
      /\ \E x \in Match(Child(at, i), offset) : x.remain \in f[Child(at, i)]
  BY <1>2, <1>3 DEF Resolving, Candidates
<1>7. c \in Rng(tree[at].children)
  BY <1>6 DEF Rng
<1>8. Match(Child(at, i), offset) = MatchAt(tree, p, Append(at, c), offset)
  BY <1>5 DEF Match, MatchAt
<1>9. m.remain \in f[Append(at, c)]
  <2>1. PICK x \in Match(Child(at, i), offset) : x.remain \in f[Child(at, i)]
    BY <1>6
  <2>2. m.remain = x.remain
    <3>1. /\ m \in MatchAt(tree, p, Append(at, c), offset)
          /\ x \in MatchAt(tree, p, Append(at, c), offset)
      BY <1>4, <1>8, <2>1
    <3>2. PICK leaf :
              /\ m \in CallPathOnly(SegmentOf(Append(at, c)), leaf, p, offset)
              /\ x \in CallPathOnly(SegmentOf(Append(at, c)), leaf, p, offset)
      BY <3>1 DEF MatchAt
    <3>. HIDE DEF p, c
    <3>. QED
      BY <3>2, SameRemain
  <2>. QED
    BY <1>5, <2>1, <2>2
<1>10. ASSUME NEW s \in Rng(tree[at].children), NEW r, IsStatic(s),
              Goes(tree, p, at, offset, s, r), r \in f[Append(at, s)]
       PROVE  IsStatic(c)
  <2>1. PICK j \in DOMAIN tree[at].children : s = tree[at].children[j]
    BY <1>10 DEF Rng
  <2>2. Child(at, j) = Append(at, s)
    BY <2>1 DEF Child
  <2>3. PICK x \in MatchAt(tree, p, Append(at, s), offset) : x.remain = r
    BY <1>10 DEF Goes
  <2>4. x \in Match(Child(at, j), offset)
    BY <2>2, <2>3 DEF Match, MatchAt
  <2>5. j \in Candidates(at, offset)
    BY <1>1, <2>4, MatchIsCandidate
  <2>6. j \in Resolving(at, offset)
    BY <1>2, <1>10, <2>2, <2>3, <2>4, <2>5 DEF Resolving
  <2>7. TriedNoLater(at, i, j)
    BY <1>3, <2>6
  <2>. QED
    BY <1>10, <2>1, <2>7 DEF TriedNoLater
<1>. HIDE DEF c
<1>11. Chooses(c, m)
  BY <1>4, <1>5, <1>7, <1>8, <1>9, <1>10 DEF Chooses, f
<1>. QED
  BY <1>11

\* The child chosen is on the way to the node of the path, if there is one.
LEMMA ChoosesStraight ==
    ASSUME FoundInv, phase = "walk", NEW c, NEW m, Chooses(c, m),
           Canonical(request.path), NEW k \in DOMAIN regs,
           Exact(k, request.path)
    PROVE  /\ PrefixOf(Append(at, c), regs[k].pat)
           /\ \A ends \in Cuts(regs[k].pat, request.path) :
                 Reads(regs[k].pat, request.path, ends) =>
                     SameLeft(request.path, m.remain,
                              From(ends, Len(Append(at, c)) + 1))
<1> DEFINE p == request.path
           pat == regs[k].pat
           f == Resolver(tree, p)
           d == Len(at)
<1>1. /\ GoodTree(tree) /\ at \in DOMAIN tree /\ at \in Seq(STRING)
      /\ DOMAIN tree = DOMAIN root /\ d > 0
      /\ p \in Paths /\ p \in Seq(STRING) /\ offset \in 0..Len(p)
      /\ Placed(p, at, offset) /\ IsResolver(tree, p, f) /\ Straight
  BY WalkFacts
<1>2. /\ c \in Rng(tree[at].children)
      /\ m \in MatchAt(tree, p, Append(at, c), offset)
      /\ m.remain \in f[Append(at, c)]
  BY DEF Chooses
<1>3. /\ c \in STRING /\ Append(at, c) \in DOMAIN tree /\ Append(at, c) # <<>>
      /\ Len(Append(at, c)) = d + 1 /\ d \in Nat
  BY <1>1, <1>2, ChildFacts
<1>4. /\ pat \in Seq(STRING) /\ Len(pat) \in Nat /\ Len(pat) > 0
      /\ HasPattern(tree, pat)
  BY RegisteredNodes, SpecFacts, TreeGood DEF FoundInv, RouteInv
<1>5. PICK ends \in Cuts(pat, p) : Reads(pat, p, ends)
  BY DEF Exact, Matches
<1>6. /\ PrefixOf(at, pat)
      /\ \A e \in Cuts(pat, p) :
            Reads(pat, p, e) => SameLeft(p, offset, From(e, d + 1))
  BY <1>1 DEF Straight
<1>7. d < Len(pat)
  <2>. SUFFICES ASSUME ~(d < Len(pat)) PROVE FALSE
    OBVIOUS
  <2>1. d = Len(pat) /\ SubSeq(pat, 1, d) = at
    BY <1>3, <1>4, <1>6 DEF PrefixOf
  <2>2. at = pat
    BY <1>4, <2>1, PrefixEnds
  <2>3. Goes(tree, p, at, offset, c, m.remain)
    BY <1>2 DEF Goes
  <2>. HIDE DEF p, f
  <2>4. Placed(p, Append(at, c), m.remain)
    BY <1>1, <2>3, PlacedStep
  <2>5. ReadBelow(tree, p, Append(at, c))
    BY <1>1, <1>2, <1>3, <2>4, ResolveSound
  <2>6. PICK q \in DOMAIN tree : PrefixOf(Append(at, c), q) /\ Matches(q, p)
    BY <2>5 DEF ReadBelow
  <2>7. q \in Seq(STRING) /\ Len(q) \in Nat
    BY <1>1 DEF GoodTree
  <2>8. PrefixOf(at, q) /\ Len(at) < Len(q)
    BY <1>1, <1>3, <2>6, <2>7, PrefixTrans
  <2>9. q \notin {<<>>, root[<<>>].children}
    <3>1. Len(q) > 1
      BY <1>1, <1>3, <2>7, <2>8
    <3>2. Len(root[<<>>].children) = 1
      BY RootLength DEF FoundInv
    <3>3. Len(<<>>) = 0 /\ ~(0 > 1) /\ ~(1 > 1)
      OBVIOUS
    <3>. QED
      BY <3>1, <3>2, <3>3, Zenon
  <2>10. PICK j \in DOMAIN regs : PrefixOf(q, regs[j].pat)
    BY <1>1, <2>9 DEF FoundInv, ShapeOK
  <2> DEFINE longer == regs[j].pat
  <2>11. longer \in Seq(STRING) /\ Len(longer) \in Nat
    BY RegisteredNodes, SpecFacts DEF FoundInv, RouteInv
  <2>12. SubSeq(longer, 1, Len(q)) = q /\ Len(q) <= Len(longer)
    BY <2>10 DEF PrefixOf
  <2>. HIDE DEF longer, d
  <2>13. SubSeq(longer, 1, Len(at)) = at
    <3>1. Len(q) \in 0..Len(longer) /\ Len(at) \in 0..Len(q)
      BY <1>3, <2>7, <2>8, <2>11, <2>12 DEF d
    <3>2. SubSeq(SubSeq(longer, 1, Len(q)), 1, Len(at))
              = SubSeq(longer, 1, Len(at))
      BY <2>11, <3>1, PrefixOfPrefix
    <3>3. SubSeq(q, 1, Len(at)) = at
      BY <2>8 DEF PrefixOf
    <3>. QED
      BY <2>12, <3>2, <3>3
  <2>14. /\ Len(at) <= Len(longer)
         /\ Len(q) \in (Len(at) + 1)..Len(longer)
    BY <1>3, <2>7, <2>8, <2>11, <2>12 DEF d
  <2>15. Matches(SubSeq(longer, 1, Len(q)), p)
    BY <2>6, <2>12
  <2>16. GoesOn(j, pat, p)
    BY <2>2, <2>13, <2>14, <2>15 DEF GoesOn, longer
  <2>. QED
    BY <2>16 DEF Exact, p
<1> DEFINE seg == pat[d + 1]
<1>8. /\ d \in 0..(Len(pat) - 1) /\ Append(at, seg) = SubSeq(pat, 1, d + 1)
      /\ \E r : Goes(tree, p, at, offset, seg, r) /\ r \in f[Append(at, seg)]
  BY <1>5, <1>6, <1>7, SearchGoesOn
<1>9. seg \in Rng(tree[at].children) /\ SubSeq(pat, 1, d) = at
  <2>1. SubSeq(pat, 1, d) = at
    BY <1>6 DEF PrefixOf
  <2>. HIDE DEF pat, d, f, p
  <2>2. seg \in Rng(tree[SubSeq(pat, 1, d)].children)
    BY <1>1, <1>4, <1>8, NextNode
  <2>. QED
    BY <2>1, <2>2
<1>10. IsStatic(seg)
  <2>1. d + 1 \in DOMAIN pat /\ d + 1 # 1
    BY <1>1, <1>3, <1>4, <1>8
  <2>. QED
    BY <2>1, Zenon DEF Exact
<1>11. c = seg
  <2>1. PICK r : /\ Goes(tree, p, at, offset, seg, r)
                 /\ r \in f[Append(at, seg)]
    BY <1>8
  <2>2. IsStatic(c)
    BY <1>9, <1>10, <2>1 DEF Chooses
  <2>3. PICK x \in MatchAt(tree, p, Append(at, seg), offset) : TRUE
    BY <2>1 DEF Goes
  <2>4. StripOneSegment(p, offset).seg = seg
    <3>1. x \in MatchAt(tree, p, Append(at, seg), offset)
      BY <2>3
    <3>2. GoodTree(tree) /\ at \in DOMAIN tree
      BY <1>1
    <3>3. seg \in Rng(tree[at].children)
      BY <1>9
    <3>. HIDE DEF seg, p
    <3>. QED
      BY <1>10, <3>1, <3>2, <3>3, StaticName
  <2>5. StripOneSegment(p, offset).seg = c
    <3>1. m \in MatchAt(tree, p, Append(at, c), offset)
      BY <1>2
    <3>2. GoodTree(tree) /\ at \in DOMAIN tree
      BY <1>1
    <3>3. c \in Rng(tree[at].children)
      BY <1>2
    <3>. HIDE DEF p
    <3>. QED
      BY <2>2, <3>1, <3>2, <3>3, StaticName
  <2>. QED
    BY <2>4, <2>5
<1>12. PrefixOf(Append(at, c), pat)
  <2>1. d + 1 <= Len(pat)
    BY <1>3, <1>4, <1>7
  <2>. QED
    BY <1>3, <1>8, <1>11, <2>1 DEF PrefixOf
<1>13. ASSUME NEW e \in Cuts(pat, p), Reads(pat, p, e)
       PROVE  SameLeft(p, m.remain, From(e, Len(Append(at, c)) + 1))
  <2>1. GoodPath(p)
    BY <1>1, PathGood
  <2>2. Kind(seg) # "full"
    BY <1>10 DEF IsStatic
  <2>3. SameLeft(p, offset, From(e, d + 1))
    BY <1>6, <1>13
  <2>4. m \in MatchAt(tree, p, SubSeq(pat, 1, d + 1), offset)
    BY <1>2, <1>8, <1>11
  <2>5. Reads(pat, p, e)
    BY <1>13
  <2>. HIDE DEF p, pat, d
  <2>6. \A x \in MatchAt(tree, p, SubSeq(pat, 1, d + 1), offset) :
            SameLeft(p, x.remain, From(e, d + 2))
    BY <1>1, <1>4, <1>8, <2>1, <2>2, <2>3, <2>5, MatchesAlong
  <2>7. d + 2 = Len(Append(at, c)) + 1
    BY <1>3
  <2>8. SameLeft(p, m.remain, From(e, d + 2))
    BY <2>4, <2>6
  <2>. QED
    BY <2>7, <2>8
<1>. QED
  BY <1>12, <1>13

\* While there is no reply both properties hold.
LEMMA NoReplyYet ==
    ASSUME reply = NoReply
    PROVE  NotFoundOnlyAtPrefix /\ ExactStaticWins /\ reply.status = "none"
<1>1. reply.status = "none"
  BY DEF NoReply
<1>. QED
  BY <1>1 DEF NotFoundOnlyAtPrefix, ExactStaticWins

LEMMA SameShape ==
    ASSUME ShapeOK, regs' = regs, root' = root
    PROVE  ShapeOK'
BY DEF ShapeOK

LEMMA FoundInit ==
    ASSUME RouteInit
    PROVE  FoundInv
<1>1. RouteInv
  BY RouteInitInv
<1>2. regs = <<>> /\ phase = "build" /\ reply = NoReply
  BY Zenon DEF RouteInit
<1>3. ShapeOK
  <2>1. PICK b : root = RootRoute(b)
    BY DEF RouteInit
  <2>2. DOMAIN root = {<<>>, <<b>>} /\ root[<<>>].children = <<b>>
    BY <2>1 DEF RootRoute
  <2>3. \A n \in DOMAIN root : Len(n) <= 1
    <3>1. Len(root[<<>>].children) = 1
      BY <1>1, RootLength
    <3>2. Len(<<>>) = 0 /\ 0 <= 1 /\ 1 <= 1
      OBVIOUS
    <3>. QED
      BY <2>2, <3>1, <3>2, Zenon
  <2>4. \A n \in DOMAIN root : n \in {<<>>, root[<<>>].children}
    BY <2>2
  <2>5. 1 \in Nat /\ DOMAIN regs = {}
    BY <1>2
  <2>. QED
    BY <2>3, <2>4, <2>5 DEF ShapeOK
<1>4. NotFoundOnlyAtPrefix /\ ExactStaticWins /\ reply.status = "none"
  BY <1>2, NoReplyYet
<1>. QED
  BY <1>1, <1>2, <1>3, <1>4 DEF FoundInv, PathKnown

LEMMA FoundAppend ==
    ASSUME FoundInv, NEW s \in Specs, AppendRoute(s)
    PROVE  FoundInv'
<1>1. RouteInv /\ ShapeOK /\ RootOK
  BY DEF FoundInv, RouteInv
<1>2. RouteInv'
  BY <1>1, AppendRouteInv
<1>3. Adds(s)
  BY DEF AppendRoute, Adds
<1>4. ShapeOK'
  BY <1>1, <1>3, AddsShape
<1>5. phase' = "build" /\ reply' = NoReply
  BY <1>1 DEF AppendRoute, RouteInv, WalkTyped
<1>6. reply'.status = "none"
  BY <1>5 DEF NoReply
<1>7. NotFoundOnlyAtPrefix' /\ ExactStaticWins' /\ PathKnown'
  BY <1>5, <1>6 DEF NotFoundOnlyAtPrefix, ExactStaticWins, PathKnown
<1>. QED
  BY <1>2, <1>4, <1>5, <1>7 DEF FoundInv

LEMMA FoundConvert ==
    ASSUME FoundInv, Convert
    PROVE  FoundInv'
<1>1. RouteInv /\ ShapeOK
  BY DEF FoundInv
<1>2. RouteInv'
  BY <1>1, ConvertInv
<1>3. /\ phase' = "idle" /\ reply' = NoReply
      /\ regs' = regs /\ root' = root
  BY <1>1 DEF Convert, RouteInv, WalkTyped
<1>4. ShapeOK'
  BY <1>1, <1>3, SameShape
<1>5. reply'.status = "none"
  BY <1>3 DEF NoReply
<1>6. NotFoundOnlyAtPrefix' /\ ExactStaticWins' /\ PathKnown'
  BY <1>3, <1>5 DEF NotFoundOnlyAtPrefix, ExactStaticWins, PathKnown
<1>. QED
  BY <1>2, <1>3, <1>4, <1>6 DEF FoundInv

\* The walk starts with what the root leaves of the path.
LEMMA StartsWhole ==
    ASSUME RouteInv, ShapeOK, NEW p \in Paths, NEW b, NEW match,
           Starts(p, b, match)
    PROVE  Resolved' /\ Started' /\ Straight'
<1>1. /\ phase # "build" /\ regs' = regs /\ request'.path = p /\ at' = <<b>>
      /\ root[<<>>].children = <<b>> /\ offset' = match.remain
  BY DEF Starts, buildVars
<1>2. Len(at') = 1 /\ Len(at') + 1 = 2
  BY <1>1, RootNode
<1>3. PICK leaf : match \in CallPathOnly(b, leaf, p, 0)
  BY DEF Starts
<1>4. match \in CallPathOnly(b, FALSE, p, 0)
  BY <1>3, LeafRefuses
<1>5. ASSUME NEW k \in DOMAIN regs, Canonical(p),
             NEW ends \in Cuts(regs[k].pat, p), Reads(regs[k].pat, p, ends),
             ~(Len(regs[k].pat) = 1 /\ Kind(regs[k].pat[1]) = "full")
      PROVE  SameLeft(p, match.remain, From(ends, 2))
  <2>1. /\ From(ends, 2) \in 0..Len(p)
        /\ TakesPiece(b, p, 0, From(ends, 2))
    BY <1>1, <1>5, RootTakes
  <2>2. PICK no \in BOOLEAN : /\ match \in CallPathOnly(b, no, p, 0)
                              /\ ~no
    BY <1>4
  <2>3. \A m \in CallPathOnly(b, no, p, 0) : MatchLeaves(p, From(ends, 2), m)
    BY <1>5, <2>1, <2>2, RootComplete, Zenon
  <2>4. MatchLeaves(p, From(ends, 2), match)
    BY <2>2, <2>3
  <2>. QED
    BY <2>4 DEF MatchLeaves, SameLeft
<1>6. ASSUME NEW k \in DOMAIN regs PROVE PrefixOf(<<b>>, regs[k].pat)
  BY <1>1, RootFirst
<1>7. Resolved'
  BY <1>2 DEF Resolved
<1>8. Started'
  BY <1>1, <1>5, <1>6 DEF Started
<1>9. ASSUME NEW k \in DOMAIN regs, Exact(k, p)
      PROVE  Kind(regs[k].pat[1]) # "full"
  <2>1. 1 \in DOMAIN regs[k].pat
    BY <1>1, RootNode, RootFirst
  <2>2. IsStatic(regs[k].pat[1]) \/ regs[k].pat[1] = ""
    BY <1>9, <2>1 DEF Exact
  <2>. QED
    BY <2>2, KindType
<1>10. \A k \in DOMAIN regs : Exact(k, p)' = Exact(k, p)
  BY <1>1 DEF Exact, GoesOn
<1>11. Straight'
  <2>. SUFFICES ASSUME NEW k \in DOMAIN regs, Canonical(p), Exact(k, p)
                PROVE  /\ PrefixOf(<<b>>, regs[k].pat)
                       /\ \A ends \in Cuts(regs[k].pat, p) :
                             Reads(regs[k].pat, p, ends) =>
                                 SameLeft(p, match.remain, From(ends, 2))
    BY <1>1, <1>2 DEF Straight, Exact, GoesOn
  <2>. QED
    BY <1>5, <1>6, <1>9
<1>. QED
  BY <1>7, <1>8, <1>11

\* A path the root refuses is one no registration stands for.
LEMMA FoundRefused ==
    ASSUME RouteInv, ShapeOK, phase # "build", regs' = regs,
           NEW p \in Paths, request'.path = p,
           NEW b, root[<<>>].children = <<b>>,
           CallPathOnly(b, tree[<<b>>].children = <<>>, p, 0) = {}
    PROVE  NotFoundOnlyAtPrefix' /\ ExactStaticWins'
<1>1. ASSUME Canonical(p), NEW k \in DOMAIN regs
      PROVE  ~Matches(regs[k].pat, p)
  BY <1>1, RootRefuses
<1>2. NotFoundOnlyAtPrefix'
  BY <1>1 DEF NotFoundOnlyAtPrefix
<1>3. ExactStaticWins'
  BY <1>1 DEF ExactStaticWins, Exact
<1>. QED
  BY <1>2, <1>3

LEMMA FoundCall ==
    ASSUME FoundInv, NEW p \in Paths, NEW m \in Methods, CallTree(p, m)
    PROVE  FoundInv'
<1>1. RouteInv /\ ShapeOK
  BY DEF FoundInv
<1>2. RouteInv'
  BY <1>1, CallTreeInv
<1>3. /\ phase = "idle" /\ regs' = regs /\ root' = root
      /\ request'.path = p
  BY DEF CallTree, buildVars
<1>4. ShapeOK' /\ PathKnown'
  BY <1>1, <1>3, SameShape DEF PathKnown
<1>5. PICK b : root[<<>>].children = <<b>>
  BY <1>1 DEF RouteInv, RootOK, UnderRoot
<1>6. Child(<<>>, 1) = <<b>> /\ SegmentOf(<<b>>) = b
  BY <1>1, <1>3, <1>5, RootNode
<1>7. CASE /\ reply' = [status |-> "not_found", handler |-> 0]
           /\ UNCHANGED <<phase, walkVars>>
  <2>1. CallPathOnly(b, tree[<<b>>].children = <<>>, p, 0) = {}
    <3>. SUFFICES ASSUME \E match : reply' = NoReply PROVE FALSE
      BY <1>6 DEF CallTree
    <3>. QED
      BY <1>7 DEF NoReply
  <2>2. NotFoundOnlyAtPrefix' /\ ExactStaticWins'
    BY <1>1, <1>3, <1>5, <2>1, FoundRefused
  <2>3. phase' # "walk"
    BY <1>3, <1>7
  <2>. QED
    BY <1>2, <1>4, <2>2, <2>3 DEF FoundInv
<1>8. CASE ~(/\ reply' = [status |-> "not_found", handler |-> 0]
             /\ UNCHANGED <<phase, walkVars>>)
  <2>1. /\ phase' = "walk" /\ reply' = NoReply
        /\ \E c, match : Starts(p, c, match)
    BY <1>1, <1>8, CallStarts
  <2>2. Resolved' /\ Started' /\ Straight'
    BY <1>1, <2>1, StartsWhole
  <2>3. reply'.status = "none"
    BY <2>1 DEF NoReply
  <2>4. NotFoundOnlyAtPrefix' /\ ExactStaticWins'
    BY <2>3 DEF NotFoundOnlyAtPrefix, ExactStaticWins
  <2>. QED
    BY <1>2, <1>4, <2>2, <2>4 DEF FoundInv
<1>. QED
  BY <1>7, <1>8

LEMMA FoundDescend ==
    ASSUME FoundInv, Descend
    PROVE  FoundInv'
<1>1. /\ phase = "walk" /\ phase' = phase /\ reply' = reply
      /\ regs' = regs /\ root' = root /\ tree' = tree
      /\ request' = request
  BY DEF Descend, buildVars
<1>2. RouteInv /\ ShapeOK /\ PathKnown
  BY DEF FoundInv
<1>3. RouteInv' /\ ShapeOK' /\ PathKnown'
  BY <1>1, <1>2, DescendInv, SameShape DEF PathKnown
<1>4. PICK c, m : Chooses(c, m)
  BY DescendChooses
<1>5. /\ at' = Append(at, c) /\ offset' = m.remain
      /\ m.remain \in Resolver(tree, request.path)[Append(at, c)]
      /\ c \in Rng(tree[at].children)
  BY <1>4 DEF Chooses
<1>6. Len(Append(at, c)) # 1
  <2>1. /\ GoodTree(tree) /\ at \in DOMAIN tree /\ Len(at) \in Nat
        /\ Len(at) > 0
    BY <1>1, WalkFacts
  <2>2. Len(Append(at, c)) = Len(at) + 1
    BY <1>5, <2>1, ChildFacts
  <2>. QED
    BY <2>1, <2>2
<1>7. Resolved' /\ Started'
  BY <1>1, <1>5, <1>6 DEF Resolved, Started
<1>8. ASSUME NEW k \in DOMAIN regs, Canonical(request.path),
             Exact(k, request.path)
      PROVE  /\ PrefixOf(at', regs[k].pat)
             /\ \A ends \in Cuts(regs[k].pat, request.path) :
                   Reads(regs[k].pat, request.path, ends) =>
                       SameLeft(request.path, offset',
                                From(ends, Len(at') + 1))
  BY <1>1, <1>4, <1>5, <1>8, ChoosesStraight
<1>9. Straight'
  BY <1>1, <1>8 DEF Straight, Exact, GoesOn
<1>10. reply' = NoReply
  BY <1>1, <1>2 DEF RouteInv, WalkTyped
<1>11. reply'.status = "none"
  BY <1>10 DEF NoReply
<1>12. NotFoundOnlyAtPrefix' /\ ExactStaticWins'
  BY <1>11 DEF NotFoundOnlyAtPrefix, ExactStaticWins
<1>. QED
  BY <1>3, <1>7, <1>9, <1>12 DEF FoundInv

LEMMA FoundConclude ==
    ASSUME FoundInv, Conclude
    PROVE  FoundInv'
<1>1. /\ phase = "walk" /\ phase' = "idle" /\ regs' = regs /\ root' = root
      /\ at' = at /\ request' = request /\ Resolving(at, offset) = {}
  BY DEF Conclude, buildVars, walkVars
<1>2. RouteInv /\ ShapeOK /\ PathKnown
  BY DEF FoundInv
<1>3. RouteInv' /\ ShapeOK' /\ PathKnown'
  BY <1>1, <1>2, ConcludeInv, SameShape DEF PathKnown
<1> DEFINE ends == /\ tree[at].handler # NoHandler
                   /\ \/ offset = Len(request.path)
                      \/ IsFullPath(at)
<1>4. ends => reply' = CallHandler(tree[at].handler, request.method)
  BY DEF Conclude
<1>5. reply'.status = "not_found" => ~ends
  <2>. SUFFICES ASSUME ends PROVE reply'.status # "not_found"
    OBVIOUS
  <2>1. reply' = CallHandler(tree[at].handler, request.method)
    BY <1>4
  <2>. QED
    BY <2>1 DEF CallHandler
<1>6. NotFoundOnlyAtPrefix'
  <2>. SUFFICES ASSUME reply'.status = "not_found", Canonical(request.path),
                       NEW k \in DOMAIN regs,
                       Matches(regs[k].pat, request.path)
                PROVE  StoppedShort(at, request.path)
    BY <1>1 DEF NotFoundOnlyAtPrefix, StoppedShort
  <2>. QED
    BY <1>1, <1>5, NotFoundWhy
<1>7. ASSUME NEW k \in DOMAIN regs, Canonical(request.path),
             Exact(k, request.path)
      PROVE  reply'.status # "not_found" /\ at' = regs[k].pat
  <2>1. /\ at = regs[k].pat /\ offset = Len(request.path)
        /\ tree[at].handler # NoHandler
    BY <1>1, <1>7, ExactEnd
  <2>. QED
    BY <1>1, <1>5, <2>1
<1>8. ExactStaticWins'
  BY <1>1, <1>7 DEF ExactStaticWins, Exact, GoesOn
<1>. QED
  BY <1>1, <1>3, <1>6, <1>8 DEF FoundInv

LEMMA FoundStutter ==
    ASSUME FoundInv, UNCHANGED routeVars
    PROVE  FoundInv'
<1>1. UNCHANGED <<regs, root, tree, phase, request, at, offset, reply>>
  BY DEF routeVars
<1>2. RouteInv'
  BY RouteStutterInv DEF FoundInv
<1>3. ShapeOK' /\ PathKnown'
  BY <1>1, SameShape DEF FoundInv, PathKnown
<1>4. phase' = "walk" => Resolved' /\ Started'
  BY <1>1 DEF FoundInv, Resolved, Started
<1>5. phase' = "walk" => Straight'
  BY <1>1 DEF FoundInv, Straight, Exact, GoesOn
<1>6. NotFoundOnlyAtPrefix' /\ ExactStaticWins'
  BY <1>1 DEF FoundInv, NotFoundOnlyAtPrefix, ExactStaticWins, Exact, GoesOn
<1>. QED
  BY <1>2, <1>3, <1>4, <1>5, <1>6 DEF FoundInv

\* The invariant of what dispatch finds: the tree has the shape the
\* registrations give it, and the walk of call_children is always where
\* path_can_resolve saw a way on, and on the way to the static node of the
\* path where there is one.
THEOREM FoundInvariant == RouteSpec => []FoundInv
<1>1. RouteInit => FoundInv
  BY FoundInit
<1>2. FoundInv /\ [RouteNext]_routeVars => FoundInv'
  BY FoundAppend, FoundConvert, FoundCall, FoundDescend, FoundConclude,
     FoundStutter DEF RouteNext
<1>. QED
  BY <1>1, <1>2, PTL DEF RouteSpec

\* call_children misses nothing: a path some registered pattern stands for is
\* answered 404 only at a node that stands for it too but has no handler, being
\* a proper prefix of a registered pattern.
THEOREM NotFoundTheorem == RouteSpec => []NotFoundOnlyAtPrefix
<1>1. FoundInv => NotFoundOnlyAtPrefix
  BY DEF FoundInv
<1>. QED
  BY <1>1, FoundInvariant, PTL

\* candidate_indices puts the static child first: the node of a pattern of
\* static names answers exactly that path, whatever parameters are registered
\* beside it and in whatever order.
THEOREM ExactStaticTheorem == RouteSpec => []ExactStaticWins
<1>1. FoundInv => ExactStaticWins
  BY DEF FoundInv
<1>. QED
  BY <1>1, FoundInvariant, PTL

=============================================================================
