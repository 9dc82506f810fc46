--------------------------- MODULE ListenersProofs ---------------------------
(***************************************************************************)
(* Theorems about Listeners and CertStore, for any number of listeners,    *)
(* any of them with TLS, and any delays: no connection vanishes, the       *)
(* selection rotates, and a reload counts from the next handshake on.      *)
(***************************************************************************)
EXTENDS Listeners, WellFoundedInduction, TLAPS

-----------------------------------------------------------------------------
(* The scan for a ready listener                                           *)

LEMMA LeastNat ==
    ASSUME NEW T \in SUBSET Nat, T # {}
    PROVE  \E n \in T : \A k \in T : n <= k
<1>. DEFINE R == {p \in Nat \X Nat : p[1] < p[2]}
<1>1. IsWellFoundedOn(R, Nat)
    BY NatLessThanWellFounded, Zenon DEF OpToRel
<1>. HIDE DEF R
<1>2. PICK n \in T : \A k \in T : ~(<<k, n>> \in R)
    BY <1>1, WFMin, Zenon
<1>3. ASSUME NEW k \in T PROVE n <= k
    <2>1. n \in Nat /\ k \in Nat
        OBVIOUS
    <2>2. <<k, n>> \in Nat \X Nat /\ <<k, n>>[1] = k /\ <<k, n>>[2] = n
        BY <2>1
    <2>3. ~(k < n)
        BY <1>2, <2>2 DEF R
    <2>. QED
        BY <2>1, <2>3
<1>. QED
    BY <1>3

\* A non-empty set of ready listeners has one that is nearest to next_index,
\* so Selected is a ready listener, and a nearest one.
LEMMA SelectedReady ==
    ASSUME ReadyOnes # {}, len \in Nat \ {0}, next_index \in Nat
    PROVE  /\ Selected \in ReadyOnes
           /\ \A j \in ReadyOnes : Offset(Selected) <= Offset(j)
<1>1. \A i \in ReadyOnes : Offset(i) \in Nat
    BY DEF ReadyOnes, Live, Offset
<1>. DEFINE T == {Offset(i) : i \in ReadyOnes}
<1>2. T \in SUBSET Nat /\ T # {}
    BY <1>1
<1>. HIDE DEF T
<1>3. PICK n \in T : \A k \in T : n <= k
    BY <1>2, LeastNat
<1>4. \E i \in ReadyOnes : \A j \in ReadyOnes : Offset(i) <= Offset(j)
    BY <1>3 DEF T
<1>. QED
    BY <1>4 DEF Selected

-----------------------------------------------------------------------------
(* No connection vanishes                                                  *)

Counts == [Index -> Nat]

CountsOK ==
    /\ arrived \in Counts /\ backlog \in Counts /\ udp \in Counts
    /\ accepted \in Counts /\ refused \in Counts /\ lost \in Counts
    /\ errors \in Nat

\* The listeners accept() scans exist, and the one it awaits is one of them.
ScanOK ==
    /\ phase \in {"bind", "failed", "idle", "await", "handshake", "sleep"}
    /\ addrs \in Nat /\ len \in Nat /\ next_index \in Nat
    /\ phase = "bind" => addrs + len <= MaxListeners
    /\ phase # "bind" => len <= MaxListeners
    /\ phase \notin {"bind", "failed"} => len > 0
    /\ phase \in {"await", "handshake"} => sel \in Index

\* Only a TLS listener is ever in a handshake.
HandshakeTls == phase = "handshake" => sel \in Tls

IInv == CountsOK /\ ScanOK /\ HandshakeTls /\ ConnectionConservation

LEMMA InitIInv == Init => IInv
<1>. SUFFICES ASSUME Init PROVE IInv
    OBVIOUS
<1>. USE ListenersAssumption DEF ListenersAssumption
<1>1. CountsOK
    BY DEF Init, CountsOK, Counts, Zero
<1>2. ScanOK /\ HandshakeTls
    BY DEF Init, ScanOK, HandshakeTls
<1>3. ConnectionConservation
    BY DEF Init, ConnectionConservation, InHandshake, Zero
<1>. QED
    BY <1>1, <1>2, <1>3 DEF IInv

\* Binding and selecting touch no connection, nor does a future that was not in
\* a handshake and is not in one afterwards.
LEMMA NoConnectionMoves ==
    ASSUME ConnectionConservation, phase # "handshake", phase' # "handshake",
           UNCHANGED <<connVars, errors>>
    PROVE  ConnectionConservation'
BY DEF ConnectionConservation, InHandshake, connVars

LEMMA BindStep ==
    ASSUME IInv, BindOk \/ BindFail \/ BindDone
    PROVE  IInv'
<1>. USE ListenersAssumption DEF ListenersAssumption
<1>1. CountsOK'
    BY DEF IInv, CountsOK, BindOk, BindFail, BindDone, connVars
<1>2. ScanOK' /\ HandshakeTls' /\ phase # "handshake" /\ phase' # "handshake"
    BY DEF IInv, ScanOK, HandshakeTls, BindOk, BindFail, BindDone, BindDefault
<1>3. UNCHANGED <<connVars, errors>>
    BY DEF BindOk, BindFail, BindDone
<1>. QED
    BY <1>1, <1>2, <1>3, NoConnectionMoves DEF IInv

LEMMA SelectStep ==
    ASSUME IInv, Select
    PROVE  IInv'
<1>. USE ListenersAssumption DEF ListenersAssumption
<1>1. CountsOK' /\ UNCHANGED <<connVars, errors, addrs, len>>
    BY DEF IInv, CountsOK, Select, connVars, bindVars
<1>2. /\ phase \in {"idle", "sleep"} /\ phase' \in {"await", "sleep"}
      /\ len \in Nat \ {0} /\ next_index \in Nat /\ len <= MaxListeners
      /\ addrs \in Nat
    BY DEF IInv, ScanOK, Select
<1>3. CASE ReadyOnes # {}
    <2>1. Selected \in ReadyOnes
        BY <1>2, <1>3, SelectedReady
    <2>2. Selected \in Index /\ NextIndex(Selected) \in Nat
        BY <1>2, <2>1 DEF ReadyOnes, Live, Index, NextIndex
    <2>. QED
        BY <1>1, <1>2, <1>3, <2>2, NoConnectionMoves
        DEF IInv, Select, ScanOK, HandshakeTls
<1>4. CASE ReadyOnes = {}
    BY <1>1, <1>2, <1>4, NoConnectionMoves
    DEF IInv, Select, ScanOK, HandshakeTls
<1>. QED
    BY <1>3, <1>4

\* Conservation at one listener.
Conserved(i) ==
    /\ arrived[i] = backlog[i] + udp[i] + InHandshake(i) + accepted[i]
                      + refused[i] + lost[i]
    /\ refused[i] <= errors
    /\ i \notin Tls => lost[i] = 0

LEMMA ConservedAll ==
    /\ ConnectionConservation <=> \A i \in Index : Conserved(i)
    /\ ConnectionConservation' <=> \A i \in Index : Conserved(i)'
BY DEF ConnectionConservation, Conserved

\* The steps of the accept future move at most one connection of the selected
\* listener, and a hybrid listener that drops a handshake two.
LEMMA AcceptStep ==
    ASSUME IInv,
           \/ TakeConnection \/ TakeTls \/ TakeBroken \/ TakeUnusable
           \/ TakeQuic \/ HandshakeOk \/ AcceptErr \/ JoinCancels
    PROVE  IInv'
<1>. USE ListenersAssumption DEF ListenersAssumption
<1>. USE DEF Bump, Return, Fail
<1>1. ScanOK' /\ HandshakeTls'
    BY DEF IInv, ScanOK, HandshakeTls, TakeConnection, TakeTls, TakeBroken,
           TakeUnusable, Discard, TakeQuic, HandshakeOk, AcceptErr,
           JoinCancels, bindVars
<1>2. /\ CountsOK /\ \A i \in Index : Conserved(i)
      /\ phase \in {"await", "handshake"} => sel \in Index
      /\ phase = "handshake" => sel \in Tls
    BY ConservedAll DEF IInv, ScanOK, HandshakeTls
<1>3. ASSUME TakeConnection
      PROVE  CountsOK' /\ ConnectionConservation'
    <2>1. CountsOK'
        BY <1>3, <1>2 DEF CountsOK, Counts, TakeConnection
    <2>2. ASSUME NEW i \in Index
          PROVE  Conserved(i)'
        <3>1. Conserved(i)
            BY <1>2
        <3>2. CASE i = sel
            BY <1>3, <1>2, <3>1, <3>2
            DEF Conserved, InHandshake, CountsOK, Counts, TakeConnection
        <3>3. CASE i # sel
            BY <1>3, <1>2, <3>1, <3>3
            DEF Conserved, InHandshake, CountsOK, Counts, TakeConnection
        <3>. QED
            BY <3>2, <3>3
    <2>. QED
        BY <2>1, <2>2, ConservedAll
<1>4. ASSUME TakeTls
      PROVE  CountsOK' /\ ConnectionConservation'
    <2>1. CountsOK'
        BY <1>4, <1>2 DEF CountsOK, Counts, TakeTls
    <2>2. ASSUME NEW i \in Index
          PROVE  Conserved(i)'
        <3>1. Conserved(i)
            BY <1>2
        <3>2. CASE i = sel
            BY <1>4, <1>2, <3>1, <3>2
            DEF Conserved, InHandshake, CountsOK, Counts, TakeTls
        <3>3. CASE i # sel
            BY <1>4, <1>2, <3>1, <3>3
            DEF Conserved, InHandshake, CountsOK, Counts, TakeTls
        <3>. QED
            BY <3>2, <3>3
    <2>. QED
        BY <2>1, <2>2, ConservedAll
<1>5. ASSUME Discard
      PROVE  CountsOK' /\ ConnectionConservation'
    <2>1. CountsOK'
        BY <1>5, <1>2 DEF CountsOK, Counts, Discard
    <2>2. ASSUME NEW i \in Index
          PROVE  Conserved(i)'
        <3>1. Conserved(i)
            BY <1>2
        <3>2. CASE i = sel
            BY <1>5, <1>2, <3>1, <3>2
            DEF Conserved, InHandshake, CountsOK, Counts, Discard
        <3>3. CASE i # sel
            BY <1>5, <1>2, <3>1, <3>3
            DEF Conserved, InHandshake, CountsOK, Counts, Discard
        <3>. QED
            BY <3>2, <3>3
    <2>. QED
        BY <2>1, <2>2, ConservedAll
<1>6. ASSUME TakeQuic
      PROVE  CountsOK' /\ ConnectionConservation'
    <2>1. CountsOK'
        BY <1>6, <1>2 DEF CountsOK, Counts, TakeQuic
    <2>2. ASSUME NEW i \in Index
          PROVE  Conserved(i)'
        <3>1. Conserved(i)
            BY <1>2
        <3>2. CASE i = sel
            BY <1>6, <1>2, <3>1, <3>2
            DEF Conserved, InHandshake, CountsOK, Counts, TakeQuic
        <3>3. CASE i # sel
            BY <1>6, <1>2, <3>1, <3>3
            DEF Conserved, InHandshake, CountsOK, Counts, TakeQuic
        <3>. QED
            BY <3>2, <3>3
    <2>. QED
        BY <2>1, <2>2, ConservedAll
<1>7. ASSUME HandshakeOk
      PROVE  CountsOK' /\ ConnectionConservation'
    <2>1. CountsOK'
        BY <1>7, <1>2 DEF CountsOK, Counts, HandshakeOk
    <2>2. ASSUME NEW i \in Index
          PROVE  Conserved(i)'
        <3>1. Conserved(i)
            BY <1>2
        <3>2. CASE i = sel
            BY <1>7, <1>2, <3>1, <3>2
            DEF Conserved, InHandshake, CountsOK, Counts, HandshakeOk
        <3>3. CASE i # sel
            BY <1>7, <1>2, <3>1, <3>3
            DEF Conserved, InHandshake, CountsOK, Counts, HandshakeOk
        <3>. QED
            BY <3>2, <3>3
    <2>. QED
        BY <2>1, <2>2, ConservedAll
<1>8. ASSUME AcceptErr
      PROVE  CountsOK' /\ ConnectionConservation'
    <2>1. CountsOK'
        BY <1>8, <1>2 DEF CountsOK, Counts, AcceptErr
    <2>2. ASSUME NEW i \in Index
          PROVE  Conserved(i)'
        <3>1. Conserved(i)
            BY <1>2
        <3>2. CASE i = sel
            BY <1>8, <1>2, <3>1, <3>2
            DEF Conserved, InHandshake, CountsOK, Counts, AcceptErr
        <3>3. CASE i # sel
            BY <1>8, <1>2, <3>1, <3>3
            DEF Conserved, InHandshake, CountsOK, Counts, AcceptErr
        <3>. QED
            BY <3>2, <3>3
    <2>. QED
        BY <2>1, <2>2, ConservedAll
<1>9. ASSUME JoinCancels
      PROVE  CountsOK' /\ ConnectionConservation'
    <2>1. CountsOK'
        BY <1>9, <1>2 DEF CountsOK, Counts, JoinCancels
    <2>2. ASSUME NEW i \in Index
          PROVE  Conserved(i)'
        <3>1. Conserved(i)
            BY <1>2
        <3>2. CASE i = sel
            BY <1>9, <1>2, <3>1, <3>2
            DEF Conserved, InHandshake, CountsOK, Counts, JoinCancels
        <3>3. CASE i # sel
            BY <1>9, <1>2, <3>1, <3>3
            DEF Conserved, InHandshake, CountsOK, Counts, JoinCancels
        <3>. QED
            BY <3>2, <3>3
    <2>. QED
        BY <2>1, <2>2, ConservedAll
<1>. QED
    BY <1>1, <1>3, <1>4, <1>5, <1>6, <1>7, <1>8, <1>9
    DEF IInv, TakeBroken, TakeUnusable

LEMMA ArriveStep ==
    ASSUME IInv, NEW i \in Index, Arrive(i) \/ ArriveQuic(i)
    PROVE  IInv'
<1>1. ScanOK' /\ HandshakeTls'
    BY DEF IInv, ScanOK, HandshakeTls, Arrive, ArriveQuic, Opened, bindVars
<1>2. CountsOK'
    BY DEF IInv, CountsOK, Counts, Arrive, ArriveQuic, Opened, Bump
<1>3. ASSUME NEW j \in Index
      PROVE  Conserved(j)'
    <2>1. Conserved(j) /\ CountsOK
        BY ConservedAll DEF IInv
    <2>2. CASE j = i
        BY <2>1, <2>2 DEF CountsOK, Counts, Arrive, ArriveQuic, Opened, Bump,
                          Conserved, InHandshake
    <2>3. CASE j # i
        BY <2>1, <2>3 DEF CountsOK, Counts, Arrive, ArriveQuic, Opened, Bump,
                          Conserved, InHandshake
    <2>. QED
        BY <2>2, <2>3
<1>4. ConnectionConservation'
    BY <1>3, ConservedAll
<1>. QED
    BY <1>1, <1>2, <1>4 DEF IInv

\* Time, the operator's files and reloads leave connections alone.
LEMMA QuietStep ==
    ASSUME IInv,
           UNCHANGED <<bindVars, phase, next_index, sel, connVars, errors>>
    PROVE  IInv'
BY DEF IInv, CountsOK, ScanOK, HandshakeTls, ConnectionConservation,
       InHandshake, bindVars, connVars

LEMMA NextIInv == IInv /\ [Next]_vars => IInv'
<1>. SUFFICES ASSUME IInv, [Next]_vars PROVE IInv'
    OBVIOUS
<1>1. CASE BindOk \/ BindFail \/ BindDone
    BY <1>1, BindStep
<1>2. CASE Select
    BY <1>2, SelectStep
<1>3. CASE \/ TakeConnection \/ TakeTls \/ TakeBroken \/ TakeUnusable
           \/ TakeQuic \/ HandshakeOk \/ AcceptErr \/ JoinCancels
    BY <1>3, AcceptStep
<1>4. ASSUME NEW i \in Index, Arrive(i) \/ ArriveQuic(i)
      PROVE  IInv'
    BY <1>4, ArriveStep
<1>5. CASE Tick
    BY <1>5, QuietStep DEF Tick
<1>6. CASE UNCHANGED listenVars
    <2>1. UNCHANGED <<bindVars, phase, next_index, sel, connVars, errors>>
        BY <1>6 DEF listenVars, bindVars, connVars
    <2>. QED
        BY <2>1, QuietStep
<1>. QED
    BY <1>1, <1>2, <1>3, <1>4, <1>5, <1>6 DEF Next, ListenStep, vars

\* However often accept futures are cancelled, handshakes dropped and listeners
\* backed off, every connection is queued, in its handshake, returned, given up
\* with an error that was reported, or lost with a cancelled TLS handshake.
THEOREM ConnectionsConserved == Spec => []ConnectionConservation
<1>1. IInv => ConnectionConservation
    BY DEF IInv
<1>. QED
    BY <1>1, InitIInv, NextIInv, PTL DEF Spec

-----------------------------------------------------------------------------
(* The backoff                                                             *)

\* The delays stay within BackoffState::BASE and MAX ...
DelaysOK ==
    /\ current \in [Index -> Base..MaxDelay]
    /\ wait \in [Index -> 0..MaxDelay] /\ sleep \in 0..MaxDelay

\* ... and a sleeping accept() wakes when the first listener is ready again,
\* neither before nor after.
WakesInTime ==
    phase = "sleep" => /\ \A i \in Live : sleep <= wait[i]
                       /\ \E i \in Live : sleep = wait[i]

BackoffOK == DelaysOK /\ WakesInTime

LEMMA MinIs ==
    ASSUME NEW T \in SUBSET Nat, T # {}
    PROVE  Min(T) \in T /\ \A k \in T : Min(T) <= k
<1>1. \E n \in T : \A k \in T : n <= k
    BY LeastNat
<1>. QED
    BY <1>1 DEF Min

\* The listeners in use are among those that may be configured.
LEMMA LiveIndex ==
    ASSUME ScanOK, phase \notin {"bind", "failed"}
    PROVE  Live \subseteq Index /\ Live # {}
<1>1. MaxListeners \in Nat /\ len \in Nat /\ len > 0 /\ len <= MaxListeners
    BY ListenersAssumption DEF ScanOK
<1>2. 0 \in Live
    BY <1>1 DEF Live
<1>. QED
    BY <1>1, <1>2 DEF Live, Index

LEMMA InitBackoff == Init => BackoffOK
<1>. SUFFICES ASSUME Init PROVE BackoffOK
    OBVIOUS
<1>1. Base \in Base..MaxDelay /\ 0 \in 0..MaxDelay
    BY ListenersAssumption
<1>2. DelaysOK
    BY <1>1 DEF Init, DelaysOK, Zero
<1>3. phase # "sleep"
    BY DEF Init
<1>. QED
    BY <1>2, <1>3 DEF BackoffOK, WakesInTime

\* An error doubles the delay up to MAX, a success takes it back to BASE.
LEMMA DelaySet ==
    ASSUME DelaysOK, NEW i \in Index, OnSuccess(i) \/ OnError(i)
    PROVE  /\ current' \in [Index -> Base..MaxDelay]
           /\ wait' \in [Index -> 0..MaxDelay]
<1>1. /\ Base \in Nat /\ MaxDelay \in Nat /\ Base <= MaxDelay
      /\ current[i] \in Base..MaxDelay
    BY ListenersAssumption DEF DelaysOK
<1>. DEFINE d == Min({2 * current[i], MaxDelay})
<1>2. d \in Base..MaxDelay
    <2>. DEFINE T == {2 * current[i], MaxDelay}
    <2>1. T \in SUBSET Nat /\ T # {}
        BY <1>1
    <2>2. Min(T) \in T /\ \A k \in T : Min(T) <= k
        BY <2>1, MinIs
    <2>3. \A k \in T : k \in Nat /\ k >= Base
        BY <1>1
    <2>4. MaxDelay \in T
        OBVIOUS
    <2>. HIDE DEF T
    <2>5. /\ Min(T) \in Nat /\ Min(T) >= Base
          /\ Min(T) <= MaxDelay
        BY <2>2, <2>3, <2>4, Zenon
    <2>6. Min(T) \in Base..MaxDelay
        BY <1>1, <2>5
    <2>. QED
        BY <2>6 DEF T
<1>. HIDE DEF d
<1>3. CASE OnSuccess(i)
    BY <1>1, <1>3 DEF OnSuccess, DelaysOK
<1>4. CASE OnError(i)
    <2>1. /\ wait' = [wait EXCEPT ![i] = current[i]]
          /\ current' = [current EXCEPT ![i] = d]
        BY <1>4 DEF OnError, d, DelaysOK
    <2>2. current[i] \in 0..MaxDelay
        BY <1>1
    <2>. QED
        BY <1>2, <2>1, <2>2 DEF DelaysOK
<1>. QED
    BY <1>3, <1>4

LEMMA BackoffStays ==
    ASSUME BackoffOK, UNCHANGED <<backoffVars, sleep, phase, len>>
    PROVE  BackoffOK'
BY DEF BackoffOK, DelaysOK, WakesInTime, Live, backoffVars

LEMMA BackoffSelect ==
    ASSUME IInv, BackoffOK, Select
    PROVE  BackoffOK'
<1>1. /\ phase \notin {"bind", "failed"} /\ ScanOK /\ DelaysOK
      /\ current' = current /\ wait' = wait /\ len' = len
    BY DEF Select, backoffVars, bindVars, IInv, BackoffOK
<1>2. CASE ReadyOnes # {}
    <2>1. phase' = "await" /\ sleep' = 0
        BY <1>2 DEF Select
    <2>2. sleep' \in 0..MaxDelay
        BY <2>1, ListenersAssumption
    <2>. QED
        BY <1>1, <2>1, <2>2 DEF BackoffOK, DelaysOK, WakesInTime
<1>3. CASE ReadyOnes = {}
    <2>. DEFINE T == {wait[i] : i \in Live}
    <2>1. sleep' = Min(T)
        BY <1>3 DEF Select, Deadline
    <2>2. Live \subseteq Index /\ Live # {}
        BY <1>1, LiveIndex
    <2>3. \A i \in Live : wait[i] \in 0..MaxDelay
        BY <1>1, <2>2 DEF DelaysOK
    <2>4. T \in SUBSET (0..MaxDelay) /\ T \in SUBSET Nat /\ T # {}
        BY <2>2, <2>3
    <2>. HIDE DEF T
    <2>5. sleep' \in T /\ \A k \in T : sleep' <= k
        BY <2>1, <2>4, MinIs
    <2>6. /\ sleep' \in 0..MaxDelay
          /\ \A i \in Live : sleep' <= wait[i]
          /\ \E i \in Live : sleep' = wait[i]
        BY <2>4, <2>5 DEF T
    <2>. QED
        BY <1>1, <2>6 DEF BackoffOK, DelaysOK, WakesInTime, Live
<1>. QED
    BY <1>2, <1>3

LEMMA BackoffAccept ==
    ASSUME IInv, BackoffOK,
           \/ TakeConnection \/ TakeTls \/ TakeBroken \/ TakeUnusable
           \/ TakeQuic \/ HandshakeOk \/ AcceptErr \/ JoinCancels
    PROVE  BackoffOK'
<1>1. DelaysOK /\ ScanOK
    BY DEF BackoffOK, IInv
<1>2. phase' # "sleep"
    BY DEF TakeConnection, TakeTls, TakeBroken, TakeUnusable, Discard,
           TakeQuic, HandshakeOk, AcceptErr, JoinCancels, Return, Fail
<1>3. sleep' \in 0..MaxDelay
    <2>1. sleep' \in {sleep, 0}
        BY DEF TakeConnection, TakeTls, TakeBroken, TakeUnusable, Discard,
               TakeQuic, HandshakeOk, AcceptErr, JoinCancels
    <2>. QED
        BY <1>1, <2>1, ListenersAssumption DEF DelaysOK
<1>4. \/ UNCHANGED <<current, wait>>
      \/ sel \in Index /\ (OnSuccess(sel) \/ OnError(sel))
    BY <1>1 DEF TakeConnection, TakeTls, TakeBroken, TakeUnusable, Discard,
                TakeQuic, HandshakeOk, AcceptErr, JoinCancels, Return, Fail,
                backoffVars, ScanOK
<1>5. /\ current' \in [Index -> Base..MaxDelay]
      /\ wait' \in [Index -> 0..MaxDelay]
    <2>1. CASE UNCHANGED <<current, wait>>
        BY <1>1, <2>1 DEF DelaysOK
    <2>2. CASE sel \in Index /\ (OnSuccess(sel) \/ OnError(sel))
        BY <1>1, <2>2, DelaySet
    <2>. QED
        BY <1>4, <2>1, <2>2
<1>. QED
    BY <1>2, <1>3, <1>5 DEF BackoffOK, DelaysOK, WakesInTime

\* The deadline and the delays run down together.
LEMMA BackoffTick ==
    ASSUME IInv, BackoffOK, Tick
    PROVE  BackoffOK'
<1>1. /\ wait' = [i \in Index |-> Sub1(wait[i])] /\ sleep' = Sub1(sleep)
      /\ current' = current /\ phase' = phase /\ len' = len
      /\ phase = "sleep" => sleep > 0
    BY DEF Tick, bindVars
<1>2. /\ sleep \in 0..MaxDelay /\ wait \in [Index -> 0..MaxDelay]
      /\ MaxDelay \in Nat
    BY ListenersAssumption DEF BackoffOK, DelaysOK
<1>3. DelaysOK'
    BY <1>1, <1>2 DEF BackoffOK, DelaysOK, Sub1
<1>4. ASSUME phase = "sleep" PROVE WakesInTime'
    <2>1. Live \subseteq Index
        BY <1>4, LiveIndex DEF IInv
    <2>2. /\ \A i \in Live : sleep <= wait[i] /\ wait[i] \in 0..MaxDelay
          /\ \E i \in Live : sleep = wait[i]
        BY <1>2, <1>4, <2>1 DEF BackoffOK, WakesInTime
    <2>3. \A i \in Live : wait'[i] = wait[i] - 1
        BY <1>1, <1>2, <1>4, <2>1, <2>2 DEF Sub1
    <2>4. sleep' = sleep - 1
        BY <1>1, <1>2, <1>4 DEF Sub1
    <2>5. \A i \in Live : sleep' <= wait'[i]
        BY <1>2, <2>2, <2>3, <2>4
    <2>6. \E i \in Live : sleep' = wait'[i]
        BY <2>2, <2>3, <2>4
    <2>. QED
        BY <1>1, <2>5, <2>6 DEF WakesInTime, Live
<1>5. phase # "sleep" => WakesInTime'
    BY <1>1 DEF WakesInTime
<1>. QED
    BY <1>3, <1>4, <1>5 DEF BackoffOK

LEMMA NextBackoff == IInv /\ BackoffOK /\ [Next]_vars => BackoffOK'
<1>. SUFFICES ASSUME IInv, BackoffOK, [Next]_vars PROVE BackoffOK'
    OBVIOUS
<1>1. CASE BindOk \/ BindFail \/ BindDone
    <2>1. phase' # "sleep" /\ UNCHANGED <<current, wait, sleep>>
        BY <1>1 DEF BindOk, BindFail, BindDone, backoffVars
    <2>. QED
        BY <2>1 DEF BackoffOK, DelaysOK, WakesInTime
<1>2. CASE Select
    BY <1>2, BackoffSelect
<1>3. CASE \/ TakeConnection \/ TakeTls \/ TakeBroken \/ TakeUnusable
           \/ TakeQuic \/ HandshakeOk \/ AcceptErr \/ JoinCancels
    BY <1>3, BackoffAccept
<1>4. ASSUME NEW i \in Index, Arrive(i) \/ ArriveQuic(i)
      PROVE  BackoffOK'
    <2>1. UNCHANGED <<backoffVars, sleep, phase, len>>
        BY <1>4 DEF Arrive, ArriveQuic, Opened, bindVars
    <2>. QED
        BY <2>1, BackoffStays
<1>5. CASE Tick
    BY <1>5, BackoffTick
<1>6. CASE UNCHANGED listenVars
    <2>1. UNCHANGED <<backoffVars, sleep, phase, len>>
        BY <1>6 DEF listenVars, backoffVars
    <2>. QED
        BY <2>1, BackoffStays
<1>. QED
    BY <1>1, <1>2, <1>3, <1>4, <1>5, <1>6 DEF Next, ListenStep, vars

\* After sleep_until the loop of accept() finds a listener to await.
WokenFindsListener == phase = "sleep" /\ sleep = 0 => ReadyOnes # {}

\* The safety half of BackoffEnds: no listener is spaced out by more than MAX,
\* and when the deadline of accept() has passed its next pass selects a
\* listener, so accept() never sleeps twice in a row.
THEOREM BackoffTheorem == Spec => [](DelaysOK /\ WokenFindsListener)
<1>1. IInv /\ BackoffOK => DelaysOK /\ WokenFindsListener
    <2>. SUFFICES ASSUME BackoffOK PROVE DelaysOK /\ WokenFindsListener
        OBVIOUS
    <2>. QED
        BY DEF BackoffOK, WakesInTime, WokenFindsListener, ReadyOnes
<1>. QED
    BY <1>1, InitIInv, NextIInv, InitBackoff, NextBackoff, PTL DEF Spec

-----------------------------------------------------------------------------
(* The rotation                                                            *)

\* The remainder of a number less than one turn away.
LEMMA Turn ==
    ASSUME NEW n \in Nat \ {0}, NEW x \in Int, -n <= x, x <= n
    PROVE  x % n = IF x < 0 THEN (IF x = -n THEN 0 ELSE x + n)
                   ELSE IF x = n THEN 0 ELSE x
<1>. DEFINE q == x \div n
            m == x % n
<1>1. q \in Int /\ m \in Int /\ x = n * q + m /\ 0 <= m /\ m < n
    OBVIOUS
<1>. HIDE DEF q, m
<1>2. q >= 2 => n * q >= n + n
    BY <1>1
<1>3. q <= -2 => n * q <= -(n + n)
    BY <1>1
<1>4. q \in {-1, 0, 1}
    BY <1>1, <1>2, <1>3
<1>5. CASE q = -1
    BY <1>1, <1>5 DEF m
<1>6. CASE q = 0
    BY <1>1, <1>6 DEF m
<1>7. CASE q = 1
    BY <1>1, <1>7 DEF m
<1>. QED
    BY <1>4, <1>5, <1>6, <1>7

\* The scan starts behind the listener selected last, which so comes last.
LEMMA LastIsFarthest ==
    ASSUME len \in Nat \ {0}, NEW s \in Live, next_index = NextIndex(s),
           NEW j \in Live, Offset(s) <= Offset(j)
    PROVE  j = s
<1>1. s \in Int /\ 0 <= s /\ s < len /\ j \in Int /\ 0 <= j /\ j < len
    BY DEF Live
<1>2. next_index = IF s + 1 = len THEN 0 ELSE s + 1
    <2>1. s + 1 \in Int /\ -len <= s + 1 /\ s + 1 <= len /\ ~(s + 1 < 0)
        BY <1>1
    <2>2. (s + 1) % len = IF s + 1 = len THEN 0 ELSE s + 1
        BY <2>1, Turn
    <2>. QED
        BY <2>2 DEF NextIndex
<1>3. next_index \in Int /\ 0 <= next_index /\ next_index < len
    BY <1>1, <1>2
<1>4. \A i \in Int : 0 <= i /\ i < len =>
          Offset(i) = IF i < next_index THEN i - next_index + len
                      ELSE i - next_index
    <2>. SUFFICES ASSUME NEW i \in Int, 0 <= i, i < len
                  PROVE  Offset(i) = IF i < next_index THEN i - next_index + len
                                     ELSE i - next_index
        OBVIOUS
    <2>1. /\ i - next_index \in Int /\ -len < i - next_index
          /\ i - next_index < len
        BY <1>3
    <2>. QED
        BY <1>3, <2>1, Turn DEF Offset
<1>. QED
    BY <1>1, <1>2, <1>4

\* next_index is the listener behind the one selected last.
Rotating ==
    /\ phase \in {"bind", "failed"} => sel = NoIndex
    /\ sel # NoIndex => sel \in Live /\ next_index = NextIndex(sel)

LEMMA RotatingNext == IInv /\ Rotating /\ [Next]_vars => Rotating'
<1>. SUFFICES ASSUME IInv, Rotating, [Next]_vars PROVE Rotating'
    OBVIOUS
<1>1. CASE BindOk \/ BindFail \/ BindDone
    BY <1>1 DEF Rotating, BindOk, BindFail, BindDone
<1>2. CASE Select
    <2>1. len' = len /\ len \in Nat \ {0} /\ next_index \in Nat
        BY <1>2 DEF Select, bindVars, IInv, ScanOK
    <2>2. CASE ReadyOnes # {}
        <3>1. /\ sel' = Selected /\ next_index' = NextIndex(Selected)
              /\ phase' = "await"
            BY <1>2, <2>2 DEF Select
        <3>2. Selected \in Live
            BY <2>1, <2>2, SelectedReady DEF ReadyOnes
        <3>. QED
            BY <2>1, <3>1, <3>2 DEF Rotating, Live, NextIndex
    <2>3. CASE ReadyOnes = {}
        BY <1>2, <2>1, <2>3 DEF Select, Rotating, Live, NextIndex
    <2>. QED
        BY <2>2, <2>3
<1>3. CASE \/ TakeConnection \/ TakeTls \/ TakeBroken \/ TakeUnusable
           \/ TakeQuic \/ HandshakeOk \/ AcceptErr \/ JoinCancels
    <2>1. UNCHANGED <<len, sel, next_index>> /\ phase' \notin {"bind", "failed"}
        BY <1>3 DEF TakeConnection, TakeTls, TakeBroken, TakeUnusable,
                    Discard, TakeQuic, HandshakeOk, AcceptErr, JoinCancels,
                    Return, Fail, bindVars
    <2>. QED
        BY <2>1 DEF Rotating, Live, NextIndex
<1>4. CASE \/ \E i \in Index : Arrive(i) \/ ArriveQuic(i)
           \/ Tick \/ UNCHANGED listenVars
    <2>1. UNCHANGED <<len, sel, next_index, phase>>
        BY <1>4 DEF Arrive, ArriveQuic, Opened, Tick, listenVars, bindVars
    <2>. QED
        BY <2>1 DEF Rotating, Live, NextIndex
<1>. QED
    BY <1>1, <1>2, <1>3, <1>4 DEF Next, ListenStep, vars

\* Only Select begins to await a listener.
LEMMA AwaitBegins ==
    ASSUME [Next]_vars, phase # "await", phase' = "await"
    PROVE  Select
BY DEF Next, ListenStep, vars, listenVars, BindOk, BindFail, BindDone,
       TakeConnection, TakeTls, TakeBroken, TakeUnusable, Discard, TakeQuic,
       HandshakeOk, AcceptErr, Return, Fail, JoinCancels, Arrive, ArriveQuic,
       Opened, Tick

\* For any number of listeners, accept() awaits the same listener twice in a row
\* only when no other one is ready, however often its future was dropped.
THEOREM SelectionRotates == Spec => RotatesSelection
<1>1. IInv /\ Rotating /\ [Next]_vars =>
          [phase' = "await" /\ phase # "await" /\ sel' = last' =>
              ReadyOnes \subseteq {last'}]_vars
    <2>. SUFFICES ASSUME IInv, Rotating, [Next]_vars, phase' = "await",
                         phase # "await", sel' = last'
                  PROVE  ReadyOnes \subseteq {last'}
        OBVIOUS
    <2>1. Select
        BY AwaitBegins
    <2>2. /\ ReadyOnes # {} /\ sel' = Selected /\ last' = sel
          /\ len \in Nat \ {0} /\ next_index \in Nat
        BY <2>1 DEF Select, IInv, ScanOK
    <2>3. /\ Selected \in ReadyOnes
          /\ \A j \in ReadyOnes : Offset(Selected) <= Offset(j)
        BY <2>2, SelectedReady
    <2>4. Selected \in Live /\ ReadyOnes \subseteq Live
        BY <2>3 DEF ReadyOnes
    <2>5. Selected = sel /\ sel # NoIndex
        <3>1. Selected # NoIndex
            BY <2>2, <2>4 DEF Live, NoIndex
        <3>. QED
            BY <2>2, <3>1
    <2>6. next_index = NextIndex(Selected)
        BY <2>5 DEF Rotating
    <2>7. \A j \in ReadyOnes : j = Selected
        BY <2>2, <2>3, <2>4, <2>6, LastIsFarthest
    <2>. QED
        BY <2>2, <2>5, <2>7
<1>2. Init => Rotating
    BY DEF Init, Rotating
<1>. QED
    BY <1>1, <1>2, InitIInv, NextIInv, RotatingNext, PTL
    DEF Spec, RotatesSelection

-----------------------------------------------------------------------------
(* Reloading                                                               *)

\* The certificate in the store is the one on disk when the last successful
\* reload began; a reload that is under way holds the one it began with.
CertInv ==
    /\ store \in [File -> Content] /\ loaded \in [File -> Content]
    /\ disk \in [File -> Version]
    /\ promised \in Content
    /\ store.cert = promised
    /\ loading # "idle" => loaded.cert = begun

LEMMA InitCertInv == Init => CertInv
BY CertStoreAssumption
   DEF CertStoreAssumption, Init, CertInit, CertInv, First, File, Version,
       Content

LEMMA NextCertInv == CertInv /\ [Next]_vars => CertInv'
<1>. SUFFICES ASSUME CertInv, [Next]_vars PROVE CertInv'
    OBVIOUS
<1>. USE CertStoreAssumption DEF CertStoreAssumption, File, Version, Content,
                                 Garbage, Read
<1>1. ASSUME NEW f \in File, Install(f) \/ Truncate(f)
      PROVE  CertInv'
    BY <1>1 DEF CertInv, Install, Truncate
<1>2. CASE LoadCert
    BY <1>2 DEF CertInv, LoadCert
<1>3. CASE LoadKey
    BY <1>3 DEF CertInv, LoadKey
<1>4. CASE LoadFail
    BY <1>4 DEF CertInv, LoadFail
<1>5. CASE Swap
    BY <1>5 DEF CertInv, Swap
<1>6. CASE UNCHANGED certVars
    BY <1>6 DEF CertInv, certVars
<1>. QED
    BY <1>1, <1>2, <1>3, <1>4, <1>5, <1>6 DEF Next, CertNext, vars

\* Only TakeTls begins a handshake.
LEMMA HandshakeBegins ==
    ASSUME [Next]_vars, phase # "handshake", phase' = "handshake"
    PROVE  TakeTls
BY DEF Next, ListenStep, vars, listenVars, BindOk, BindFail, BindDone, Select,
       TakeConnection, TakeBroken, TakeUnusable, Discard, TakeQuic,
       HandshakeOk, AcceptErr, Return, Fail, JoinCancels, Arrive, ArriveQuic,
       Opened, Tick

\* The handshakes of a reloadable listener use a matching pair that is at least
\* as new as what the last successful reload() found.
THEOREM CertificatesFresh == Spec => FreshCertificate
<1>1. CertInv /\ [Next]_vars =>
          [phase # "handshake" /\ phase' = "handshake" /\ sel' \in Reloadable
              => /\ serving' >= promised /\ serving' # Garbage
                 /\ store.cert = store.key]_vars
    <2>. SUFFICES ASSUME CertInv, [Next]_vars, phase # "handshake",
                         phase' = "handshake", sel' \in Reloadable
                  PROVE  /\ serving' >= promised /\ serving' # Garbage
                         /\ store.cert = store.key
        OBVIOUS
    <2>1. TakeTls
        BY HandshakeBegins
    <2>2. sel \in Reloadable /\ Usable /\ serving' = store.cert
        BY <2>1 DEF TakeTls, Acceptor
    <2>. QED
        BY <2>2 DEF CertInv, Usable, Version, Content, Garbage
<1>. QED
    BY <1>1, InitCertInv, NextCertInv, PTL DEF Spec, FreshCertificate

=============================================================================
