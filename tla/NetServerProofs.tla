--------------------------- MODULE NetServerProofs ---------------------------
(***************************************************************************)
(* NetServer for every set of connections, capacity and configuration:     *)
(* type correctness, conservation of permits, how far refill can take the  *)
(* bucket, what the shutdown leaves behind, the refinement of Lifecycle,   *)
(* and counters that agree with what happened to the connections.          *)
(***************************************************************************)
EXTENDS NetServer, FiniteSetTheorems, TLAPS

USE DEF Looping, Stopping, Alive

-----------------------------------------------------------------------------
(* What ending a task and returning a permit do                            *)

\* add_permits with t the task function to go on with: no task changes but
\* for one waiter, which is granted the permit if there is any.
LEMMA AddPermitEffect ==
    ASSUME TypeOK, NEW t \in [Conn -> TaskState], AddPermit(t),
           \A d \in Waiting : t[d] = "waiting"
    PROVE  \/ /\ Waiting = {} /\ task' = t /\ available' = available + 1
           \/ \E w \in Conn : /\ task[w] = "waiting" /\ t[w] = "waiting"
                              /\ task' = [t EXCEPT ![w] = "granted"]
                              /\ available' = available
<1>1. CASE Waiting = {} /\ available' = available + 1 /\ task' = t
  BY <1>1
<1>2. ASSUME NEW w \in Waiting, task' = [t EXCEPT ![w] = "granted"],
             UNCHANGED available
      PROVE  \E v \in Conn : /\ task[v] = "waiting" /\ t[v] = "waiting"
                             /\ task' = [t EXCEPT ![v] = "granted"]
                             /\ available' = available
  BY <1>2 DEF Waiting
<1> QED
  BY <1>1, <1>2 DEF AddPermit

\* A task that owns no permit just ends.  One that owns a permit makes it
\* available, or hands it to a waiter.
LEMMA EndEffect ==
    ASSUME TypeOK, NEW c \in Conn, NEW o \in Outcome, End(c, o),
           task[c] \in Alive
    PROVE  /\ outcome' = [outcome EXCEPT ![c] = o]
           /\ \/ /\ c \notin Held
                 /\ task' = [task EXCEPT ![c] = "ended"]
                 /\ available' = available
              \/ /\ c \in Held /\ Waiting = {}
                 /\ task' = [task EXCEPT ![c] = "ended"]
                 /\ available' = available + 1
              \/ /\ c \in Held
                 /\ \E w \in Conn :
                       /\ task[w] = "waiting" /\ w # c
                       /\ task' = [task EXCEPT ![c] = "ended",
                                               ![w] = "granted"]
                 /\ available' = available
<1>1. outcome' = [outcome EXCEPT ![c] = o]
  BY DEF End
<1>2. CASE c \notin Held
  BY <1>1, <1>2 DEF End
<1>3. CASE c \in Held
  <2> DEFINE t == [task EXCEPT ![c] = "ended"]
  <2>1. t \in [Conn -> TaskState] /\ AddPermit(t)
    BY <1>3 DEF End, TypeOK, TaskState
  <2>2. task[c] # "waiting"
    BY <1>3 DEF Held
  <2>3. \A d \in Waiting : t[d] = "waiting"
    BY <2>2 DEF Waiting, TypeOK
  <2>4. \A w \in Conn : t[w] = "waiting" => w # c
    BY DEF TypeOK
  <2>6. ASSUME NEW w \in Conn, task[w] = "waiting", t[w] = "waiting",
               task' = [t EXCEPT ![w] = "granted"], available' = available
        PROVE  \E v \in Conn :
                  /\ task[v] = "waiting" /\ v # c
                  /\ task' = [task EXCEPT ![c] = "ended", ![v] = "granted"]
    BY <2>4, <2>6
  <2> HIDE DEF t
  <2>7. \/ /\ Waiting = {} /\ task' = t /\ available' = available + 1
        \/ \E w \in Conn : /\ task[w] = "waiting" /\ t[w] = "waiting"
                           /\ task' = [t EXCEPT ![w] = "granted"]
                           /\ available' = available
    BY <2>1, <2>3, AddPermitEffect
  <2>8. CASE Waiting = {} /\ task' = t /\ available' = available + 1
    BY <1>1, <1>3, <2>8 DEF t
  <2>9. CASE \E w \in Conn : /\ task[w] = "waiting" /\ t[w] = "waiting"
                             /\ task' = [t EXCEPT ![w] = "granted"]
                             /\ available' = available
    BY <1>1, <1>3, <2>6, <2>9
  <2> QED
    BY <2>7, <2>8, <2>9
<1> QED
  BY <1>2, <1>3

\* Every way out of a task goes through End, from a live state.
Ending(c) ==
    \/ WaitTimeout(c) \/ HandlerOk(c) \/ HandlerErr(c) \/ HandlerTimeout(c)
    \/ HandlerPanic(c) \/ Cancel(c)

LEMMA EndingEffect ==
    ASSUME TypeOK, NEW c \in Conn, Ending(c)
    PROVE  /\ task[c] \in Alive
           /\ \E o \in Outcome : /\ End(c, o) /\ (o = "cancelled" => aborted)
                                 /\ o # "none"
                                 /\ o = "limited" => task[c] = "waiting"
           /\ metrics' \in [Counter -> Nat]
           /\ metrics'["graceful"] = metrics["graceful"]
           /\ UNCHANGED <<pc, notified, signals, refill, refills, aborted>>
<1> USE DEF loopVars, TypeOK, Outcome, Counter, Count, CountResult
<1>1. CASE WaitTimeout(c)
  BY <1>1 DEF WaitTimeout
<1>2. CASE HandlerOk(c)
  BY <1>2 DEF HandlerOk
<1>3. CASE HandlerErr(c)
  BY <1>3 DEF HandlerErr
<1>4. CASE HandlerTimeout(c)
  BY <1>4 DEF HandlerTimeout
<1>5. CASE HandlerPanic(c)
  BY <1>5 DEF HandlerPanic
<1>6. CASE Cancel(c)
  BY <1>6 DEF Cancel
<1> QED
  BY <1>1, <1>2, <1>3, <1>4, <1>5, <1>6 DEF Ending


\* The steps that touch neither a task nor a permit.
Still ==
    \/ Start \/ ListenFail \/ Arm \/ Park \/ Wake \/ SignalBreak
    \/ AcceptErr \/ Signal \/ RefillCheck
    \/ GracefulEnd \/ StopRefill \/ AbortAll \/ ForcedEnd

\* The steps that move one task, without taking or returning a permit.
Moving(c) ==
    \/ AcceptOk(c) \/ JoinNext(c) \/ GracefulJoin(c) \/ ForcedJoin(c)
    \/ TaskResume(c)

LEMMA NextCases ==
    ASSUME Next
    PROVE  \/ Still \/ RefillAdd
           \/ \E c \in Conn : Moving(c) \/ TaskStart(c) \/ Ending(c)
  BY DEF Next, LoopStep, ShutdownStep, Handler, TaskStep, Still, Moving, Ending

\* The task state a moving task leaves and enters, by step.
Moves(s) == CASE s = "none" -> "spawned"
              [] s = "ended" -> "joined"
              [] s = "granted" -> "running"

LEMMA MovingEffect ==
    ASSUME TypeOK, NEW c \in Conn, Moving(c)
    PROVE  /\ task[c] \in {"none", "ended", "granted"}
           /\ task' = [task EXCEPT ![c] = Moves(task[c])]
           /\ task[c] = "none" => pc = "poll"
           /\ pc' = pc \/ (pc = "poll" /\ pc' = "arm")
           /\ metrics' \in [Counter -> Nat]
           /\ metrics'["graceful"] = metrics["graceful"]
           /\ UNCHANGED <<notified, signals, outcome, available, refill,
                          refills, aborted>>
<1> USE DEF loopVars, semVars, TypeOK, Counter, Count, Moves
<1>1. CASE AcceptOk(c)
  BY <1>1 DEF AcceptOk
<1>2. CASE JoinNext(c)
  BY <1>2 DEF JoinNext
<1>3. CASE GracefulJoin(c)
  BY <1>3 DEF GracefulJoin
<1>4. CASE ForcedJoin(c)
  BY <1>4 DEF ForcedJoin
<1>5. CASE TaskResume(c)
  BY <1>5 DEF TaskResume
<1> QED
  BY <1>1, <1>2, <1>3, <1>4, <1>5 DEF Moving

LEMMA StillEffect ==
    ASSUME Still
    PROVE  UNCHANGED <<task, outcome, available, refills>>
  BY DEF Still, Start, ListenFail, Arm, Park, Wake, SignalBreak, AcceptErr,
         Signal, RefillCheck, GracefulEnd, StopRefill, AbortAll, ForcedEnd,
         loopVars, semVars

\* The refill task adds a permit that becomes available or goes to a waiter.
LEMMA RefillAddEffect ==
    ASSUME TypeOK, RefillAdd
    PROVE  /\ refills' = refills + 1
           /\ \/ Waiting = {} /\ task' = task /\ available' = available + 1
              \/ /\ \E w \in Conn : /\ task[w] = "waiting"
                                    /\ task' = [task EXCEPT ![w] = "granted"]
                 /\ available' = available
           /\ refill = "add" /\ refill' = "tick"
           /\ UNCHANGED <<pc, notified, signals, outcome, aborted, metrics>>
<1>1. AddPermit(task) /\ task \in [Conn -> TaskState]
  BY DEF RefillAdd, TypeOK
<1>2. \A d \in Waiting : task[d] = "waiting"
  BY DEF Waiting
<1>3. \/ /\ Waiting = {} /\ task' = task /\ available' = available + 1
      \/ \E w \in Conn : /\ task[w] = "waiting" /\ task[w] = "waiting"
                         /\ task' = [task EXCEPT ![w] = "granted"]
                         /\ available' = available
  BY <1>1, <1>2, AddPermitEffect
<1> QED
  BY <1>3 DEF RefillAdd, loopVars

-----------------------------------------------------------------------------
(* Type correctness                                                        *)

LEMMA TypeInit == Init => TypeOK
<1> SUFFICES ASSUME Init PROVE TypeOK
  OBVIOUS
<1> USE NetServerAssumption DEF Init
<1>1. pc \in PC /\ notified \in BOOLEAN /\ aborted \in BOOLEAN
  BY DEF PC
<1>2. task \in [Conn -> TaskState] /\ outcome \in [Conn -> Outcome]
  BY DEF TaskState, Outcome
<1>3. available \in Nat /\ signals \in 0..MaxSignal /\ refills \in 0..MaxRefill
  OBVIOUS
<1>4. metrics \in [Counter -> Nat] /\ refill \in {"off", "tick", "add"}
  OBVIOUS
<1> QED
  BY <1>1, <1>2, <1>3, <1>4 DEF TypeOK

\* The refill counter stays within its bound: a permit is only added after
\* RefillCheck saw room for it.
RefillBound == refill = "add" => refills < MaxRefill

LEMMA RefillBoundNext ==
    TypeOK /\ RefillBound /\ [Next]_vars => RefillBound'
<1> SUFFICES ASSUME TypeOK, RefillBound, [Next]_vars PROVE RefillBound'
  OBVIOUS
<1>1. CASE Still
  BY <1>1 DEF Still, Start, ListenFail, Arm, Park, Wake, SignalBreak,
              AcceptErr, Signal, RefillCheck, GracefulEnd, StopRefill,
              AbortAll, ForcedEnd, loopVars, semVars, RefillBound
<1>2. CASE RefillAdd
  BY <1>2 DEF RefillAdd, RefillBound
<1>3. ASSUME NEW c \in Conn, Moving(c) PROVE RefillBound'
  BY <1>3, MovingEffect DEF RefillBound
<1>4. ASSUME NEW c \in Conn, TaskStart(c) PROVE RefillBound'
  BY <1>4 DEF TaskStart, RefillBound
<1>5. ASSUME NEW c \in Conn, Ending(c) PROVE RefillBound'
  BY <1>5, EndingEffect DEF RefillBound
<1>6. CASE UNCHANGED vars
  BY <1>6 DEF vars, RefillBound
<1> QED
  BY <1>1, <1>2, <1>3, <1>4, <1>5, <1>6, NextCases

LEMMA TypeNext == TypeOK /\ RefillBound /\ [Next]_vars => TypeOK'
<1> SUFFICES ASSUME TypeOK, RefillBound, [Next]_vars PROVE TypeOK'
  OBVIOUS
<1> USE NetServerAssumption DEF PC, TaskState
<1>1. CASE Still
  <2>1. task' = task /\ outcome' = outcome /\ available' = available
        /\ refills' = refills
    BY <1>1, StillEffect
  <2>2. pc' \in PC /\ notified' \in BOOLEAN /\ aborted' \in BOOLEAN
    BY <1>1 DEF Still, Start, ListenFail, Arm, Park, Wake, SignalBreak,
                AcceptErr, Signal, RefillCheck, GracefulEnd, StopRefill,
                AbortAll, ForcedEnd, loopVars, semVars, TypeOK
  <2>3. signals' \in 0..MaxSignal /\ refill' \in {"off", "tick", "add"}
    BY <1>1 DEF Still, Start, ListenFail, Arm, Park, Wake, SignalBreak,
                AcceptErr, Signal, RefillCheck, GracefulEnd, StopRefill,
                AbortAll, ForcedEnd, loopVars, semVars, TypeOK
  <2>4. metrics' \in [Counter -> Nat]
    BY <1>1 DEF Still, Start, ListenFail, Arm, Park, Wake, SignalBreak,
                AcceptErr, Signal, RefillCheck, GracefulEnd, StopRefill,
                AbortAll, ForcedEnd, loopVars, semVars, TypeOK, Count, Counter
  <2> QED
    BY <2>1, <2>2, <2>3, <2>4 DEF TypeOK
<1>2. CASE RefillAdd
  <2>1. refills' \in 0..MaxRefill
    BY <1>2 DEF RefillAdd, RefillBound, TypeOK
  <2>2. task' \in [Conn -> TaskState] /\ available' \in Nat
    BY <1>2, RefillAddEffect DEF TypeOK
  <2> QED
    BY <1>2, <2>1, <2>2, RefillAddEffect DEF TypeOK
<1>3. ASSUME NEW c \in Conn, Moving(c) PROVE TypeOK'
  <2>1. Moves(task[c]) \in TaskState
    BY <1>3, MovingEffect DEF Moves
  <2>2. task' \in [Conn -> TaskState]
    BY <1>3, <2>1, MovingEffect DEF TypeOK
  <2> QED
    BY <1>3, <2>2, MovingEffect DEF TypeOK
<1>4. ASSUME NEW c \in Conn, TaskStart(c) PROVE TypeOK'
  <2>1. task' \in [Conn -> TaskState]
    BY <1>4 DEF TaskStart, TypeOK
  <2>2. available' \in Nat
    BY <1>4 DEF TaskStart, TypeOK
  <2> QED
    BY <1>4, <2>1, <2>2 DEF TaskStart, TypeOK, loopVars
<1>5. ASSUME NEW c \in Conn, Ending(c) PROVE TypeOK'
  <2>1. PICK o \in Outcome : End(c, o)
    BY <1>5, EndingEffect
  <2>2. task[c] \in Alive
    BY <1>5, EndingEffect
  <2>3. task' \in [Conn -> TaskState] /\ available' \in Nat
    BY <2>1, <2>2, EndEffect DEF TypeOK
  <2>4. outcome' \in [Conn -> Outcome]
    BY <2>1, <2>2, EndEffect DEF TypeOK
  <2> QED
    BY <1>5, <2>3, <2>4, EndingEffect DEF TypeOK
<1>6. CASE UNCHANGED vars
  BY <1>6 DEF vars, TypeOK
<1> QED
  BY <1>1, <1>2, <1>3, <1>4, <1>5, <1>6, NextCases

\* The server's variables keep their types: no permit count below zero, no
\* counter below zero, no task in a state the code does not know.
THEOREM TypeCorrect == Spec => []TypeOK
<1>1. Init => TypeOK /\ RefillBound
  BY TypeInit DEF Init, RefillBound
<1>2. TypeOK /\ RefillBound /\ [Next]_vars => TypeOK' /\ RefillBound'
  BY TypeNext, RefillBoundNext
<1> QED
  BY <1>1, <1>2, PTL DEF Spec


-----------------------------------------------------------------------------
(* Permits                                                                 *)

LEMMA HeldFinite == IsFiniteSet(Held) /\ Cardinality(Held) \in Nat
<1>1. Held \in SUBSET Conn /\ IsFiniteSet(Conn)
  BY NetServerAssumption DEF Held
<1> QED
  BY <1>1, FS_Subset, FS_CardinalityType

\* One task more, or one less, owns a permit.
LEMMA HeldAdd ==
    ASSUME NEW c, c \notin Held, Held' = Held \cup {c}
    PROVE  Cardinality(Held') = Cardinality(Held) + 1
  BY HeldFinite, FS_AddElement

LEMMA HeldRemove ==
    ASSUME NEW c \in Held, Held' = Held \ {c}
    PROVE  Cardinality(Held') = Cardinality(Held) - 1
  BY HeldFinite, FS_RemoveElement

LEMMA HeldSwap ==
    ASSUME NEW c \in Held, NEW w, w \notin Held, w # c,
           Held' = (Held \ {c}) \cup {w}
    PROVE  Cardinality(Held') = Cardinality(Held)
<1> DEFINE rest == Held \ {c}
<1>1. IsFiniteSet(rest) /\ Cardinality(rest) = Cardinality(Held) - 1
  BY HeldFinite, FS_RemoveElement
<1>2. Cardinality(rest \cup {w}) = Cardinality(rest) + 1
  BY <1>1, FS_AddElement
<1> QED
  BY <1>1, <1>2, HeldFinite

LEMMA PermitNext ==
    TypeOK /\ PermitConservation /\ [Next]_vars => PermitConservation'
<1> SUFFICES ASSUME TypeOK, PermitConservation, [Next]_vars, HasLimiter
             PROVE  available' + Cardinality(Held') = Capacity + refills'
  BY DEF PermitConservation
<1> DEFINE Goal == available' + Cardinality(Held') = Capacity + refills'
<1>0. /\ available + Cardinality(Held) = Capacity + refills
      /\ available \in Nat /\ refills \in Nat /\ Capacity \in Nat
      /\ Cardinality(Held) \in Nat
  BY HeldFinite, NetServerAssumption DEF PermitConservation, TypeOK
<1>1. CASE Still
  <2>1. Held' = Held
    BY <1>1, StillEffect DEF Held
  <2> QED
    BY <1>0, <1>1, <2>1, StillEffect
<1>2. CASE RefillAdd
  <2>1. CASE Waiting = {} /\ task' = task /\ available' = available + 1
    <3>1. Held' = Held
      BY <2>1 DEF Held
    <3> QED
      BY <1>0, <1>2, <2>1, <3>1, RefillAddEffect
  <2>2. ASSUME NEW w \in Conn, task[w] = "waiting",
               task' = [task EXCEPT ![w] = "granted"], available' = available
        PROVE  Goal
    <3>1. w \notin Held /\ Held' = Held \cup {w}
      BY <2>2 DEF Held, TypeOK
    <3>2. Cardinality(Held') = Cardinality(Held) + 1
      BY <3>1, HeldAdd
    <3> QED
      BY <1>0, <1>2, <2>2, <3>2, RefillAddEffect
  <2> QED
    BY <1>2, <2>1, <2>2, RefillAddEffect
<1>3. ASSUME NEW c \in Conn, Moving(c) PROVE Goal
  <2>1. Held' = Held
    BY <1>3, MovingEffect DEF Held, Moves, TypeOK
  <2> QED
    BY <1>0, <1>3, <2>1, MovingEffect
<1>4. ASSUME NEW c \in Conn, TaskStart(c) PROVE Goal
  <2>1. refills' = refills /\ task[c] = "spawned" /\ c \notin Held
    BY <1>4 DEF TaskStart, Held
  <2>2. CASE /\ available > 0 /\ available' = available - 1
             /\ task' = [task EXCEPT ![c] = "running"]
    <3>1. Held' = Held \cup {c}
      BY <2>1, <2>2 DEF Held, TypeOK
    <3>2. Cardinality(Held') = Cardinality(Held) + 1
      BY <2>1, <3>1, HeldAdd
    <3> QED
      BY <1>0, <2>1, <2>2, <3>2
  <2>3. CASE /\ available = 0 /\ available' = available
             /\ task' = [task EXCEPT ![c] = "waiting"]
    <3>1. Held' = Held
      BY <2>1, <2>3 DEF Held, TypeOK
    <3> QED
      BY <1>0, <2>1, <2>3, <3>1
  <2> QED
    BY <1>4, <2>2, <2>3 DEF TaskStart
<1>5. ASSUME NEW c \in Conn, Ending(c) PROVE Goal
  <2>0. refills' = refills /\ task[c] \in Alive
    BY <1>5, EndingEffect
  <2>1. PICK o \in Outcome : End(c, o)
    BY <1>5, EndingEffect
  <2>2. CASE /\ c \notin Held /\ task' = [task EXCEPT ![c] = "ended"]
             /\ available' = available
    <3>1. Held' = Held
      BY <2>2 DEF Held, TypeOK
    <3> QED
      BY <1>0, <2>0, <2>2, <3>1
  <2>3. CASE /\ c \in Held /\ task' = [task EXCEPT ![c] = "ended"]
             /\ available' = available + 1
    <3>1. Held' = Held \ {c}
      BY <2>3 DEF Held, TypeOK
    <3>2. Cardinality(Held') = Cardinality(Held) - 1
      BY <2>3, <3>1, HeldRemove
    <3> QED
      BY <1>0, <2>0, <2>3, <3>2
  <2>4. ASSUME c \in Held, available' = available, NEW w \in Conn,
               task[w] = "waiting", w # c,
               task' = [task EXCEPT ![c] = "ended", ![w] = "granted"]
        PROVE  Goal
    <3>1. w \notin Held /\ Held' = (Held \ {c}) \cup {w}
      BY <2>4 DEF Held, TypeOK
    <3>2. Cardinality(Held') = Cardinality(Held)
      BY <2>4, <3>1, HeldSwap
    <3> QED
      BY <1>0, <2>0, <2>4, <3>2
  <2> QED
    BY <2>0, <2>1, <2>2, <2>3, <2>4, EndEffect
<1>6. CASE UNCHANGED vars
  BY <1>0, <1>6 DEF vars, Held
<1> QED
  BY <1>1, <1>2, <1>3, <1>4, <1>5, <1>6, NextCases

LEMMA PermitInit == Init => PermitConservation
<1> SUFFICES ASSUME Init, HasLimiter
             PROVE  available + Cardinality(Held) = Capacity + refills
  BY DEF PermitConservation
<1>1. Held = {}
  BY DEF Init, Held
<1> QED
  BY <1>1, FS_EmptySet, NetServerAssumption DEF Init

\* No permit is ever leaked or forged: what the semaphore holds and what live
\* tasks own is the capacity plus what the refill task has added.
THEOREM PermitsConserved == Spec => []PermitConservation
<1>1. Init => PermitConservation
  BY PermitInit
<1>2. TypeOK /\ PermitConservation /\ [Next]_vars => PermitConservation'
  BY PermitNext
<1> QED
  BY <1>1, <1>2, TypeCorrect, PTL DEF Spec


-----------------------------------------------------------------------------
(* The bucket                                                              *)

\* A task has an outcome only when it has ended.
OutcomeAtEnd ==
    \A c \in Conn : outcome[c] # "none" => task[c] \in {"ended", "joined"}

\* Between its check and its addition the refill task has room for one permit:
\* what came back since the check is counted in Returned.
RoomToAdd == refill = "add" => available < Capacity + Cardinality(Returned)

Bucket == OutcomeAtEnd /\ BucketBounded /\ RoomToAdd

LEMMA ReturnedFinite ==
    IsFiniteSet(Returned) /\ Cardinality(Returned) \in Nat
<1>1. Returned \in SUBSET Conn /\ IsFiniteSet(Conn)
  BY NetServerAssumption DEF Returned
<1> QED
  BY <1>1, FS_Subset, FS_CardinalityType

\* A task that ends with a permit is counted, once.
LEMMA ReturnedEnding ==
    ASSUME TypeOK, OutcomeAtEnd, NEW c \in Conn, Ending(c)
    PROVE  /\ OutcomeAtEnd'
           /\ \/ /\ available' = available
                 /\ Cardinality(Returned') >= Cardinality(Returned)
              \/ /\ available' = available + 1
                 /\ Cardinality(Returned') = Cardinality(Returned) + 1
<1>1. PICK o \in Outcome : /\ End(c, o) /\ o # "none"
                           /\ o = "limited" => task[c] = "waiting"
  BY EndingEffect
<1>2. task[c] \in Alive
  BY EndingEffect
<1>3. /\ outcome' = [outcome EXCEPT ![c] = o] /\ task'[c] = "ended"
      /\ \A d \in Conn : \/ d = c \/ task'[d] = task[d]
                         \/ task[d] = "waiting" /\ task'[d] = "granted"
  BY <1>1, <1>2, EndEffect DEF TypeOK
<1>4. OutcomeAtEnd'
  BY <1>3 DEF OutcomeAtEnd, TypeOK
<1>5. outcome[c] = "none"
  BY <1>2 DEF OutcomeAtEnd
<1>6. CASE o = "limited"
  <2>1. c \notin Held
    BY <1>1, <1>6 DEF Held
  <2>2. available' = available
    BY <1>1, <1>2, <2>1, EndEffect
  <2>3. Returned' = Returned
    BY <1>3, <1>5, <1>6 DEF Returned, TypeOK
  <2> QED
    BY <1>4, <2>2, <2>3, ReturnedFinite
<1>7. CASE o # "limited"
  <2>1. Returned' = Returned \cup {c} /\ c \notin Returned
    BY <1>1, <1>3, <1>5, <1>7 DEF Returned, TypeOK
  <2>2. Cardinality(Returned \cup {c}) = Cardinality(Returned) + 1
    BY <2>1, ReturnedFinite, FS_AddElement
  <2>3. available' = available \/ available' = available + 1
    BY <1>1, <1>2, EndEffect
  <2> QED
    BY <1>4, <2>1, <2>2, <2>3, ReturnedFinite
<1> QED
  BY <1>6, <1>7

\* Neither the bucket nor the count of those that came back grows.
LEMMA BucketSame ==
    ASSUME TypeOK, Bucket, outcome' = outcome,
           available' \in Nat, available' <= available,
           refill' = refill \/ refill' # "add",
           OutcomeAtEnd'
    PROVE  Bucket'
<1>1. Returned' = Returned
  BY DEF Returned
<1> QED
  BY <1>1, ReturnedFinite, NetServerAssumption
     DEF Bucket, BucketBounded, RoomToAdd, TypeOK

LEMMA BucketNext == TypeOK /\ Bucket /\ [Next]_vars => Bucket'
<1> SUFFICES ASSUME TypeOK, Bucket, [Next]_vars PROVE Bucket'
  OBVIOUS
<1>0. /\ available \in Nat /\ Capacity \in Nat
      /\ Cardinality(Returned) \in Nat
      /\ OutcomeAtEnd /\ BucketBounded /\ RoomToAdd
  BY ReturnedFinite, NetServerAssumption DEF TypeOK, Bucket
<1>1. CASE Still
  <2>1. UNCHANGED <<task, outcome, available>>
    BY <1>1, StillEffect
  <2>2. OutcomeAtEnd' /\ Returned' = Returned
    BY <1>0, <2>1 DEF OutcomeAtEnd, Returned
  <2>3. CASE RefillCheck
    <3>1. available < Capacity
      BY <2>3 DEF RefillCheck
    <3> QED
      BY <1>0, <2>1, <2>2, <3>1 DEF Bucket, BucketBounded, RoomToAdd
  <2>4. CASE ~RefillCheck
    <3>1. refill' = refill \/ refill' # "add"
      BY <1>1, <2>4 DEF Still, Start, ListenFail, Arm, Park, Wake,
         SignalBreak, AcceptErr, Signal, GracefulEnd, StopRefill, AbortAll,
         ForcedEnd, semVars
    <3> QED
      BY <1>0, <2>1, <2>2, <3>1, BucketSame
  <2> QED
    BY <2>3, <2>4
<1>2. CASE RefillAdd
  <2>1. /\ available' = available \/ available' = available + 1
        /\ refill = "add" /\ refill' = "tick" /\ outcome' = outcome
        /\ \A d \in Conn : \/ task'[d] = task[d]
                           \/ task[d] = "waiting" /\ task'[d] = "granted"
    BY <1>2, RefillAddEffect DEF TypeOK
  <2>2. OutcomeAtEnd' /\ Returned' = Returned
    BY <1>0, <2>1 DEF OutcomeAtEnd, Returned
  <2> QED
    BY <1>0, <2>1, <2>2 DEF Bucket, BucketBounded, RoomToAdd
<1>3. ASSUME NEW c \in Conn, Moving(c) PROVE Bucket'
  <2>1. /\ outcome' = outcome /\ available' = available /\ refill' = refill
        /\ task[c] \in {"none", "ended", "granted"}
        /\ task' = [task EXCEPT ![c] = Moves(task[c])]
    BY <1>3, MovingEffect
  <2>2. OutcomeAtEnd'
    BY <1>0, <2>1 DEF OutcomeAtEnd, Moves, TypeOK
  <2> QED
    BY <1>0, <2>1, <2>2, BucketSame
<1>4. ASSUME NEW c \in Conn, TaskStart(c) PROVE Bucket'
  <2>1. /\ outcome' = outcome /\ refill' = refill /\ task[c] = "spawned"
        /\ \A d \in Conn : d # c => task'[d] = task[d]
    BY <1>4 DEF TaskStart, TypeOK
  <2>2. available' \in Nat /\ available' <= available
    BY <1>0, <1>4 DEF TaskStart
  <2>3. OutcomeAtEnd'
    BY <1>0, <2>1 DEF OutcomeAtEnd
  <2> QED
    BY <2>1, <2>2, <2>3, BucketSame
<1>5. ASSUME NEW c \in Conn, Ending(c) PROVE Bucket'
  <2>1. refill' = refill
    BY <1>5, EndingEffect
  <2>2. Cardinality(Returned') \in Nat
    <3>1. IsFiniteSet(Returned')
      BY NetServerAssumption, FS_Subset DEF Returned
    <3> QED
      BY <3>1, FS_CardinalityType
  <2>3. /\ OutcomeAtEnd'
        /\ \/ /\ available' = available
              /\ Cardinality(Returned') >= Cardinality(Returned)
           \/ /\ available' = available + 1
              /\ Cardinality(Returned') = Cardinality(Returned) + 1
    BY <1>0, <1>5, ReturnedEnding
  <2> QED
    BY <1>0, <2>1, <2>2, <2>3 DEF Bucket, BucketBounded, RoomToAdd
<1>6. CASE UNCHANGED vars
  <2>1. OutcomeAtEnd'
    BY <1>0, <1>6 DEF vars, OutcomeAtEnd
  <2> QED
    BY <1>0, <1>6, <2>1, BucketSame DEF vars
<1> QED
  BY <1>1, <1>2, <1>3, <1>4, <1>5, <1>6, NextCases

\* However check and addition of the refill task interleave with connections
\* that take and return permits, the bucket exceeds its capacity by no more
\* permits than connections have come back.
THEOREM BucketTheorem == Spec => []BucketBounded
<1>1. Init => Bucket
  <2> SUFFICES ASSUME Init PROVE Bucket
    OBVIOUS
  <2>1. Returned = {} /\ OutcomeAtEnd /\ RoomToAdd
    BY DEF Init, Returned, OutcomeAtEnd, RoomToAdd
  <2>2. available <= Capacity
    BY NetServerAssumption DEF Init
  <2> QED
    BY <2>1, <2>2, FS_EmptySet, NetServerAssumption DEF Bucket, BucketBounded
<1>2. TypeOK /\ Bucket /\ [Next]_vars => Bucket'
  BY BucketNext
<1>3. Bucket => BucketBounded
  BY DEF Bucket
<1> QED
  BY <1>1, <1>2, <1>3, TypeCorrect, PTL DEF Spec

-----------------------------------------------------------------------------
(* The shutdown                                                            *)

\* How the phases of serve_connection_loop, the tasks, the refill task, the
\* abort flag and the graceful counter go together: the inductive invariant
\* behind the shutdown theorems and the refinement.
NoTaskBefore ==
    pc \in {"start", "failed"} => \A c \in Conn : task[c] = "none"
JoinedAfter == pc = "done" => \A c \in Conn : task[c] \in {"none", "joined"}
AbortedLate == aborted => pc \in {"forced", "done"}
RefillStopped ==
    pc \in {"start", "failed", "abort", "forced", "done"} => refill = "off"
GraceOnce ==
    /\ pc \in {"start", "failed", "graceful"} \cup Looping =>
          metrics["graceful"] = 0
    /\ pc \in {"stop_refill", "abort", "forced", "done"} /\ HasGraceful =>
          metrics["graceful"] = 1
CancelledAborted == \A c \in Conn : outcome[c] = "cancelled" => aborted

Shape ==
    /\ NoTaskBefore /\ JoinedAfter /\ AbortedLate /\ RefillStopped
    /\ GraceOnce /\ CancelledAborted

LEMMA ShapeNext == TypeOK /\ Shape /\ [Next]_vars => Shape'
<1> SUFFICES ASSUME TypeOK, Shape, [Next]_vars PROVE Shape'
  OBVIOUS
<1> USE DEF Shape
<1>1. CASE Still
  <2> USE DEF Still, Start, ListenFail, Arm, Park, Wake, SignalBreak,
              AcceptErr, Signal, RefillCheck, GracefulEnd, StopRefill,
              AbortAll, ForcedEnd, loopVars, semVars
  <2>1. NoTaskBefore'
    BY <1>1, StillEffect DEF NoTaskBefore
  <2>2. JoinedAfter'
    BY <1>1, StillEffect DEF JoinedAfter, AllJoined
  <2>3. AbortedLate'
    BY <1>1 DEF AbortedLate
  <2>4. RefillStopped'
    BY <1>1 DEF RefillStopped
  <2>5. GraceOnce'
    BY <1>1 DEF GraceOnce, Count, TypeOK, Counter
  <2>6. CancelledAborted'
    BY <1>1, StillEffect DEF CancelledAborted
  <2> QED
    BY <2>1, <2>2, <2>3, <2>4, <2>5, <2>6
<1>2. CASE RefillAdd
  <2>1. pc \notin {"start", "failed", "abort", "forced", "done"}
    BY <1>2, RefillAddEffect DEF RefillStopped
  <2> QED
    BY <1>2, <2>1, RefillAddEffect
       DEF NoTaskBefore, JoinedAfter, AbortedLate, RefillStopped, GraceOnce,
           CancelledAborted
<1>3. ASSUME NEW c \in Conn, Moving(c) PROVE Shape'
  <2>2. pc \notin {"start", "failed", "done"}
    BY <1>3, MovingEffect DEF NoTaskBefore, JoinedAfter
  <2> QED
    BY <1>3, <2>2, MovingEffect
       DEF NoTaskBefore, JoinedAfter, AbortedLate, RefillStopped, GraceOnce,
           CancelledAborted
<1>4. ASSUME NEW c \in Conn, TaskStart(c) PROVE Shape'
  <2>1. pc \notin {"start", "failed", "done"}
    BY <1>4 DEF TaskStart, NoTaskBefore, JoinedAfter
  <2> QED
    BY <1>4, <2>1
       DEF TaskStart, loopVars, NoTaskBefore, JoinedAfter, AbortedLate,
           RefillStopped, GraceOnce, CancelledAborted
<1>5. ASSUME NEW c \in Conn, Ending(c) PROVE Shape'
  <2>0. PICK o \in Outcome : End(c, o) /\ (o = "cancelled" => aborted)
    BY <1>5, EndingEffect
  <2>1. task[c] \in Alive
    BY <1>5, EndingEffect
  <2>2. pc \notin {"start", "failed", "done"}
    BY <2>1 DEF NoTaskBefore, JoinedAfter
  <2>3. CancelledAborted'
    BY <1>5, <2>0, <2>1, EndEffect, EndingEffect DEF CancelledAborted, TypeOK
  <2> QED
    BY <1>5, <2>2, <2>3, EndingEffect
       DEF NoTaskBefore, JoinedAfter, AbortedLate, RefillStopped, GraceOnce
<1>6. CASE UNCHANGED vars
  BY <1>6 DEF vars, NoTaskBefore, JoinedAfter, AbortedLate, RefillStopped,
              GraceOnce, CancelledAborted
<1> QED
  BY <1>1, <1>2, <1>3, <1>4, <1>5, <1>6, NextCases

LEMMA ShapeHolds == Spec => []Shape
<1>1. Init => Shape
  BY DEF Init, Shape, NoTaskBefore, JoinedAfter, AbortedLate, RefillStopped,
         GraceOnce, CancelledAborted, Counter
<1>2. TypeOK /\ Shape /\ [Next]_vars => Shape'
  BY ShapeNext
<1> QED
  BY <1>1, <1>2, TypeCorrect, PTL DEF Spec

\* No connection is cut off before the forced phase, nor before the graceful
\* wait is over when one is configured.
THEOREM NoEarlyCancel == Spec => []CancelOnlyAfterGrace
<1>1. Shape => CancelOnlyAfterGrace
  BY DEF Shape, CancelOnlyAfterGrace, CancelledAborted, AbortedLate, GraceOnce
<1> QED
  BY <1>1, ShapeHolds, PTL

\* When serve returns, every connection task is joined, the refill task is
\* gone and all permits are back in the semaphore.
THEOREM NothingLeftBehind == Spec => []QuiescentWhenDone
<1>1. Shape /\ PermitConservation /\ TypeOK => QuiescentWhenDone
  <2> SUFFICES ASSUME Shape, PermitConservation, TypeOK, pc = "done"
               PROVE  /\ AllJoined /\ refill = "off"
                      /\ HasLimiter => available = Capacity + refills
    BY DEF QuiescentWhenDone
  <2>1. AllJoined /\ refill = "off"
    BY DEF Shape, JoinedAfter, RefillStopped, AllJoined
  <2>2. Held = {}
    BY <2>1 DEF AllJoined, Held
  <2>3. Cardinality(Held) = 0
    BY <2>2, FS_EmptySet
  <2> QED
    BY <2>1, <2>3 DEF PermitConservation, TypeOK
<1> QED
  BY <1>1, ShapeHolds, PermitsConserved, TypeCorrect, PTL

-----------------------------------------------------------------------------
(* Refinement                                                              *)

LEMMA PhaseValue ==
    ASSUME TypeOK
    PROVE  /\ pc = "start" => Phase = "idle"
           /\ pc \in Looping => Phase = "open"
           /\ pc \in Stopping => Phase = "draining"
           /\ pc \in {"failed", "done"} => Phase = "closed"
  BY DEF Phase, TypeOK, PC

LEMMA RefinesNext ==
    TypeOK /\ TypeOK' /\ Shape /\ [Next]_vars => [L!Next]_(L!vars)
<1> SUFFICES ASSUME TypeOK, TypeOK', Shape, [Next]_vars
             PROVE  L!Next \/ (Phase' = Phase /\ Place' = Place)
  BY DEF L!vars
<1> DEFINE Goal == L!Next \/ (Phase' = Phase /\ Place' = Place)
<1> HIDE DEF Goal
<1>1. ASSUME Still PROVE Goal
  <2>1. Place' = Place
    BY <1>1, StillEffect DEF Place
  <2>2. CASE pc = "start" /\ pc' \in {"poll", "failed"}
    <3>1. L!Open \/ L!Fail
      BY <2>1, <2>2 DEF L!Open, L!Fail, Phase
    <3> QED
      BY <3>1 DEF Goal, L!Next
  <2>3. CASE pc \in Looping /\ pc' \in Stopping
    <3>1. L!StopAdmitting
      BY <2>1, <2>3 DEF L!StopAdmitting, Phase
    <3> QED
      BY <3>1 DEF Goal, L!Next
  <2>4. CASE pc = "forced" /\ pc' = "done" /\ AllJoined
    <3>1. \A c \in Conn : Place[c] # "inside"
      BY <2>4 DEF AllJoined, Place
    <3>2. L!Close
      BY <2>1, <2>4, <3>1 DEF L!Close, Phase
    <3> QED
      BY <3>2 DEF Goal, L!Next
  <2>5. CASE \/ pc' = pc
             \/ pc \in Looping /\ pc' \in Looping
             \/ pc \in Stopping /\ pc' \in Stopping
    BY <2>1, <2>5 DEF Goal, Phase
  <2>6. \/ pc = "start" /\ pc' \in {"poll", "failed"}
        \/ pc \in Looping /\ pc' \in Stopping
        \/ pc = "forced" /\ pc' = "done" /\ AllJoined
        \/ pc' = pc
        \/ pc \in Looping /\ pc' \in Looping
        \/ pc \in Stopping /\ pc' \in Stopping
    BY <1>1
       DEF Still, Start, ListenFail, Arm, Park, Wake, SignalBreak, AcceptErr,
           Signal, RefillCheck, GracefulEnd, StopRefill, AbortAll, ForcedEnd,
           loopVars, semVars
  <2> QED
    BY <2>2, <2>3, <2>4, <2>5, <2>6
<1>2. ASSUME RefillAdd PROVE Goal
  <2>1. Place' = Place
    BY <1>2, RefillAddEffect DEF Place, TypeOK
  <2> QED
    BY <1>2, <2>1, RefillAddEffect DEF Phase, Goal
<1>3. ASSUME NEW c \in Conn, Moving(c) PROVE Goal
  <2>1. Phase' = Phase
    BY <1>3, MovingEffect DEF Phase
  <2>2. CASE task[c] = "none"
    <3>1. Phase = "open" /\ Place[c] = "outside"
      BY <1>3, <2>2, MovingEffect DEF Phase, Place
    <3>2. Place' = [Place EXCEPT ![c] = "inside"]
      BY <1>3, <2>2, MovingEffect DEF Place, Moves, TypeOK
    <3>3. L!Admit(c)
      BY <2>1, <3>1, <3>2 DEF L!Admit
    <3> QED
      BY <3>3 DEF L!Next, Goal
  <2>3. CASE task[c] # "none"
    <3>1. Place' = Place
      BY <1>3, <2>3, MovingEffect DEF Place, Moves, TypeOK
    <3> QED
      BY <2>1, <3>1 DEF Goal
  <2> QED
    BY <2>2, <2>3
<1>4. ASSUME NEW c \in Conn, TaskStart(c) PROVE Goal
  <2>1. Place' = Place
    BY <1>4 DEF TaskStart, Place, TypeOK
  <2> QED
    BY <1>4, <2>1 DEF TaskStart, loopVars, Phase, Goal
<1>5. ASSUME NEW c \in Conn, Ending(c) PROVE Goal
  <2>1. PICK o \in Outcome : End(c, o)
    BY <1>5, EndingEffect
  <2>2. task[c] \in Alive /\ pc' = pc
    BY <1>5, EndingEffect
  <2>3. pc \in Looping \cup Stopping
    BY <2>2 DEF Shape, NoTaskBefore, JoinedAfter, TypeOK, PC
  <2>4. Phase' = Phase /\ Phase \in {"open", "draining"}
    BY <2>2, <2>3, PhaseValue DEF Phase
  <2>5. Place[c] = "inside"
    BY <2>2 DEF Place
  <2>6. Place' = [Place EXCEPT ![c] = "gone"]
    <3>1. task'[c] = "ended"
      BY <2>1, <2>2, EndEffect DEF TypeOK
    <3>2. \A d \in Conn \ {c} :
             \/ task'[d] = task[d]
             \/ task[d] = "waiting" /\ task'[d] = "granted"
      BY <2>1, <2>2, EndEffect DEF TypeOK
    <3>3. Place'[c] = "gone"
      BY <3>1 DEF Place
    <3>4. \A d \in Conn \ {c} : Place'[d] = Place[d]
      BY <3>2 DEF Place
    <3>5. /\ Place = [d \in Conn |-> Place[d]]
          /\ Place' = [d \in Conn |-> Place'[d]]
      BY DEF Place
    <3> QED
      BY <3>3, <3>4, <3>5
  <2>7. L!Leave(c)
    BY <2>4, <2>5, <2>6 DEF L!Leave
  <2> QED
    BY <2>7 DEF L!Next, Goal
<1>6. ASSUME UNCHANGED vars PROVE Goal
  BY <1>6 DEF vars, Phase, Place, Goal
<1>7. Goal
  BY <1>1, <1>2, <1>3, <1>4, <1>5, <1>6, NextCases
<1> QED
  BY <1>7 DEF Goal

\* serve_connection_loop, with its limiter, timeouts and shutdown phases,
\* implements the connection lifecycle of Lifecycle.
THEOREM RefinesLifecycle == Spec => ImplementsLifecycle
<1>1. Init => L!Init
  BY DEF Init, L!Init, Phase, Place
<1>2. TypeOK /\ TypeOK' /\ Shape /\ [Next]_vars => [L!Next]_(L!vars)
  BY RefinesNext
<1> QED
  BY <1>1, <1>2, TypeCorrect, ShapeHolds, PTL
     DEF Spec, ImplementsLifecycle, L!Spec

-----------------------------------------------------------------------------
(* The counters                                                            *)

Begun == {c \in Conn : task[c] # "none"}

\* The counters that agree in every configuration, and the two that agree
\* where serve_connection_loop counts results.
Tallied ==
    /\ metrics["accept_ok"] = Cardinality(Begun)
    /\ metrics["handler_timeout"] = Cardinality(Ended("timeout"))
    /\ metrics["limiter_timeout"] = Cardinality(Ended("limited"))
    /\ CountsResult => /\ metrics["handler_ok"] = Cardinality(Ended("ok"))
                       /\ metrics["handler_err"] = Cardinality(Ended("err"))

\* The result of a task that ends joins the tasks with that outcome and
\* leaves the others alone.
LEMMA OutcomeAdds ==
    ASSUME TypeOK, NEW c \in Conn, NEW o \in Outcome, outcome[c] = "none",
           o # "none", outcome' = [outcome EXCEPT ![c] = o]
    PROVE  /\ Cardinality(Ended(o)') = Cardinality(Ended(o)) + 1
           /\ \A p \in Outcome : p # o /\ p # "none" => Ended(p)' = Ended(p)
<1>1. Ended(o)' = Ended(o) \cup {c} /\ c \notin Ended(o)
  BY DEF Ended, TypeOK
<1>2. Ended(o) \in SUBSET Conn
  BY DEF Ended
<1>3. IsFiniteSet(Ended(o))
  BY <1>2, FS_Subset, NetServerAssumption
<1>4. Cardinality(Ended(o) \cup {c}) = Cardinality(Ended(o)) + 1
  BY <1>1, <1>3, FS_AddElement
<1>5. \A p \in Outcome : p # o /\ p # "none" => Ended(p)' = Ended(p)
  BY DEF Ended, TypeOK
<1> QED
  BY <1>1, <1>4, <1>5

\* A task that ends had begun before, and no other task begins.
LEMMA EndBegun ==
    ASSUME TypeOK, OutcomeAtEnd, NEW c \in Conn, NEW o \in Outcome, End(c, o),
           task[c] \in Alive
    PROVE  /\ outcome[c] = "none" /\ outcome' = [outcome EXCEPT ![c] = o]
           /\ Begun' = Begun /\ OutcomeAtEnd'
<1>1. /\ outcome' = [outcome EXCEPT ![c] = o] /\ task'[c] = "ended"
      /\ \A d \in Conn : \/ d = c \/ task'[d] = task[d]
                         \/ task[d] = "waiting" /\ task'[d] = "granted"
  BY EndEffect DEF TypeOK
<1>2. outcome[c] = "none"
  BY DEF OutcomeAtEnd
<1>3. Begun' = Begun
  BY <1>1 DEF Begun
<1>4. OutcomeAtEnd'
  BY <1>1 DEF OutcomeAtEnd, TypeOK
<1> QED
  BY <1>1, <1>2, <1>3, <1>4

\* A step with the same tasks begun, the same outcomes and the same counters.
LEMMA TalliedSame ==
    ASSUME Tallied, Begun' = Begun, outcome' = outcome,
           \A m \in {"accept_ok", "handler_ok", "handler_err",
                     "handler_timeout", "limiter_timeout"} :
              metrics'[m] = metrics[m]
    PROVE  Tallied'
<1>1. \A o : Ended(o)' = Ended(o)
  BY DEF Ended
<1> QED
  BY <1>1 DEF Tallied, CountsResult

LEMMA TalliedEnding ==
    ASSUME TypeOK, OutcomeAtEnd, Tallied, NEW c \in Conn, Ending(c)
    PROVE  OutcomeAtEnd' /\ Tallied'
<1>1. task[c] \in Alive
  BY EndingEffect
<1>2. ASSUME NEW o \in Outcome \ {"none"}, End(c, o)
      PROVE  /\ OutcomeAtEnd' /\ Begun' = Begun
             /\ Cardinality(Ended(o)') = Cardinality(Ended(o)) + 1
             /\ \A p \in Outcome : p # o /\ p # "none" => Ended(p)' = Ended(p)
  BY <1>1, <1>2, EndBegun, OutcomeAdds
<1> USE DEF Outcome, Counter, Count, CountResult, CountsResult, TypeOK
<1>3. CASE WaitTimeout(c)
  BY <1>2, <1>3 DEF WaitTimeout, Tallied
<1>4. CASE HandlerOk(c)
  BY <1>2, <1>4 DEF HandlerOk, Tallied
<1>5. CASE HandlerErr(c)
  BY <1>2, <1>5 DEF HandlerErr, Tallied
<1>6. CASE HandlerTimeout(c)
  BY <1>2, <1>6 DEF HandlerTimeout, Tallied
<1>7. CASE HandlerPanic(c)
  BY <1>2, <1>7 DEF HandlerPanic, Tallied
<1>8. CASE Cancel(c)
  BY <1>2, <1>8 DEF Cancel, Tallied
<1> QED
  BY <1>3, <1>4, <1>5, <1>6, <1>7, <1>8 DEF Ending

LEMMA TalliedAccept ==
    ASSUME TypeOK, OutcomeAtEnd, Tallied, NEW c \in Conn, AcceptOk(c)
    PROVE  OutcomeAtEnd' /\ Tallied'
<1>1. /\ task[c] = "none" /\ task' = [task EXCEPT ![c] = "spawned"]
      /\ outcome' = outcome /\ metrics' = [metrics EXCEPT !["accept_ok"] = @ + 1]
  BY DEF AcceptOk, Count
<1>2. Begun' = Begun \cup {c} /\ c \notin Begun
  BY <1>1 DEF Begun, TypeOK
<1>3. Begun \in SUBSET Conn
  BY DEF Begun
<1>4. IsFiniteSet(Begun)
  BY <1>3, FS_Subset, NetServerAssumption
<1>5. Cardinality(Begun \cup {c}) = Cardinality(Begun) + 1
  BY <1>2, <1>4, FS_AddElement
<1>6. \A o : Ended(o)' = Ended(o)
  BY <1>1 DEF Ended
<1>7. Tallied'
  BY <1>1, <1>2, <1>5, <1>6 DEF Tallied, TypeOK, Counter, CountsResult
<1>8. OutcomeAtEnd'
  BY <1>1 DEF OutcomeAtEnd, TypeOK
<1> QED
  BY <1>7, <1>8

LEMMA TalliedNext ==
    TypeOK /\ OutcomeAtEnd /\ Tallied /\ [Next]_vars => OutcomeAtEnd' /\ Tallied'
<1> SUFFICES ASSUME TypeOK, OutcomeAtEnd, Tallied, [Next]_vars
             PROVE  OutcomeAtEnd' /\ Tallied'
  OBVIOUS
<1>1. CASE Still
  <2>1. UNCHANGED <<task, outcome>>
    BY <1>1, StillEffect
  <2>2. \A m \in {"accept_ok", "handler_ok", "handler_err",
                  "handler_timeout", "limiter_timeout"} :
           metrics'[m] = metrics[m]
    BY <1>1 DEF Still, Start, ListenFail, Arm, Park, Wake, SignalBreak,
                AcceptErr, Signal, RefillCheck, GracefulEnd, StopRefill,
                AbortAll, ForcedEnd, loopVars, semVars, Count, TypeOK, Counter
  <2> QED
    BY <2>1, <2>2, TalliedSame DEF Begun, OutcomeAtEnd
<1>2. CASE RefillAdd
  <2>1. /\ outcome' = outcome /\ metrics' = metrics
        /\ \A d \in Conn : \/ task'[d] = task[d]
                           \/ task[d] = "waiting" /\ task'[d] = "granted"
    BY <1>2, RefillAddEffect DEF TypeOK
  <2>2. Begun' = Begun /\ OutcomeAtEnd'
    BY <2>1 DEF Begun, OutcomeAtEnd
  <2> QED
    BY <2>1, <2>2, TalliedSame
<1>3. ASSUME NEW c \in Conn, AcceptOk(c) PROVE OutcomeAtEnd' /\ Tallied'
  BY <1>3, TalliedAccept
<1>4. ASSUME NEW c \in Conn,
             \/ JoinNext(c) \/ GracefulJoin(c) \/ ForcedJoin(c)
             \/ TaskResume(c) \/ TaskStart(c)
      PROVE  OutcomeAtEnd' /\ Tallied'
  <2>1. /\ outcome' = outcome /\ metrics' = metrics
        /\ task[c] # "none" /\ task'[c] # "none"
        /\ \A d \in Conn : d # c => task'[d] = task[d]
        /\ task[c] = "ended" => task'[c] = "joined"
        /\ task[c] # "joined"
    BY <1>4 DEF JoinNext, GracefulJoin, ForcedJoin, TaskResume, TaskStart,
                TypeOK
  <2>2. Begun' = Begun /\ OutcomeAtEnd'
    BY <2>1 DEF Begun, OutcomeAtEnd
  <2> QED
    BY <2>1, <2>2, TalliedSame
<1>5. ASSUME NEW c \in Conn, Ending(c) PROVE OutcomeAtEnd' /\ Tallied'
  BY <1>5, TalliedEnding
<1>6. CASE UNCHANGED vars
  BY <1>6, TalliedSame DEF vars, Begun, OutcomeAtEnd
<1> QED
  BY <1>1, <1>2, <1>3, <1>4, <1>5, <1>6, NextCases DEF Moving

\* In every configuration but the one with both a limiter and a handler
\* timeout, whose spawn path does not count results, the counters of
\* server/metrics.rs equal the number of connections accepted and of tasks
\* that ended in each way, after every step and through both shutdown phases.
THEOREM MetricsTheorem ==
    ASSUME ~(HasLimiter /\ HasHandlerTimeout)
    PROVE  Spec => []MetricsAgree
<1>1. Init => OutcomeAtEnd /\ Tallied
  <2> SUFFICES ASSUME Init PROVE OutcomeAtEnd /\ Tallied
    OBVIOUS
  <2>1. Begun = {} /\ \A o : o # "none" => Ended(o) = {}
    BY DEF Init, Begun, Ended
  <2> QED
    BY <2>1, FS_EmptySet DEF Init, OutcomeAtEnd, Tallied, Counter
<1>2. TypeOK /\ OutcomeAtEnd /\ Tallied /\ [Next]_vars
        => OutcomeAtEnd' /\ Tallied'
  BY TalliedNext
<1>3. Tallied => MetricsAgree
  BY DEF Tallied, MetricsAgree, CountsResult, Begun
<1> QED
  BY <1>1, <1>2, <1>3, TypeCorrect, PTL DEF Spec

=============================================================================
