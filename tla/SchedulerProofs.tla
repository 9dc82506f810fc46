--------------------------- MODULE SchedulerProofs ---------------------------
(***************************************************************************)
(* Theorems about Scheduler, for every set of tasks, every clock and any   *)
(* number of servers: one loop at most, and no due task is lost.           *)
(***************************************************************************)
EXTENDS Scheduler, FiniteSetTheorems, TLAPS

\* Two live loops are the same loop.
Single == \A l, m \in LiveLoops : l = m

\* Loops are numbered by the server that started them.
Unstarted == \A l \in Loop : l > starts => loop[l] = "none"

Dropped == {l \in Loop : loop[l] = "dropped"}

\* SCHEDULER_RUNNING is set as long as a loop lives, and for ever once one was
\* dropped with its runtime.
FlagHeld == running <=> LiveLoops \cup Dropped # {}

\* No loop was started after one was dropped.
NoneAfterDrop == Dropped # {} => LiveLoops = {}

\* A task that was dropped was due, and stays so.
FiredDue == \A i \in fired : i \in OneShot /\ Due[i] <= now

IInv ==
    /\ TypeOK
    /\ Single /\ Unstarted /\ FlagHeld /\ NoneAfterDrop
    /\ FiredDue /\ FiredRuns

\* A set whose members are all equal has at most one.
LEMMA SingleCardinality ==
    ASSUME NEW S, \A x, y \in S : x = y
    PROVE  Cardinality(S) <= 1
<1>1. CASE S = {}
    BY <1>1, FS_EmptySet
<1>2. CASE S # {}
    <2>1. PICK x \in S : TRUE
        BY <1>2
    <2>2. S = {x}
        BY <2>1
    <2>. QED
        BY <2>2, FS_Singleton
<1>. QED
    BY <1>1, <1>2

\* The state before any server has started.
LEMMA InitIInv == Init => IInv
<1>. SUFFICES ASSUME Init PROVE IInv
    OBVIOUS
<1>. USE SchedulerAssumption DEF SchedulerAssumption
<1>1. TypeOK
    <2>1. now \in 0..MaxTime /\ starts \in 0..MaxStart /\ ops \in 0..MaxOp
        BY DEF Init
    <2>2. /\ loop \in [Loop -> {"none", "over", "dropped"} \cup Alive]
          /\ wake \in [Loop -> 0..(MaxTime + Period)]
        BY DEF Init
    <2>3. pending \in [Id -> Nat] /\ executed \in [Id -> Nat]
        BY DEF Init
    <2>. QED
        BY <2>1, <2>2, <2>3 DEF Init, TypeOK
<1>2. LiveLoops = {} /\ Dropped = {}
    BY DEF Init, LiveLoops, Alive, Dropped
<1>. QED
    BY <1>1, <1>2
    DEF Init, IInv, Single, Unstarted, FlagHeld, NoneAfterDrop, FiredDue,
        FiredRuns

-----------------------------------------------------------------------------
(* The loops                                                               *)

\* A step of a loop from one live place to another changes no other loop.
LEMMA GotoKeepsLoops ==
    ASSUME TypeOK, NEW l \in Loop, NEW from \in Alive, NEW to \in Alive,
           Goto(l, from, to)
    PROVE  LiveLoops' = LiveLoops /\ Dropped' = Dropped
<1>1. from # "dropped" /\ to # "dropped"
    BY DEF Alive
<1>. QED
    BY <1>1 DEF TypeOK, Goto, LiveLoops, Dropped

\* What a step may do to the loops: nothing, start the first one, or end or
\* drop the one there is.
LoopsKept ==
    LiveLoops' = LiveLoops /\ Dropped' = Dropped /\ running' = running

LEMMA LoopsKeptSuffices ==
    ASSUME Single, FlagHeld, NoneAfterDrop, LoopsKept
    PROVE  Single' /\ FlagHeld' /\ NoneAfterDrop'
BY DEF Single, FlagHeld, NoneAfterDrop, LoopsKept

LEMMA StartKeepsSingle ==
    ASSUME IInv, ServerStart
    PROVE  Single' /\ FlagHeld' /\ NoneAfterDrop' /\ Unstarted'
<1>. USE SchedulerAssumption DEF SchedulerAssumption
<1>1. starts + 1 \in Loop /\ starts' = starts + 1
    BY DEF IInv, TypeOK, ServerStart, Loop
<1>2. CASE running
    <2>1. loop' = loop /\ running'
        BY <1>2 DEF ServerStart, Claimed
    <2>2. LoopsKept
        BY <1>2, <2>1 DEF LoopsKept, LiveLoops, Dropped
    <2>3. Unstarted'
        BY <1>1, <2>1 DEF IInv, TypeOK, Unstarted, Loop
    <2>. QED
        BY <2>2, <2>3, LoopsKeptSuffices DEF IInv
<1>3. CASE ~running
    <2>1. loop' = [loop EXCEPT ![starts + 1] = "run"] /\ running'
        BY <1>3 DEF ServerStart, Claimed
    <2>2. LiveLoops = {} /\ Dropped = {}
        BY <1>3 DEF IInv, FlagHeld
    <2>3. LiveLoops' = {starts + 1} /\ Dropped' = {}
        BY <1>1, <2>1, <2>2 DEF IInv, TypeOK, LiveLoops, Alive, Dropped
    <2>4. Unstarted'
        BY <1>1, <2>1 DEF IInv, TypeOK, Unstarted, Loop
    <2>. QED
        BY <2>1, <2>3, <2>4 DEF Single, FlagHeld, NoneAfterDrop
<1>. QED
    BY <1>2, <1>3

\* A dropped loop and a live one never meet: the flag the first left set kept
\* every later server from starting the second.
LEMMA ExitKeepsSingle ==
    ASSUME IInv, NEW l \in Loop, Exit(l)
    PROVE  Single' /\ FlagHeld' /\ NoneAfterDrop'
<1>1. /\ l \in LiveLoops /\ LiveLoops' = LiveLoops \ {l} /\ ~running'
      /\ Dropped' = Dropped
    BY DEF IInv, TypeOK, Exit, Goto, LiveLoops, Alive, Dropped
<1>2. LiveLoops' = {} /\ Dropped' = {}
    BY <1>1 DEF IInv, Single, NoneAfterDrop
<1>. QED
    BY <1>1, <1>2 DEF Single, FlagHeld, NoneAfterDrop

LEMMA DropKeepsSingle ==
    ASSUME IInv, NEW l \in Loop, RuntimeDropped(l)
    PROVE  Single' /\ FlagHeld' /\ NoneAfterDrop'
<1>1. /\ l \in LiveLoops /\ LiveLoops' = LiveLoops \ {l}
      /\ running' = running /\ l \in Dropped'
    BY DEF IInv, TypeOK, RuntimeDropped, Goto, LiveLoops, Alive, Dropped
<1>2. LiveLoops' = {} /\ running
    BY <1>1 DEF IInv, Single, FlagHeld
<1>. QED
    BY <1>1, <1>2 DEF Single, FlagHeld, NoneAfterDrop

\* A loop that moves has been started.
LEMMA GotoKeepsUnstarted ==
    ASSUME TypeOK, Unstarted, NEW l \in Loop, NEW from \in Alive, NEW to,
           Goto(l, from, to), UNCHANGED starts
    PROVE  Unstarted'
BY DEF TypeOK, Unstarted, Goto, Alive

-----------------------------------------------------------------------------
(* Type correctness                                                        *)

LEMMA TypeStep == TypeOK /\ [Next]_vars => TypeOK'
<1>. SUFFICES ASSUME TypeOK, [Next]_vars PROVE TypeOK'
    OBVIOUS
<1>. USE SchedulerAssumption DEF SchedulerAssumption
<1>1. ASSUME NEW i \in Id, AddTask(i) \/ RemoveTask(i) \/ RemoveTaskSub(i)
      PROVE  TypeOK'
    BY <1>1 DEF TypeOK, AddTask, RemoveTask, RemoveTaskSub, Called, loopVars,
                jobVars
<1>2. CASE Stop
    <2>1. ops' \in 0..MaxOp
        BY <1>2 DEF TypeOK, Stop, Called
    <2>2. schedule' \in BOOLEAN
        BY <1>2 DEF Stop
    <2>. QED
        BY <1>2, <2>1, <2>2 DEF TypeOK, Stop, loopVars, jobVars
<1>3. CASE ServerStart
    <2>1. loop' \in [Loop -> {"none", "over", "dropped"} \cup Alive]
        BY <1>3 DEF TypeOK, ServerStart, Alive
    <2>2. starts' \in 0..MaxStart
        BY <1>3 DEF TypeOK, ServerStart
    <2>. QED
        BY <1>3, <2>1, <2>2 DEF TypeOK, ServerStart, listVars, jobVars
<1>4. ASSUME NEW l \in Loop, RunPass(l)
      PROVE  TypeOK'
    <2>1. Removable \subseteq OneShot
        BY DEF Removable, IsRemovable
    <2>2. pending' \in [Id -> Nat]
        BY <1>4 DEF TypeOK, RunPass
    <2>3. loop' \in [Loop -> {"none", "over", "dropped"} \cup Alive]
        BY <1>4 DEF TypeOK, RunPass, Goto, Alive
    <2>4. wake' \in [Loop -> 0..(MaxTime + Period)]
        BY <1>4 DEF TypeOK, RunPass
    <2>5. tasks' \subseteq Id /\ fired' \subseteq OneShot
        BY <1>4, <2>1 DEF TypeOK, RunPass
    <2>. QED
        BY <1>4, <2>2, <2>3, <2>4, <2>5 DEF TypeOK, RunPass
<1>5. ASSUME NEW l \in Loop,
             \/ TimerFires(l) \/ CheckStop(l) \/ ResetStop(l)
             \/ Exit(l) \/ RuntimeDropped(l)
      PROVE  TypeOK'
    BY <1>5 DEF TypeOK, TimerFires, CheckStop, ResetStop, Exit, RuntimeDropped,
                Goto, Alive, listVars, jobVars
<1>6. ASSUME NEW i \in Id, RunTask(i)
      PROVE  TypeOK'
    <2>1. pending' \in [Id -> Nat] /\ executed' \in [Id -> Nat]
        BY <1>6 DEF TypeOK, RunTask
    <2>. QED
        BY <1>6, <2>1 DEF TypeOK, RunTask, listVars, loopVars
<1>7. CASE Tick
    BY <1>7 DEF TypeOK, Tick, listVars, loopVars, jobVars
<1>8. CASE UNCHANGED vars
    BY <1>8 DEF TypeOK, vars
<1>. QED
    BY <1>1, <1>2, <1>3, <1>4, <1>5, <1>6, <1>7, <1>8 DEF Next, LoopStep

-----------------------------------------------------------------------------
(* The loops stay single                                                   *)

LEMMA LoopStepInv ==
    IInv /\ [Next]_vars => Single' /\ FlagHeld' /\ NoneAfterDrop' /\ Unstarted'
<1>. SUFFICES ASSUME IInv, [Next]_vars
              PROVE  Single' /\ FlagHeld' /\ NoneAfterDrop' /\ Unstarted'
    OBVIOUS
<1>1. ASSUME UNCHANGED <<loop, running, starts>>
      PROVE  Single' /\ FlagHeld' /\ NoneAfterDrop' /\ Unstarted'
    <2>1. LoopsKept
        BY <1>1 DEF LoopsKept, LiveLoops, Dropped
    <2>2. Unstarted'
        BY <1>1 DEF IInv, Unstarted
    <2>. QED
        BY <2>1, <2>2, LoopsKeptSuffices DEF IInv
<1>2. ASSUME NEW i \in Id, AddTask(i) \/ RemoveTask(i) \/ RemoveTaskSub(i)
                             \/ RunTask(i)
      PROVE  UNCHANGED <<loop, running, starts>>
    BY <1>2 DEF AddTask, RemoveTask, RemoveTaskSub, RunTask, loopVars
<1>3. ASSUME Stop \/ Tick \/ UNCHANGED vars
      PROVE  UNCHANGED <<loop, running, starts>>
    BY <1>3 DEF Stop, Tick, vars, loopVars
<1>4. ASSUME NEW l \in Loop, NEW from \in Alive, NEW to \in Alive,
             Goto(l, from, to), UNCHANGED <<running, starts>>
      PROVE  Single' /\ FlagHeld' /\ NoneAfterDrop' /\ Unstarted'
    <2>1. LoopsKept
        BY <1>4, GotoKeepsLoops DEF IInv, LoopsKept
    <2>2. Unstarted'
        BY <1>4, GotoKeepsUnstarted DEF IInv
    <2>. QED
        BY <2>1, <2>2, LoopsKeptSuffices DEF IInv
<1>5. ASSUME NEW l \in Loop,
             RunPass(l) \/ TimerFires(l) \/ CheckStop(l) \/ ResetStop(l)
      PROVE  \E from, to \in Alive :
                 Goto(l, from, to) /\ UNCHANGED <<running, starts>>
    BY <1>5 DEF RunPass, TimerFires, CheckStop, ResetStop, Alive
<1>6. ASSUME NEW l \in Loop, Exit(l)
      PROVE  Single' /\ FlagHeld' /\ NoneAfterDrop' /\ Unstarted'
    <2>1. Goto(l, "exit", "over") /\ UNCHANGED starts
        BY <1>6 DEF Exit
    <2>2. Unstarted'
        BY <2>1, GotoKeepsUnstarted DEF IInv, Alive
    <2>. QED
        BY <1>6, <2>2, ExitKeepsSingle
<1>7. CASE ServerStart
    BY <1>7, StartKeepsSingle
<1>8. ASSUME NEW l \in Loop, RuntimeDropped(l)
      PROVE  Single' /\ FlagHeld' /\ NoneAfterDrop' /\ Unstarted'
    <2>1. PICK at \in Alive : Goto(l, at, "dropped")
        BY <1>8 DEF RuntimeDropped
    <2>2. starts' = starts
        BY <1>8 DEF RuntimeDropped
    <2>3. Unstarted'
        BY <2>1, <2>2, GotoKeepsUnstarted DEF IInv
    <2>. QED
        BY <1>8, <2>3, DropKeepsSingle
<1>. QED
    BY <1>1, <1>2, <1>3, <1>4, <1>5, <1>6, <1>7, <1>8 DEF Next, LoopStep

-----------------------------------------------------------------------------
(* Dropped tasks                                                           *)

LEMMA FiredStep == IInv /\ [Next]_vars => FiredDue' /\ FiredRuns'
<1>. SUFFICES ASSUME IInv, [Next]_vars PROVE FiredDue' /\ FiredRuns'
    OBVIOUS
<1>. USE SchedulerAssumption DEF SchedulerAssumption
<1>1. ASSUME UNCHANGED <<now, fired, pending, executed>>
      PROVE  FiredDue' /\ FiredRuns'
    BY <1>1 DEF IInv, FiredDue, FiredRuns
<1>2. ASSUME NEW i \in Id, AddTask(i) \/ RemoveTask(i) \/ RemoveTaskSub(i)
      PROVE  UNCHANGED <<now, fired, pending, executed>>
    BY <1>2 DEF AddTask, RemoveTask, RemoveTaskSub, jobVars
<1>3. ASSUME Stop \/ ServerStart \/ UNCHANGED vars
      PROVE  UNCHANGED <<now, fired, pending, executed>>
    BY <1>3 DEF Stop, ServerStart, vars, jobVars
<1>4. ASSUME NEW l \in Loop,
             \/ TimerFires(l) \/ CheckStop(l) \/ ResetStop(l)
             \/ Exit(l) \/ RuntimeDropped(l)
      PROVE  UNCHANGED <<now, fired, pending, executed>>
    BY <1>4 DEF TimerFires, CheckStop, ResetStop, Exit, RuntimeDropped, jobVars
<1>5. ASSUME NEW l \in Loop, RunPass(l)
      PROVE  FiredDue' /\ FiredRuns'
    <2>. SUFFICES ASSUME NEW i \in fired'
                  PROVE  /\ i \in OneShot /\ Due[i] <= now'
                         /\ executed'[i] + pending'[i] > 0
        BY DEF FiredDue, FiredRuns
    <2>1. /\ i \in fired \cup Removable /\ now' = now /\ executed' = executed
          /\ pending' = [j \in Id |-> pending[j] + IF j \in tasks THEN 1 ELSE 0]
        BY <1>5 DEF RunPass
    <2>2. CASE i \in fired
        <3>1. i \in Id /\ pending[i] \in Nat /\ executed[i] \in Nat
            BY <2>2 DEF IInv, TypeOK
        <3>. QED
            BY <2>1, <2>2, <3>1 DEF IInv, FiredDue, FiredRuns
    <2>3. CASE i \in Removable
        <3>1. i \in tasks /\ i \in OneShot /\ Due[i] <= now
            BY <2>3 DEF Removable, IsRemovable, IsActive
        <3>2. i \in Id /\ pending[i] \in Nat /\ executed[i] \in Nat
            BY <3>1 DEF IInv, TypeOK
        <3>. QED
            BY <2>1, <3>1, <3>2
    <2>. QED
        BY <2>1, <2>2, <2>3
<1>6. ASSUME NEW j \in Id, RunTask(j)
      PROVE  FiredDue' /\ FiredRuns'
    <2>. SUFFICES ASSUME NEW i \in fired
                  PROVE  executed'[i] + pending'[i] > 0
        BY <1>6 DEF FiredDue, FiredRuns, RunTask, IInv
    <2>1. /\ i \in Id /\ pending[i] \in Nat /\ executed[i] \in Nat
          /\ IsActive(i) /\ executed[i] + pending[i] > 0
        BY DEF IInv, TypeOK, FiredDue, FiredRuns, IsActive
    <2>2. pending \in [Id -> Nat] /\ executed \in [Id -> Nat]
        BY DEF IInv, TypeOK
    <2>3. CASE i = j
        <3>1. pending'[i] = pending[i] - 1 /\ executed'[i] = executed[i] + 1
            BY <1>6, <2>1, <2>2, <2>3 DEF RunTask
        <3>. QED
            BY <2>1, <3>1
    <2>4. CASE i # j
        BY <1>6, <2>1, <2>2, <2>4 DEF RunTask
    <2>. QED
        BY <2>3, <2>4
<1>7. CASE Tick
    <2>1. now' = now + 1 /\ UNCHANGED <<fired, pending, executed>>
        BY <1>7 DEF Tick, jobVars
    <2>2. FiredDue'
        BY <2>1 DEF IInv, TypeOK, FiredDue
    <2>. QED
        BY <2>1, <2>2 DEF IInv, FiredRuns
<1>. QED
    BY <1>1, <1>2, <1>3, <1>4, <1>5, <1>6, <1>7 DEF Next, LoopStep

-----------------------------------------------------------------------------
(* The theorems                                                            *)

LEMMA Inductive == Spec => []IInv
<1>1. IInv /\ [Next]_vars => IInv'
    BY TypeStep, LoopStepInv, FiredStep DEF IInv
<1>. QED
    BY <1>1, InitIInv, PTL DEF Spec

\* Type correctness, for any tasks, servers and clock.
THEOREM TypeCorrect == Spec => []TypeOK
BY Inductive, PTL DEF IInv

\* compare_exchange on SCHEDULER_RUNNING lets one loop in, however many servers
\* start while loops stop, leave or are dropped with their runtime, and only a
\* dropped loop leaves the flag set behind it.
THEOREM OneLoopAlways == Spec => []OneLoop
<1>1. IInv => OneLoop
    BY SingleCardinality DEF IInv, Single, FlagHeld, Dropped, OneLoop
<1>. QED
    BY <1>1, Inductive, PTL

\* A pass that drops a one-shot task from the list has spawned a job that will
\* execute it, whatever the job's own look at the clock says later.
THEOREM FiredTasksRun == Spec => []FiredRuns
BY Inductive, PTL DEF IInv

=============================================================================
