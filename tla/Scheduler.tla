------------------------------ MODULE Scheduler ------------------------------
(***************************************************************************)
(* silent::scheduler and its start from net_server: the process-wide       *)
(* SCHEDULER behind a mutex, its loop that runs a pass, sleeps and looks   *)
(* at the stop flag, the threads a pass spawns, and the SCHEDULER_RUNNING  *)
(* flag every starting server competes for.  The loop is a task of the     *)
(* runtime its server was started in: NetServer::run builds one and drops  *)
(* it, with the loop, when the server has ended.                           *)
(*                                                                         *)
(* Each operation under the mutex is one step.  now is the clock every     *)
(* is_active call reads for itself, and is never set back here; Period is  *)
(* the 1 s timer.                                                          *)
(***************************************************************************)
EXTENDS Integers, FiniteSets

CONSTANTS
    Id,         \* task ids
    SubOf,      \* SubOf[p]: the ids that start with p, p itself included
    OneShot,    \* ids whose ProcessTime is a Datetime; the others are cron
    Due,        \* Due[i]: the Datetime of a one-shot task
    CronAt,     \* CronAt[i]: instants a cron task includes
    Period,     \* timer between two passes
    MaxTime,    \* bound: the clock
    MaxStart,   \* bound: servers started in the process
    MaxOp       \* bound: calls of add, remove and stop

ASSUME SchedulerAssumption ==
    /\ IsFiniteSet(Id) /\ OneShot \subseteq Id
    /\ SubOf \in [Id -> SUBSET Id] /\ \A p \in Id : p \in SubOf[p]
    /\ Due \in [OneShot -> Nat]
    /\ CronAt \in [Id \ OneShot -> SUBSET Nat]
    /\ Period \in Nat \ {0}
    /\ MaxTime \in Nat /\ MaxStart \in Nat /\ MaxOp \in Nat

Loop == 1..MaxStart     \* one schedule() future per successful start

VARIABLES
    now,        \* Local::now()
    tasks,      \* Scheduler.tasks
    schedule,   \* Scheduler.schedule
    running,    \* SCHEDULER_RUNNING
    loop,       \* each schedule() future
    wake,       \* when its timer fires
    starts,     \* servers started so far
    pending,    \* threads spawned for a task that have not run yet
    executed,   \* times the task's action ran
    fired,      \* one-shot tasks a pass has dropped from the list
    ops         \* calls made so far

listVars == <<tasks, schedule>>
loopVars == <<loop, wake>>
jobVars == <<pending, executed, fired>>
vars == <<now, tasks, schedule, running, loop, wake, starts, pending,
          executed, fired, ops>>

IsActive(i) == IF i \in OneShot THEN Due[i] <= now ELSE now \in CronAt[i]

IsRemovable(i) == i \in OneShot /\ IsActive(i)

Alive == {"run", "sleep", "check", "reset", "exit"}

TypeOK ==
    /\ now \in 0..MaxTime
    /\ tasks \subseteq Id /\ fired \subseteq OneShot
    /\ schedule \in BOOLEAN /\ running \in BOOLEAN
    /\ loop \in [Loop -> {"none", "over", "dropped"} \cup Alive]
    /\ wake \in [Loop -> 0..(MaxTime + Period)]
    /\ starts \in 0..MaxStart /\ ops \in 0..MaxOp
    /\ {pending, executed} \subseteq [Id -> Nat]

Init ==
    /\ now = 0
    /\ tasks = {} /\ schedule = TRUE /\ running = FALSE
    /\ loop = [l \in Loop |-> "none"] /\ wake = [l \in Loop |-> 0]
    /\ starts = 0 /\ ops = 0
    /\ pending = [i \in Id |-> 0] /\ executed = [i \in Id |-> 0]
    /\ fired = {}

-----------------------------------------------------------------------------
(* Calls by application code, each under the mutex                         *)

Called == ops < MaxOp /\ ops' = ops + 1

\* A second task with the same id is refused.
AddTask(i) ==
    /\ Called
    /\ i \notin tasks
    /\ tasks' = tasks \cup {i}
    /\ UNCHANGED <<now, schedule, running, loopVars, starts, jobVars>>

RemoveTask(i) ==
    /\ Called
    /\ tasks' = tasks \ {i}
    /\ UNCHANGED <<now, schedule, running, loopVars, starts, jobVars>>

\* retain(|t| t.id.starts_with(id)) keeps what starts with id.
RemoveTaskSub(p) ==
    /\ Called
    /\ tasks' = tasks \cap SubOf[p]
    /\ UNCHANGED <<now, schedule, running, loopVars, starts, jobVars>>

Stop ==
    /\ Called
    /\ schedule' = FALSE
    /\ UNCHANGED <<now, tasks, running, loopVars, starts, jobVars>>

-----------------------------------------------------------------------------
(* ensure_scheduler_running and Scheduler::schedule                        *)

\* Mutant: load and store instead of compare_exchange.
ClaimedByLoad == TRUE

Claimed == ~running

\* compare_exchange(false, true): only the winner spawns a loop.
ServerStart ==
    /\ starts < MaxStart
    /\ starts' = starts + 1
    /\ running' = TRUE
    /\ loop' = IF Claimed THEN [loop EXCEPT ![starts + 1] = "run"] ELSE loop
    /\ UNCHANGED <<now, listVars, wake, jobVars, ops>>

Goto(l, from, to) == loop[l] = from /\ loop' = [loop EXCEPT ![l] = to]

\* Mutant: a one-shot task is dropped whether or not it is due.
RemovableAny == tasks \cap OneShot

Removable == {i \in tasks : IsRemovable(i)}

\* One pass: a thread per task of the snapshot, then the due one-shot tasks
\* leave the list.  The threads check is_active on their own.
RunPass(l) ==
    /\ Goto(l, "run", "sleep")
    /\ wake' = [wake EXCEPT ![l] = now + Period]
    /\ pending' = [i \in Id |-> pending[i] + IF i \in tasks THEN 1 ELSE 0]
    /\ tasks' = tasks \ Removable
    /\ fired' = fired \cup Removable
    /\ UNCHANGED <<now, schedule, running, starts, executed, ops>>

TimerFires(l) ==
    /\ wake[l] <= now
    /\ Goto(l, "sleep", "check")
    /\ UNCHANGED <<now, listVars, running, wake, starts, jobVars, ops>>

\* Mutant: the stop flag is not looked at.
CheckStopIgnored(l) ==
    /\ Goto(l, "check", "run")
    /\ UNCHANGED <<now, listVars, running, wake, starts, jobVars, ops>>

CheckStop(l) ==
    /\ \/ schedule /\ Goto(l, "check", "run")
       \/ ~schedule /\ Goto(l, "check", "reset")
    /\ UNCHANGED <<now, listVars, running, wake, starts, jobVars, ops>>

ResetStop(l) ==
    /\ Goto(l, "reset", "exit")
    /\ schedule' = TRUE
    /\ UNCHANGED <<now, tasks, running, wake, starts, jobVars, ops>>

\* SCHEDULER_RUNNING.store(false) after schedule() returned.
Exit(l) ==
    /\ Goto(l, "exit", "over")
    /\ running' = FALSE
    /\ UNCHANGED <<now, listVars, wake, starts, jobVars, ops>>

\* NetServer::run returns and drops its runtime, and with it a loop that is
\* at one of its awaits (the lock or the timer).  Nothing clears
\* SCHEDULER_RUNNING.  The jobs are threads, or tasks of another executor.
RuntimeDropped(l) ==
    /\ \E at \in Alive \ {"exit"} : Goto(l, at, "dropped")
    /\ UNCHANGED <<now, listVars, running, wake, starts, jobVars, ops>>

-----------------------------------------------------------------------------
(* The spawned threads and the clock                                       *)

\* Task::run / run_async: the thread checks is_active when it gets to run.
RunTask(i) ==
    /\ pending[i] > 0
    /\ pending' = [pending EXCEPT ![i] = @ - 1]
    /\ executed' = [executed EXCEPT ![i] = @ + IF IsActive(i) THEN 1 ELSE 0]
    /\ UNCHANGED <<now, listVars, running, loopVars, starts, fired, ops>>

Tick ==
    /\ now < MaxTime
    /\ now' = now + 1
    /\ UNCHANGED <<listVars, running, loopVars, starts, jobVars, ops>>

LoopStep(l) ==
    RunPass(l) \/ TimerFires(l) \/ CheckStop(l) \/ ResetStop(l) \/ Exit(l)

Next ==
    \/ \E i \in Id : AddTask(i) \/ RemoveTask(i) \/ RemoveTaskSub(i)
    \/ Stop
    \/ ServerStart
    \/ \E l \in Loop : LoopStep(l) \/ RuntimeDropped(l)
    \/ \E i \in Id : RunTask(i)
    \/ Tick

\* The runtimes poll the loop and run the spawned threads, and time passes.
\* Whether a runtime is dropped is up to the application.
Fairness ==
    /\ \A l \in Loop : WF_vars(LoopStep(l))
    /\ \A i \in Id : WF_vars(RunTask(i))
    /\ WF_vars(Tick)

Spec == Init /\ [][Next]_vars /\ Fairness

-----------------------------------------------------------------------------
(* Properties                                                              *)

LiveLoops == {l \in Loop : loop[l] \in Alive}

\* However many servers start while others stop the scheduler or end with
\* their runtime, at most one loop drives the shared task list, and it holds
\* SCHEDULER_RUNNING.  The flag is left set without a loop, so that no later
\* server starts one, only by a loop that was dropped with its runtime; a loop
\* that was stopped always makes room for the next server.
OneLoop ==
    /\ Cardinality(LiveLoops) <= 1
    /\ LiveLoops # {} => running
    /\ running /\ LiveLoops = {} => \E l \in Loop : loop[l] = "dropped"

\* A pass drops a one-shot task only when a thread that will really execute
\* it has been spawned: dropped tasks have run or are about to.  The clock is
\* taken not to be set back between the pass and the thread, each of which
\* reads Local::now() for itself.
FiredRuns == \A i \in fired : executed[i] + pending[i] > 0

\* A stop request that is pending while the loop sleeps, or about to look at
\* the flag, ends it after that sleep (a sleep past the modelled clock aside):
\* schedule() does not begin another pass and another sleep first.  Only the
\* end of its runtime can come before that.
StopEnds ==
    \A l \in Loop :
        (~schedule /\ loop[l] \in {"sleep", "check"} /\ wake[l] <= MaxTime)
            ~> loop[l] \in {"over", "dropped"}

=============================================================================
