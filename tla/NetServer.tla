------------------------------ MODULE NetServer ------------------------------
(***************************************************************************)
(* The accept loop of silent::server::net_server: the biased select! over  *)
(* shutdown signal, accept and join_next, the connection tasks it spawns,  *)
(* the token-bucket semaphore with its refill task, the handler timeout,   *)
(* the graceful and the forced phase of the shutdown, and the counters of  *)
(* server/metrics.rs.                                                      *)
(*                                                                         *)
(* Timers are untimed: a timer that has been started may fire at any later *)
(* step.  Whether listeners.accept() is ready is left open here (module    *)
(* Listeners models it): a connection not yet accepted may or may not be   *)
(* the one the pending accept future returns.                              *)
(***************************************************************************)
EXTENDS Integers, FiniteSets

CONSTANTS
    Conn,               \* connections clients may open
    HasLimiter,         \* with_rate_limiter was called
    Capacity,           \* RateLimiterConfig.capacity
    HasHandlerTimeout,  \* ConnectionLimits.handler_timeout is Some
    HasGraceful,        \* graceful_wait > 0
    MaxRefill,          \* bound: permits the refill task may add
    MaxAcceptErr,       \* bound: accept errors
    MaxSignal           \* bound: SIGTERM / Ctrl-C deliveries

ASSUME NetServerAssumption ==
    /\ IsFiniteSet(Conn)
    /\ HasLimiter \in BOOLEAN /\ HasHandlerTimeout \in BOOLEAN
    /\ HasGraceful \in BOOLEAN
    /\ Capacity \in Nat /\ MaxRefill \in Nat
    /\ MaxAcceptErr \in Nat /\ MaxSignal \in Nat

VARIABLES
    pc,         \* where serve_connection_loop is
    notified,   \* the live signal() future has seen a signal
    signals,    \* signals delivered to the process
    task,       \* the connection task of each connection
    outcome,    \* how the task of each connection ended
    available,  \* Semaphore::available_permits
    refill,     \* the refill task
    refills,    \* permits the refill task has added
    aborted,    \* JoinSet::abort_all has been called
    metrics     \* counters of server/metrics.rs

loopVars == <<pc, notified, signals>>
semVars == <<available, refill, refills>>
vars == <<pc, notified, signals, task, outcome, available, refill, refills,
          aborted, metrics>>

-----------------------------------------------------------------------------
(* States                                                                  *)

Looping == {"arm", "poll", "parked"}
Stopping == {"graceful", "stop_refill", "abort", "forced"}

PC == {"start", "failed", "done"} \cup Looping \cup Stopping

Alive == {"spawned", "waiting", "granted", "running"}

TaskState == {"none", "ended", "joined"} \cup Alive

Outcome == {"none", "ok", "err", "timeout", "panic", "limited", "cancelled"}

Counter == {"accept_ok", "accept_err", "handler_ok", "handler_err",
            "handler_timeout", "limiter_timeout", "graceful", "forced"}

\* Tasks that own an OwnedSemaphorePermit.
Held == {c \in Conn : HasLimiter /\ task[c] \in {"granted", "running"}}

Waiting == {c \in Conn : task[c] = "waiting"}

TypeOK ==
    /\ pc \in PC
    /\ notified \in BOOLEAN
    /\ signals \in 0..MaxSignal
    /\ task \in [Conn -> TaskState]
    /\ outcome \in [Conn -> Outcome]
    /\ available \in Nat
    /\ refill \in {"off", "tick", "add"}
    /\ refills \in 0..MaxRefill
    /\ aborted \in BOOLEAN
    /\ metrics \in [Counter -> Nat]

Init ==
    /\ pc = "start"
    /\ notified = FALSE
    /\ signals = 0
    /\ task = [c \in Conn |-> "none"]
    /\ outcome = [c \in Conn |-> "none"]
    /\ available = IF HasLimiter THEN Capacity ELSE 0
    /\ refill = "off"
    /\ refills = 0
    /\ aborted = FALSE
    /\ metrics = [m \in Counter |-> 0]

-----------------------------------------------------------------------------
(* Helpers                                                                 *)

Count(m) == metrics' = [metrics EXCEPT ![m] = @ + 1]

\* add_permits(1), and the drop of an OwnedSemaphorePermit: a queued waiter
\* receives the permit, otherwise it becomes available.  t is the task
\* function after the releasing task's own change.
AddPermit(t) ==
    \/ /\ Waiting = {}
       /\ available' = available + 1
       /\ task' = t
    \/ \E w \in Waiting :
          /\ task' = [t EXCEPT ![w] = "granted"]
          /\ UNCHANGED available

\* Mutant: the permit is forgotten (mem::forget) when the task ends.
EndLeaking(c, o) ==
    /\ outcome' = [outcome EXCEPT ![c] = o]
    /\ task' = [task EXCEPT ![c] = "ended"]
    /\ UNCHANGED available

\* The task of c finishes with outcome o; whatever it holds is dropped.
End(c, o) ==
    /\ outcome' = [outcome EXCEPT ![c] = o]
    /\ IF c \in Held
       THEN AddPermit([task EXCEPT ![c] = "ended"])
       ELSE /\ task' = [task EXCEPT ![c] = "ended"]
            /\ UNCHANGED available

\* Mutant: results are not counted under a handler timeout.
CountsResultUntimed == ~HasHandlerTimeout

\* Ok(res) of the handler is counted on three of the four spawn paths: with
\* both a limiter and a handler timeout only the duration is recorded.
CountsResult == ~(HasLimiter /\ HasHandlerTimeout)

CountResult(m) == IF CountsResult THEN Count(m) ELSE UNCHANGED metrics

\* Mutant: tasks that were aborted before their first poll are not waited for.
AllJoinedButSpawned == \A c \in Conn : task[c] \in {"none", "joined", "spawned"}

AllJoined == \A c \in Conn : task[c] \in {"none", "joined"}

-----------------------------------------------------------------------------
(* The main loop                                                           *)

\* listen(), on_listen, spawn_refill_task, and the first poll of signal(),
\* which installs the process signal handlers.
Start ==
    /\ pc = "start"
    /\ pc' = "poll"
    /\ refill' = IF HasLimiter THEN "tick" ELSE "off"
    /\ UNCHANGED <<notified, signals, task, outcome, available, refills,
                   aborted, metrics>>

\* listeners_builder.listen()? fails: serve returns (and panics) at once.
ListenFail ==
    /\ pc = "start"
    /\ pc' = "failed"
    /\ UNCHANGED <<notified, signals, task, outcome, semVars, aborted,
                   metrics>>

\* A new iteration of loop: signal() builds a fresh subscription, which only
\* sees later signals, and is polled first (biased).
Arm ==
    /\ pc = "arm"
    /\ pc' = "poll"
    /\ notified' = FALSE
    /\ UNCHANGED <<signals, task, outcome, semVars, aborted, metrics>>

\* Mutant: the loop goes on accepting during the graceful wait.
AcceptOkLate(c) ==
    /\ pc \in {"poll", "graceful"}
    /\ task[c] = "none"
    /\ task' = [task EXCEPT ![c] = "spawned"]
    /\ Count("accept_ok")
    /\ pc' = IF pc = "poll" THEN "arm" ELSE pc
    /\ UNCHANGED <<notified, signals, outcome, semVars, aborted>>

\* Some(Ok(..)) of accept(): count it and spawn the connection task.  The
\* select! drops the other futures, the signal subscription among them.
AcceptOk(c) ==
    /\ pc = "poll"
    /\ task[c] = "none"
    /\ task' = [task EXCEPT ![c] = "spawned"]
    /\ Count("accept_ok")
    /\ pc' = "arm"
    /\ UNCHANGED <<notified, signals, outcome, semVars, aborted>>

\* Some(Err(e)) of accept().
AcceptErr ==
    /\ pc = "poll"
    /\ metrics["accept_err"] < MaxAcceptErr
    /\ Count("accept_err")
    /\ pc' = "arm"
    /\ UNCHANGED <<notified, signals, task, outcome, semVars, aborted>>

\* Some(join_result) of join_next(): a finished task leaves the JoinSet.
JoinNext(c) ==
    /\ pc = "poll"
    /\ task[c] = "ended"
    /\ task' = [task EXCEPT ![c] = "joined"]
    /\ pc' = "arm"
    /\ UNCHANGED <<notified, signals, outcome, semVars, aborted, metrics>>

\* No branch is ready: the select! yields with all its futures alive.
Park ==
    /\ pc = "poll"
    /\ \A c \in Conn : task[c] # "ended"
    /\ pc' = "parked"
    /\ UNCHANGED <<notified, signals, task, outcome, semVars, aborted,
                   metrics>>

\* Mutant: the select! is not biased towards the signal.
WakeUnbiased ==
    /\ pc = "parked"
    /\ \E c \in Conn : task[c] \in {"none", "ended"}
    /\ pc' = "poll"
    /\ UNCHANGED <<notified, signals, task, outcome, semVars, aborted,
                   metrics>>

\* A listener or a finished task wakes the select!; signal() is polled first.
Wake ==
    /\ pc = "parked"
    /\ ~notified
    /\ \/ \E c \in Conn : task[c] \in {"none", "ended"}
       \/ metrics["accept_err"] < MaxAcceptErr
    /\ pc' = "poll"
    /\ UNCHANGED <<notified, signals, task, outcome, semVars, aborted,
                   metrics>>

\* Mutant: the graceful wait is skipped.
SignalBreakAtOnce ==
    /\ pc \in {"poll", "parked"}
    /\ notified
    /\ pc' = "stop_refill"
    /\ UNCHANGED <<notified, signals, task, outcome, semVars, aborted,
                   metrics>>

\* signal() is ready: shutdown_callback runs and the loop breaks.
SignalBreak ==
    /\ pc \in {"poll", "parked"}
    /\ notified
    /\ pc' = IF HasGraceful THEN "graceful" ELSE "stop_refill"
    /\ UNCHANGED <<notified, signals, task, outcome, semVars, aborted,
                   metrics>>

\* The runtime broadcasts SIGTERM or Ctrl-C: only a live subscription sees it.
Signal ==
    /\ pc \in Looping \cup Stopping
    /\ signals < MaxSignal
    /\ signals' = signals + 1
    /\ notified' = (notified \/ pc \in {"poll", "parked"})
    /\ UNCHANGED <<pc, task, outcome, semVars, aborted, metrics>>

-----------------------------------------------------------------------------
(* The connection tasks                                                    *)

\* First poll of the task: semaphore.acquire_owned() under timeout(max_wait),
\* or handler.call at once when there is no limiter.
TaskStart(c) ==
    /\ task[c] = "spawned"
    /\ ~aborted
    /\ \/ /\ ~HasLimiter
          /\ task' = [task EXCEPT ![c] = "running"]
          /\ UNCHANGED available
       \/ /\ HasLimiter /\ available > 0
          /\ available' = available - 1
          /\ task' = [task EXCEPT ![c] = "running"]
       \/ /\ HasLimiter /\ available = 0
          /\ task' = [task EXCEPT ![c] = "waiting"]
          /\ UNCHANGED available
    /\ UNCHANGED <<loopVars, outcome, refill, refills, aborted, metrics>>

\* The task is polled with its permit: Ok(Ok(_permit)), handler.call starts.
TaskResume(c) ==
    /\ task[c] = "granted"
    /\ ~aborted
    /\ task' = [task EXCEPT ![c] = "running"]
    /\ UNCHANGED <<loopVars, outcome, semVars, aborted, metrics>>

\* Mutant: acquire_owned() is awaited without a timeout.
WaitTimeoutNever(c) == task[c] = "waiting" /\ FALSE /\ UNCHANGED vars

\* timeout(max_wait) elapses for a task without a permit.
WaitTimeout(c) ==
    /\ task[c] = "waiting"
    /\ ~aborted
    /\ End(c, "limited")
    /\ Count("limiter_timeout")
    /\ UNCHANGED <<loopVars, refill, refills, aborted>>

HandlerOk(c) ==
    /\ task[c] = "running"
    /\ End(c, "ok")
    /\ CountResult("handler_ok")
    /\ UNCHANGED <<loopVars, refill, refills, aborted>>

HandlerErr(c) ==
    /\ task[c] = "running"
    /\ End(c, "err")
    /\ CountResult("handler_err")
    /\ UNCHANGED <<loopVars, refill, refills, aborted>>

HandlerTimeout(c) ==
    /\ HasHandlerTimeout
    /\ task[c] = "running"
    /\ End(c, "timeout")
    /\ Count("handler_timeout")
    /\ UNCHANGED <<loopVars, refill, refills, aborted>>

\* The handler panics: the task unwinds, the JoinSet keeps the JoinError.
HandlerPanic(c) ==
    /\ task[c] = "running"
    /\ End(c, "panic")
    /\ UNCHANGED <<loopVars, refill, refills, aborted, metrics>>

\* An aborted task is dropped at its await point.
Cancel(c) ==
    /\ aborted
    /\ task[c] \in Alive
    /\ End(c, "cancelled")
    /\ UNCHANGED <<loopVars, refill, refills, aborted, metrics>>

-----------------------------------------------------------------------------
(* The refill task: tick, compare available_permits with capacity, then    *)
(* add one permit.  The comparison and the addition are not atomic.        *)

\* Mutant: every tick adds a permit.
RefillCheckAlways ==
    /\ refill = "tick"
    /\ refills < MaxRefill
    /\ refill' = "add"
    /\ UNCHANGED <<loopVars, task, outcome, available, refills, aborted,
                   metrics>>

RefillCheck ==
    /\ refill = "tick"
    /\ available < Capacity
    /\ refills < MaxRefill
    /\ refill' = "add"
    /\ UNCHANGED <<loopVars, task, outcome, available, refills, aborted,
                   metrics>>

RefillAdd ==
    /\ refill = "add"
    /\ AddPermit(task)
    /\ refill' = "tick"
    /\ refills' = refills + 1
    /\ UNCHANGED <<loopVars, outcome, aborted, metrics>>

-----------------------------------------------------------------------------
(* The shutdown                                                            *)

\* join_next inside timeout(graceful_wait, ..).
GracefulJoin(c) ==
    /\ pc = "graceful"
    /\ task[c] = "ended"
    /\ task' = [task EXCEPT ![c] = "joined"]
    /\ UNCHANGED <<loopVars, outcome, semVars, aborted, metrics>>

\* The JoinSet is empty, or graceful_wait elapsed: counted alike.
GracefulEnd ==
    /\ pc = "graceful"
    /\ pc' = "stop_refill"
    /\ Count("graceful")
    /\ UNCHANGED <<notified, signals, task, outcome, semVars, aborted>>

\* h.abort(); h.await: the refill task stops at its next tick.
StopRefill ==
    /\ pc = "stop_refill"
    /\ refill # "add"
    /\ refill' = "off"
    /\ pc' = "abort"
    /\ UNCHANGED <<notified, signals, task, outcome, available, refills,
                   aborted, metrics>>

\* Mutant: abort_all is left out.
AbortAllMissing ==
    /\ pc = "abort"
    /\ pc' = "forced"
    /\ UNCHANGED <<notified, signals, task, outcome, semVars, aborted, metrics>>

AbortAll ==
    /\ pc = "abort"
    /\ aborted' = TRUE
    /\ pc' = "forced"
    /\ UNCHANGED <<notified, signals, task, outcome, semVars, metrics>>

ForcedJoin(c) ==
    /\ pc = "forced"
    /\ task[c] = "ended"
    /\ task' = [task EXCEPT ![c] = "joined"]
    /\ UNCHANGED <<loopVars, outcome, semVars, aborted, metrics>>

ForcedEnd ==
    /\ pc = "forced"
    /\ AllJoined
    /\ pc' = "done"
    /\ Count("forced")
    /\ UNCHANGED <<notified, signals, task, outcome, semVars, aborted>>

-----------------------------------------------------------------------------

LoopStep ==
    \/ Arm \/ Park \/ Wake \/ SignalBreak
    \/ \E c \in Conn : JoinNext(c)

ShutdownStep ==
    \/ GracefulEnd \/ StopRefill \/ AbortAll \/ ForcedEnd
    \/ \E c \in Conn : GracefulJoin(c) \/ ForcedJoin(c)

Handler(c) == HandlerOk(c) \/ HandlerErr(c) \/ HandlerPanic(c)

TaskStep(c) ==
    \/ TaskStart(c) \/ TaskResume(c) \/ WaitTimeout(c)
    \/ HandlerTimeout(c) \/ Cancel(c)

Next ==
    \/ Start
    \/ ListenFail
    \/ LoopStep
    \/ AcceptErr
    \/ \E c \in Conn : AcceptOk(c)
    \/ Signal
    \/ \E c \in Conn : TaskStep(c) \/ Handler(c)
    \/ RefillCheck
    \/ RefillAdd
    \/ ShutdownStep

\* The runtime keeps polling the server future and every task; timers fire.
\* Nothing is assumed of clients, of signals, or of handlers finishing.
Fairness ==
    /\ WF_vars(Start) /\ WF_vars(LoopStep) /\ WF_vars(ShutdownStep)
    /\ WF_vars(RefillAdd)
    /\ \A c \in Conn : WF_vars(TaskStep(c))

Spec == Init /\ [][Next]_vars /\ Fairness

-----------------------------------------------------------------------------
(* Properties                                                              *)

\* Every permit the limiter ever created (Semaphore::new(capacity) and one
\* per add_permits) is either available or owned by a live task: no path out
\* of a task - result, error, timeout, panic, abort - leaks or forges one.
PermitConservation ==
    HasLimiter => available + Cardinality(Held) = Capacity + refills

\* Tasks that ended with a permit (or were aborted, with or without one).
Returned == {c \in Conn : outcome[c] \notin {"none", "limited"}}

\* The refill task makes up for permits that are out, and only for those: the
\* semaphore exceeds the configured capacity by at most one permit for each
\* connection that came back, although available_permits() may be stale when
\* add_permits(1) follows it.  (A permit that was replaced does come back, so
\* the capacity itself is no bound.)
BucketBounded == available <= Capacity + Cardinality(Returned)

\* A connection is cut off only by the forced phase, and, when a graceful
\* wait is configured, only after that wait is over.
CancelOnlyAfterGrace ==
    \A c \in Conn : outcome[c] = "cancelled" =>
        /\ pc \in {"forced", "done"}
        /\ HasGraceful => metrics["graceful"] = 1

\* When serve returns, no connection task is left running or unjoined, the
\* refill task is gone and, with no waiter or owner left, every permit is
\* back in the semaphore.
QuiescentWhenDone ==
    pc = "done" =>
        /\ AllJoined
        /\ refill = "off"
        /\ HasLimiter => available = Capacity + refills

\* The counters an operator sums up agree with what happened to the
\* connections (docs/metrics-usage.md lists handler.ok|err|timeout and
\* ratelimiter.timeout as the outcomes reported).
Ended(o) == {c \in Conn : outcome[c] = o}

MetricsAgree ==
    /\ metrics["accept_ok"] = Cardinality({c \in Conn : task[c] # "none"})
    /\ metrics["handler_ok"] = Cardinality(Ended("ok"))
    /\ metrics["handler_err"] = Cardinality(Ended("err"))
    /\ metrics["handler_timeout"] = Cardinality(Ended("timeout"))
    /\ metrics["limiter_timeout"] = Cardinality(Ended("limited"))

\* The refinement mapping onto Lifecycle.
Phase == CASE pc = "start" -> "idle"
           [] pc \in Looping -> "open"
           [] pc \in Stopping -> "draining"
           [] OTHER -> "closed"

Place == [c \in Conn |-> CASE task[c] = "none" -> "outside"
                           [] task[c] \in Alive -> "inside"
                           [] OTHER -> "gone"]

L == INSTANCE Lifecycle WITH phase <- Phase, conn <- Place

\* serve_connection_loop implements the lifecycle: no connection is admitted
\* once the loop broke, and serve returns only when every connection left.
ImplementsLifecycle == L!Spec

\* Once the loop broke, serve returns, whatever the handlers do: the graceful
\* wait is bounded and the rest is aborted.
ShutdownCompletes == pc \in Stopping ~> pc = "done"

\* A signal seen by the parked select! ends the server.
ParkedSignalStops == (pc = "parked" /\ notified) ~> pc = "done"

\* A connection held back by the limiter is served or dropped in the end.
WaiterResolves ==
    \A c \in Conn : task[c] = "waiting" ~> task[c] # "waiting"

=============================================================================
