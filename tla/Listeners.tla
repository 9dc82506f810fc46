------------------------------ MODULE Listeners ------------------------------
(***************************************************************************)
(* server/listener.rs: ListenersBuilder::listen binds the configured       *)
(* addresses, Listeners::accept picks one listener round-robin among those *)
(* whose backoff has elapsed and awaits that one, and BackoffState spaces  *)
(* out a failing listener.  The accept future lives inside the select! of  *)
(* serve_connection_loop, which drops it whenever a finished connection    *)
(* task is joined first.  A reloadable TLS listener makes its acceptor     *)
(* from the certificate store of module CertStore for every connection; a  *)
(* hybrid one (server/quic/listener.rs) races the accept of a QUIC         *)
(* endpoint against its TLS listener.                                      *)
(*                                                                         *)
(* Instants are kept relative: wait[i] is what is left until next_ready of *)
(* listener i, and Tick lets one unit of time pass.                        *)
(***************************************************************************)
EXTENDS Integers, FiniteSetsExt, CertStore

CONSTANTS
    MaxListeners,   \* bound: configured addresses
    Tls,            \* indices of listeners that do a TLS handshake
    Reloadable,     \* of which are ReloadableTlsListener
    Hybrid,         \* of which are the TLS half of a HybridListener
    Base, MaxDelay, \* BackoffState::BASE and MAX
    MaxArrive,      \* bound: connections opened
    MaxErr          \* bound: accept and handshake errors

ASSUME ListenersAssumption ==
    /\ MaxListeners \in Nat \ {0}
    /\ Tls \subseteq 0..(MaxListeners - 1)
    /\ Reloadable \subseteq Tls /\ Hybrid \subseteq Tls \ Reloadable
    /\ Base \in Nat \ {0} /\ MaxDelay \in Nat /\ Base <= MaxDelay
    /\ MaxArrive \in Nat /\ MaxErr \in Nat

Index == 0..(MaxListeners - 1)
NoIndex == -1

VARIABLES
    addrs,      \* addresses still to bind
    len,        \* listeners.len()
    phase,      \* where listen() / accept() is
    next_index, \* round-robin position
    sel,        \* listener the accept future awaits, NoIndex if none
    last,       \* listener selected before that one
    current,    \* BackoffState.current of each listener
    wait,       \* time left to BackoffState.next_ready
    sleep,      \* time left to the deadline of sleep_until
    arrived,    \* connections opened on each listener
    backlog,    \* of which the kernel still queues
    udp,        \* of which the QUIC endpoint still queues
    accepted,   \* of which accept() returned Some(Ok)
    refused,    \* of which accept() gave up with an error
    lost,       \* of which were dropped with a cancelled accept future
    serving,    \* certificate of the handshake in progress
    tasks,      \* connection tasks not yet joined
    errors      \* errors so far

bindVars == <<addrs, len>>
backoffVars == <<current, wait>>
connVars == <<arrived, backlog, udp, accepted, refused, lost, serving>>
listenVars == <<addrs, len, phase, next_index, sel, last, current, wait, sleep,
                arrived, backlog, udp, accepted, refused, lost, serving,
                tasks, errors>>
vars == <<listenVars, certVars>>

Zero == [i \in Index |-> 0]
Bump(f, i) == [f EXCEPT ![i] = @ + 1]
Sub1(t) == IF t = 0 THEN 0 ELSE t - 1

TypeOK ==
    /\ addrs \in 0..MaxListeners /\ len \in 0..MaxListeners
    /\ phase \in {"bind", "failed", "idle", "await", "handshake", "sleep"}
    /\ next_index \in Index
    /\ sel \in Index \cup {NoIndex} /\ last \in Index \cup {NoIndex}
    /\ current \in [Index -> Base..MaxDelay]
    /\ wait \in [Index -> 0..MaxDelay] /\ sleep \in 0..MaxDelay
    /\ CertTypeOK /\ serving \in Version
    /\ {arrived, backlog, udp, accepted, refused, lost} \subseteq
           [Index -> 0..MaxArrive]
    /\ phase \notin {"bind", "failed"} => len > 0
    /\ tasks \in Nat /\ errors \in 0..MaxErr

Init ==
    /\ addrs \in 0..MaxListeners
    /\ len = 0
    /\ phase = "bind"
    /\ next_index = 0 /\ sel = NoIndex /\ last = NoIndex
    /\ current = [i \in Index |-> Base] /\ wait = Zero /\ sleep = 0
    /\ arrived = Zero /\ backlog = Zero /\ accepted = Zero
    /\ refused = Zero /\ lost = Zero /\ udp = Zero /\ serving = 1
    /\ CertInit
    /\ tasks = 0 /\ errors = 0

-----------------------------------------------------------------------------
(* ListenersBuilder::listen                                                *)

BindOk ==
    /\ phase = "bind"
    /\ addrs > 0
    /\ addrs' = addrs - 1
    /\ len' = len + 1
    /\ UNCHANGED <<phase, next_index, sel, last, backoffVars, sleep, connVars,
                   tasks, errors>>

\* The first address that cannot be bound ends listen(): the sockets bound so
\* far are closed with the builder.
BindFail ==
    /\ phase = "bind"
    /\ addrs > 0 \/ len = 0
    /\ phase' = "failed"
    /\ len' = 0
    /\ UNCHANGED <<addrs, next_index, sel, last, backoffVars, sleep, connVars,
                   tasks, errors>>

\* Without any listener the default address is bound.
BindDefault == IF len = 0 THEN 1 ELSE len

BindDone ==
    /\ phase = "bind"
    /\ addrs = 0
    /\ len' = BindDefault
    /\ phase' = "idle"
    /\ UNCHANGED <<addrs, next_index, sel, last, backoffVars, sleep, connVars,
                   tasks, errors>>

-----------------------------------------------------------------------------
(* BackoffState                                                            *)

OnSuccess(i) ==
    /\ current' = [current EXCEPT ![i] = Base]
    /\ wait' = [wait EXCEPT ![i] = 0]

OnError(i) ==
    /\ wait' = [wait EXCEPT ![i] = current[i]]
    /\ current' = [current EXCEPT ![i] = Min({2 * @, MaxDelay})]

-----------------------------------------------------------------------------
(* Listeners::accept                                                       *)

Live == 0..(len - 1)

\* Mutant: a listener is tried again only with its delay back at BASE.
ReadyOnesAtBase == {i \in Live : wait[i] = 0 /\ current[i] = Base}

ReadyOnes == {i \in Live : wait[i] = 0}

\* The scan "for offset in 0..len" from next_index.
Offset(i) == (i - next_index) % len
Selected == CHOOSE i \in ReadyOnes :
                \A j \in ReadyOnes : Offset(i) <= Offset(j)

\* Mutant: the index does not move past the selected listener.
NextIndexStuck(i) == i

NextIndex(i) == (i + 1) % len

\* The earliest next_ready.
Deadline == Min({wait[i] : i \in Live})

\* One pass of the loop in accept(), entered from the select! or after the
\* sleep: a ready listener is chosen, and the index advances before it is
\* awaited; without one the future sleeps until the earliest next_ready.  The
\* return of None for an empty list is unreachable (TypeOK).
Select ==
    /\ \/ phase = "idle"
       \/ phase = "sleep" /\ sleep = 0
    /\ \/ /\ ReadyOnes # {}
          /\ phase' = "await"
          /\ sel' = Selected
          /\ last' = sel
          /\ next_index' = NextIndex(Selected)
          /\ sleep' = 0
       \/ /\ ReadyOnes = {}
          /\ phase' = "sleep"
          /\ sleep' = Deadline
          /\ UNCHANGED <<sel, last, next_index>>
    /\ UNCHANGED <<bindVars, backoffVars, connVars, tasks, errors>>

\* Some(Ok(..)): the backoff is reset and the loop spawns a connection task.
Return(i) ==
    /\ phase' = "idle"
    /\ accepted' = Bump(accepted, i)
    /\ OnSuccess(i)
    /\ tasks' = tasks + 1

\* Mutant: every listener is awaited, and the connections of the futures that
\* lose are dropped with them.
TakeConnectionRacing ==
    /\ phase = "await"
    /\ backlog[sel] > 0 /\ sel \notin Tls
    /\ backlog' = [i \in Index |-> Sub1(backlog[i])]
    /\ Return(sel)
    /\ UNCHANGED <<bindVars, next_index, sel, last, sleep, arrived, udp,
                   refused, lost, serving, errors>>

\* listener.accept() of the selected socket.
TakeConnection ==
    /\ phase = "await"
    /\ backlog[sel] > 0 /\ sel \notin Tls
    /\ backlog' = [backlog EXCEPT ![sel] = @ - 1]
    /\ Return(sel)
    /\ UNCHANGED <<bindVars, next_index, sel, last, sleep, arrived, udp,
                   refused, lost, serving, errors>>

\* Mutant: the acceptor is made once, when the listener is.
AcceptorOnce(i) == 1

\* The certificate of the acceptor: made from the store for every connection
\* by https_acceptor, or fixed in TlsListener.acceptor.
Acceptor(i) == IF i \in Reloadable THEN store.cert ELSE 1

\* A TLS listener goes on to the handshake inside the same future.
TakeTls ==
    /\ phase = "await"
    /\ backlog[sel] > 0 /\ sel \in Tls
    /\ sel \in Reloadable => Usable
    /\ backlog' = [backlog EXCEPT ![sel] = @ - 1]
    /\ phase' = "handshake"
    /\ serving' = Acceptor(sel)
    /\ UNCHANGED <<bindVars, next_index, sel, last, backoffVars, sleep, arrived,
                   udp, accepted, refused, lost, tasks, errors>>

\* Some(Err(e)): the listener backs off.
Fail(i) ==
    /\ errors' = errors + 1
    /\ phase' = "idle"
    /\ OnError(i)

\* An error after listener.accept() gave a connection drops it.
Discard ==
    /\ phase = "await" /\ errors < MaxErr
    /\ backlog[sel] > 0
    /\ backlog' = [backlog EXCEPT ![sel] = @ - 1]
    /\ refused' = Bump(refused, sel)
    /\ Fail(sel)
    /\ UNCHANGED <<bindVars, next_index, sel, last, sleep, arrived, udp,
                   accepted, lost, serving, tasks>>

\* set_nodelay of a TCP connection or local_addr of a Unix one fails, on a
\* plain listener or on the one inside a TLS listener.
TakeBroken == Discard

\* "reload tls acceptor failed".
TakeUnusable == sel \in Reloadable /\ ~Usable /\ Discard

HandshakeOk ==
    /\ phase = "handshake"
    /\ Return(sel)
    /\ UNCHANGED <<bindVars, next_index, sel, last, sleep, arrived, backlog, udp,
                   refused, lost, serving, errors>>

\* The QUIC half of HybridListener::accept wins its select!: the TLS half is
\* dropped, with the handshake it may be in.
TakeQuic ==
    /\ phase \in {"await", "handshake"} /\ sel \in Hybrid /\ udp[sel] > 0
    /\ udp' = [udp EXCEPT ![sel] = @ - 1]
    /\ lost' = IF phase = "handshake" THEN Bump(lost, sel) ELSE lost
    /\ Return(sel)
    /\ UNCHANGED <<bindVars, next_index, sel, last, sleep, arrived, backlog,
                   refused, serving, errors>>

\* accept() of the socket or the endpoint fails, which leaves what is queued, or
\* the handshake does, which ends its connection.  An error between the two is
\* TakeBroken.
AcceptErr ==
    /\ phase \in {"await", "handshake"}
    /\ errors < MaxErr
    /\ Fail(sel)
    /\ refused' = IF phase = "handshake" THEN Bump(refused, sel) ELSE refused
    /\ UNCHANGED <<bindVars, next_index, sel, last, sleep, arrived, backlog, udp,
                   accepted, lost, serving, tasks>>

\* join_next wins the select! while accept() is pending: the future is
\* dropped with whatever it owns, and the index has already advanced.
JoinCancels ==
    /\ tasks > 0
    /\ \/ phase = "await" /\ backlog[sel] = 0 /\ udp[sel] = 0
       \/ phase = "handshake" /\ udp[sel] = 0
       \/ phase = "sleep" /\ sleep > 0
    /\ tasks' = tasks - 1
    /\ phase' = "idle"
    /\ lost' = IF phase = "handshake" THEN Bump(lost, sel) ELSE lost
    /\ sleep' = 0
    /\ UNCHANGED <<bindVars, next_index, sel, last, backoffVars, arrived,
                   backlog, udp, accepted, refused, serving, errors>>

-----------------------------------------------------------------------------
(* Environment                                                             *)

Opened(i) ==
    /\ phase \notin {"bind", "failed"}
    /\ i \in Live
    /\ MapThenSumSet(LAMBDA j : arrived[j], Index) < MaxArrive
    /\ arrived' = Bump(arrived, i)
    /\ UNCHANGED <<bindVars, phase, next_index, sel, last, backoffVars, sleep,
                   accepted, refused, lost, serving, tasks, errors>>

Arrive(i) == Opened(i) /\ backlog' = Bump(backlog, i) /\ UNCHANGED udp

ArriveQuic(i) ==
    Opened(i) /\ i \in Hybrid /\ udp' = Bump(udp, i) /\ UNCHANGED backlog

Tick ==
    /\ sleep > 0 \/ \E i \in Index : wait[i] > 0
    /\ phase = "sleep" => sleep > 0
    /\ wait' = [i \in Index |-> Sub1(wait[i])]
    /\ sleep' = Sub1(sleep)
    /\ UNCHANGED <<bindVars, phase, next_index, sel, last, current, connVars,
                   tasks, errors>>

ListenStep ==
    \/ BindOk \/ BindFail \/ BindDone
    \/ Select \/ TakeConnection \/ TakeTls \/ TakeBroken \/ TakeUnusable
    \/ TakeQuic \/ HandshakeOk \/ AcceptErr \/ JoinCancels
    \/ \E i \in Index : Arrive(i) \/ ArriveQuic(i)
    \/ Tick

Next ==
    \/ ListenStep /\ UNCHANGED certVars
    \/ CertNext /\ UNCHANGED listenVars

\* The runtime polls the accept future, and time passes.  Clients finishing
\* a handshake and tasks ending are not assumed.
Fairness ==
    /\ WF_listenVars(Select) /\ WF_listenVars(Tick)

Spec == Init /\ [][Next]_vars /\ Fairness

-----------------------------------------------------------------------------
(* Properties                                                              *)

InHandshake(i) == IF phase = "handshake" /\ sel = i THEN 1 ELSE 0

\* No connection vanishes: each is queued, in its handshake, returned by
\* accept, given up with an error (set_nodelay, local_addr, the acceptor, the
\* handshake), or lost with a cancelled accept future.  None is given up
\* without an Err that backs the listener off, and only a TLS listener, which
\* awaits between taking a connection and returning it, ever loses one.
ConnectionConservation ==
    \A i \in Index :
        /\ arrived[i] = backlog[i] + udp[i] + InHandshake(i) + accepted[i]
                          + refused[i] + lost[i]
        /\ refused[i] <= errors
        /\ i \notin Tls => lost[i] = 0

\* A reload counts from the next connection on: the handshake of a reloadable
\* listener starts with a certificate at least as new as the one on disk when
\* the last successful reload() began, and with the key that belongs to it,
\* whatever the operator did to the files in between; never with the bytes of
\* a damaged file that a reload took for DER.
FreshCertificate ==
    [][phase # "handshake" /\ phase' = "handshake" /\ sel' \in Reloadable
          => /\ serving' >= promised /\ serving' # Garbage
             /\ store.cert = store.key]_vars

\* Round-robin: accept() comes back to the listener it awaited last only if
\* every other listener is backing off, even when the future was cancelled or
\* failed in between.
RotatesSelection ==
    [][phase' = "await" /\ phase # "await" /\ sel' = last' =>
          ReadyOnes \subseteq {last'}]_vars

\* accept() never sleeps for ever: a backing-off listener is tried again.
BackoffEnds == phase = "sleep" ~> phase # "sleep"

=============================================================================
