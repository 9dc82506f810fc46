------------------------------ MODULE Lifecycle ------------------------------
(***************************************************************************)
(* What a server promises about connections, whatever its limiter, timeouts*)
(* and shutdown phases: connections are admitted only while it is open,    *)
(* each at most once; an admitted connection leaves exactly once; and the  *)
(* server is closed only when nobody is inside, after which nothing moves. *)
(***************************************************************************)
CONSTANT Conn

VARIABLES phase, conn

vars == <<phase, conn>>

Init ==
    /\ phase = "idle"
    /\ conn = [c \in Conn |-> "outside"]

\* The listeners are bound, or binding failed and the server never opens.
Open == phase = "idle" /\ phase' = "open" /\ UNCHANGED conn
Fail == phase = "idle" /\ phase' = "closed" /\ UNCHANGED conn

Admit(c) ==
    /\ phase = "open"
    /\ conn[c] = "outside"
    /\ conn' = [conn EXCEPT ![c] = "inside"]
    /\ UNCHANGED phase

Leave(c) ==
    /\ phase \in {"open", "draining"}
    /\ conn[c] = "inside"
    /\ conn' = [conn EXCEPT ![c] = "gone"]
    /\ UNCHANGED phase

StopAdmitting == phase = "open" /\ phase' = "draining" /\ UNCHANGED conn

Close ==
    /\ phase = "draining"
    /\ \A c \in Conn : conn[c] # "inside"
    /\ phase' = "closed"
    /\ UNCHANGED conn

Next ==
    \/ Open \/ Fail \/ StopAdmitting \/ Close
    \/ \E c \in Conn : Admit(c) \/ Leave(c)

Spec == Init /\ [][Next]_vars

=============================================================================
