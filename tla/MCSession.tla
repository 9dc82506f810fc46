------------------------------ MODULE MCSession ------------------------------
(* Session for TLC.  Requests and connections are interchangeable.          *)
EXTENDS Session, TLC

Symmetric == Permutations(Requests) \cup Permutations(Conns)

=============================================================================
