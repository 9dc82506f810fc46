----------------------------- MODULE MCNetServer -----------------------------
(* NetServer for TLC: connections are interchangeable model values.        *)
EXTENDS NetServer, TLC

ConnSymmetry == Permutations(Conn)

=============================================================================
