----------------------------- MODULE MCListeners -----------------------------
(* Listeners for TLC.  BASE and MAX are scaled to 2 and 3 ticks: as with   *)
(* 50 ms and 2 s, the cap is not a power of two times the base.            *)
EXTENDS Listeners

=============================================================================
