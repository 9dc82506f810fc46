---------------------------- MODULE MCRequestBody ----------------------------
(* RequestBody for TLC.                                                     *)
EXTENDS RequestBody

=============================================================================
