----------------------------- MODULE MCH3Request -----------------------------
(* H3Request for TLC: a channel of two, a limit in the middle of the        *)
(* bodies a client can send, frames that are and are not multiples of the   *)
(* chunk size.                                                              *)
EXTENDS H3Request

MCRespBodies == {<<>>, <<3>>, <<0, 2>>}

=============================================================================
