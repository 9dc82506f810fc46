-------------------------- MODULE MCQuicConnection ---------------------------
(* QuicConnection for TLC.                                                  *)
EXTENDS QuicConnection

=============================================================================
