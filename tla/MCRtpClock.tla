----------------------------- MODULE MCRtpClock -----------------------------
(* A small instance of RtpClock for TLC: the values are in its .cfg. *)
EXTENDS RtpClock
=============================================================================
