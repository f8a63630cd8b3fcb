---------------------------- MODULE MCRequestLink ----------------------------
(* A small instance of RequestLink for TLC: two payers compete for one link.  *)
EXTENDS RequestLink

CONSTANTS p1, p2

=============================================================================
