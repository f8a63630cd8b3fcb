---------------------------- MODULE MCRemittance ----------------------------
(* A small instance of Remittance for TLC: alice has no code, carol is a      *)
(* contract that owns the escrow, calls back and rejects value.               *)
EXTENDS Remittance

CONSTANTS alice, carol

=============================================================================
