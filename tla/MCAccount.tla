------------------------------ MODULE MCAccount ------------------------------
(* Small instances of Account for TLC. *)
EXTENDS Account, TLC

CONSTANTS r1, r2, r3, r4

MCSymmetry == Permutations(Requests)

\* every route, one request at a time; and the overlaps of a smaller choice
MCAccounts == {[kinds |-> Kinds, serial |-> TRUE],
               [kinds |-> {"login", "logout", "change", "enable", "disable",
                           "start", "verifyReset", "reset"},
                serial |-> FALSE]}

=============================================================================
