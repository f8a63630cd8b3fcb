----------------------------- MODULE MCSendMoney -----------------------------
(* Small instances of SendMoney for TLC. *)
EXTENDS SendMoney, TLC

CONSTANTS d1, d2

Pages(linked, hazards) == [linked |-> linked, hazards |-> hazards]

\* both kinds of wallet under refusals and reverts; a custodial one under lost
\* answers, faults and polls that give up; a linked one under all of it
MCPages ==
  {Pages(linked, {"refuse", "revert"}) : linked \in BOOLEAN}
  \cup {Pages(FALSE, {"timeout", "fault", "longPoll"}),
        Pages(TRUE, {"refuse", "fault", "timeout", "revert", "longPoll"})}

=============================================================================
