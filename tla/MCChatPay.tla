------------------------------ MODULE MCChatPay ------------------------------
(* Small instances of ChatPay for TLC. *)
EXTENDS ChatPay, TLC

CONSTANTS p1, p2

Plain == [linked |-> FALSE, cancels |-> TRUE, unsends |-> FALSE,
          hazards |-> {}, faults |-> 0, crashes |-> 0]

\* calm custodial payments; restarts and unsends; an unreachable node and
\* reverts; a slow chain and one refused write; a linked wallet
MCChatPays == {
  Plain,
  [Plain EXCEPT !.crashes = 1, !.unsends = TRUE],
  [Plain EXCEPT !.hazards = {"rpc", "revert"}, !.unsends = TRUE],
  [Plain EXCEPT !.hazards = {"slowChain", "lostReply", "revert"},
                 !.faults = 1],
  [Plain EXCEPT !.linked = TRUE, !.unsends = TRUE, !.hazards = {"rpc"},
                 !.faults = 1]}

=============================================================================
