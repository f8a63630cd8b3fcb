---------------------------- MODULE MCLinkClaim ----------------------------
(* Small instances of LinkClaim for TLC; c3 is made by the link's creator. *)
EXTENDS LinkClaim, TLC

CONSTANTS c1, c2, c3

Plain == [claims |-> {c1, c2, c3}, own |-> {c3}, hazards |-> {},
          expires |-> TRUE, faults |-> 0, crashes |-> 0]

Two == [Plain EXCEPT !.claims = {c1, c2}]

\* three claims in calm weather; two claims under failing executions, under a
\* restart with and without a node that misleads the server, and under a
\* refused write
MCAll ==
  {Plain,
   [Two EXCEPT !.hazards = {"rpc", "revert"}],
   [Two EXCEPT !.crashes = 1],
   [Two EXCEPT !.hazards = {"lostReply", "slowChain"}, !.crashes = 1],
   [Two EXCEPT !.hazards = {"rpc"}, !.faults = 1]}

\* nothing at all goes wrong
MCEventFirst == {[Plain EXCEPT !.expires = FALSE]}

=============================================================================
