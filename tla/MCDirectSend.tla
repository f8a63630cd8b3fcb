---------------------------- MODULE MCDirectSend ----------------------------
(* Small instances of DirectSend for TLC: two requests for the same transfer.  *)
EXTENDS DirectSend, TLC

CONSTANTS r1, r2, h1, h2, k1, q1, q2, i1

All == {r1, r2}
AllHazards == {"cancel", "lostReply", "slowChain"}

\* Two custodial requests with quotes of their own and without a key.
Plain == [key |-> [r \in All |-> k1], quote |-> (r1 :> q1) @@ (r2 :> q2),
          idem |-> [r \in All |-> None], hash |-> (r1 :> h1) @@ (r2 :> h2),
          wallet |-> {}, hazards |-> {}, faults |-> 0, crashes |-> 1,
          codes |-> 1]

\* A client repeats a request under one Idempotency-Key.
Retry == [Plain EXCEPT !.idem = [r \in All |-> i1], !.hazards = AllHazards]

\* Two requests bring the same wallet transaction and the same quote.
Quote == [Plain EXCEPT !.quote = [r \in All |-> q1],
                       !.hash = [r \in All |-> h1], !.wallet = All,
                       !.hazards = AllHazards]

\* A custodial and a wallet transfer compete for one quote.
Compete == [Plain EXCEPT !.quote = [r \in All |-> q1], !.wallet = {r2},
                         !.hazards = AllHazards]

\* calm weather with two records at once, and with a restart; the hazards
\* with refused writes and restarts
MCScenarios ==
  {[Plain EXCEPT !.crashes = 0],
   [Retry EXCEPT !.hazards = {}, !.codes = 2],
   [Retry EXCEPT !.faults = 1],
   [Quote EXCEPT !.faults = 2, !.crashes = 0],
   [Compete EXCEPT !.crashes = 0]}

=============================================================================
