----------------------------- MODULE MCEventSync -----------------------------
(* Small instances of EventSync for TLC. *)
EXTENDS EventSync

CONSTANTS t1, t2

Plain == [confirmations |-> 1, overlap |-> 2, batch |-> 3, lookback |-> 2,
          deployed |-> TRUE, limit |-> 2, depth |-> 1, reorgs |-> 1,
          handlers |-> FALSE, faults |-> 1]

\* reorganisations within the confirmations; deeper ones within the overlap,
\* no deployment block; no overlap, and handlers that store hashes; one-block
\* answers to wide batches
MCEvents == {
  Plain,
  [Plain EXCEPT !.depth = 3, !.deployed = FALSE],
  [Plain EXCEPT !.overlap = 0, !.handlers = TRUE, !.reorgs = 0],
  [Plain EXCEPT !.batch = 4, !.limit = 1, !.reorgs = 0]}

=============================================================================
