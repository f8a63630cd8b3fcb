----------------------------- MODULE EscrowLedger -----------------------------
(* What the Remittance contract promises about escrows, one committed          *)
(* blockchain transaction at a time and without reentrancy, locks or reverts:  *)
(* an entry is written once, its terms never change, and it leaves Pending at  *)
(* most once, to Claimed before its expiry or to Cancelled from then on.       *)
EXTENDS Naturals

CONSTANTS Ids, Nothing

VARIABLES entry, time

Opened(e, f, t) ==
  /\ e = Nothing /\ f.status # "None"
  /\ f.amount > 0 /\ f.sender # f.receiver
  /\ f.expiresAt > t

Closed(e, f, t) ==
  /\ e.status = "Pending"
  /\ f.status = IF t < e.expiresAt THEN "Claimed" ELSE "Cancelled"

SameTerms(e, f) ==
  /\ f.sender = e.sender /\ f.receiver = e.receiver
  /\ f.amount = e.amount /\ f.expiresAt = e.expiresAt

\* What one transaction at time t may do to one entry; an entry it opens may
\* already be claimed when it ends.
Allowed(e, f, t) ==
  \/ f = e
  \/ Opened(e, f, t) /\ f.status \in {"Pending", "Claimed"}
  \/ Closed(e, f, t) /\ SameTerms(e, f)

LedgerInit == entry = [id \in Ids |-> Nothing] /\ time = 0

Commit ==
  /\ time' = time
  /\ \A id \in Ids : Allowed(entry[id], entry'[id], time)

Advance == time' > time /\ entry' = entry

LedgerNext == Commit \/ Advance

LedgerSpec == LedgerInit /\ [][LedgerNext]_<<entry, time>>

=============================================================================
