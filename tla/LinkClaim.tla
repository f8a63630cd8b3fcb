------------------------------ MODULE LinkClaim ------------------------------
(* One transfer link (PaymentLink) from its creation to the end of the claims  *)
(* on it: POST /link/claim, GET /link/resolve, the confirmation waiter of each *)
(* claim, the reconciler's settlement of the link, the event synchronisation,  *)
(* expiry and restarts.  The link document is written by findOneAndUpdate with *)
(* a status guard in some places and by save(), which has none, in others.     *)
EXTENDS Naturals, FiniteSets

CONSTANTS
  Claims,     \* calls of POST /link/claim, one transaction each
  Nobody,
  Scenarios   \* which claims arrive in one run and what may go wrong

Scenario == [
  claims  : SUBSET Claims,
  own     : SUBSET Claims,   \* those made by the creator of the link
  hazards : SUBSET {"rpc", "lostReply", "revert", "slowChain"},
  expires : BOOLEAN,         \* whether expiresAt may pass
  faults  : Nat,             \* bound: writes refused or answered too late
  crashes : Nat]             \* bound: restarts of the process

ASSUME ScenariosAssumption ==
  /\ \A s \in Scenarios : s \in Scenario
  /\ Nobody \notin Claims

VARIABLES
  scenario,         \* chosen at the start, never changed
  link, claimedBy,  \* PaymentLink.status and claimedByUserId
  expired,          \* expiresAt has passed
  pc,               \* where the handler of each claim stands
  memLink,          \* status of the handler's link document
  status,           \* Transaction.status of each claim
  stored,           \* claims whose record holds its txHash
  ingested,         \* claims whose hash is held by a record of its event's own
  mined,            \* claims whose record holds a blockNumber
  memStatus,        \* status of the document handler and waiter share
  memHash,          \* claims whose document in memory holds the txHash
  unsaved,          \* claims whose in-memory status was never stored
  waiter,           \* the detached confirmation of each claim
  recon,            \* the document the reconciler works on
  chain,            \* the fate of each claim's chain transaction
  dbFaults, crashes

linkVars    == <<link, claimedBy>>
handlerVars == <<pc, memLink>>
recordVars  == <<status, stored, ingested, mined, memStatus, memHash, unsaved>>
boundVars   == <<dbFaults, crashes>>
vars == <<scenario, linkVars, expired, handlerVars, recordVars, waiter, recon,
          chain, boundVars>>

Own == scenario.own
Hazards == scenario.hazards
MaxDbFaults == scenario.faults
MaxCrashes == scenario.crashes

NoDoc == [tx |-> Nobody, phase |-> "idle", status |-> "none"]

Init ==
  /\ scenario \in Scenarios
  /\ link = "active" /\ claimedBy = Nobody /\ expired = FALSE
  /\ pc = [c \in Claims |-> "idle"]
  /\ memLink = [c \in Claims |-> "none"]
  /\ status = [c \in Claims |-> "none"]
  /\ memStatus = [c \in Claims |-> "none"]
  /\ stored = {} /\ ingested = {} /\ mined = {}
  /\ memHash = {} /\ unsaved = {}
  /\ waiter = [c \in Claims |-> "off"]
  /\ recon = NoDoc
  /\ chain = [c \in Claims |-> "none"]
  /\ dbFaults = 0 /\ crashes = 0

Goto(c, p) == pc' = [pc EXCEPT ![c] = p]
DbFault == dbFaults < MaxDbFaults /\ dbFaults' = dbFaults + 1
Reopened == IF expired THEN "expired" ELSE "active"

-----------------------------------------------------------------------------
(* The handler of a claim *)

\* findOneAndUpdate takes the link, or the refusal expires an overdue one.
LockLink(c) ==
  /\ pc[c] = "idle" /\ c \in scenario.claims
  /\ IF link = "active"
     THEN /\ link' = "claiming"
          /\ memLink' = [memLink EXCEPT ![c] = "claiming"]
          /\ Goto(c, "locked")
     ELSE /\ link' = IF expired /\ link # "claimed" THEN "expired" ELSE link
          /\ Goto(c, "done") /\ UNCHANGED memLink
  /\ UNCHANGED <<scenario, claimedBy, expired, recordVars, waiter, recon,
                 chain, boundVars>>

\* Mutant of ResolveLink: a claim found under way is taken for abandoned.
ResolveReopens ==
  /\ link = "claiming" /\ link' = "active"
  /\ UNCHANGED <<scenario, claimedBy, expired, handlerVars, recordVars, waiter,
                 recon, chain, boundVars>>

\* GET /link/resolve of an overdue link
ResolveLink ==
  /\ expired /\ link \notin {"claimed", "expired"}
  /\ link' = "expired"
  /\ UNCHANGED <<scenario, claimedBy, expired, handlerVars, recordVars, waiter,
                 recon, chain, boundVars>>

\* An overdue link, or one's own, is given back by save().
GiveBack(c) ==
  /\ pc[c] = "locked" /\ (expired \/ c \in Own)
  /\ memLink' = [memLink EXCEPT ![c] = Reopened]
  /\ \/ link' = Reopened /\ UNCHANGED dbFaults
     \/ DbFault /\ UNCHANGED link
  /\ Goto(c, "done")
  /\ UNCHANGED <<scenario, claimedBy, expired, recordVars, waiter, recon,
                 chain, crashes>>

\* The creator's wallet or balance does not allow the claim.
RefuseClaim(c) ==
  /\ pc[c] = "locked" /\ ~expired /\ c \notin Own
  /\ Goto(c, "reset")
  /\ UNCHANGED <<scenario, linkVars, expired, memLink, recordVars, waiter,
                 recon, chain, boundVars>>

CreateRecord(c) ==
  /\ pc[c] = "locked" /\ ~expired /\ c \notin Own
  /\ status' = [status EXCEPT ![c] = "pending"]
  /\ memStatus' = [memStatus EXCEPT ![c] = "pending"]
  /\ Goto(c, "created")
  /\ UNCHANGED <<scenario, linkVars, expired, memLink, stored, ingested, mined,
                 memHash, unsaved, waiter, recon, chain, boundVars>>

\* contract.transfer resolves: the transaction is on its way.
Broadcast(c) ==
  /\ pc[c] = "created"
  /\ chain' = [chain EXCEPT ![c] = "mempool"]
  /\ Goto(c, "sent")
  /\ UNCHANGED <<scenario, linkVars, expired, memLink, recordVars, waiter,
                 recon, boundVars>>

\* unique_transaction_hash refuses the document memory has of c.
Refused(c) == c \in memHash \cap ingested

\* recordTransactionSubmission: save(), and updateOne when it is refused.
\* submitRemittance swallows the error that is thrown all the same.
StoreHash(c) ==
  /\ pc[c] = "sent"
  /\ memHash' = memHash \cup {c}
  /\ \/ stored' = stored \cup ({c} \ ingested) /\ UNCHANGED dbFaults
     \/ DbFault /\ stored' \in {stored, stored \cup ({c} \ ingested)}
  /\ Goto(c, "submitted")
  /\ UNCHANGED <<scenario, linkVars, expired, memLink, status, ingested, mined,
                 memStatus, unsaved, waiter, recon, chain, crashes>>

\* Nothing was sent, or it was and the node's answer is lost.
SubmitFails(c) ==
  /\ pc[c] = "created"
  /\ \/ UNCHANGED chain
     \/ "lostReply" \in Hazards /\ chain' = [chain EXCEPT ![c] = "mempool"]
  /\ Goto(c, "catch")
  /\ UNCHANGED <<scenario, linkVars, expired, memLink, recordVars, waiter,
                 recon, boundVars>>

\* linkDoc.save() of the hash; then the waiter starts.
SaveLinkHash(c) ==
  /\ pc[c] = "submitted"
  /\ \/ /\ Goto(c, "completing") /\ UNCHANGED dbFaults
        /\ waiter' = [waiter EXCEPT ![c] = "waiting"]
     \/ DbFault /\ Goto(c, "catch") /\ UNCHANGED waiter
  /\ UNCHANGED <<scenario, linkVars, expired, memLink, recordVars, recon,
                 chain, crashes>>

\* completeIdempotency
Complete(c) ==
  /\ pc[c] = "completing"
  /\ \/ Goto(c, "done") /\ UNCHANGED dbFaults
     \/ DbFault /\ Goto(c, "catch")
  /\ UNCHANGED <<scenario, linkVars, expired, memLink, recordVars, waiter,
                 recon, chain, crashes>>

\* txDoc.save() with a new status writes every path memory has modified ...
Saved(c, s) ==
  /\ ~Refused(c)
  /\ memStatus' = [memStatus EXCEPT ![c] = s]
  /\ status' = [status EXCEPT ![c] = s]
  /\ stored' = stored \cup (memHash \cap {c})
  /\ unsaved' = unsaved \ {c}

\* ... or none of them, and memory is ahead of the record.
NotSaved(c, s) ==
  /\ \/ Refused(c) /\ UNCHANGED dbFaults
     \/ DbFault
  /\ memStatus' = [memStatus EXCEPT ![c] = s]
  /\ unsaved' = unsaved \cup {c}
  /\ UNCHANGED <<status, stored>>

MarkFailed(c) ==
  IF memStatus[c] = "pending"
  THEN \/ Saved(c, "failed") /\ UNCHANGED dbFaults
       \/ NotSaved(c, "failed")
  ELSE UNCHANGED <<status, stored, memStatus, unsaved, dbFaults>>

CatchError(c) ==
  /\ pc[c] = "catch"
  /\ MarkFailed(c)
  /\ Goto(c, "reset")
  /\ UNCHANGED <<scenario, linkVars, expired, memLink, ingested, mined, memHash,
                 waiter, recon, chain, crashes>>

\* The end of the catch block: save() without a guard on the stored status
ResetLink(c) ==
  /\ pc[c] = "reset" /\ memLink[c] = "claiming"
  /\ \/ link' = Reopened /\ UNCHANGED dbFaults
     \/ DbFault /\ UNCHANGED link
  /\ Goto(c, "done")
  /\ UNCHANGED <<scenario, claimedBy, expired, memLink, recordVars, waiter,
                 recon, chain, crashes>>

-----------------------------------------------------------------------------
(* The waiter of a claim *)

WaiterTo(c, w) == waiter' = [waiter EXCEPT ![c] = w]

\* A save that is refused or exceeds the sync window takes the failure path.
ConfirmSuccess(c) ==
  /\ waiter[c] = "waiting" /\ chain[c] = "ok"
  /\ \/ /\ Saved(c, "success") /\ mined' = mined \cup {c}
        /\ \/ WaiterTo(c, "succeeded") /\ UNCHANGED dbFaults
           \/ WaiterTo(c, "failed") /\ DbFault
     \/ NotSaved(c, "success") /\ WaiterTo(c, "failed") /\ UNCHANGED mined
  /\ UNCHANGED <<scenario, linkVars, expired, handlerVars, ingested, memHash,
                 recon, chain, crashes>>

ConfirmReverted(c) ==
  /\ waiter[c] = "waiting" /\ chain[c] = "reverted"
  /\ MarkFailed(c)
  /\ WaiterTo(c, "failed")
  /\ UNCHANGED <<scenario, linkVars, expired, handlerVars, ingested, mined,
                 memHash, recon, chain, crashes>>

\* preserveTransactionForRecovery saves the document as memory has it.
ConfirmUnknown(c) ==
  /\ "rpc" \in Hazards /\ waiter[c] = "waiting"
  /\ \/ /\ ~Refused(c) /\ UNCHANGED dbFaults
        /\ stored' = stored \cup {c} /\ unsaved' = unsaved \ {c}
        /\ status' = IF c \in unsaved
                     THEN [status EXCEPT ![c] = memStatus[c]] ELSE status
     \/ /\ \/ Refused(c) /\ UNCHANGED dbFaults
           \/ DbFault
        /\ UNCHANGED <<stored, unsaved, status>>
  /\ WaiterTo(c, "failed")
  /\ UNCHANGED <<scenario, linkVars, expired, handlerVars, ingested, mined,
                 memStatus, memHash, recon, chain, crashes>>

\* Mutant of OnSuccess: the filter asks for an active link.
OnSuccessWrongFilter(c) ==
  /\ waiter[c] = "succeeded"
  /\ IF link = "active" THEN link' = "claimed" /\ claimedBy' = c
     ELSE UNCHANGED linkVars
  /\ WaiterTo(c, "off")
  /\ UNCHANGED <<scenario, expired, handlerVars, recordVars, recon, chain,
                 boundVars>>

OnSuccess(c) ==
  /\ waiter[c] = "succeeded"
  /\ \/ /\ link = "claiming" /\ link' = "claimed" /\ claimedBy' = c
        /\ UNCHANGED dbFaults
     \/ link # "claiming" /\ UNCHANGED <<linkVars, dbFaults>>
     \/ DbFault /\ UNCHANGED linkVars
  /\ WaiterTo(c, "off")
  /\ UNCHANGED <<scenario, expired, handlerVars, recordVars, recon, chain,
                 crashes>>

\* Mutant of OnFailure: the link is not given back.
OnFailureKeepsLink(c) ==
  /\ waiter[c] = "failed"
  /\ WaiterTo(c, "off")
  /\ UNCHANGED <<scenario, linkVars, expired, handlerVars, recordVars, recon,
                 chain, boundVars>>

\* onFailure runs for every error, the ones that leave the record pending too.
OnFailure(c) ==
  /\ waiter[c] = "failed"
  /\ \/ /\ link' = IF link = "claiming" THEN Reopened ELSE link
        /\ UNCHANGED dbFaults
     \/ DbFault /\ UNCHANGED link
  /\ WaiterTo(c, "off")
  /\ UNCHANGED <<scenario, claimedBy, expired, handlerVars, recordVars, recon,
                 chain, crashes>>

-----------------------------------------------------------------------------
(* The reconciler, one document at a time: record first, then the link, which  *)
(* it reads with findById and writes with save().                              *)

Recon(c, p, s) == recon' = [tx |-> c, phase |-> p, status |-> s]

LoadRecord(c) ==
  /\ recon = NoDoc
  /\ c \in stored /\ status[c] \in {"pending", "success", "failed"}
  /\ Recon(c, "loaded", status[c])
  /\ UNCHANGED <<scenario, linkVars, expired, handlerVars, recordVars, waiter,
                 chain, boundVars>>

\* The receipt as the node knows it; an RPC failure ends the attempt.
FetchReceipt ==
  /\ recon.phase = "loaded"
  /\ \/ Recon(recon.tx, IF chain[recon.tx] \in {"ok", "reverted"}
                        THEN chain[recon.tx] ELSE "missing", recon.status)
     \/ "rpc" \in Hazards /\ recon' = NoDoc
  /\ UNCHANGED <<scenario, linkVars, expired, handlerVars, recordVars, waiter,
                 chain, boundVars>>

\* The misses reach their threshold past the pending timeout, or not yet.
ApplyMissing ==
  /\ recon.phase = "missing"
  /\ \/ recon' = NoDoc /\ UNCHANGED status
     \/ /\ "slowChain" \in Hazards /\ recon.status = "pending"
        /\ status' = [status EXCEPT ![recon.tx] = "failed"]
        /\ Recon(recon.tx, "settle", "failed")
  /\ UNCHANGED <<scenario, linkVars, expired, handlerVars, stored, ingested,
                 mined, memStatus, memHash, unsaved, waiter, chain, boundVars>>

\* A receipt that corrects nothing leaves the link alone.
ApplyReceipt ==
  LET c == recon.tx
      result == IF recon.phase = "ok" THEN "success" ELSE "failed"
  IN /\ recon.phase \in {"ok", "reverted"}
     /\ status' = IF recon.status = result THEN status
                  ELSE [status EXCEPT ![c] = result]
     /\ mined' = mined \cup {c}
     /\ IF recon.status = result /\ c \in mined
        THEN recon' = NoDoc ELSE Recon(c, "settle", result)
     /\ UNCHANGED <<scenario, linkVars, expired, handlerVars, stored,
                    ingested, memStatus, memHash, unsaved, waiter, chain,
                    boundVars>>

\* A save throws: the loop stores a terminal document as pending again.
ApplyFails ==
  /\ recon.phase \in {"missing", "ok", "reverted"} /\ DbFault
  /\ status' = IF recon.status = "pending" THEN status
               ELSE [status EXCEPT ![recon.tx] = "pending"]
  /\ recon' = NoDoc
  /\ UNCHANGED <<scenario, linkVars, expired, handlerVars, stored, ingested,
                 mined, memStatus, memHash, unsaved, waiter, chain, crashes>>

\* A Transfer event confirms the record that holds its hash.
SyncEvent(c) ==
  /\ recon = NoDoc
  /\ c \in stored /\ chain[c] = "ok"
  /\ status[c] # "success" \/ c \notin mined
  /\ status' = [status EXCEPT ![c] = "success"]
  /\ mined' = mined \cup {c}
  /\ IF status[c] = "success" THEN UNCHANGED recon
     ELSE Recon(c, "settle", "success")
  /\ UNCHANGED <<scenario, linkVars, expired, handlerVars, stored, ingested,
                 memStatus, memHash, unsaved, waiter, chain, boundVars>>

\* An event whose hash no record holds yet becomes a record of its own, which
\* knows no link; the claim's record can never hold the hash again.
IngestEvent(c) ==
  /\ recon = NoDoc /\ chain[c] = "ok"
  /\ c \notin stored /\ ingested' = ingested \cup {c}
  /\ UNCHANGED <<scenario, linkVars, expired, handlerVars, status, stored,
                 mined, memStatus, memHash, unsaved, waiter, recon, chain,
                 boundVars>>

\* applyPaymentLinkSettlement reads the link ...
ReadLink ==
  /\ recon.phase = "settle"
  /\ IF link = "claiming" THEN Recon(recon.tx, "write", recon.status)
     ELSE recon' = NoDoc
  /\ UNCHANGED <<scenario, linkVars, expired, handlerVars, recordVars, waiter,
                 chain, boundVars>>

\* Mutant of WriteLink: every settlement claims the link.
WriteLinkClaimed ==
  /\ recon.phase = "write"
  /\ link' = "claimed" /\ claimedBy' = recon.tx
  /\ recon' = NoDoc
  /\ UNCHANGED <<scenario, expired, handlerVars, recordVars, waiter, chain,
                 boundVars>>

\* ... and writes it back whatever it has become in between.
WriteLink ==
  /\ recon.phase = "write"
  /\ \/ /\ IF recon.status = "success"
           THEN link' = "claimed" /\ claimedBy' = recon.tx
           ELSE link' = Reopened /\ UNCHANGED claimedBy
        /\ UNCHANGED dbFaults
     \/ DbFault /\ UNCHANGED linkVars
  /\ recon' = NoDoc
  /\ UNCHANGED <<scenario, expired, handlerVars, recordVars, waiter, chain,
                 crashes>>

-----------------------------------------------------------------------------
(* The chain, the clock and the process *)

Decide(c) ==
  /\ chain[c] = "mempool"
  /\ \E fate \in {"ok", "reverted"} :
       /\ fate = "reverted" => "revert" \in Hazards
       /\ chain' = [chain EXCEPT ![c] = fate]
  /\ UNCHANGED <<scenario, linkVars, expired, handlerVars, recordVars, waiter,
                 recon, boundVars>>

Expire ==
  /\ scenario.expires /\ ~expired /\ expired' = TRUE
  /\ UNCHANGED <<scenario, linkVars, handlerVars, recordVars, waiter, recon,
                 chain, boundVars>>

Crash ==
  /\ crashes < MaxCrashes /\ crashes' = crashes + 1
  /\ pc' = [c \in Claims |-> IF pc[c] = "idle" THEN "idle" ELSE "done"]
  /\ waiter' = [c \in Claims |-> "off"]
  /\ recon' = NoDoc
  /\ UNCHANGED <<scenario, linkVars, expired, memLink, recordVars, chain,
                 dbFaults>>

-----------------------------------------------------------------------------
Handler(c) ==
  \/ LockLink(c) \/ GiveBack(c) \/ RefuseClaim(c) \/ CreateRecord(c)
  \/ Broadcast(c) \/ SubmitFails(c) \/ StoreHash(c) \/ SaveLinkHash(c)
  \/ Complete(c) \/ CatchError(c) \/ ResetLink(c)

Waiter(c) ==
  \/ ConfirmSuccess(c) \/ ConfirmReverted(c) \/ ConfirmUnknown(c)
  \/ OnSuccess(c) \/ OnFailure(c)

Reconciler ==
  \/ FetchReceipt \/ ApplyMissing \/ ApplyReceipt \/ ApplyFails
  \/ ReadLink \/ WriteLink
  \/ \E c \in Claims : LoadRecord(c) \/ SyncEvent(c) \/ IngestEvent(c)

Next ==
  \/ \E c \in Claims : Handler(c) \/ Waiter(c) \/ Decide(c)
  \/ Reconciler \/ ResolveLink \/ Expire \/ Crash

Spec == Init /\ [][Next]_vars

\* A handler and a waiter that were started run on while the process lives,
\* and the chain decides what it was given.
FairSpec ==
  /\ Spec
  /\ \A c \in Claims :
       /\ WF_vars(pc[c] # "idle" /\ Handler(c))
       /\ WF_vars(Waiter(c)) /\ WF_vars(Decide(c))

-----------------------------------------------------------------------------
(* Every variable stays in its range. *)
TypeOK ==
  /\ scenario \in Scenarios
  /\ link \in {"active", "claiming", "claimed", "expired"}
  /\ claimedBy \in Claims \cup {Nobody} /\ expired \in BOOLEAN
  /\ pc \in [Claims -> {"idle", "locked", "created", "sent", "submitted",
                        "completing", "catch", "reset", "done"}]
  /\ memLink \in [Claims -> {"none", "claiming", "active", "expired"}]
  /\ status \in [Claims -> {"none", "pending", "success", "failed"}]
  /\ memStatus \in [Claims -> {"none", "pending", "success", "failed"}]
  /\ stored \subseteq Claims /\ ingested \subseteq Claims
  /\ mined \subseteq Claims
  /\ memHash \subseteq Claims /\ unsaved \subseteq Claims
  /\ waiter \in [Claims -> {"off", "waiting", "succeeded", "failed"}]
  /\ recon \in [tx : Claims \cup {Nobody}, status : {"none", "pending",
                 "success", "failed"}, phase : {"idle", "loaded", "missing",
                 "ok", "reverted", "settle", "write"}]
  /\ chain \in [Claims -> {"none", "mempool", "ok", "reverted"}]
  /\ dbFaults \in 0 .. MaxDbFaults /\ crashes \in 0 .. MaxCrashes

(* A link shown as claimed was paid to the account shown as its claimant.      *)
ClaimedLinkWasPaid ==
  link = "claimed" => claimedBy \in Claims /\ chain[claimedBy] = "ok"

(* The link pays once: of all the claims on it the chain executes at most one. *)
OneClaimIsPaid ==
  \A c, d \in Claims : chain[c] = "ok" /\ chain[d] = "ok" => c = d

\* The node answers, transactions execute and no write is refused; the link
\* may expire and the process restart.
Calm == Hazards = {} /\ MaxDbFaults = 0

(* In calm weather a second claim is paid only behind an event that was        *)
(* recorded before the hash of its claim was: no other order of the lock, the  *)
(* waiters, the expiry and the reconciler after a restart pays a link twice.   *)
CalmOneClaimIsPaid ==
  Calm => \A c, d \in Claims :
    chain[c] = "ok" /\ chain[d] = "ok" => c = d \/ {c, d} \cap ingested # {}

(* While no write is refused and no restart loses it, a claim that takes the   *)
(* link ends, also with an unreachable node: the link is claimed or free again.*)
ClaimingEnds ==
  (link = "claiming" /\ MaxDbFaults = 0 /\ MaxCrashes = 0)
     ~> link # "claiming"

(* In calm weather and without a restart a claim the chain executed ends with  *)
(* the link claimed, unless the link expires first or the claim's event is     *)
(* recorded before its hash.                                                   *)
PaidLinkIsClaimed ==
  \A c \in Claims :
    (Calm /\ MaxCrashes = 0 /\ chain[c] = "ok")
       ~> (link = "claimed" \/ expired \/ c \in ingested)

=============================================================================
