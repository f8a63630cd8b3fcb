------------------------------- MODULE ChatPay -------------------------------
(* One payment request of a chat (ChatRequest): POST .../requests/:id/pay     *)
(* from a custodial or a linked wallet, the confirmation waiter of each       *)
(* payment, cancelling, unsending the message that carries the request, and   *)
(* the reconciler's settlement.  Status changes are guarded updates, except   *)
(* the save() of the unsend handler.                                          *)
EXTENDS Naturals, FiniteSets

CONSTANTS
  Pays,       \* bound: calls of the pay route, one transaction each
  Nobody,
  Scenarios   \* the payer's wallet and what may happen in one run

Scenario == [
  linked   : BOOLEAN,   \* the payer signs in the browser, before the call
  cancels  : BOOLEAN,   \* the requester may cancel
  unsends  : BOOLEAN,   \* the requester may unsend the message
  hazards  : SUBSET {"rpc", "lostReply", "revert", "slowChain"},
  faults   : Nat,       \* bound: writes refused or answered too late
  crashes  : Nat]       \* bound: restarts of the process

ASSUME ScenariosAssumption ==
  /\ \A s \in Scenarios : s \in Scenario
  /\ Nobody \notin Pays

VARIABLES
  scenario,          \* chosen at the start, never changed
  request, paidBy,   \* ChatRequest.status and the payment it names
  message,           \* the chat message that shows the request exists
  unsend,            \* where the handler of DELETE .../messages/:id stands
  pc,                \* where the handler of each payment stands
  status,            \* Transaction.status of each payment
  stored,            \* payments whose record holds its txHash
  ingested,          \* payments whose hash an event's own record holds
  mined,             \* payments whose record holds a blockNumber
  tied,              \* records whose chatRequestId is this request
  memStatus,         \* status of the document handler and waiter share
  memHash,           \* payments whose document in memory holds the txHash
  unsaved,           \* payments whose in-memory status was never stored
  waiter,            \* the detached confirmation of each payment
  recon,             \* the document the reconciler works on
  chain,             \* the fate of each payment's chain transaction
  dbFaults, crashes

requestVars == <<request, paidBy>>
recordVars  == <<status, stored, ingested, mined, tied, memStatus, memHash,
                 unsaved>>
boundVars   == <<dbFaults, crashes>>
vars == <<scenario, requestVars, message, unsend, pc, recordVars, waiter,
          recon, chain, boundVars>>

Hazards == scenario.hazards
NoDoc == [tx |-> Nobody, phase |-> "idle", status |-> "none"]

Init ==
  /\ scenario \in Scenarios
  /\ request = "pending" /\ paidBy = Nobody /\ message = TRUE
  /\ unsend = "idle"
  /\ pc = [p \in Pays |-> "idle"]
  /\ status = [p \in Pays |-> "none"]
  /\ memStatus = [p \in Pays |-> "none"]
  /\ stored = {} /\ ingested = {} /\ mined = {} /\ tied = {}
  /\ memHash = {} /\ unsaved = {}
  /\ waiter = [p \in Pays |-> "off"]
  /\ recon = NoDoc
  /\ chain = [p \in Pays |-> "none"]
  /\ dbFaults = 0 /\ crashes = 0

Goto(p, l) == pc' = [pc EXCEPT ![p] = l]
WaiterTo(p, w) == waiter' = [waiter EXCEPT ![p] = w]
ChainTo(p, c) == chain' = [chain EXCEPT ![p] = c]
DbFault == dbFaults < scenario.faults /\ dbFaults' = dbFaults + 1

\* The guarded updates of the request: a status that no longer matches is kept.
Unlock == /\ request' = IF request = "processing" THEN "pending" ELSE request
          /\ UNCHANGED paidBy
MarkPaid(p) == IF request \in {"pending", "processing"}
               THEN request' = "paid" /\ paidBy' = p
               ELSE UNCHANGED requestVars

-----------------------------------------------------------------------------
(* The handler of a payment *)

\* A linked wallet: { prepare: true } answers, then the browser broadcasts.
WalletTransfer(p) ==
  /\ scenario.linked /\ pc[p] = "idle"
  /\ request \notin {"paid", "cancelled"}
  /\ ChainTo(p, "mempool") /\ Goto(p, "signed")
  /\ UNCHANGED <<scenario, requestVars, message, unsend, recordVars, waiter,
                 recon, boundVars>>

Start(p) == pc[p] = IF scenario.linked THEN "signed" ELSE "idle"

\* Mutant of LockRequest: the status found by findById is not asked for again.
LockUnguarded(p) ==
  /\ Start(p) /\ request # "paid"
  /\ request' = "processing" /\ Goto(p, "locked")
  /\ UNCHANGED <<scenario, paidBy, message, unsend, recordVars, waiter, recon,
                 chain, boundVars>>

\* findOneAndUpdate takes a pending request; any other is refused.
LockRequest(p) ==
  /\ Start(p)
  /\ IF request = "pending"
     THEN request' = "processing" /\ Goto(p, "locked")
     ELSE UNCHANGED request /\ Goto(p, "done")
  /\ UNCHANGED <<scenario, paidBy, message, unsend, recordVars, waiter, recon,
                 chain, boundVars>>

Records(p, s) ==
  /\ status' = [status EXCEPT ![p] = s]
  /\ memStatus' = [memStatus EXCEPT ![p] = s]
  /\ tied' = tied \cup {p}

CreateRecord(p) ==
  /\ ~scenario.linked /\ pc[p] = "locked"
  /\ Records(p, "pending") /\ Goto(p, "created")
  /\ UNCHANGED <<scenario, requestVars, message, unsend, stored, ingested,
                 mined, memHash, unsaved, waiter, recon, chain, boundVars>>

\* The record is not created, or the node does not find the linked transfer.
NoRecord(p) ==
  /\ pc[p] = "locked"
  /\ \/ DbFault
     \/ scenario.linked /\ "rpc" \in Hazards /\ UNCHANGED dbFaults
  /\ Goto(p, "catch")
  /\ UNCHANGED <<scenario, requestVars, message, unsend, recordVars, waiter,
                 recon, chain, crashes>>

\* contract.transfer resolves: the transaction is on its way.
Broadcast(p) ==
  /\ pc[p] = "created"
  /\ ChainTo(p, "mempool") /\ Goto(p, "sent")
  /\ UNCHANGED <<scenario, requestVars, message, unsend, recordVars, waiter,
                 recon, boundVars>>

\* Nothing was sent, or it was and the node's answer is lost.
SubmitFails(p) ==
  /\ pc[p] = "created"
  /\ \/ UNCHANGED chain
     \/ "lostReply" \in Hazards /\ ChainTo(p, "mempool")
  /\ Goto(p, "catch")
  /\ UNCHANGED <<scenario, requestVars, message, unsend, recordVars, waiter,
                 recon, boundVars>>

\* unique_transaction_hash refuses the document memory has of p.
Refused(p) == p \in memHash \cap ingested

\* recordTransactionSubmission: save(), and updateOne when it is refused.  The
\* error is thrown all the same: a custodial submission swallows it.
StoreHash(p) ==
  /\ pc[p] = "sent"
  /\ memHash' = memHash \cup {p}
  /\ \/ /\ p \notin ingested /\ stored' = stored \cup {p}
        /\ Goto(p, "submitted") /\ UNCHANGED dbFaults
     \/ /\ \/ p \in ingested /\ UNCHANGED <<stored, dbFaults>>
           \/ DbFault /\ stored' \in {stored, stored \cup ({p} \ ingested)}
        /\ Goto(p, IF scenario.linked THEN "catch" ELSE "submitted")
  /\ UNCHANGED <<scenario, requestVars, message, unsend, status, ingested,
                 mined, tied, memStatus, unsaved, waiter, recon, chain,
                 crashes>>

\* The record of a linked wallet's transfer is the one that the event
\* synchronisation made, tied to the request by save() ...
AdoptFound(p) ==
  /\ scenario.linked /\ pc[p] = "locked" /\ p \in stored
  /\ \/ /\ Records(p, status[p]) /\ Goto(p, "submitted")
        /\ UNCHANGED dbFaults
     \/ /\ memStatus' = [memStatus EXCEPT ![p] = status[p]]
        /\ DbFault /\ Goto(p, "catch") /\ UNCHANGED <<status, tied>>
  /\ UNCHANGED <<scenario, requestVars, message, unsend, stored, ingested,
                 mined, memHash, unsaved, waiter, recon, chain, crashes>>

\* ... or a new one, which is still to hold the hash.
AdoptNew(p) ==
  /\ scenario.linked /\ pc[p] = "locked" /\ p \notin stored
  /\ Records(p, "pending") /\ Goto(p, "sent")
  /\ UNCHANGED <<scenario, requestVars, message, unsend, stored, ingested,
                 mined, memHash, unsaved, waiter, recon, chain, boundVars>>

\* The waiter is started, then the thread is saved and the call answered.
StartWaiter(p) ==
  /\ pc[p] = "submitted"
  /\ WaiterTo(p, "waiting")
  /\ \/ Goto(p, "done") /\ UNCHANGED dbFaults
     \/ DbFault /\ Goto(p, "catch")
  /\ UNCHANGED <<scenario, requestVars, message, unsend, recordVars, recon,
                 chain, crashes>>

\* txDoc.save() with a new status writes every path memory has modified ...
Saved(p, s) ==
  /\ ~Refused(p)
  /\ memStatus' = [memStatus EXCEPT ![p] = s]
  /\ status' = [status EXCEPT ![p] = s]
  /\ stored' = stored \cup (memHash \cap {p}) /\ tied' = tied \cup {p}
  /\ unsaved' = unsaved \ {p}

\* ... or none of them, and memory is ahead of the record.
NotSaved(p, s) ==
  /\ \/ Refused(p) /\ UNCHANGED dbFaults
     \/ DbFault
  /\ memStatus' = [memStatus EXCEPT ![p] = s]
  /\ unsaved' = unsaved \cup {p}
  /\ UNCHANGED <<status, stored, tied>>

MarkFailed(p) ==
  IF memStatus[p] = "pending"
  THEN \/ Saved(p, "failed") /\ UNCHANGED dbFaults
       \/ NotSaved(p, "failed")
  ELSE UNCHANGED <<status, stored, tied, memStatus, unsaved, dbFaults>>

CatchError(p) ==
  /\ pc[p] = "catch"
  /\ MarkFailed(p) /\ Goto(p, "unlock")
  /\ UNCHANGED <<scenario, requestVars, message, unsend, ingested, mined,
                 memHash, waiter, recon, chain, crashes>>

\* The end of the catch block; the document in memory still says "processing".
UnlockRequest(p) ==
  /\ pc[p] = "unlock"
  /\ \/ Unlock /\ UNCHANGED dbFaults
     \/ DbFault /\ UNCHANGED requestVars
  /\ Goto(p, "done")
  /\ UNCHANGED <<scenario, message, unsend, recordVars, waiter, recon, chain,
                 crashes>>

-----------------------------------------------------------------------------
(* The waiter of a payment *)

\* A save that is refused or exceeds the sync window takes the failure path.
ConfirmSuccess(p) ==
  /\ waiter[p] = "waiting" /\ chain[p] = "ok"
  /\ \/ /\ Saved(p, "success") /\ mined' = mined \cup {p}
        /\ \/ WaiterTo(p, "succeeded") /\ UNCHANGED dbFaults
           \/ WaiterTo(p, "failed") /\ DbFault
     \/ NotSaved(p, "success") /\ WaiterTo(p, "failed") /\ UNCHANGED mined
  /\ UNCHANGED <<scenario, requestVars, message, unsend, pc, ingested, memHash,
                 recon, chain, crashes>>

ConfirmReverted(p) ==
  /\ waiter[p] = "waiting" /\ chain[p] = "reverted"
  /\ MarkFailed(p) /\ WaiterTo(p, "failed")
  /\ UNCHANGED <<scenario, requestVars, message, unsend, pc, ingested, mined,
                 memHash, recon, chain, crashes>>

\* preserveTransactionForRecovery saves the document as memory has it.
ConfirmUnknown(p) ==
  /\ "rpc" \in Hazards /\ waiter[p] = "waiting"
  /\ \/ /\ ~Refused(p) /\ UNCHANGED dbFaults
        /\ stored' = stored \cup {p} /\ unsaved' = unsaved \ {p}
        /\ status' = IF p \in unsaved
                     THEN [status EXCEPT ![p] = memStatus[p]] ELSE status
     \/ /\ \/ Refused(p) /\ UNCHANGED dbFaults
           \/ DbFault
        /\ UNCHANGED <<stored, unsaved, status>>
  /\ WaiterTo(p, "failed")
  /\ UNCHANGED <<scenario, requestVars, message, unsend, pc, ingested, mined,
                 tied, memStatus, memHash, recon, chain, crashes>>

\* Mutant of OnSuccess: only a request that still says "pending" is paid.
OnSuccessPendingOnly(p) ==
  /\ waiter[p] = "succeeded" /\ WaiterTo(p, "off")
  /\ IF request = "pending" THEN MarkPaid(p) ELSE UNCHANGED requestVars
  /\ UNCHANGED <<scenario, message, unsend, pc, recordVars, recon, chain,
                 boundVars>>

OnSuccess(p) ==
  /\ waiter[p] = "succeeded"
  /\ \/ MarkPaid(p) /\ UNCHANGED dbFaults
     \/ DbFault /\ UNCHANGED requestVars
  /\ WaiterTo(p, "off")
  /\ UNCHANGED <<scenario, message, unsend, pc, recordVars, recon, chain,
                 crashes>>

\* Mutant of OnFailure: the request is not given back.
OnFailureForgets(p) ==
  /\ waiter[p] = "failed" /\ WaiterTo(p, "off")
  /\ UNCHANGED <<scenario, requestVars, message, unsend, pc, recordVars, recon,
                 chain, boundVars>>

\* onFailure runs for every error, the ones that leave the record pending too.
OnFailure(p) ==
  /\ waiter[p] = "failed"
  /\ \/ Unlock /\ UNCHANGED dbFaults
     \/ DbFault /\ UNCHANGED requestVars
  /\ WaiterTo(p, "off")
  /\ UNCHANGED <<scenario, message, unsend, pc, recordVars, recon, chain,
                 crashes>>

-----------------------------------------------------------------------------
(* The requester *)

\* POST .../requests/:id/cancel
Cancel ==
  /\ scenario.cancels /\ request = "pending"
  /\ request' = "cancelled"
  /\ UNCHANGED <<scenario, paidBy, message, unsend, pc, recordVars, waiter,
                 recon, chain, boundVars>>

\* DELETE .../messages/:id reads the request ...
ReadUnsend ==
  /\ scenario.unsends /\ unsend = "idle" /\ message
  /\ request \in {"pending", "cancelled"}
  /\ unsend' = IF request = "pending" THEN "cancelling" ELSE "deleting"
  /\ UNCHANGED <<scenario, requestVars, message, pc, recordVars, waiter, recon,
                 chain, boundVars>>

\* ... saves it as cancelled whatever it has become in between ...
WriteUnsend ==
  /\ unsend = "cancelling"
  /\ \/ request' = "cancelled" /\ unsend' = "deleting" /\ UNCHANGED dbFaults
     \/ DbFault /\ unsend' = "idle" /\ UNCHANGED request
  /\ UNCHANGED <<scenario, paidBy, message, pc, recordVars, waiter, recon,
                 chain, crashes>>

\* ... and deletes the message.
DeleteMessage ==
  /\ unsend = "deleting"
  /\ \/ message' = FALSE /\ UNCHANGED dbFaults
     \/ DbFault /\ UNCHANGED message
  /\ unsend' = "idle"
  /\ UNCHANGED <<scenario, requestVars, pc, recordVars, waiter, recon, chain,
                 crashes>>

-----------------------------------------------------------------------------
(* The reconciler, one document at a time *)

Recon(p, l, s) == recon' = [tx |-> p, phase |-> l, status |-> s]

LoadRecord(p) ==
  /\ recon = NoDoc
  /\ p \in stored /\ status[p] \in {"pending", "success", "failed"}
  /\ Recon(p, "loaded", status[p])
  /\ UNCHANGED <<scenario, requestVars, message, unsend, pc, recordVars,
                 waiter, chain, boundVars>>

\* The receipt as the node knows it; an RPC failure ends the attempt.
FetchReceipt ==
  /\ recon.phase = "loaded"
  /\ \/ Recon(recon.tx, IF chain[recon.tx] \in {"ok", "reverted"}
                        THEN chain[recon.tx] ELSE "missing", recon.status)
     \/ "rpc" \in Hazards /\ recon' = NoDoc
  /\ UNCHANGED <<scenario, requestVars, message, unsend, pc, recordVars,
                 waiter, chain, boundVars>>

\* The misses reach their threshold past the pending timeout, or not yet.
ApplyMissing ==
  /\ recon.phase = "missing"
  /\ \/ recon' = NoDoc /\ UNCHANGED status
     \/ /\ "slowChain" \in Hazards /\ recon.status = "pending"
        /\ status' = [status EXCEPT ![recon.tx] = "failed"]
        /\ Recon(recon.tx, "settle", "failed")
  /\ UNCHANGED <<scenario, requestVars, message, unsend, pc, stored, ingested,
                 mined, tied, memStatus, memHash, unsaved, waiter, chain,
                 boundVars>>

\* A receipt that corrects nothing leaves the request alone.
ApplyReceipt ==
  LET p == recon.tx
      result == IF recon.phase = "ok" THEN "success" ELSE "failed"
  IN /\ recon.phase \in {"ok", "reverted"}
     /\ status' = IF recon.status = result THEN status
                  ELSE [status EXCEPT ![p] = result]
     /\ mined' = mined \cup {p}
     /\ IF recon.status = result /\ p \in mined
        THEN recon' = NoDoc ELSE Recon(p, "settle", result)
     /\ UNCHANGED <<scenario, requestVars, message, unsend, pc, stored,
                    ingested, tied, memStatus, memHash, unsaved, waiter, chain,
                    boundVars>>

\* A save throws: the loop stores a terminal document as pending again.
ApplyFails ==
  /\ recon.phase \in {"missing", "ok", "reverted"} /\ DbFault
  /\ status' = IF recon.status = "pending" THEN status
               ELSE [status EXCEPT ![recon.tx] = "pending"]
  /\ recon' = NoDoc
  /\ UNCHANGED <<scenario, requestVars, message, unsend, pc, stored, ingested,
                 mined, tied, memStatus, memHash, unsaved, waiter, chain,
                 crashes>>

\* A Transfer event confirms the record that holds its hash.
SyncEvent(p) ==
  /\ recon = NoDoc /\ chain[p] = "ok"
  /\ p \in stored
  /\ status[p] # "success" \/ p \notin mined
  /\ status' = [status EXCEPT ![p] = "success"]
  /\ mined' = mined \cup {p}
  /\ IF status[p] = "success" THEN UNCHANGED recon
     ELSE Recon(p, "settle", "success")
  /\ UNCHANGED <<scenario, requestVars, message, unsend, pc, stored, ingested,
                 tied, memStatus, memHash, unsaved, waiter, chain, boundVars>>

\* An event whose hash no record holds becomes a record of its own.  Before the
\* pay route made one for a linked wallet's transfer, it is the one the route
\* will find; afterwards the record of the payment can never hold the hash.
IngestEvent(p) ==
  /\ recon = NoDoc /\ chain[p] = "ok" /\ p \notin stored
  /\ IF status[p] = "none"
     THEN /\ status' = [status EXCEPT ![p] = "success"]
          /\ stored' = stored \cup {p} /\ mined' = mined \cup {p}
          /\ UNCHANGED ingested
     ELSE /\ ingested' = ingested \cup {p}
          /\ UNCHANGED <<status, stored, mined>>
  /\ UNCHANGED <<scenario, requestVars, message, unsend, pc, tied, memStatus,
                 memHash, unsaved, waiter, recon, chain, boundVars>>

\* Mutant of Settle: every settlement pays the request.
SettleAsPaid ==
  /\ recon.phase = "settle"
  /\ IF recon.tx \in tied THEN MarkPaid(recon.tx) ELSE UNCHANGED requestVars
  /\ recon' = NoDoc
  /\ UNCHANGED <<scenario, message, unsend, pc, recordVars, waiter, chain,
                 boundVars>>

\* applyChatRequestSettlement
Settle ==
  /\ recon.phase = "settle"
  /\ \/ /\ recon.tx \in tied
        /\ IF recon.status = "success" THEN MarkPaid(recon.tx) ELSE Unlock
        /\ UNCHANGED dbFaults
     \/ recon.tx \notin tied /\ UNCHANGED <<requestVars, dbFaults>>
     \/ DbFault /\ UNCHANGED requestVars
  /\ recon' = NoDoc
  /\ UNCHANGED <<scenario, message, unsend, pc, recordVars, waiter, chain,
                 crashes>>

-----------------------------------------------------------------------------
(* The chain and the process *)

Decide(p) ==
  /\ chain[p] = "mempool"
  /\ \E fate \in {"ok", "reverted"} :
       /\ fate = "reverted" => "revert" \in Hazards
       /\ ChainTo(p, fate)
  /\ UNCHANGED <<scenario, requestVars, message, unsend, pc, recordVars,
                 waiter, recon, boundVars>>

Crash ==
  /\ crashes < scenario.crashes /\ crashes' = crashes + 1
  /\ pc' = [p \in Pays |-> IF pc[p] \in {"idle", "signed"} THEN pc[p]
                           ELSE "done"]
  /\ waiter' = [p \in Pays |-> "off"]
  /\ recon' = NoDoc /\ unsend' = "idle"
  /\ UNCHANGED <<scenario, requestVars, message, recordVars, chain, dbFaults>>

-----------------------------------------------------------------------------
Handler(p) ==
  \/ LockRequest(p) \/ CreateRecord(p) \/ NoRecord(p) \/ Broadcast(p)
  \/ SubmitFails(p) \/ AdoptFound(p) \/ AdoptNew(p) \/ StoreHash(p)
  \/ StartWaiter(p) \/ CatchError(p) \/ UnlockRequest(p)

Waiter(p) ==
  \/ ConfirmSuccess(p) \/ ConfirmReverted(p) \/ ConfirmUnknown(p)
  \/ OnSuccess(p) \/ OnFailure(p)

Requester == Cancel \/ ReadUnsend \/ WriteUnsend \/ DeleteMessage

Reconciler ==
  \/ FetchReceipt \/ ApplyMissing \/ ApplyReceipt \/ ApplyFails \/ Settle
  \/ \E p \in Pays : LoadRecord(p) \/ SyncEvent(p) \/ IngestEvent(p)

Next ==
  \/ \E p \in Pays : WalletTransfer(p) \/ Handler(p) \/ Waiter(p) \/ Decide(p)
  \/ Requester \/ Reconciler \/ Crash

Spec == Init /\ [][Next]_vars

\* A handler and a waiter that were started run on while the process lives,
\* and the chain decides what it was given.
FairSpec ==
  /\ Spec
  /\ \A p \in Pays :
       /\ WF_vars(pc[p] \notin {"idle", "signed"} /\ Handler(p))
       /\ WF_vars(Waiter(p)) /\ WF_vars(Decide(p))

-----------------------------------------------------------------------------
(* Every variable stays in its range. *)
TypeOK ==
  /\ scenario \in Scenarios
  /\ request \in {"pending", "processing", "paid", "cancelled"}
  /\ paidBy \in Pays \cup {Nobody} /\ message \in BOOLEAN
  /\ unsend \in {"idle", "cancelling", "deleting"}
  /\ pc \in [Pays -> {"idle", "signed", "locked", "created", "sent",
                      "submitted", "catch", "unlock", "done"}]
  /\ status \in [Pays -> {"none", "pending", "success", "failed"}]
  /\ memStatus \in [Pays -> {"none", "pending", "success", "failed"}]
  /\ stored \subseteq Pays /\ ingested \subseteq Pays
  /\ mined \subseteq Pays /\ tied \subseteq Pays
  /\ memHash \subseteq Pays /\ unsaved \subseteq Pays
  /\ waiter \in [Pays -> {"off", "waiting", "succeeded", "failed"}]
  /\ recon \in [tx : Pays \cup {Nobody}, status : {"none", "pending",
                 "success", "failed"}, phase : {"idle", "loaded", "missing",
                 "ok", "reverted", "settle"}]
  /\ chain \in [Pays -> {"none", "mempool", "ok", "reverted"}]
  /\ dbFaults \in 0 .. scenario.faults /\ crashes \in 0 .. scenario.crashes

\* The node answers, transactions execute and no write is refused; the
\* process may restart.  A linked wallet signs before the server locks.
Calm == Hazards = {} /\ scenario.faults = 0 /\ ~scenario.linked

(* Under every hazard, a request that names a payment was paid by it on the   *)
(* chain, whichever of the waiter and the reconciler wrote it.                *)
PaidRequestWasPaid == paidBy # Nobody => chain[paidBy] = "ok"

(* In calm weather a second payment is sent only behind an event that was     *)
(* recorded before the hash of its payment was: no other order of the lock,   *)
(* the waiters, an unsend and the reconciler after a restart pays it twice.   *)
CalmPaidOnce ==
  Calm => \A p, q \in Pays :
    chain[p] # "none" /\ chain[q] # "none" => p = q \/ {p, q} \cap ingested # {}

(* While the process lives a payment that locked the request ends the lock,   *)
(* also when the node cannot be reached.                                      *)
ProcessingEnds ==
  scenario.crashes = 0 /\ scenario.faults = 0 /\ request = "processing"
    ~> request # "processing"

(* In calm weather without restarts a payment that the chain executed ends    *)
(* with the request paid, unless its event is recorded before its hash.       *)
CalmExecutedIsPaid ==
  \A p \in Pays :
    Calm /\ ~scenario.unsends /\ scenario.crashes = 0 /\ chain[p] = "ok"
      ~> (request = "paid" /\ paidBy = p) \/ p \in ingested

=============================================================================
