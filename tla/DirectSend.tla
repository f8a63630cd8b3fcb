------------------------------ MODULE DirectSend ------------------------------
(* POST /api/transactions/send from the moment a quote is looked up until the  *)
(* transfer record agrees with the chain: the request handler, the detached    *)
(* confirmation waiter, the user's cancel, the reconciliation pass, the event  *)
(* synchronisation and a restart of the process.  One action is the code       *)
(* between two awaits; a Mongoose document is a copy in memory (memStatus,     *)
(* memHash) of the stored record (status, txHash), whose save() writes only    *)
(* the paths that were modified.                                               *)
EXTENDS Naturals, FiniteSets

CONSTANTS
  Requests,       \* calls of POST /send
  Hashes,         \* hashes of chain transactions
  TransferKeys,   \* transferRequestKey values: sender, receiver, amount, asset
  Quotes, IdemKeys,
  None,
  Scenarios,      \* what the requests of one run ask for and what may go wrong
  MissThreshold   \* config.missThreshold

Scenario == [
  key    : [Requests -> TransferKeys],
  quote  : [Requests -> Quotes],
  idem   : [Requests -> IdemKeys \cup {None}],  \* Idempotency-Key, if any
  hash   : [Requests -> Hashes],   \* the hash it broadcasts, or its txHash
  wallet : SUBSET Requests,        \* carrying the hash a linked wallet sent
  hazards : SUBSET {"cancel", "lostReply", "slowChain"},
  faults  : Nat,                   \* bound: writes the database refuses
  crashes : Nat,                   \* bound: restarts of the process
  codes   : Nat]                   \* bound: payment codes issued

\* The server signs a fresh transaction for every broadcast of its own.
FreshHashes(s) ==
  \A r \in Requests \ s.wallet, q \in Requests :
     s.hash[r] = s.hash[q] => r = q

ASSUME ScenariosAssumption ==
  /\ \A s \in Scenarios : s \in Scenario /\ FreshHashes(s)
  /\ None \notin Hashes \cup IdemKeys

ASSUME BoundsAssumption == MissThreshold \in Nat \ {0}

VARIABLES
  scenario,   \* chosen at the start, never changed
  pc,         \* where the handler of each request stands
  seenCode,   \* req.user.paymentCode as authentication loaded it (0: none)
  code,       \* User.paymentCode in the database (0: none)
  issued,     \* codes issued so far; each is a new number
  quoteUsed,  \* quotes with consumedAt set
  idem,       \* IdempotencyRecord.state per key
  status,     \* Transaction.status per request, "none" before create
  txHash,     \* Transaction.txHash per request
  miss,       \* Transaction.reconciliationMissCount
  ingested,   \* hashes with a recordSource "blockchain" record
  memStatus,  \* status of the document the handler and the waiter share
  memHash,    \* its txHash
  unsaved,    \* requests whose in-memory status was never stored
  waiter,     \* the detached confirmation of each request
  recon,      \* the reconciler's document per request, loaded by find()
  chain,      \* the fate of each chain transaction
  recheck,    \* whether the pass takes up a settled record: "never" checked
              \* yet, "open" within recheckWindowMs, "over" past it
  event,      \* the Transfer event of each hash: "unread", "read" by the
              \* synchronisation, "passed" by the overlap of its cursor
  dbFaults, crashes

handlerVars == <<pc, seenCode, code, issued, quoteUsed, idem>>
recordVars  == <<status, txHash, miss, ingested>>
memVars     == <<memStatus, memHash, unsaved>>
syncVars    == <<recheck, event>>
boundVars   == <<dbFaults, crashes>>
vars == <<scenario, handlerVars, recordVars, memVars, waiter, recon, chain,
          syncVars, boundVars>>

KeyOf == scenario.key
QuoteOf == scenario.quote
IdemOf == scenario.idem
HashOf == scenario.hash
WalletSigned == scenario.wallet
Hazards == scenario.hazards
MaxDbFaults == scenario.faults
MaxCrashes == scenario.crashes
MaxCodes == scenario.codes

Statuses == {"pending", "success", "failed", "cancelled"}
Terminal == {"success", "failed", "cancelled"}
Early    == {"acquired", "checked", "verified", "consumed"}
Points   == {"idle", "quoted", "created", "submitted", "completing", "catch",
             "done"} \cup Early
Fates    == {"none", "mempool", "ok", "reverted", "dropped"}
Docs == [phase : {"idle", "loaded", "missing", "ok", "reverted"},
         status : Statuses \cup {"none"}, miss : 0 .. MissThreshold]
NotLoaded == [phase |-> "idle", status |-> "none", miss |-> 0]

Init ==
  /\ scenario \in Scenarios
  /\ pc = [r \in Requests |-> "idle"]
  /\ seenCode = [r \in Requests |-> 0]
  /\ code = 0 /\ issued = 0
  /\ quoteUsed = {}
  /\ idem = [k \in IdemKeys |-> "absent"]
  /\ status = [r \in Requests |-> "none"]
  /\ txHash = [r \in Requests |-> None]
  /\ miss = [r \in Requests |-> 0]
  /\ ingested = {}
  /\ memStatus = [r \in Requests |-> "none"]
  /\ memHash = [r \in Requests |-> None]
  /\ unsaved = {}
  /\ waiter = [r \in Requests |-> "off"]
  /\ recon = [r \in Requests |-> NotLoaded]
  /\ chain = [h \in Hashes |-> "none"]
  /\ recheck = [r \in Requests |-> "never"]
  /\ event = [h \in Hashes |-> "unread"]
  /\ dbFaults = 0 /\ crashes = 0

-----------------------------------------------------------------------------
(* The two unique indexes of the Transaction collection. *)

InFlight(k) == {r \in Requests : KeyOf[r] = k /\ status[r] = "pending"}

\* unique_in_flight_transfer_request lets r be stored as pending
KeyFree(r) == InFlight(KeyOf[r]) \subseteq {r}

\* unique_transaction_hash lets r be stored with hash h
HashFree(r, h) ==
  h = None \/ (h \notin ingested /\ \A q \in Requests \ {r} : txHash[q] # h)

DbFault == dbFaults < MaxDbFaults /\ dbFaults' = dbFaults + 1

-----------------------------------------------------------------------------
(* The user *)

\* A code is sent and stored, replacing the previous one.
SendPaymentCode ==
  /\ issued < MaxCodes
  /\ issued' = issued + 1
  /\ code' = issued + 1
  /\ UNCHANGED <<scenario, pc, seenCode, quoteUsed, idem, recordVars, memVars,
                 waiter, recon, chain, syncVars, boundVars>>

\* The linked wallet signs and broadcasts before the API is called.
WalletBroadcast(r) ==
  /\ r \in WalletSigned
  /\ chain[HashOf[r]] = "none"
  /\ chain' = [chain EXCEPT ![HashOf[r]] = "mempool"]
  /\ UNCHANGED <<scenario, handlerVars, recordVars, memVars, waiter, recon,
                 syncVars, boundVars>>

\* The guard of findOneAndUpdate repeats the checks made on the lean read.
Cancel(r) ==
  /\ "cancel" \in Hazards
  /\ status[r] = "pending" /\ txHash[r] = None
  /\ status' = [status EXCEPT ![r] = "cancelled"]
  /\ UNCHANGED <<scenario, handlerVars, txHash, miss, ingested, memVars,
                 waiter, recon, chain, syncVars, boundVars>>

-----------------------------------------------------------------------------
(* The handler, before the record exists *)

Goto(r, p) == pc' = [pc EXCEPT ![r] = p]

\* protect loads the user; the quote must exist and be unconsumed
Start(r) ==
  /\ pc[r] = "idle"
  /\ r \in WalletSigned => chain[HashOf[r]] # "none"
  /\ seenCode' = [seenCode EXCEPT ![r] = code]
  /\ Goto(r, IF QuoteOf[r] \in quoteUsed THEN "done" ELSE "quoted")
  /\ UNCHANGED <<scenario, code, issued, quoteUsed, idem, recordVars, memVars,
                 waiter, recon, chain, syncVars, boundVars>>

\* A replay or a 409 leaves the request; only the creator of the key goes on.
AcquireIdempotency(r) ==
  /\ pc[r] = "quoted"
  /\ \/ /\ IdemOf[r] = None
        /\ Goto(r, "acquired") /\ UNCHANGED idem
     \/ /\ IdemOf[r] # None /\ idem[IdemOf[r]] = "absent"
        /\ Goto(r, "acquired")
        /\ idem' = [idem EXCEPT ![IdemOf[r]] = "processing"]
     \/ /\ IdemOf[r] # None /\ idem[IdemOf[r]] # "absent"
        /\ Goto(r, "done") /\ UNCHANGED idem
  /\ UNCHANGED <<scenario, seenCode, code, issued, quoteUsed, recordVars,
                 memVars, waiter, recon, chain, syncVars, boundVars>>

CheckInFlight(r) ==
  /\ pc[r] = "acquired"
  /\ InFlight(KeyOf[r]) = {}
  /\ Goto(r, "checked")
  /\ UNCHANGED <<scenario, seenCode, code, issued, quoteUsed, idem, recordVars,
                 memVars, waiter, recon, chain, syncVars, boundVars>>

\* The code is compared with the user loaded at authentication, then removed.
ConsumePaymentCode(r) ==
  /\ pc[r] = "checked"
  /\ seenCode[r] # 0
  /\ code' = 0
  /\ Goto(r, "verified")
  /\ UNCHANGED <<scenario, seenCode, issued, quoteUsed, idem, recordVars,
                 memVars, waiter, recon, chain, syncVars, boundVars>>

\* Mutant of ConsumeQuote: an update without consumedAt: null in its filter.
ConsumeQuoteUnguarded(r) ==
  /\ pc[r] = "verified"
  /\ quoteUsed' = quoteUsed \cup {QuoteOf[r]}
  /\ Goto(r, "consumed")
  /\ UNCHANGED <<scenario, seenCode, code, issued, idem, recordVars, memVars,
                 waiter, recon, chain, syncVars, boundVars>>

ConsumeQuote(r) ==
  /\ pc[r] = "verified"
  /\ QuoteOf[r] \notin quoteUsed
  /\ quoteUsed' = quoteUsed \cup {QuoteOf[r]}
  /\ Goto(r, "consumed")
  /\ UNCHANGED <<scenario, seenCode, code, issued, idem, recordVars, memVars,
                 waiter, recon, chain, syncVars, boundVars>>

CreateRecord(r) ==
  /\ pc[r] = "consumed"
  /\ InFlight(KeyOf[r]) = {}
  /\ status' = [status EXCEPT ![r] = "pending"]
  /\ memStatus' = [memStatus EXCEPT ![r] = "pending"]
  /\ Goto(r, "created")
  /\ UNCHANGED <<scenario, seenCode, code, issued, quoteUsed, idem, txHash,
                 miss, ingested, memHash, unsaved, waiter, recon, chain,
                 syncVars, boundVars>>

\* releaseIdempotency; an error of its own is swallowed
Release(r) ==
  \/ /\ idem' = IF IdemOf[r] # None /\ idem[IdemOf[r]] = "processing"
                THEN [idem EXCEPT ![IdemOf[r]] = "absent"] ELSE idem
     /\ UNCHANGED dbFaults
  \/ IdemOf[r] # None /\ DbFault /\ UNCHANGED idem

\* Mutant of RefuseEarly: the catch block without its !txDoc condition.
RefuseAlways(r) ==
  /\ pc[r] \in Early \cup {"catch"}
  /\ Release(r)
  /\ Goto(r, "done")
  /\ UNCHANGED <<scenario, seenCode, code, issued, quoteUsed, recordVars,
                 memVars, waiter, recon, chain, syncVars, crashes>>

\* A refusal while txDoc is unset (balance, duplicate, code, quote, index):
\* the catch block releases the key so that the client may try again.
RefuseEarly(r) ==
  /\ pc[r] \in Early
  /\ Release(r)
  /\ Goto(r, "done")
  /\ UNCHANGED <<scenario, seenCode, code, issued, quoteUsed, recordVars,
                 memVars, waiter, recon, chain, syncVars, crashes>>

\* A code that has expired is removed too, and so is one stored since then.
RejectExpiredCode(r) ==
  /\ pc[r] = "checked" /\ seenCode[r] # 0
  /\ code' = 0
  /\ Release(r)
  /\ Goto(r, "done")
  /\ UNCHANGED <<scenario, seenCode, issued, quoteUsed, recordVars, memVars,
                 waiter, recon, chain, syncVars, crashes>>

-----------------------------------------------------------------------------
(* The handler, after the record exists *)

\* The quote update, the adoption of a wallet transaction, or the node's
\* preparation of the broadcast throws before anything is sent.
FailBeforeSubmit(r) ==
  /\ pc[r] = "created"
  /\ Goto(r, "catch")
  /\ UNCHANGED <<scenario, seenCode, code, issued, quoteUsed, idem, recordVars,
                 memVars, waiter, recon, chain, syncVars, boundVars>>

\* contract.transfer resolves, or the wallet's transaction is found and matches
Submit(r) ==
  /\ pc[r] = "created"
  /\ IF r \in WalletSigned
     THEN chain[HashOf[r]] # "none" /\ UNCHANGED chain
     ELSE chain' = [chain EXCEPT ![HashOf[r]] = "mempool"]
  /\ Goto(r, "submitted")
  /\ UNCHANGED <<scenario, seenCode, code, issued, quoteUsed, idem, recordVars,
                 memVars, waiter, recon, syncVars, boundVars>>

\* The node accepts the transaction but its answer is lost.
SubmitReplyLost(r) ==
  /\ "lostReply" \in Hazards
  /\ pc[r] = "created" /\ r \notin WalletSigned
  /\ chain' = [chain EXCEPT ![HashOf[r]] = "mempool"]
  /\ Goto(r, "catch")
  /\ UNCHANGED <<scenario, seenCode, code, issued, quoteUsed, idem, recordVars,
                 memVars, waiter, recon, syncVars, boundVars>>

StoreHash(r) ==
  /\ HashFree(r, HashOf[r])
  /\ txHash' = [txHash EXCEPT ![r] = HashOf[r]]
  /\ miss' = [miss EXCEPT ![r] = 0]

\* The first save is refused: updateOne writes the snapshot, status included,
\* unless it is refused as well.
RecoverSubmission(r) ==
  \/ /\ StoreHash(r) /\ KeyFree(r) /\ DbFault
     /\ status' = [status EXCEPT ![r] = memStatus[r]]
  \/ /\ \/ ~HashFree(r, HashOf[r]) /\ UNCHANGED dbFaults
        \/ dbFaults + 1 < MaxDbFaults /\ dbFaults' = dbFaults + 2
     /\ UNCHANGED <<status, txHash, miss>>

\* recordSubmission, then settleSubmission starts the waiter.  submitRemittance
\* swallows the rethrown error; the adoption path lets it reach the catch block.
RecordSubmission(r) ==
  /\ pc[r] = "submitted"
  /\ memHash' = [memHash EXCEPT ![r] = HashOf[r]]
  /\ \/ /\ StoreHash(r) /\ UNCHANGED <<status, dbFaults>>
        /\ Goto(r, "completing")
        /\ waiter' = [waiter EXCEPT ![r] = "waiting"]
     \/ /\ RecoverSubmission(r)
        /\ IF r \in WalletSigned
           THEN Goto(r, "catch") /\ UNCHANGED waiter
           ELSE /\ Goto(r, "completing")
                /\ waiter' = [waiter EXCEPT ![r] = "waiting"]
  /\ UNCHANGED <<scenario, seenCode, code, issued, quoteUsed, idem, ingested,
                 memStatus, unsaved, recon, chain, syncVars, crashes>>

CompleteIdempotency(r) ==
  /\ pc[r] = "completing"
  /\ \/ /\ idem' = IF IdemOf[r] = None THEN idem
                   ELSE [idem EXCEPT ![IdemOf[r]] = "completed"]
        /\ Goto(r, "done") /\ UNCHANGED dbFaults
     \/ IdemOf[r] # None /\ DbFault /\ Goto(r, "catch") /\ UNCHANGED idem
  /\ UNCHANGED <<scenario, seenCode, code, issued, quoteUsed, recordVars,
                 memVars, waiter, recon, chain, syncVars, crashes>>

\* blockchainSyncedAt is written: the window opens again, unless the record
\* was never checked.
Synced(r) ==
  recheck' = IF recheck[r] = "over" THEN [recheck EXCEPT ![r] = "open"]
             ELSE recheck

\* lastReconciledAt is written
Checked(r) ==
  recheck' = IF recheck[r] = "never" THEN [recheck EXCEPT ![r] = "open"]
             ELSE recheck

\* both are
Reopen(r) == recheck' = [recheck EXCEPT ![r] = "open"]

\* txDoc.save() after memory holds status s and hash h: applied, or refused by
\* an index or a fault and then kept as a modified path.
SaveDoc(r, s, h) ==
  /\ memStatus' = [memStatus EXCEPT ![r] = s]
  /\ memHash' = [memHash EXCEPT ![r] = h]
  /\ \/ /\ HashFree(r, h)
        /\ status' = [status EXCEPT ![r] = s]
        /\ txHash' = [txHash EXCEPT ![r] = IF h = None THEN @ ELSE h]
        /\ unsaved' = unsaved \ {r} /\ Synced(r)
        /\ UNCHANGED dbFaults
     \/ /\ \/ ~HashFree(r, h) /\ UNCHANGED dbFaults
           \/ DbFault
        /\ unsaved' = unsaved \cup {r}
        /\ UNCHANGED <<status, txHash, recheck>>

\* The catch block: a document that memory shows pending is marked failed.
CatchError(r) ==
  /\ pc[r] = "catch"
  /\ Goto(r, "done")
  /\ IF memStatus[r] = "pending"
     THEN SaveDoc(r, "failed", memHash[r])
     ELSE UNCHANGED <<status, txHash, memVars, recheck, dbFaults>>
  /\ UNCHANGED <<scenario, seenCode, code, issued, quoteUsed, idem, miss,
                 ingested, waiter, recon, chain, event, crashes>>

-----------------------------------------------------------------------------
(* The detached waiter of settleTransactionAfterSubmission *)

StopWaiting(r) == waiter' = [waiter EXCEPT ![r] = "done"]

ConfirmSuccess(r) ==
  /\ waiter[r] = "waiting" /\ chain[HashOf[r]] = "ok"
  /\ StopWaiting(r)
  /\ SaveDoc(r, "success", HashOf[r])
  /\ miss' = IF status'[r] = "success" THEN [miss EXCEPT ![r] = 0] ELSE miss
  /\ UNCHANGED <<scenario, handlerVars, ingested, recon, chain, event,
                 crashes>>

\* tx.wait() throws for a reverted transaction
ConfirmReverted(r) ==
  /\ waiter[r] = "waiting" /\ chain[HashOf[r]] = "reverted"
  /\ StopWaiting(r)
  /\ IF memStatus[r] = "pending"
     THEN SaveDoc(r, "failed", HashOf[r])
     ELSE UNCHANGED <<status, txHash, memVars, recheck, dbFaults>>
  /\ UNCHANGED <<scenario, handlerVars, miss, ingested, recon, chain, event,
                 crashes>>

\* The node cannot be reached: preserveTransactionForRecovery saves the
\* document, which stores whatever earlier saves left behind.
ConfirmUnknown(r) ==
  /\ waiter[r] = "waiting"
  /\ StopWaiting(r)
  /\ \/ /\ HashFree(r, memHash[r])
        /\ txHash' = [txHash EXCEPT ![r] = memHash[r]]
        /\ status' = IF r \in unsaved
                     THEN [status EXCEPT ![r] = memStatus[r]] ELSE status
        /\ unsaved' = unsaved \ {r}
        /\ IF r \in unsaved THEN Reopen(r) ELSE Checked(r)
        /\ UNCHANGED dbFaults
     \/ /\ \/ ~HashFree(r, memHash[r]) /\ UNCHANGED dbFaults
           \/ DbFault
        /\ UNCHANGED <<status, txHash, unsaved, recheck>>
  /\ UNCHANGED <<scenario, handlerVars, miss, ingested, memStatus, memHash,
                 recon, chain, event, crashes>>

-----------------------------------------------------------------------------
(* Reconciliation: find() loads the batch, then the documents are taken one    *)
(* after the other, a receipt lookup and a save each.                          *)

\* Mutant of Eligible: the pass takes up pending records only.
EligiblePendingOnly ==
  {r \in Requests : txHash[r] # None /\ status[r] = "pending"}

Eligible ==
  {r \in Requests :
     /\ txHash[r] # None
     /\ \/ status[r] = "pending"
        \/ status[r] \in {"success", "failed"} /\ recheck[r] # "over"}

Idle == \A r \in Requests : recon[r].phase = "idle"
Fetched == {r \in Requests : recon[r].phase \in {"missing", "ok", "reverted"}}

LoadBatch ==
  /\ Idle /\ Eligible # {}
  /\ recon' = [r \in Requests |->
       IF r \in Eligible
       THEN [phase |-> "loaded", status |-> status[r], miss |-> miss[r]]
       ELSE NotLoaded]
  /\ UNCHANGED <<scenario, handlerVars, recordVars, memVars, waiter, chain,
                 syncVars, boundVars>>

Receipt(h) == IF chain[h] \in {"ok", "reverted"} THEN chain[h] ELSE "missing"

FetchReceipt(r) ==
  /\ recon[r].phase = "loaded" /\ Fetched = {}
  /\ recon' = [recon EXCEPT ![r].phase = Receipt(txHash[r])]
  /\ UNCHANGED <<scenario, handlerVars, recordVars, memVars, waiter, chain,
                 syncVars, boundVars>>

\* Mutant of FetchFails: an RPC failure reopens the record.
FetchFailsReopens(r) ==
  /\ recon[r].phase = "loaded" /\ Fetched = {}
  /\ status' = IF KeyFree(r) THEN [status EXCEPT ![r] = "pending"] ELSE status
  /\ Checked(r)
  /\ recon' = [recon EXCEPT ![r] = NotLoaded]
  /\ UNCHANGED <<scenario, handlerVars, txHash, miss, ingested, memVars,
                 waiter, chain, event, boundVars>>

\* An RPC failure leaves the status alone; an error of the save is swallowed.
FetchFails(r) ==
  /\ recon[r].phase = "loaded" /\ Fetched = {}
  /\ \/ Checked(r) /\ UNCHANGED dbFaults
     \/ DbFault /\ UNCHANGED recheck
  /\ recon' = [recon EXCEPT ![r] = NotLoaded]
  /\ UNCHANGED <<scenario, handlerVars, recordVars, memVars, waiter, chain,
                 event, crashes>>

\* Mutant of ApplyMissing: a missing receipt fails the record at once.
ApplyMissingFails(r) ==
  /\ recon[r].phase = "missing"
  /\ miss' = [miss EXCEPT ![r] = 1]
  /\ status' = [status EXCEPT ![r] = "failed"]
  /\ Reopen(r)
  /\ recon' = [recon EXCEPT ![r] = NotLoaded]
  /\ UNCHANGED <<scenario, handlerVars, txHash, ingested, memVars, waiter,
                 chain, event, boundVars>>

\* handleMissingReceipt; the pending timeout has run out or not
ApplyMissing(r) ==
  LET m == IF recon[r].miss = MissThreshold THEN MissThreshold
           ELSE recon[r].miss + 1
  IN /\ recon[r].phase = "missing"
     /\ miss' = [miss EXCEPT ![r] = m]
     /\ \/ UNCHANGED status /\ Checked(r)
        \/ /\ "slowChain" \in Hazards
           /\ m = MissThreshold /\ recon[r].status = "pending"
           /\ status' = [status EXCEPT ![r] = "failed"] /\ Reopen(r)
     /\ recon' = [recon EXCEPT ![r] = NotLoaded]
     /\ UNCHANGED <<scenario, handlerVars, txHash, ingested, memVars, waiter,
                    chain, event, boundVars>>

\* Mutant of ApplyReceipt: any receipt counts as a success.
ApplyReceiptAnyStatus(r) ==
  /\ recon[r].phase \in {"ok", "reverted"}
  /\ status' = [status EXCEPT ![r] = "success"]
  /\ miss' = [miss EXCEPT ![r] = 0]
  /\ Reopen(r)
  /\ recon' = [recon EXCEPT ![r] = NotLoaded]
  /\ UNCHANGED <<scenario, handlerVars, txHash, ingested, memVars, waiter,
                 chain, event, boundVars>>

\* A status that already agrees with the receipt is not a modified path; the
\* block number may still be corrected.
ApplyReceipt(r) ==
  LET result == IF recon[r].phase = "ok" THEN "success" ELSE "failed"
  IN /\ recon[r].phase \in {"ok", "reverted"}
     /\ \/ /\ recon[r].status = result
           /\ Checked(r) \/ Reopen(r)
           /\ UNCHANGED status
        \/ /\ recon[r].status # result
           /\ status' = [status EXCEPT ![r] = result] /\ Reopen(r)
     /\ miss' = [miss EXCEPT ![r] = 0]
     /\ recon' = [recon EXCEPT ![r] = NotLoaded]
     /\ UNCHANGED <<scenario, handlerVars, txHash, ingested, memVars, waiter,
                    chain, event, boundVars>>

\* A save throws: the loop sets the document back to pending and saves again,
\* which the index on transfers in flight may refuse.
ApplyFails(r) ==
  /\ r \in Fetched /\ DbFault
  /\ \/ /\ recon[r].status = "pending"
        /\ Checked(r) \/ Reopen(r)
        /\ UNCHANGED status
     \/ /\ recon[r].status # "pending" /\ KeyFree(r)
        /\ Checked(r) \/ Reopen(r)
        /\ status' = [status EXCEPT ![r] = "pending"]
     \/ /\ recon[r].status # "pending" /\ ~KeyFree(r)
        /\ UNCHANGED <<status, recheck>>
  /\ recon' = [recon EXCEPT ![r] = NotLoaded]
  /\ UNCHANGED <<scenario, handlerVars, txHash, miss, ingested, memVars,
                 waiter, chain, event, crashes>>

\* The last synchronisation of r falls out of recheckWindowMs.
Age(r) ==
  /\ status[r] \in {"success", "failed"} /\ recheck[r] = "open"
  /\ recheck' = [recheck EXCEPT ![r] = "over"]
  /\ UNCHANGED <<scenario, handlerVars, recordVars, memVars, waiter, recon,
                 chain, event, boundVars>>

-----------------------------------------------------------------------------
(* Event synchronisation follows the loop: a Transfer event confirms the      *)
(* record that holds its hash or, when there is none, becomes a record of its  *)
(* own.  The cursor is written after the events of a range; only its overlap   *)
(* is read again.                                                              *)

IngestEvent(h) ==
  LET Held == {r \in Requests : txHash[r] = h}
  IN /\ Idle /\ chain[h] = "ok" /\ event[h] # "passed"
     /\ status' = [r \in Requests |->
                     IF r \in Held THEN "success" ELSE status[r]]
     /\ miss' = [r \in Requests |-> IF r \in Held THEN 0 ELSE miss[r]]
     /\ recheck' = [r \in Requests |->
                      IF r \in Held THEN "open" ELSE recheck[r]]
     /\ ingested' = IF Held = {} THEN ingested \cup {h} ELSE ingested
     /\ event' = [event EXCEPT ![h] = "read"]
     /\ UNCHANGED <<scenario, handlerVars, txHash, memVars, waiter, recon,
                    chain, boundVars>>

\* The chain has grown past eventReorgLookbackBlocks since h was read.
PassEvent(h) ==
  /\ event[h] = "read"
  /\ event' = [event EXCEPT ![h] = "passed"]
  /\ UNCHANGED <<scenario, handlerVars, recordVars, memVars, waiter, recon,
                 chain, recheck, boundVars>>

-----------------------------------------------------------------------------
(* The chain and the process *)

Decide(h) ==
  /\ chain[h] = "mempool"
  /\ \E fate \in {"ok", "reverted", "dropped"} :
       chain' = [chain EXCEPT ![h] = fate]
  /\ UNCHANGED <<scenario, handlerVars, recordVars, memVars, waiter, recon,
                 syncVars, boundVars>>

\* A restart loses every handler, waiter and document; the records remain.
Crash ==
  /\ crashes < MaxCrashes /\ crashes' = crashes + 1
  /\ pc' = [r \in Requests |-> IF pc[r] = "idle" THEN "idle" ELSE "done"]
  /\ waiter' = [r \in Requests |-> "off"]
  /\ recon' = [r \in Requests |-> NotLoaded]
  /\ UNCHANGED <<scenario, seenCode, code, issued, quoteUsed, idem, recordVars,
                 memVars, chain, recheck, event, dbFaults>>

-----------------------------------------------------------------------------
Handler(r) ==
  \/ Start(r) \/ AcquireIdempotency(r) \/ CheckInFlight(r)
  \/ ConsumePaymentCode(r) \/ ConsumeQuote(r) \/ CreateRecord(r)
  \/ RefuseEarly(r) \/ RejectExpiredCode(r) \/ FailBeforeSubmit(r)
  \/ Submit(r) \/ SubmitReplyLost(r) \/ RecordSubmission(r)
  \/ CompleteIdempotency(r) \/ CatchError(r)

Waiter(r) == ConfirmSuccess(r) \/ ConfirmReverted(r) \/ ConfirmUnknown(r)

Reconcile(r) ==
  \/ FetchReceipt(r) \/ FetchFails(r)
  \/ ApplyMissing(r) \/ ApplyReceipt(r) \/ ApplyFails(r)

Next ==
  \/ SendPaymentCode \/ LoadBatch \/ Crash
  \/ \E r \in Requests : WalletBroadcast(r) \/ Cancel(r) \/ Handler(r)
                        \/ Waiter(r) \/ Reconcile(r) \/ Age(r)
  \/ \E h \in Hashes : IngestEvent(h) \/ PassEvent(h) \/ Decide(h)

Spec == Init /\ [][Next]_vars

\* setInterval repeats the reconciliation pass, and the node and the database
\* answer again and again however often they fail in between.  Only a first
\* reading of an event is certain: the overlap ends sooner or later.
FairSpec ==
  /\ Spec
  /\ SF_vars(LoadBatch)
  /\ \A r \in Requests : SF_vars(FetchReceipt(r))
  /\ WF_vars(\E r \in Requests : ApplyMissing(r) \/ ApplyReceipt(r))
  /\ SF_vars(\E h \in Hashes : event[h] = "unread" /\ IngestEvent(h))

-----------------------------------------------------------------------------
(* Every variable stays in its range. *)
TypeOK ==
  /\ scenario \in Scenarios
  /\ pc \in [Requests -> Points]
  /\ seenCode \in [Requests -> 0 .. MaxCodes]
  /\ code \in 0 .. MaxCodes /\ issued \in 0 .. MaxCodes
  /\ quoteUsed \subseteq Quotes
  /\ idem \in [IdemKeys -> {"absent", "processing", "completed"}]
  /\ status \in [Requests -> Statuses \cup {"none"}]
  /\ txHash \in [Requests -> Hashes \cup {None}]
  /\ miss \in [Requests -> 0 .. MissThreshold]
  /\ ingested \subseteq Hashes
  /\ memStatus \in [Requests -> Statuses \cup {"none"}]
  /\ memHash \in [Requests -> Hashes \cup {None}]
  /\ unsaved \subseteq Requests
  /\ waiter \in [Requests -> {"off", "waiting", "done"}]
  /\ recon \in [Requests -> Docs]
  /\ chain \in [Hashes -> Fates]
  /\ recheck \in [Requests -> {"never", "open", "over"}]
  /\ event \in [Hashes -> {"unread", "read", "passed"}]
  /\ dbFaults \in 0 .. MaxDbFaults /\ crashes \in 0 .. MaxCrashes

Broadcast(r) == r \notin WalletSigned /\ chain[HashOf[r]] # "none"

(* Whatever the database, the node or a restart do, the server broadcasts at   *)
(* most one transfer under one Idempotency-Key: the key is released only while *)
(* no record exists (transactionRoutes.js, the catch block of /send).          *)
OneBroadcastPerIdempotencyKey ==
  \A r, q \in Requests :
     (IdemOf[r] = IdemOf[q] /\ IdemOf[r] # None /\ Broadcast(r) /\ Broadcast(q))
       => r = q

(* A quote backs at most one transfer record, whichever requests race for it.  *)
QuoteBacksOneRecord ==
  \A r, q \in Requests :
     (QuoteOf[r] = QuoteOf[q] /\ status[r] # "none" /\ status[q] # "none")
       => r = q

(* A record says success only of a transaction the chain executed, although    *)
(* the waiter, the reconciler and the event synchronisation all write it.      *)
SuccessIsOnChain ==
  \A r \in Requests :
     status[r] = "success" => txHash[r] # None /\ chain[txHash[r]] = "ok"

(* A failed record with a hash is one whose transaction will not execute.      *)
FailedIsNotExecuted ==
  \A r \in Requests :
     status[r] = "failed" /\ txHash[r] # None => chain[txHash[r]] # "ok"

\* No user cancels, no write is refused, no answer is lost and no pending
\* timeout runs out; the process may restart and the node be unreachable.
Calm == Hazards = {} /\ MaxDbFaults = 0

(* A reconciliation document loaded before the waiter's answer, an unreachable *)
(* node or a restart makes no executed transfer a failed one.                  *)
CalmFailedIsNotExecuted == Calm => FailedIsNotExecuted

(* Nor is a success that one writer stored taken back by another.              *)
CalmSuccessIsFinal ==
  [][\A r \in Requests :
       Calm /\ status[r] = "success" => status'[r] = "success"]_vars

\* Nothing the server does by itself looks at the record again: its event has
\* been read and the pass does not select it.
LeftFailed(r) ==
  event[HashOf[r]] # "unread" /\ status[r] = "failed" /\ recheck[r] = "over"

(* A transfer whose hash is on record and which the chain executed ends as a   *)
(* success, after any cancel, restart, refused write or unreachable node,      *)
(* unless its record was stored as failed after its event was read and never   *)
(* looked up with success within recheckWindowMs.                              *)
RecordedTransferSettles ==
  \A r \in Requests :
     (txHash[r] # None /\ chain[HashOf[r]] = "ok")
       ~> (status[r] = "success" \/ LeftFailed(r))

=============================================================================
