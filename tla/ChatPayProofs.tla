----------------------------- MODULE ChatPayProofs -----------------------------
(* Proofs about ChatPay, for any number of payments, faults and restarts.     *)
EXTENDS ChatPay, TLAPS

LEMMA NoDocType ==
  NoDoc \in [tx : Pays \cup {Nobody},
             status : {"none", "pending", "success", "failed"},
             phase : {"idle", "loaded", "missing", "ok", "reverted", "settle"}]
  BY DEF NoDoc

\* A reconciler that is at work holds a record.
ReconHolds == recon.phase # "idle" => recon.tx \in Pays

Typed == TypeOK /\ ReconHolds

LEMMA TypedInit == Init => Typed
<1> SUFFICES ASSUME Init PROVE Typed
  OBVIOUS
<1>1. scenario \in Scenario
  BY ScenariosAssumption DEF Init
<1>2. 0 \in 0 .. scenario.faults /\ 0 \in 0 .. scenario.crashes
  BY <1>1 DEF Scenario
<1> QED
  BY <1>2, NoDocType DEF Init, Typed, TypeOK, ReconHolds, NoDoc

LEMMA FaultsType ==
  ASSUME TypeOK, scenario' = scenario, DbFault \/ dbFaults' = dbFaults
  PROVE  dbFaults' \in 0 .. scenario'.faults
<1>1. scenario.faults \in Nat
  BY ScenariosAssumption DEF TypeOK, Scenario
<1> QED
  BY <1>1 DEF TypeOK, DbFault

LEMMA MarkFailedType ==
  ASSUME TypeOK, NEW p \in Pays, MarkFailed(p), scenario' = scenario
  PROVE  /\ memStatus' \in [Pays -> {"none", "pending", "success", "failed"}]
         /\ status' \in [Pays -> {"none", "pending", "success", "failed"}]
         /\ stored' \subseteq Pays /\ tied' \subseteq Pays
         /\ unsaved' \subseteq Pays
         /\ dbFaults' \in 0 .. scenario'.faults
<1>1. DbFault \/ dbFaults' = dbFaults
  BY DEF MarkFailed, NotSaved
<1>2. /\ memStatus' \in [Pays -> {"none", "pending", "success", "failed"}]
      /\ status' \in [Pays -> {"none", "pending", "success", "failed"}]
      /\ stored' \subseteq Pays /\ tied' \subseteq Pays
      /\ unsaved' \subseteq Pays
  BY DEF MarkFailed, Saved, NotSaved, TypeOK
<1> QED
  BY <1>1, <1>2, FaultsType

LEMMA TypedNext == Typed /\ [Next]_vars => Typed'
<1> SUFFICES ASSUME Typed, [Next]_vars PROVE Typed'
  OBVIOUS
<1>0. TypeOK
  BY DEF Typed
<1> USE DEF Typed, TypeOK, ReconHolds, Goto, WaiterTo, ChainTo, Unlock, MarkPaid,
        requestVars, recordVars, boundVars
<1>1. ASSUME NEW p \in Pays, WalletTransfer(p) \/ Decide(p) PROVE Typed'
  BY <1>1 DEF WalletTransfer, Decide
<1>2. ASSUME NEW p \in Pays, Handler(p) PROVE Typed'
  <2>1. CASE LockRequest(p)
    BY <2>1 DEF LockRequest
  <2>2. CASE CreateRecord(p)
    BY <2>2 DEF CreateRecord, Records
  <2>3. CASE Broadcast(p)
    BY <2>3 DEF Broadcast
  <2>4. CASE SubmitFails(p)
    BY <2>4 DEF SubmitFails
  <2>5. CASE AdoptFound(p)
    BY <2>5, FaultsType DEF AdoptFound, Records
  <2>9. CASE AdoptNew(p)
    BY <2>9 DEF AdoptNew, Records
  <2>10. CASE StoreHash(p)
    BY <2>10, FaultsType DEF StoreHash
  <2>11. CASE NoRecord(p)
    BY <2>11, FaultsType DEF NoRecord
  <2>6. CASE StartWaiter(p)
    BY <2>6, FaultsType DEF StartWaiter
  <2>7. CASE CatchError(p)
    BY <2>7, MarkFailedType DEF CatchError
  <2>8. CASE UnlockRequest(p)
    BY <2>8, FaultsType DEF UnlockRequest
  <2> QED
    BY <1>2, <2>1, <2>2, <2>3, <2>4, <2>5, <2>6, <2>7, <2>8, <2>9, <2>10,
       <2>11
    DEF Handler
<1>3. ASSUME NEW p \in Pays, Waiter(p) PROVE Typed'
  <2>1. CASE ConfirmSuccess(p)
    <3>1. /\ memStatus' \in [Pays -> {"none", "pending", "success", "failed"}]
          /\ status' \in [Pays -> {"none", "pending", "success", "failed"}]
          /\ stored' \subseteq Pays /\ tied' \subseteq Pays
          /\ unsaved' \subseteq Pays /\ mined' \subseteq Pays
          /\ DbFault \/ dbFaults' = dbFaults
      BY <2>1 DEF ConfirmSuccess, Saved, NotSaved
    <3>2. waiter' \in [Pays -> {"off", "waiting", "succeeded", "failed"}]
      BY <2>1 DEF ConfirmSuccess
    <3> QED
      BY <2>1, <3>1, <3>2, FaultsType DEF ConfirmSuccess
  <2>2. CASE ConfirmReverted(p)
    BY <2>2, MarkFailedType DEF ConfirmReverted
  <2>3. CASE ConfirmUnknown(p)
    BY <2>3, FaultsType DEF ConfirmUnknown
  <2>4. CASE OnSuccess(p)
    BY <2>4, FaultsType DEF OnSuccess
  <2>5. CASE OnFailure(p)
    BY <2>5, FaultsType DEF OnFailure
  <2> QED
    BY <1>3, <2>1, <2>2, <2>3, <2>4, <2>5 DEF Waiter
<1>4. CASE Requester
  <2>1. CASE Cancel
    BY <2>1, FaultsType DEF Cancel
  <2>2. CASE ReadUnsend
    BY <2>2, FaultsType DEF ReadUnsend
  <2>3. CASE WriteUnsend
    <3>1. dbFaults' \in 0 .. scenario'.faults
      BY <2>3, FaultsType DEF WriteUnsend
    <3> QED
      BY <2>3, <3>1 DEF WriteUnsend
  <2>4. CASE DeleteMessage
    <3>1. dbFaults' \in 0 .. scenario'.faults /\ message' \in BOOLEAN
      BY <2>4, FaultsType DEF DeleteMessage
    <3>2. unsend' = "idle"
          /\ UNCHANGED <<scenario, requestVars, pc, recordVars, waiter, recon,
                         chain, crashes>>
      BY <2>4 DEF DeleteMessage
    <3> QED
      BY <3>1, <3>2
  <2> QED
    BY <1>4, <2>1, <2>2, <2>3, <2>4 DEF Requester
<1>5. ASSUME NEW p \in Pays, LoadRecord(p) PROVE Typed'
  BY <1>5 DEF LoadRecord, Recon
<1>6. ASSUME NEW p \in Pays, SyncEvent(p) \/ IngestEvent(p) PROVE Typed'
  BY <1>6 DEF SyncEvent, IngestEvent, Recon
<1>7. CASE FetchReceipt
  <2>1. recon.tx \in Pays
    BY <1>7 DEF FetchReceipt
  <2>2. recon' \in [tx : Pays \cup {Nobody},
          status : {"none", "pending", "success", "failed"},
          phase : {"idle", "loaded", "missing", "ok", "reverted", "settle"}]
    BY <1>7, <2>1, NoDocType DEF FetchReceipt, Recon
  <2>3. ReconHolds'
    BY <1>7, <2>1 DEF FetchReceipt, Recon, NoDoc
  <2> QED
    BY <1>7, <2>2, <2>3 DEF FetchReceipt
<1>8. CASE ApplyMissing
  BY <1>8, NoDocType DEF ApplyMissing, Recon, NoDoc
<1>9. CASE ApplyReceipt
  BY <1>9, NoDocType DEF ApplyReceipt, Recon, NoDoc
<1>10. CASE ApplyFails
  BY <1>10, NoDocType, FaultsType DEF ApplyFails, NoDoc
<1>11. CASE Settle
  BY <1>11, NoDocType, FaultsType DEF Settle, NoDoc
<1>12. CASE Crash
  <2>1. scenario.crashes \in Nat
    BY ScenariosAssumption DEF Scenario
  <2> QED
    BY <1>12, <2>1, NoDocType DEF Crash, NoDoc
<1>13. CASE UNCHANGED vars
  BY <1>13 DEF vars
<1> QED
  BY <1>1, <1>2, <1>3, <1>4, <1>5, <1>6, <1>7, <1>8, <1>9, <1>10, <1>11,
     <1>12, <1>13
  DEF Next, Reconciler

(* Every variable of ChatPay stays in its range, under every hazard.          *)
THEOREM TypeCorrect == Spec => []TypeOK
<1>1. Typed => TypeOK
  BY DEF Typed
<1> QED
  BY <1>1, TypedInit, TypedNext, PTL DEF Spec

-----------------------------------------------------------------------------
(* A paid request was paid *)

\* A handler that has not broadcast yet has nothing on the chain.
NotYetSent ==
  \A p \in Pays : chain[p] # "none" =>
    /\ pc[p] \notin {"idle", "created"}
    /\ ~scenario.linked => pc[p] # "locked"

\* Whoever is about to pay the request saw its payment executed.
PayersSawIt ==
  /\ \A p \in Pays : waiter[p] = "succeeded" => chain[p] = "ok"
  /\ recon.phase = "ok" \/ (recon.phase = "settle" /\ recon.status = "success")
       => chain[recon.tx] = "ok"
  /\ paidBy # Nobody => paidBy \in Pays /\ chain[paidBy] = "ok"

LEMMA PaidInit == Init => NotYetSent /\ PayersSawIt
  BY DEF Init, NotYetSent, PayersSawIt, NoDoc

\* Executed payments stay executed.
LEMMA NotYetSentNext ==
  ASSUME Typed, NotYetSent, [Next]_vars
  PROVE  NotYetSent' /\ \A p \in Pays : chain[p] = "ok" => chain'[p] = "ok"
<1> DEFINE Goal ==
      NotYetSent' /\ \A p \in Pays : chain[p] = "ok" => chain'[p] = "ok"
<1> USE DEF Typed, TypeOK, NotYetSent, Goto, ChainTo
<1>1. ASSUME UNCHANGED <<scenario, pc, chain>> PROVE Goal
  BY <1>1
<1>2. ASSUME NEW p \in Pays, WalletTransfer(p) \/ Decide(p) PROVE Goal
  BY <1>2 DEF WalletTransfer, Decide
<1>3. ASSUME NEW p \in Pays, Handler(p) PROVE Goal
  <2>1. CASE LockRequest(p)
    BY <2>1 DEF LockRequest, Start
  <2>2. CASE CreateRecord(p)
    BY <2>2 DEF CreateRecord
  <2>3. CASE Broadcast(p)
    BY <2>3 DEF Broadcast
  <2>4. CASE SubmitFails(p)
    BY <2>4 DEF SubmitFails
  <2>5. CASE AdoptFound(p) \/ AdoptNew(p) \/ StoreHash(p) \/ NoRecord(p)
    BY <2>5 DEF AdoptFound, AdoptNew, StoreHash, NoRecord
  <2>6. CASE StartWaiter(p) \/ CatchError(p) \/ UnlockRequest(p)
    BY <2>6 DEF StartWaiter, CatchError, UnlockRequest
  <2> QED
    BY <1>3, <2>1, <2>2, <2>3, <2>4, <2>5, <2>6 DEF Handler
<1>4. ASSUME NEW p \in Pays, Waiter(p) PROVE Goal
  BY <1>1, <1>4 DEF Waiter, ConfirmSuccess, ConfirmReverted, ConfirmUnknown,
    OnSuccess, OnFailure
<1>5. CASE Requester
  BY <1>1, <1>5 DEF Requester, Cancel, ReadUnsend, WriteUnsend, DeleteMessage
<1>6. CASE Reconciler
  BY <1>1, <1>6 DEF Reconciler, FetchReceipt, ApplyMissing, ApplyReceipt,
    ApplyFails, Settle, LoadRecord, SyncEvent, IngestEvent
<1>7. CASE Crash
  BY <1>7 DEF Crash
<1>8. CASE UNCHANGED vars
  BY <1>1, <1>8 DEF vars
<1> QED
  BY <1>2, <1>3, <1>4, <1>5, <1>6, <1>7, <1>8 DEF Next

LEMMA PayersSawItNext ==
  ASSUME Typed, PayersSawIt, [Next]_vars,
         \A p \in Pays : chain[p] = "ok" => chain'[p] = "ok"
  PROVE  PayersSawIt'
<1> USE DEF Typed, TypeOK, ReconHolds, PayersSawIt, WaiterTo, MarkPaid, Unlock,
        requestVars, Recon, NoDoc
<1>1. ASSUME UNCHANGED <<waiter, recon, paidBy>> PROVE PayersSawIt'
  BY <1>1
<1>2. ASSUME NEW p \in Pays, WalletTransfer(p) \/ Decide(p) PROVE PayersSawIt'
  BY <1>1, <1>2 DEF WalletTransfer, Decide
<1>3. ASSUME NEW p \in Pays, Handler(p) PROVE PayersSawIt'
  <2>1. CASE StartWaiter(p)
    BY <2>1 DEF StartWaiter
  <2> QED
    BY <1>1, <1>3, <2>1 DEF Handler, LockRequest, CreateRecord, NoRecord,
      Broadcast, SubmitFails, AdoptFound, AdoptNew, StoreHash, CatchError,
      UnlockRequest
<1>4. ASSUME NEW p \in Pays, Waiter(p) PROVE PayersSawIt'
  <2>1. CASE ConfirmSuccess(p)
    BY <2>1 DEF ConfirmSuccess
  <2>2. CASE ConfirmReverted(p) \/ ConfirmUnknown(p)
    BY <2>2 DEF ConfirmReverted, ConfirmUnknown
  <2>3. CASE OnSuccess(p)
    BY <2>3 DEF OnSuccess
  <2>4. CASE OnFailure(p)
    BY <2>4 DEF OnFailure
  <2> QED
    BY <1>4, <2>1, <2>2, <2>3, <2>4 DEF Waiter
<1>5. CASE Requester
  BY <1>1, <1>5 DEF Requester, Cancel, ReadUnsend, WriteUnsend, DeleteMessage
<1>6. CASE Reconciler
  <2>1. ASSUME NEW p \in Pays, LoadRecord(p) \/ SyncEvent(p) \/ IngestEvent(p)
        PROVE  PayersSawIt'
    BY <2>1 DEF LoadRecord, SyncEvent, IngestEvent
  <2>2. CASE FetchReceipt
    BY <2>2 DEF FetchReceipt
  <2>3. CASE ApplyMissing \/ ApplyFails
    BY <2>3 DEF ApplyMissing, ApplyFails
  <2>4. CASE ApplyReceipt
    BY <2>4 DEF ApplyReceipt
  <2>5. CASE Settle
    BY <2>5 DEF Settle
  <2> QED
    BY <1>6, <2>1, <2>2, <2>3, <2>4, <2>5 DEF Reconciler
<1>7. CASE Crash
  BY <1>7 DEF Crash
<1>8. CASE UNCHANGED vars
  BY <1>1, <1>8 DEF vars
<1> QED
  BY <1>2, <1>3, <1>4, <1>5, <1>6, <1>7, <1>8 DEF Next

(* Under every hazard a chat request that names a payment was paid by it on   *)
(* the chain: the waiter's onSuccess and the reconciler's settlement are the  *)
(* only writers of paidBy, and both saw a receipt.                            *)
THEOREM PaidRequestWasPaidHolds == Spec => []PaidRequestWasPaid
<1> DEFINE Inv == Typed /\ NotYetSent /\ PayersSawIt
<1>1. Init => Inv
  BY TypedInit, PaidInit
<1>2. Inv /\ [Next]_vars => Inv'
  BY TypedNext, NotYetSentNext, PayersSawItNext
<1>3. Inv => PaidRequestWasPaid
  BY DEF PayersSawIt, PaidRequestWasPaid
<1> QED
  BY <1>1, <1>2, <1>3, PTL DEF Spec

-----------------------------------------------------------------------------
(* Payments of one request in calm weather *)

\* p locked the request and has not let go of it: its handler or its waiter may
\* still unlock it, or it was sent and no event took its hash away.
Holds(p) ==
  \/ pc[p] \in {"locked", "created", "sent", "submitted", "catch", "unlock"}
  \/ waiter[p] # "off"
  \/ chain[p] # "none" /\ p \notin ingested

\* In calm weather the chain executes what it is given, and a confirmation
\* fails only where the index refuses its save.
FailsOnlyIngested ==
  /\ \A p \in Pays :
       /\ chain[p] # "reverted"
       /\ waiter[p] = "failed" => p \in ingested
       /\ waiter[p] # "off" => pc[p] = "done"
       /\ pc[p] \in {"idle", "locked", "created", "catch", "unlock"}
            => chain[p] = "none"
  /\ recon.phase # "reverted"
  /\ recon.phase = "settle" => recon.status = "success"

\* The payment that holds the request keeps it from being pending.
OneHolds ==
  /\ \A p, q \in Pays : Holds(p) /\ Holds(q) => p = q
  /\ request = "pending" => \A p \in Pays : ~Holds(p)

CalmInv == Calm => FailsOnlyIngested /\ OneHolds

LEMMA CalmInit == Init => CalmInv
  BY DEF Init, CalmInv, FailsOnlyIngested, OneHolds, Holds, NoDoc

LEMMA CalmBounds ==
  ASSUME TypeOK, Calm
  PROVE  ~DbFault /\ Hazards = {} /\ ~scenario.linked
  BY DEF TypeOK, Calm, DbFault

\* A step after which no payment holds a request it did not hold before, and
\* that unlocks no request.
LEMMA SameHolds ==
  ASSUME OneHolds, request' # "pending" \/ request' = request,
         \A p \in Pays : Holds(p)' => Holds(p)
  PROVE  OneHolds'
  BY DEF OneHolds

\* A step by which the payment that holds the request lets go of it.
LEMMA LetsGo ==
  ASSUME OneHolds, NEW p \in Pays, Holds(p), ~Holds(p)',
         \A q \in Pays \ {p} : Holds(q)' => Holds(q)
  PROVE  OneHolds'
<1>1. \A q \in Pays : ~Holds(q)'
  BY DEF OneHolds
<1> QED
  BY <1>1 DEF OneHolds

LEMMA ScenarioStays == [Next]_vars => scenario' = scenario
  BY DEF Next, vars, Handler, Waiter, Requester, Reconciler, WalletTransfer,
    LockRequest, CreateRecord, NoRecord, Broadcast, SubmitFails, AdoptFound,
    AdoptNew, StoreHash, StartWaiter, CatchError, UnlockRequest,
    ConfirmSuccess, ConfirmReverted, ConfirmUnknown, OnSuccess, OnFailure,
    Cancel, ReadUnsend, WriteUnsend, DeleteMessage, FetchReceipt,
    ApplyMissing, ApplyReceipt, ApplyFails, Settle, LoadRecord, SyncEvent,
    IngestEvent, Decide, Crash

LEMMA CalmNext ==
  ASSUME Typed, CalmInv, [Next]_vars
  PROVE  CalmInv'
<1> SUFFICES ASSUME Calm' PROVE (FailsOnlyIngested /\ OneHolds)'
  BY DEF CalmInv
<1>0. TypeOK /\ Calm
  BY ScenarioStays DEF Typed, Calm, Hazards
<1>00. FailsOnlyIngested /\ OneHolds /\ ~DbFault /\ Hazards = {}
       /\ ~scenario.linked
  BY <1>0, CalmBounds DEF CalmInv
<1> USE <1>0, <1>00 DEF Typed, TypeOK, FailsOnlyIngested, Goto, WaiterTo,
        ChainTo, Recon, requestVars, recordVars, boundVars
<1>1. ASSUME UNCHANGED <<pc, chain, waiter, ingested, recon>>,
             request' # "pending" \/ request' = request
      PROVE  (FailsOnlyIngested /\ OneHolds)'
  <2>1. \A p \in Pays : Holds(p)' => Holds(p)
    BY <1>1 DEF Holds
  <2> QED
    BY <1>1, <2>1, SameHolds
<1>2. ASSUME NEW p \in Pays, Handler(p)
      PROVE  (FailsOnlyIngested /\ OneHolds)'
  <2>1. CASE LockRequest(p)
    <3>1. FailsOnlyIngested'
      BY <2>1 DEF LockRequest, Start
    <3>2. CASE request = "pending"
      <4>1. \A q \in Pays : ~Holds(q)
        BY <3>2 DEF OneHolds
      <4>2. request' # "pending" /\ \A q \in Pays \ {p} : ~Holds(q)'
        BY <2>1, <3>2, <4>1 DEF LockRequest, Holds
      <4> QED
        BY <3>1, <4>2 DEF OneHolds
    <3>3. CASE request # "pending"
      <4>1. request' = request /\ \A q \in Pays : Holds(q)' => Holds(q)
        BY <2>1, <3>3 DEF LockRequest, Holds
      <4> QED
        BY <3>1, <4>1, SameHolds
    <3> QED
      BY <3>2, <3>3
  <2>2. CASE UnlockRequest(p)
    <3>1. chain[p] = "none" /\ pc[p] = "unlock" /\ waiter[p] = "off"
      BY <2>2 DEF UnlockRequest
    <3>2. pc' = [pc EXCEPT ![p] = "done"]
          /\ UNCHANGED <<chain, waiter, ingested, recon>>
      BY <2>2 DEF UnlockRequest
    <3>3. FailsOnlyIngested'
      BY <3>1, <3>2
    <3>4. OneHolds'
      BY <3>1, <3>2, LetsGo DEF Holds
    <3> QED
      BY <3>3, <3>4
  <2>3. CASE CreateRecord(p) \/ SubmitFails(p) \/ CatchError(p)
    <3>1. FailsOnlyIngested'
      BY <2>3 DEF CreateRecord, SubmitFails, CatchError
    <3>2. UNCHANGED request /\ \A q \in Pays : Holds(q)' => Holds(q)
      BY <2>3 DEF CreateRecord, SubmitFails, CatchError, Holds
    <3> QED
      BY <3>1, <3>2, SameHolds
  <2>4. CASE Broadcast(p) \/ StoreHash(p)
    <3>1. FailsOnlyIngested'
      BY <2>4 DEF Broadcast, StoreHash
    <3>2. UNCHANGED request /\ \A q \in Pays : Holds(q)' => Holds(q)
      BY <2>4 DEF Broadcast, StoreHash, Holds
    <3> QED
      BY <3>1, <3>2, SameHolds
  <2>5. CASE StartWaiter(p)
    <3>1. FailsOnlyIngested'
      BY <2>5 DEF StartWaiter
    <3>2. UNCHANGED request /\ \A q \in Pays : Holds(q)' => Holds(q)
      BY <2>5 DEF StartWaiter, Holds
    <3> QED
      BY <3>1, <3>2, SameHolds
  <2>6. ~AdoptFound(p) /\ ~AdoptNew(p) /\ ~NoRecord(p)
    BY DEF AdoptFound, AdoptNew, NoRecord
  <2> QED
    BY <1>2, <2>1, <2>2, <2>3, <2>4, <2>5, <2>6 DEF Handler
<1>3. ASSUME NEW p \in Pays, Waiter(p)
      PROVE  (FailsOnlyIngested /\ OneHolds)'
  <2>1. CASE ConfirmSuccess(p)
    <3>1. \/ waiter' = [waiter EXCEPT ![p] = "succeeded"]
          \/ p \in ingested /\ waiter' = [waiter EXCEPT ![p] = "failed"]
      BY <2>1 DEF ConfirmSuccess, NotSaved, Refused
    <3>2. waiter[p] = "waiting"
          /\ UNCHANGED <<request, pc, chain, ingested, recon>>
      BY <2>1 DEF ConfirmSuccess
    <3>3. FailsOnlyIngested'
      BY <3>1, <3>2
    <3>4. \A q \in Pays : Holds(q)' => Holds(q)
      BY <3>1, <3>2 DEF Holds
    <3> QED
      BY <3>2, <3>3, <3>4, SameHolds
  <2>2. CASE OnSuccess(p)
    <3>1. FailsOnlyIngested'
      BY <2>2 DEF OnSuccess
    <3>2. \A q \in Pays : Holds(q)' => Holds(q)
      BY <2>2 DEF OnSuccess, Holds
    <3>3. request' # "pending" \/ request' = request
      BY <2>2 DEF OnSuccess, MarkPaid
    <3> QED
      BY <3>1, <3>2, <3>3, SameHolds
  <2>3. CASE OnFailure(p)
    <3>1. waiter[p] = "failed" /\ waiter' = [waiter EXCEPT ![p] = "off"]
          /\ UNCHANGED <<pc, chain, ingested, recon>>
      BY <2>3 DEF OnFailure
    <3>2. p \in ingested /\ pc[p] = "done"
      BY <3>1
    <3>3. FailsOnlyIngested'
      BY <3>1
    <3>4. Holds(p) /\ ~Holds(p)' /\ \A q \in Pays \ {p} : Holds(q)' => Holds(q)
      BY <3>1, <3>2 DEF Holds
    <3> QED
      BY <3>3, <3>4, LetsGo
  <2>4. ~ConfirmReverted(p) /\ ~ConfirmUnknown(p)
    BY DEF ConfirmReverted, ConfirmUnknown
  <2> QED
    BY <1>3, <2>1, <2>2, <2>3, <2>4 DEF Waiter
<1>4. ASSUME NEW p \in Pays, Decide(p)
      PROVE  (FailsOnlyIngested /\ OneHolds)'
  <2>1. FailsOnlyIngested'
    BY <1>4 DEF Decide
  <2>2. UNCHANGED request /\ \A q \in Pays : Holds(q)' => Holds(q)
    BY <1>4 DEF Decide, Holds
  <2> QED
    BY <2>1, <2>2, SameHolds
<1>5. CASE Reconciler
  <2>1. ASSUME UNCHANGED <<pc, chain, waiter>>,
               ingested \subseteq ingested',
               request' # "pending" \/ request' = request,
               recon'.phase # "reverted",
               recon'.phase = "settle" => recon'.status = "success"
        PROVE  (FailsOnlyIngested /\ OneHolds)'
    <3>1. \A q \in Pays : Holds(q)' => Holds(q)
      BY <2>1 DEF Holds
    <3> QED
      BY <2>1, <3>1, SameHolds
  <2>2. ASSUME NEW p \in Pays, LoadRecord(p) \/ SyncEvent(p) \/ IngestEvent(p)
        PROVE  (FailsOnlyIngested /\ OneHolds)'
    BY <2>1, <2>2 DEF LoadRecord, SyncEvent, IngestEvent
  <2>3. CASE FetchReceipt
    BY <2>1, <2>3 DEF FetchReceipt, ReconHolds, NoDoc
  <2>4. CASE ApplyMissing
    BY <2>1, <2>4 DEF ApplyMissing, NoDoc
  <2>5. CASE ApplyReceipt
    BY <2>1, <2>5 DEF ApplyReceipt, NoDoc
  <2>6. CASE Settle
    BY <2>1, <2>6 DEF Settle, MarkPaid, NoDoc
  <2>7. ~ApplyFails
    BY DEF ApplyFails
  <2> QED
    BY <1>5, <2>2, <2>3, <2>4, <2>5, <2>6, <2>7 DEF Reconciler
<1>6. CASE Requester
  BY <1>1, <1>6 DEF Requester, Cancel, ReadUnsend, WriteUnsend, DeleteMessage
<1>7. CASE Crash
  <2>1. FailsOnlyIngested'
    BY <1>7 DEF Crash, NoDoc
  <2>2. UNCHANGED request /\ \A q \in Pays : Holds(q)' => Holds(q)
    BY <1>7 DEF Crash, Holds
  <2> QED
    BY <2>1, <2>2, SameHolds
<1>8. CASE UNCHANGED vars
  BY <1>1, <1>8 DEF vars
<1>9. ASSUME NEW p \in Pays, WalletTransfer(p)
      PROVE  (FailsOnlyIngested /\ OneHolds)'
  BY <1>9 DEF WalletTransfer
<1> QED
  BY <1>2, <1>3, <1>4, <1>5, <1>6, <1>7, <1>8, <1>9 DEF Next

(* In calm weather, for any number of calls of the pay route, restarts and    *)
(* unsends, two payments are sent only if the event of one was recorded       *)
(* before its hash: a payment whose hash is on record or still to be recorded *)
(* is never the reason for which the request is unlocked.                     *)
THEOREM CalmPaidOnceHolds == Spec => []CalmPaidOnce
<1> DEFINE Inv == Typed /\ CalmInv
<1>1. Init => Inv
  BY TypedInit, CalmInit
<1>2. Inv /\ [Next]_vars => Inv'
  BY TypedNext, CalmNext
<1>3. Inv => CalmPaidOnce
  BY DEF CalmInv, OneHolds, Holds, CalmPaidOnce
<1> QED
  BY <1>1, <1>2, <1>3, PTL DEF Spec

=============================================================================
