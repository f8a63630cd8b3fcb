---------------------------- MODULE DirectSendProofs ----------------------------
(* Proofs about DirectSend, for any set of requests, keys, quotes and hashes   *)
(* and any number of faults and restarts.                                      *)
EXTENDS DirectSend, TLAPS

USE DEF handlerVars, recordVars, memVars, syncVars, boundVars, Goto, KeyOf,
        QuoteOf, IdemOf, HashOf, WalletSigned, Hazards, MaxDbFaults, MaxCrashes,
        MaxCodes

LEMMA ScenarioType ==
  ASSUME NEW s \in Scenarios
  PROVE  /\ s.key \in [Requests -> TransferKeys]
         /\ s.quote \in [Requests -> Quotes]
         /\ s.idem \in [Requests -> IdemKeys \cup {None}]
         /\ s.hash \in [Requests -> Hashes]
         /\ s.faults \in Nat /\ s.crashes \in Nat /\ s.codes \in Nat
         /\ FreshHashes(s)
  BY ScenariosAssumption DEF Scenario

LEMMA NoneIsNew == None \notin Hashes \cup IdemKeys
  BY ScenariosAssumption

LEMMA ExceptType ==
  ASSUME NEW S, NEW T, NEW f \in [S -> T], NEW a \in S, NEW b \in T
  PROVE  [f EXCEPT ![a] = b] \in [S -> T]
  OBVIOUS

\* The reconciler's document as FetchReceipt leaves it.
LEMMA SetPhase ==
  ASSUME NEW d \in Docs, NEW p \in {"missing", "ok", "reverted"}
  PROVE  [d EXCEPT !.phase = p] \in Docs
  BY DEF Docs

\* handleMissingReceipt keeps the miss count within its threshold.
LEMMA CountMiss ==
  ASSUME NEW n \in 0 .. MissThreshold
  PROVE  (IF n = MissThreshold THEN MissThreshold ELSE n + 1)
           \in 0 .. MissThreshold
  BY BoundsAssumption

LEMMA TypeInit == Init => TypeOK
  BY ScenarioType, BoundsAssumption
  DEF Init, TypeOK, Points, Early, Statuses, Fates, NotLoaded, Docs

\* What the writers of a handler's document leave in their ranges.
RecordType ==
  /\ scenario \in Scenarios
  /\ status \in [Requests -> Statuses \cup {"none"}]
  /\ txHash \in [Requests -> Hashes \cup {None}]
  /\ memStatus \in [Requests -> Statuses \cup {"none"}]
  /\ memHash \in [Requests -> Hashes \cup {None}]
  /\ unsaved \subseteq Requests
  /\ dbFaults \in 0 .. MaxDbFaults

LEMMA SaveDocType ==
  ASSUME RecordType, NEW r \in Requests, NEW s \in Statuses,
         NEW h \in Hashes \cup {None}, SaveDoc(r, s, h), UNCHANGED scenario
  PROVE  RecordType'
  BY ScenarioType DEF RecordType, SaveDoc, DbFault, Statuses

\* What the reconciler keeps for its next passes.
SyncType ==
  /\ recheck \in [Requests -> {"never", "open", "over"}]
  /\ event \in [Hashes -> {"unread", "read", "passed"}]

LEMMA SyncTypeNext == SyncType /\ [Next]_vars => SyncType'
<1> SUFFICES ASSUME SyncType, [Next]_vars PROVE SyncType'
  OBVIOUS
<1> USE DEF SyncType, Checked, Reopen, Synced
<1>1. CASE SendPaymentCode \/ LoadBatch \/ Crash
  BY <1>1 DEF SendPaymentCode, LoadBatch, Crash
<1>2. ASSUME NEW r \in Requests, WalletBroadcast(r) \/ Cancel(r) \/ Age(r)
      PROVE  SyncType'
  BY <1>2 DEF WalletBroadcast, Cancel, Age
<1>3. ASSUME NEW r \in Requests, Handler(r) PROVE SyncType'
  <2>1. CASE CatchError(r)
    BY <2>1 DEF CatchError, SaveDoc
  <2>2. CASE ~CatchError(r)
    BY <1>3, <2>2 DEF Handler, Start, AcquireIdempotency, CheckInFlight,
       ConsumePaymentCode, ConsumeQuote, CreateRecord, RefuseEarly,
       RejectExpiredCode, FailBeforeSubmit, Submit, SubmitReplyLost,
       RecordSubmission, CompleteIdempotency
  <2> QED
    BY <2>1, <2>2
<1>4. ASSUME NEW r \in Requests, Waiter(r) PROVE SyncType'
  BY <1>4 DEF Waiter, ConfirmSuccess, ConfirmReverted, ConfirmUnknown, SaveDoc
<1>5. ASSUME NEW r \in Requests, Reconcile(r) PROVE SyncType'
  <2>1. CASE FetchReceipt(r) \/ FetchFails(r)
    BY <2>1 DEF FetchReceipt, FetchFails
  <2>2. CASE ApplyMissing(r)
    BY <2>2 DEF ApplyMissing
  <2>3. CASE ApplyReceipt(r)
    BY <2>3 DEF ApplyReceipt
  <2>4. CASE ApplyFails(r)
    BY <2>4 DEF ApplyFails
  <2> QED
    BY <1>5, <2>1, <2>2, <2>3, <2>4 DEF Reconcile
<1>6. ASSUME NEW h \in Hashes, IngestEvent(h) \/ PassEvent(h) \/ Decide(h)
      PROVE  SyncType'
  BY <1>6 DEF IngestEvent, PassEvent, Decide
<1>7. CASE UNCHANGED vars
  BY <1>7 DEF vars
<1> QED
  BY <1>1, <1>2, <1>3, <1>4, <1>5, <1>6, <1>7 DEF Next

LEMMA TypeNext == TypeOK /\ [Next]_vars => TypeOK'
<1> SUFFICES ASSUME TypeOK, [Next]_vars PROVE TypeOK'
  OBVIOUS
<1>0. SyncType'
  BY SyncTypeNext DEF TypeOK, SyncType
<1> USE <1>0, ScenarioType, BoundsAssumption
  DEF TypeOK, SyncType, Points, Early, Statuses, Fates, NotLoaded
<1>1. CASE SendPaymentCode
  BY <1>1 DEF SendPaymentCode
<1>2. CASE LoadBatch
  BY <1>2 DEF LoadBatch, Eligible, Docs
<1>3. CASE Crash
  BY <1>3 DEF Crash, Docs
<1>4. ASSUME NEW r \in Requests, WalletBroadcast(r) PROVE TypeOK'
  BY <1>4 DEF WalletBroadcast
<1>5. ASSUME NEW r \in Requests, Cancel(r) \/ Age(r) PROVE TypeOK'
  BY <1>5 DEF Cancel, Age
<1>6. ASSUME NEW r \in Requests, Handler(r) PROVE TypeOK'
  <2>1. CASE Start(r)
    BY <2>1 DEF Start
  <2>2. CASE AcquireIdempotency(r)
    BY <2>2 DEF AcquireIdempotency
  <2>3. CASE CheckInFlight(r)
    BY <2>3 DEF CheckInFlight
  <2>4. CASE ConsumePaymentCode(r)
    BY <2>4 DEF ConsumePaymentCode
  <2>5. CASE ConsumeQuote(r)
    BY <2>5 DEF ConsumeQuote
  <2>6. CASE CreateRecord(r)
    BY <2>6 DEF CreateRecord
  <2>7. CASE RefuseEarly(r)
    BY <2>7 DEF RefuseEarly, Release, DbFault
  <2>8. CASE RejectExpiredCode(r)
    BY <2>8 DEF RejectExpiredCode, Release, DbFault
  <2>9. CASE FailBeforeSubmit(r)
    BY <2>9 DEF FailBeforeSubmit
  <2>10. CASE Submit(r)
    BY <2>10 DEF Submit
  <2>11. CASE SubmitReplyLost(r)
    BY <2>11 DEF SubmitReplyLost
  <2>12. CASE RecordSubmission(r)
    <3>1. /\ HashOf[r] \in Hashes
          /\ memStatus[r] \in Statuses \cup {"none"}
      OBVIOUS
    <3>2. pc' \in [Requests -> Points]
      BY <2>12 DEF RecordSubmission
    <3>3. waiter' \in [Requests -> {"off", "waiting", "done"}]
      BY <2>12 DEF RecordSubmission
    <3>4. memHash' \in [Requests -> Hashes \cup {None}]
      BY <2>12, <3>1 DEF RecordSubmission
    <3>5. /\ txHash' \in [Requests -> Hashes \cup {None}]
          /\ miss' \in [Requests -> 0 .. MissThreshold]
      <4>1. CASE StoreHash(r)
        BY <3>1, <4>1 DEF StoreHash
      <4>2. CASE UNCHANGED <<txHash, miss>>
        BY <4>2
      <4> QED
        BY <2>12, <4>1, <4>2 DEF RecordSubmission, RecoverSubmission
    <3>6. status' \in [Requests -> Statuses \cup {"none"}]
      BY <2>12, <3>1 DEF RecordSubmission, RecoverSubmission
    <3>7. dbFaults' \in 0 .. MaxDbFaults
      BY <2>12 DEF RecordSubmission, RecoverSubmission, DbFault
    <3> QED
      BY <2>12, <3>2, <3>3, <3>4, <3>5, <3>6, <3>7 DEF RecordSubmission
  <2>13. CASE CompleteIdempotency(r)
    <3>1. idem' \in [IdemKeys -> {"absent", "processing", "completed"}]
      BY <2>13 DEF CompleteIdempotency
    <3>2. dbFaults' \in 0 .. MaxDbFaults
      BY <2>13 DEF CompleteIdempotency, DbFault
    <3> QED
      BY <2>13, <3>1, <3>2 DEF CompleteIdempotency
  <2>14. CASE CatchError(r)
    <3>1. RecordType
      BY DEF RecordType
    <3>2. CASE memStatus[r] = "pending"
      <4>1. SaveDoc(r, "failed", memHash[r])
        BY <2>14, <3>2 DEF CatchError
      <4>2. RecordType'
        BY <2>14, <3>1, <4>1, SaveDocType DEF CatchError
      <4> QED
        BY <2>14, <4>2 DEF CatchError, RecordType
    <3>3. CASE memStatus[r] # "pending"
      BY <2>14, <3>3 DEF CatchError
    <3> QED
      BY <3>2, <3>3
  <2> QED
    BY <1>6, <2>1, <2>2, <2>3, <2>4, <2>5, <2>6, <2>7, <2>8, <2>9, <2>10,
       <2>11, <2>12, <2>13, <2>14 DEF Handler
<1>7. ASSUME NEW r \in Requests, Waiter(r) PROVE TypeOK'
  <2>1. CASE ConfirmSuccess(r)
    <3>1. RecordType /\ HashOf[r] \in Hashes
      BY DEF RecordType
    <3>2. RecordType'
      BY <2>1, <3>1, SaveDocType DEF ConfirmSuccess
    <3>3. miss' \in [Requests -> 0 .. MissThreshold]
      BY <2>1 DEF ConfirmSuccess
    <3>4. waiter' \in [Requests -> {"off", "waiting", "done"}]
      BY <2>1 DEF ConfirmSuccess, StopWaiting
    <3>5. UNCHANGED <<scenario, handlerVars, ingested, recon, chain, crashes>>
      BY <2>1 DEF ConfirmSuccess
    <3> QED
      BY <3>2, <3>3, <3>4, <3>5 DEF RecordType
  <2>2. CASE ConfirmReverted(r)
    <3>1. RecordType /\ HashOf[r] \in Hashes
      BY DEF RecordType
    <3>2. RecordType'
      <4>1. CASE memStatus[r] = "pending"
        BY <2>2, <3>1, <4>1, SaveDocType DEF ConfirmReverted
      <4>2. CASE memStatus[r] # "pending"
        BY <2>2, <3>1, <4>2 DEF ConfirmReverted, RecordType
      <4> QED
        BY <4>1, <4>2
    <3> QED
      BY <2>2, <3>2 DEF ConfirmReverted, StopWaiting, RecordType
  <2>3. CASE ConfirmUnknown(r)
    <3>1. /\ status' \in [Requests -> Statuses \cup {"none"}]
          /\ txHash' \in [Requests -> Hashes \cup {None}]
      <4>1. CASE /\ txHash' = [txHash EXCEPT ![r] = memHash[r]]
                 /\ status' = IF r \in unsaved
                              THEN [status EXCEPT ![r] = memStatus[r]]
                              ELSE status
        BY <4>1
      <4>2. CASE UNCHANGED <<status, txHash>>
        BY <4>2
      <4> QED
        BY <2>3, <4>1, <4>2 DEF ConfirmUnknown
    <3>2. dbFaults' \in 0 .. MaxDbFaults /\ unsaved' \subseteq Requests
      BY <2>3 DEF ConfirmUnknown, DbFault
    <3> QED
      BY <2>3, <3>1, <3>2 DEF ConfirmUnknown, StopWaiting
  <2> QED
    BY <1>7, <2>1, <2>2, <2>3 DEF Waiter
<1>8. ASSUME NEW r \in Requests, Reconcile(r) PROVE TypeOK'
  <2>1. CASE FetchReceipt(r)
    <3>1. Receipt(txHash[r]) \in {"missing", "ok", "reverted"}
      BY DEF Receipt
    <3>2. recon' \in [Requests -> Docs]
      <4>1. recon' = [recon EXCEPT ![r] =
                        [recon[r] EXCEPT !.phase = Receipt(txHash[r])]]
        BY <2>1 DEF FetchReceipt
      <4>2. [recon[r] EXCEPT !.phase = Receipt(txHash[r])] \in Docs
        BY <3>1, SetPhase
      <4> QED
        BY <4>1, <4>2, ExceptType
    <3> QED
      BY <2>1, <3>2 DEF FetchReceipt
  <2>2. CASE FetchFails(r)
    <3>1. dbFaults' \in 0 .. MaxDbFaults
      BY <2>2 DEF FetchFails, DbFault
    <3>2. recon' \in [Requests -> Docs]
      BY <2>2 DEF FetchFails, Docs
    <3> QED
      BY <2>2, <3>1, <3>2 DEF FetchFails
  <2>3. CASE ApplyMissing(r)
    <3>1. miss' \in [Requests -> 0 .. MissThreshold]
      <4> DEFINE m == IF recon[r].miss = MissThreshold THEN MissThreshold
                      ELSE recon[r].miss + 1
      <4>1. recon[r].miss \in 0 .. MissThreshold
        BY DEF Docs
      <4>2. m \in 0 .. MissThreshold
        BY <4>1, CountMiss
      <4>3. miss' = [miss EXCEPT ![r] = m]
        BY <2>3 DEF ApplyMissing
      <4> HIDE DEF m
      <4> QED
        BY <4>2, <4>3
    <3>2. status' \in [Requests -> Statuses \cup {"none"}]
      BY <2>3 DEF ApplyMissing
    <3>3. recon' \in [Requests -> Docs]
      BY <2>3 DEF ApplyMissing, Docs
    <3> QED
      BY <2>3, <3>1, <3>2, <3>3 DEF ApplyMissing
  <2>4. CASE ApplyReceipt(r)
    <3>1. status' \in [Requests -> Statuses \cup {"none"}]
      BY <2>4 DEF ApplyReceipt
    <3>2. miss' \in [Requests -> 0 .. MissThreshold]
      BY <2>4 DEF ApplyReceipt
    <3>3. recon' \in [Requests -> Docs]
      BY <2>4 DEF ApplyReceipt, Docs
    <3> QED
      BY <2>4, <3>1, <3>2, <3>3 DEF ApplyReceipt
  <2>5. CASE ApplyFails(r)
    <3>1. status' \in [Requests -> Statuses \cup {"none"}]
      BY <2>5 DEF ApplyFails
    <3>2. dbFaults' \in 0 .. MaxDbFaults
      BY <2>5 DEF ApplyFails, DbFault
    <3>3. recon' \in [Requests -> Docs]
      BY <2>5 DEF ApplyFails, Docs
    <3> QED
      BY <2>5, <3>1, <3>2, <3>3 DEF ApplyFails
  <2> QED
    BY <1>8, <2>1, <2>2, <2>3, <2>4, <2>5 DEF Reconcile
<1>9. ASSUME NEW h \in Hashes, IngestEvent(h) PROVE TypeOK'
  BY <1>9 DEF IngestEvent
<1>10. ASSUME NEW h \in Hashes, Decide(h) \/ PassEvent(h) PROVE TypeOK'
  BY <1>10 DEF Decide, PassEvent
<1>11. CASE UNCHANGED vars
  BY <1>11 DEF vars
<1> QED
  BY <1>1, <1>2, <1>3, <1>4, <1>5, <1>6, <1>7, <1>8, <1>9, <1>10, <1>11
  DEF Next

(* Every variable of the send path stays in its range.                         *)
THEOREM TypeCorrect == Spec => []TypeOK
  BY TypeInit, TypeNext, PTL DEF Spec

-----------------------------------------------------------------------------
(* The inductive invariant, in named parts.                                    *)

Before == {"idle", "quoted"} \cup Early

\* No record exists before CreateRecord, one exists in everything after it, and
\* the document in memory exists together with it.
RecordInv ==
  \A r \in Requests :
    /\ pc[r] \in Before => status[r] = "none"
    /\ \/ pc[r] \in {"created", "submitted", "completing", "catch"}
       \/ waiter[r] = "waiting" \/ recon[r].phase # "idle"
       \/ txHash[r] # None \/ r \in unsaved
       => status[r] # "none"
    /\ status[r] # "none" <=> memStatus[r] # "none"

\* Hashes are the request's own; it is the waiter's as soon as there is one.
\* The server's transaction is sent by nothing but its own handler.
HashInv ==
  \A r \in Requests :
    /\ txHash[r] \in {None, HashOf[r]} /\ memHash[r] \in {None, HashOf[r]}
    /\ waiter[r] = "waiting" => memHash[r] = HashOf[r]
    /\ recon[r].phase # "idle" => txHash[r] = HashOf[r]
    /\ r \notin WalletSigned /\ pc[r] \in Before \cup {"created"}
         => chain[HashOf[r]] = "none"
    /\ Broadcast(r) => status[r] # "none"

\* Whoever says success, in the database or in memory, saw the receipt.
SuccessInv ==
  \A r \in Requests :
    /\ memStatus[r] = "success" => chain[HashOf[r]] = "ok"
    /\ recon[r].phase = "ok" => chain[HashOf[r]] = "ok"
    /\ status[r] = "success"
         => txHash[r] = HashOf[r] /\ chain[HashOf[r]] = "ok"

\* A request holds its Idempotency-Key from the moment it creates the key's
\* record; the key is released only by a holder that ends without a record.
Holds(r) == pc[r] \in Early \/ status[r] # "none"

KeyInv ==
  \A r \in Requests : IdemOf[r] # None /\ Holds(r) =>
    /\ idem[IdemOf[r]] # "absent"
    /\ \A q \in Requests : IdemOf[q] = IdemOf[r] /\ Holds(q) => q = r

\* Likewise for the quote, which is never given back.
Consumed(r) == pc[r] = "consumed" \/ status[r] # "none"

QuoteInv ==
  \A r \in Requests : Consumed(r) =>
    /\ QuoteOf[r] \in quoteUsed
    /\ \A q \in Requests : QuoteOf[q] = QuoteOf[r] /\ Consumed(q) => q = r

SendInv == RecordInv /\ HashInv /\ SuccessInv /\ KeyInv /\ QuoteInv

-----------------------------------------------------------------------------
(* Each part is inductive relative to the parts before it. *)

LEMMA SendInvInit == Init => SendInv
  BY ScenarioType, NoneIsNew
  DEF Init, SendInv, RecordInv, HashInv, SuccessInv, KeyInv, QuoteInv, Holds,
      Consumed, Before, Early, NotLoaded, Broadcast

LEMMA RecordNext ==
  TypeOK /\ RecordInv /\ [Next]_vars => RecordInv'
<1> SUFFICES ASSUME TypeOK, RecordInv, [Next]_vars PROVE RecordInv'
  OBVIOUS
<1> USE ScenarioType, NoneIsNew
  DEF TypeOK, RecordInv, Before, Early
<1>1. CASE SendPaymentCode
  BY <1>1 DEF SendPaymentCode
<1>2. CASE LoadBatch
  BY <1>2 DEF LoadBatch, Eligible, NotLoaded
<1>3. CASE Crash
  BY <1>3 DEF Crash, NotLoaded
<1>4. ASSUME NEW r \in Requests, WalletBroadcast(r) PROVE RecordInv'
  BY <1>4 DEF WalletBroadcast
<1>5. ASSUME NEW r \in Requests, Cancel(r) \/ Age(r) PROVE RecordInv'
  BY <1>5 DEF Cancel, Age
<1>6. ASSUME NEW r \in Requests, Handler(r) PROVE RecordInv'
  <2>1. CASE Start(r)
    BY <2>1 DEF Start
  <2>2. CASE AcquireIdempotency(r)
    BY <2>2 DEF AcquireIdempotency
  <2>3. CASE CheckInFlight(r)
    BY <2>3 DEF CheckInFlight
  <2>4. CASE ConsumePaymentCode(r)
    BY <2>4 DEF ConsumePaymentCode
  <2>5. CASE ConsumeQuote(r)
    BY <2>5 DEF ConsumeQuote
  <2>6. CASE CreateRecord(r)
    BY <2>6 DEF CreateRecord
  <2>7. CASE RefuseEarly(r)
    BY <2>7 DEF RefuseEarly, Release, DbFault
  <2>8. CASE RejectExpiredCode(r)
    BY <2>8 DEF RejectExpiredCode, Release, DbFault
  <2>9. CASE FailBeforeSubmit(r)
    BY <2>9 DEF FailBeforeSubmit
  <2>10. CASE Submit(r)
    BY <2>10 DEF Submit
  <2>11. CASE SubmitReplyLost(r)
    BY <2>11 DEF SubmitReplyLost
  <2>12. CASE RecordSubmission(r)
    BY <2>12 DEF RecordSubmission, StoreHash, RecoverSubmission
  <2>13. CASE CompleteIdempotency(r)
    BY <2>13 DEF CompleteIdempotency
  <2>14. CASE CatchError(r)
    BY <2>14 DEF CatchError, SaveDoc
  <2> QED
    BY <1>6, <2>1, <2>2, <2>3, <2>4, <2>5, <2>6, <2>7, <2>8, <2>9, <2>10,
       <2>11, <2>12, <2>13, <2>14 DEF Handler
<1>7. ASSUME NEW r \in Requests, Waiter(r) PROVE RecordInv'
  <2>1. CASE ConfirmSuccess(r)
    BY <2>1 DEF ConfirmSuccess, StopWaiting, SaveDoc
  <2>2. CASE ConfirmReverted(r)
    BY <2>2 DEF ConfirmReverted, StopWaiting, SaveDoc
  <2>3. CASE ConfirmUnknown(r)
    BY <2>3 DEF ConfirmUnknown, StopWaiting
  <2> QED
    BY <1>7, <2>1, <2>2, <2>3 DEF Waiter
<1>8. ASSUME NEW r \in Requests, Reconcile(r) PROVE RecordInv'
  <2>1. CASE FetchReceipt(r)
    BY <2>1 DEF FetchReceipt, Receipt
  <2>2. CASE FetchFails(r)
    BY <2>2 DEF FetchFails, NotLoaded
  <2>3. CASE ApplyMissing(r)
    BY <2>3 DEF ApplyMissing, NotLoaded
  <2>4. CASE ApplyReceipt(r)
    BY <2>4 DEF ApplyReceipt, NotLoaded
  <2>5. CASE ApplyFails(r)
    BY <2>5 DEF ApplyFails, NotLoaded, Fetched
  <2> QED
    BY <1>8, <2>1, <2>2, <2>3, <2>4, <2>5 DEF Reconcile
<1>9. ASSUME NEW h \in Hashes, IngestEvent(h) PROVE RecordInv'
  BY <1>9 DEF IngestEvent
<1>10. ASSUME NEW h \in Hashes, Decide(h) \/ PassEvent(h) PROVE RecordInv'
  BY <1>10 DEF Decide, PassEvent
<1>11. CASE UNCHANGED vars
  BY <1>11 DEF vars
<1> QED
  BY <1>1, <1>2, <1>3, <1>4, <1>5, <1>6, <1>7, <1>8, <1>9, <1>10, <1>11
  DEF Next

LEMMA HashNext ==
  TypeOK /\ RecordInv /\ HashInv /\ [Next]_vars => HashInv'
<1> SUFFICES ASSUME TypeOK, RecordInv, HashInv, [Next]_vars PROVE HashInv'
  OBVIOUS
<1> USE ScenarioType, NoneIsNew
  DEF TypeOK, RecordInv, HashInv, Before, Early, Broadcast, FreshHashes
<1>1. CASE SendPaymentCode
  BY <1>1 DEF SendPaymentCode
<1>2. CASE LoadBatch
  BY <1>2 DEF LoadBatch, Eligible, NotLoaded
<1>3. CASE Crash
  BY <1>3 DEF Crash, NotLoaded
<1>4. ASSUME NEW r \in Requests, WalletBroadcast(r) PROVE HashInv'
  BY <1>4 DEF WalletBroadcast
<1>5. ASSUME NEW r \in Requests, Cancel(r) \/ Age(r) PROVE HashInv'
  BY <1>5 DEF Cancel, Age
<1>6. ASSUME NEW r \in Requests, Handler(r) PROVE HashInv'
  <2>1. CASE Start(r)
    BY <2>1 DEF Start
  <2>2. CASE AcquireIdempotency(r)
    BY <2>2 DEF AcquireIdempotency
  <2>3. CASE CheckInFlight(r)
    BY <2>3 DEF CheckInFlight
  <2>4. CASE ConsumePaymentCode(r)
    BY <2>4 DEF ConsumePaymentCode
  <2>5. CASE ConsumeQuote(r)
    BY <2>5 DEF ConsumeQuote
  <2>6. CASE CreateRecord(r)
    BY <2>6 DEF CreateRecord
  <2>7. CASE RefuseEarly(r)
    BY <2>7 DEF RefuseEarly, Release, DbFault
  <2>8. CASE RejectExpiredCode(r)
    BY <2>8 DEF RejectExpiredCode, Release, DbFault
  <2>9. CASE FailBeforeSubmit(r)
    BY <2>9 DEF FailBeforeSubmit
  <2>10. CASE Submit(r)
    BY <2>10 DEF Submit
  <2>11. CASE SubmitReplyLost(r)
    BY <2>11 DEF SubmitReplyLost
  <2>12. CASE RecordSubmission(r)
    BY <2>12 DEF RecordSubmission, StoreHash, RecoverSubmission
  <2>13. CASE CompleteIdempotency(r)
    BY <2>13 DEF CompleteIdempotency
  <2>14. CASE CatchError(r)
    BY <2>14 DEF CatchError, SaveDoc
  <2> QED
    BY <1>6, <2>1, <2>2, <2>3, <2>4, <2>5, <2>6, <2>7, <2>8, <2>9, <2>10,
       <2>11, <2>12, <2>13, <2>14 DEF Handler
<1>7. ASSUME NEW r \in Requests, Waiter(r) PROVE HashInv'
  <2>1. CASE ConfirmSuccess(r)
    BY <2>1 DEF ConfirmSuccess, StopWaiting, SaveDoc
  <2>2. CASE ConfirmReverted(r)
    BY <2>2 DEF ConfirmReverted, StopWaiting, SaveDoc
  <2>3. CASE ConfirmUnknown(r)
    BY <2>3 DEF ConfirmUnknown, StopWaiting
  <2> QED
    BY <1>7, <2>1, <2>2, <2>3 DEF Waiter
<1>8. ASSUME NEW r \in Requests, Reconcile(r) PROVE HashInv'
  <2>1. CASE FetchReceipt(r)
    BY <2>1 DEF FetchReceipt, Receipt
  <2>2. CASE FetchFails(r)
    BY <2>2 DEF FetchFails, NotLoaded
  <2>3. CASE ApplyMissing(r)
    BY <2>3 DEF ApplyMissing, NotLoaded
  <2>4. CASE ApplyReceipt(r)
    BY <2>4 DEF ApplyReceipt, NotLoaded
  <2>5. CASE ApplyFails(r)
    BY <2>5 DEF ApplyFails, NotLoaded, Fetched
  <2> QED
    BY <1>8, <2>1, <2>2, <2>3, <2>4, <2>5 DEF Reconcile
<1>9. ASSUME NEW h \in Hashes, IngestEvent(h) PROVE HashInv'
  BY <1>9 DEF IngestEvent
<1>10. ASSUME NEW h \in Hashes, Decide(h) \/ PassEvent(h) PROVE HashInv'
  BY <1>10 DEF Decide, PassEvent
<1>11. CASE UNCHANGED vars
  BY <1>11 DEF vars
<1> QED
  BY <1>1, <1>2, <1>3, <1>4, <1>5, <1>6, <1>7, <1>8, <1>9, <1>10, <1>11
  DEF Next

LEMMA SuccessNext ==
  TypeOK /\ RecordInv /\ HashInv /\ SuccessInv /\ [Next]_vars => SuccessInv'
<1> SUFFICES ASSUME TypeOK, RecordInv, HashInv, SuccessInv, [Next]_vars
               PROVE SuccessInv'
  OBVIOUS
<1> USE ScenarioType, NoneIsNew
  DEF TypeOK, RecordInv, HashInv, SuccessInv, Before, Early
<1>1. CASE SendPaymentCode
  BY <1>1 DEF SendPaymentCode
<1>2. CASE LoadBatch
  BY <1>2 DEF LoadBatch, Eligible, NotLoaded
<1>3. CASE Crash
  BY <1>3 DEF Crash, NotLoaded
<1>4. ASSUME NEW r \in Requests, WalletBroadcast(r) PROVE SuccessInv'
  BY <1>4 DEF WalletBroadcast
<1>5. ASSUME NEW r \in Requests, Cancel(r) \/ Age(r) PROVE SuccessInv'
  BY <1>5 DEF Cancel, Age
<1>6. ASSUME NEW r \in Requests, Handler(r) PROVE SuccessInv'
  <2>1. CASE Start(r)
    BY <2>1 DEF Start
  <2>2. CASE AcquireIdempotency(r)
    BY <2>2 DEF AcquireIdempotency
  <2>3. CASE CheckInFlight(r)
    BY <2>3 DEF CheckInFlight
  <2>4. CASE ConsumePaymentCode(r)
    BY <2>4 DEF ConsumePaymentCode
  <2>5. CASE ConsumeQuote(r)
    BY <2>5 DEF ConsumeQuote
  <2>6. CASE CreateRecord(r)
    BY <2>6 DEF CreateRecord
  <2>7. CASE RefuseEarly(r)
    BY <2>7 DEF RefuseEarly, Release, DbFault
  <2>8. CASE RejectExpiredCode(r)
    BY <2>8 DEF RejectExpiredCode, Release, DbFault
  <2>9. CASE FailBeforeSubmit(r)
    BY <2>9 DEF FailBeforeSubmit
  <2>10. CASE Submit(r)
    BY <2>10 DEF Submit
  <2>11. CASE SubmitReplyLost(r)
    BY <2>11 DEF SubmitReplyLost
  <2>12. CASE RecordSubmission(r)
    BY <2>12 DEF RecordSubmission, StoreHash, RecoverSubmission
  <2>13. CASE CompleteIdempotency(r)
    BY <2>13 DEF CompleteIdempotency
  <2>14. CASE CatchError(r)
    BY <2>14 DEF CatchError, SaveDoc
  <2> QED
    BY <1>6, <2>1, <2>2, <2>3, <2>4, <2>5, <2>6, <2>7, <2>8, <2>9, <2>10,
       <2>11, <2>12, <2>13, <2>14 DEF Handler
<1>7. ASSUME NEW r \in Requests, Waiter(r) PROVE SuccessInv'
  <2>1. CASE ConfirmSuccess(r)
    BY <2>1 DEF ConfirmSuccess, StopWaiting, SaveDoc
  <2>2. CASE ConfirmReverted(r)
    BY <2>2 DEF ConfirmReverted, StopWaiting, SaveDoc
  <2>3. CASE ConfirmUnknown(r)
    BY <2>3 DEF ConfirmUnknown, StopWaiting
  <2> QED
    BY <1>7, <2>1, <2>2, <2>3 DEF Waiter
<1>8. ASSUME NEW r \in Requests, Reconcile(r) PROVE SuccessInv'
  <2>1. CASE FetchReceipt(r)
    BY <2>1 DEF FetchReceipt, Receipt
  <2>2. CASE FetchFails(r)
    BY <2>2 DEF FetchFails, NotLoaded
  <2>3. CASE ApplyMissing(r)
    BY <2>3 DEF ApplyMissing, NotLoaded
  <2>4. CASE ApplyReceipt(r)
    BY <2>4 DEF ApplyReceipt, NotLoaded
  <2>5. CASE ApplyFails(r)
    BY <2>5 DEF ApplyFails, NotLoaded, Fetched
  <2> QED
    BY <1>8, <2>1, <2>2, <2>3, <2>4, <2>5 DEF Reconcile
<1>9. ASSUME NEW h \in Hashes, IngestEvent(h) PROVE SuccessInv'
  BY <1>9 DEF IngestEvent
<1>10. ASSUME NEW h \in Hashes, Decide(h) \/ PassEvent(h) PROVE SuccessInv'
  BY <1>10 DEF Decide, PassEvent
<1>11. CASE UNCHANGED vars
  BY <1>11 DEF vars
<1> QED
  BY <1>1, <1>2, <1>3, <1>4, <1>5, <1>6, <1>7, <1>8, <1>9, <1>10, <1>11
  DEF Next

\* What a step that is no handler's leaves alone.
Kept ==
  /\ \A r \in Requests : status'[r] = "none" <=> status[r] = "none"
  /\ pc' \in [Requests -> Points]
  /\ \A r \in Requests : pc'[r] \in {pc[r], "done"}
  /\ UNCHANGED <<scenario, quoteUsed, idem>>

LEMMA Footprint ==
  ASSUME TypeOK, RecordInv, [Next]_vars, \A r \in Requests : ~Handler(r)
  PROVE  Kept
<1> USE ScenarioType, NoneIsNew
  DEF TypeOK, RecordInv, Kept, Points
<1>1. CASE SendPaymentCode
  BY <1>1 DEF SendPaymentCode
<1>2. CASE LoadBatch
  BY <1>2 DEF LoadBatch, Eligible, NotLoaded
<1>3. CASE Crash
  BY <1>3 DEF Crash, NotLoaded
<1>4. ASSUME NEW r \in Requests, WalletBroadcast(r) PROVE Kept
  BY <1>4 DEF WalletBroadcast
<1>5. ASSUME NEW r \in Requests, Cancel(r) \/ Age(r) PROVE Kept
  BY <1>5 DEF Cancel, Age
<1>6. ASSUME NEW r \in Requests, Waiter(r) PROVE Kept
  <2>1. CASE ConfirmSuccess(r)
    BY <2>1 DEF ConfirmSuccess, StopWaiting, SaveDoc
  <2>2. CASE ConfirmReverted(r)
    BY <2>2 DEF ConfirmReverted, StopWaiting, SaveDoc
  <2>3. CASE ConfirmUnknown(r)
    BY <2>3 DEF ConfirmUnknown, StopWaiting
  <2> QED
    BY <1>6, <2>1, <2>2, <2>3 DEF Waiter
<1>7. ASSUME NEW r \in Requests, Reconcile(r) PROVE Kept
  <2>1. CASE FetchReceipt(r)
    BY <2>1 DEF FetchReceipt, Receipt
  <2>2. CASE FetchFails(r)
    BY <2>2 DEF FetchFails, NotLoaded
  <2>3. CASE ApplyMissing(r)
    BY <2>3 DEF ApplyMissing, NotLoaded
  <2>4. CASE ApplyReceipt(r)
    BY <2>4 DEF ApplyReceipt, NotLoaded
  <2>5. CASE ApplyFails(r)
    BY <2>5 DEF ApplyFails, NotLoaded, Fetched
  <2> QED
    BY <1>7, <2>1, <2>2, <2>3, <2>4, <2>5 DEF Reconcile
<1>8. ASSUME NEW h \in Hashes, IngestEvent(h) PROVE Kept
  BY <1>8 DEF IngestEvent
<1>9. ASSUME NEW h \in Hashes, Decide(h) \/ PassEvent(h) PROVE Kept
  BY <1>9 DEF Decide, PassEvent
<1>10. CASE UNCHANGED vars
  BY <1>10 DEF vars
<1> QED
  BY <1>1, <1>2, <1>3, <1>4, <1>5, <1>6, <1>7, <1>8, <1>9, <1>10
  DEF Next

LEMMA KeyNext ==
  TypeOK /\ RecordInv /\ KeyInv /\ [Next]_vars => KeyInv'
<1> SUFFICES ASSUME TypeOK, RecordInv, KeyInv, [Next]_vars PROVE KeyInv'
  OBVIOUS
<1> USE ScenarioType, NoneIsNew
  DEF TypeOK, RecordInv, KeyInv, Holds, Before, Early, Kept
<1>1. ASSUME NEW r \in Requests, Handler(r) PROVE KeyInv'
  <2>1. CASE Start(r)
    BY <2>1 DEF Start
  <2>2. CASE AcquireIdempotency(r)
    BY <2>2 DEF AcquireIdempotency
  <2>3. CASE CheckInFlight(r)
    BY <2>3 DEF CheckInFlight
  <2>4. CASE ConsumePaymentCode(r)
    BY <2>4 DEF ConsumePaymentCode
  <2>5. CASE ConsumeQuote(r)
    BY <2>5 DEF ConsumeQuote
  <2>6. CASE CreateRecord(r)
    BY <2>6 DEF CreateRecord
  <2>7. CASE RefuseEarly(r)
    BY <2>7 DEF RefuseEarly, Release, DbFault
  <2>8. CASE RejectExpiredCode(r)
    BY <2>8 DEF RejectExpiredCode, Release, DbFault
  <2>9. CASE FailBeforeSubmit(r)
    BY <2>9 DEF FailBeforeSubmit
  <2>10. CASE Submit(r)
    BY <2>10 DEF Submit
  <2>11. CASE SubmitReplyLost(r)
    BY <2>11 DEF SubmitReplyLost
  <2>12. CASE RecordSubmission(r)
    BY <2>12 DEF RecordSubmission, StoreHash, RecoverSubmission
  <2>13. CASE CompleteIdempotency(r)
    BY <2>13 DEF CompleteIdempotency
  <2>14. CASE CatchError(r)
    BY <2>14 DEF CatchError, SaveDoc
  <2> QED
    BY <1>1, <2>1, <2>2, <2>3, <2>4, <2>5, <2>6, <2>7, <2>8, <2>9, <2>10,
       <2>11, <2>12, <2>13, <2>14 DEF Handler
<1>2. CASE \A r \in Requests : ~Handler(r)
  BY <1>2, Footprint
<1> QED
  BY <1>1, <1>2

LEMMA QuoteNext ==
  TypeOK /\ RecordInv /\ QuoteInv /\ [Next]_vars => QuoteInv'
<1> SUFFICES ASSUME TypeOK, RecordInv, QuoteInv, [Next]_vars PROVE QuoteInv'
  OBVIOUS
<1> USE ScenarioType, NoneIsNew
  DEF TypeOK, RecordInv, QuoteInv, Consumed, Before, Early, Kept
<1>1. ASSUME NEW r \in Requests, Handler(r) PROVE QuoteInv'
  <2>1. CASE Start(r)
    BY <2>1 DEF Start
  <2>2. CASE AcquireIdempotency(r)
    BY <2>2 DEF AcquireIdempotency
  <2>3. CASE CheckInFlight(r)
    BY <2>3 DEF CheckInFlight
  <2>4. CASE ConsumePaymentCode(r)
    BY <2>4 DEF ConsumePaymentCode
  <2>5. CASE ConsumeQuote(r)
    BY <2>5 DEF ConsumeQuote
  <2>6. CASE CreateRecord(r)
    BY <2>6 DEF CreateRecord
  <2>7. CASE RefuseEarly(r)
    BY <2>7 DEF RefuseEarly, Release, DbFault
  <2>8. CASE RejectExpiredCode(r)
    BY <2>8 DEF RejectExpiredCode, Release, DbFault
  <2>9. CASE FailBeforeSubmit(r)
    BY <2>9 DEF FailBeforeSubmit
  <2>10. CASE Submit(r)
    BY <2>10 DEF Submit
  <2>11. CASE SubmitReplyLost(r)
    BY <2>11 DEF SubmitReplyLost
  <2>12. CASE RecordSubmission(r)
    BY <2>12 DEF RecordSubmission, StoreHash, RecoverSubmission
  <2>13. CASE CompleteIdempotency(r)
    BY <2>13 DEF CompleteIdempotency
  <2>14. CASE CatchError(r)
    BY <2>14 DEF CatchError, SaveDoc
  <2> QED
    BY <1>1, <2>1, <2>2, <2>3, <2>4, <2>5, <2>6, <2>7, <2>8, <2>9, <2>10,
       <2>11, <2>12, <2>13, <2>14 DEF Handler
<1>2. CASE \A r \in Requests : ~Handler(r)
  BY <1>2, Footprint
<1> QED
  BY <1>1, <1>2

-----------------------------------------------------------------------------
(* TypeOK and the five parts hold in every reachable state.                    *)
THEOREM SendInvariant == Spec => [](TypeOK /\ SendInv)
<1>1. Init => TypeOK /\ SendInv
  BY TypeInit, SendInvInit
<1>2. TypeOK /\ SendInv /\ [Next]_vars => (TypeOK /\ SendInv)'
  BY TypeNext, RecordNext, HashNext, SuccessNext, KeyNext, QuoteNext
  DEF SendInv
<1> QED
  BY <1>1, <1>2, PTL DEF Spec

(* Under one Idempotency-Key the server broadcasts at most one transfer,       *)
(* however many requests carry it and whatever fails: a broadcast needs a      *)
(* record, and the holder of a record is the only holder of its key.           *)
THEOREM RetryIsSafe == Spec => []OneBroadcastPerIdempotencyKey
<1>1. SendInv => OneBroadcastPerIdempotencyKey
  BY DEF SendInv, HashInv, KeyInv, Holds, OneBroadcastPerIdempotencyKey
<1> QED
  BY <1>1, SendInvariant, PTL

(* No two records spend the same quote.                                        *)
THEOREM QuoteIsSpentOnce == Spec => []QuoteBacksOneRecord
<1>1. SendInv => QuoteBacksOneRecord
  BY DEF SendInv, QuoteInv, Consumed, QuoteBacksOneRecord
<1> QED
  BY <1>1, SendInvariant, PTL

(* A record that says success has the hash of an executed transaction.         *)
THEOREM SuccessIsTrue == Spec => []SuccessIsOnChain
<1>1. TypeOK /\ SendInv => SuccessIsOnChain
  BY ScenarioType, NoneIsNew
  DEF TypeOK, SendInv, SuccessInv, SuccessIsOnChain
<1> QED
  BY <1>1, SendInvariant, PTL

-----------------------------------------------------------------------------
(* Without a cancel, a refused write, a lost answer or a timeout.  Then a      *)
(* record stays pending while its handler works on it, only the holder of a    *)
(* receipt makes it failed, and an index that refused a hash refuses it for    *)
(* ever: hashes are never taken off the records.                               *)

CalmRecord(r) ==
  /\ status[r] = "failed" /\ txHash[r] # None => chain[HashOf[r]] = "reverted"
  /\ recon[r].phase = "reverted" => chain[HashOf[r]] = "reverted"
  /\ pc[r] \in Before \cup {"created", "submitted"} => memHash[r] = None
  /\ pc[r] \in {"created", "submitted", "catch"} =>
       /\ status[r] = "pending" /\ memStatus[r] = "pending"
       /\ txHash[r] = None
       /\ r \notin unsaved /\ waiter[r] # "waiting"
  /\ pc[r] = "catch" /\ memHash[r] # None => ~HashFree(r, HashOf[r])
  /\ waiter[r] = "waiting" =>
       /\ memStatus[r] = "pending" /\ r \notin unsaved
       /\ txHash[r] # None \/ status[r] = "pending"

CalmInv == Calm => \A r \in Requests : CalmRecord(r)

LEMMA CalmInvInit == Init => CalmInv
  BY DEF Init, CalmInv, CalmRecord, Before, Early, NotLoaded

\* In a calm run no write is refused but by an index.
LEMMA CalmHasNoFault ==
  ASSUME TypeOK, Calm
  PROVE  ~DbFault /\ ~(dbFaults + 1 < MaxDbFaults)
  BY ScenarioType DEF TypeOK, Calm, DbFault

\* A hash that is taken stays taken.
LEMMA TakenStaysTaken ==
  ASSUME TypeOK, RecordInv, HashInv, [Next]_vars,
         NEW q \in Requests, ~HashFree(q, HashOf[q])
  PROVE  ~HashFree(q, HashOf[q])'
<1> DEFINE Goal ==
      /\ ingested \subseteq ingested'
      /\ \A p \in Requests : txHash[p] # None => txHash'[p] = txHash[p]
      /\ UNCHANGED scenario
<1> SUFFICES Goal
  BY ScenarioType, NoneIsNew DEF HashFree, TypeOK
<1> USE ScenarioType, NoneIsNew DEF TypeOK, RecordInv, HashInv
<1>1. CASE SendPaymentCode
  BY <1>1 DEF SendPaymentCode
<1>2. CASE LoadBatch
  BY <1>2 DEF LoadBatch, Eligible, NotLoaded
<1>3. CASE Crash
  BY <1>3 DEF Crash, NotLoaded
<1>4. ASSUME NEW r \in Requests, WalletBroadcast(r) PROVE Goal
  BY <1>4 DEF WalletBroadcast
<1>5. ASSUME NEW r \in Requests, Cancel(r) \/ Age(r) PROVE Goal
  BY <1>5 DEF Cancel, Age
<1>6. ASSUME NEW r \in Requests, Handler(r) PROVE Goal
  <2>1. CASE Start(r)
    BY <2>1 DEF Start
  <2>2. CASE AcquireIdempotency(r)
    BY <2>2 DEF AcquireIdempotency
  <2>3. CASE CheckInFlight(r)
    BY <2>3 DEF CheckInFlight
  <2>4. CASE ConsumePaymentCode(r)
    BY <2>4 DEF ConsumePaymentCode
  <2>5. CASE ConsumeQuote(r)
    BY <2>5 DEF ConsumeQuote
  <2>6. CASE CreateRecord(r)
    BY <2>6 DEF CreateRecord
  <2>7. CASE RefuseEarly(r)
    BY <2>7 DEF RefuseEarly, Release, DbFault
  <2>8. CASE RejectExpiredCode(r)
    BY <2>8 DEF RejectExpiredCode, Release, DbFault
  <2>9. CASE FailBeforeSubmit(r)
    BY <2>9 DEF FailBeforeSubmit
  <2>10. CASE Submit(r)
    BY <2>10 DEF Submit
  <2>11. CASE SubmitReplyLost(r)
    BY <2>11 DEF SubmitReplyLost
  <2>12. CASE RecordSubmission(r)
    BY <2>12 DEF RecordSubmission, StoreHash, RecoverSubmission
  <2>13. CASE CompleteIdempotency(r)
    BY <2>13 DEF CompleteIdempotency
  <2>14. CASE CatchError(r)
    BY <2>14 DEF CatchError, SaveDoc
  <2> QED
    BY <1>6, <2>1, <2>2, <2>3, <2>4, <2>5, <2>6, <2>7, <2>8, <2>9, <2>10,
       <2>11, <2>12, <2>13, <2>14 DEF Handler
<1>7. ASSUME NEW r \in Requests, Waiter(r) PROVE Goal
  <2>1. CASE ConfirmSuccess(r)
    BY <2>1 DEF ConfirmSuccess, StopWaiting, SaveDoc
  <2>2. CASE ConfirmReverted(r)
    BY <2>2 DEF ConfirmReverted, StopWaiting, SaveDoc
  <2>3. CASE ConfirmUnknown(r)
    BY <2>3 DEF ConfirmUnknown, StopWaiting
  <2> QED
    BY <1>7, <2>1, <2>2, <2>3 DEF Waiter
<1>8. ASSUME NEW r \in Requests, Reconcile(r) PROVE Goal
  <2>1. CASE FetchReceipt(r)
    BY <2>1 DEF FetchReceipt, Receipt
  <2>2. CASE FetchFails(r)
    BY <2>2 DEF FetchFails, NotLoaded
  <2>3. CASE ApplyMissing(r)
    BY <2>3 DEF ApplyMissing, NotLoaded
  <2>4. CASE ApplyReceipt(r)
    BY <2>4 DEF ApplyReceipt, NotLoaded
  <2>5. CASE ApplyFails(r)
    BY <2>5 DEF ApplyFails, NotLoaded, Fetched
  <2> QED
    BY <1>8, <2>1, <2>2, <2>3, <2>4, <2>5 DEF Reconcile
<1>9. ASSUME NEW h \in Hashes, IngestEvent(h) PROVE Goal
  BY <1>9 DEF IngestEvent
<1>10. ASSUME NEW h \in Hashes, Decide(h) \/ PassEvent(h) PROVE Goal
  BY <1>10 DEF Decide, PassEvent
<1>11. CASE UNCHANGED vars
  BY <1>11 DEF vars
<1> QED
  BY <1>1, <1>2, <1>3, <1>4, <1>5, <1>6, <1>7, <1>8, <1>9, <1>10, <1>11
  DEF Next

LEMMA ScenarioStays == [Next]_vars => UNCHANGED scenario
<1> SUFFICES ASSUME [Next]_vars PROVE UNCHANGED scenario
  OBVIOUS
<1>1. CASE SendPaymentCode \/ LoadBatch \/ Crash
  BY <1>1 DEF SendPaymentCode, LoadBatch, Crash
<1>2. ASSUME NEW r \in Requests, WalletBroadcast(r) \/ Cancel(r) \/ Age(r)
      PROVE  UNCHANGED scenario
  BY <1>2 DEF WalletBroadcast, Cancel, Age
<1>3. ASSUME NEW r \in Requests, Handler(r) PROVE UNCHANGED scenario
  BY <1>3 DEF Handler, Start, AcquireIdempotency, CheckInFlight,
     ConsumePaymentCode, ConsumeQuote, CreateRecord, RefuseEarly,
     RejectExpiredCode, FailBeforeSubmit, Submit, SubmitReplyLost,
     RecordSubmission, CompleteIdempotency, CatchError
<1>4. ASSUME NEW r \in Requests, Waiter(r) \/ Reconcile(r)
      PROVE  UNCHANGED scenario
  BY <1>4 DEF Waiter, ConfirmSuccess, ConfirmReverted, ConfirmUnknown,
     Reconcile, FetchReceipt, FetchFails, ApplyMissing, ApplyReceipt, ApplyFails
<1>5. ASSUME NEW h \in Hashes, IngestEvent(h) \/ PassEvent(h) \/ Decide(h)
      PROVE  UNCHANGED scenario
  BY <1>5 DEF IngestEvent, PassEvent, Decide
<1>6. CASE UNCHANGED vars
  BY <1>6 DEF vars
<1> QED
  BY <1>1, <1>2, <1>3, <1>4, <1>5, <1>6 DEF Next

LEMMA CalmNext ==
  TypeOK /\ RecordInv /\ HashInv /\ SuccessInv /\ CalmInv /\ [Next]_vars
    => CalmInv'
<1> SUFFICES ASSUME TypeOK, RecordInv, HashInv, SuccessInv, CalmInv, [Next]_vars,
                    Calm', NEW q \in Requests
               PROVE CalmRecord(q)'
  BY DEF CalmInv
<1>a. UNCHANGED scenario
  BY ScenarioStays
<1>b. Calm /\ \A r \in Requests : CalmRecord(r)
  BY <1>a DEF CalmInv, Calm
<1>c. ~HashFree(q, HashOf[q]) => ~HashFree(q, HashOf[q])'
  BY TakenStaysTaken
<1>d. ~DbFault /\ ~(dbFaults + 1 < MaxDbFaults)
  BY <1>b, CalmHasNoFault
<1>e. Hazards = {}
  BY <1>b DEF Calm
<1> USE <1>a, <1>b, <1>c, <1>d, <1>e, ScenarioType, NoneIsNew
  DEF TypeOK, RecordInv, HashInv, SuccessInv, CalmRecord, Before, Early
<1>1. CASE SendPaymentCode
  BY <1>1 DEF SendPaymentCode
<1>2. CASE LoadBatch
  BY <1>2 DEF LoadBatch, Eligible, NotLoaded
<1>3. CASE Crash
  BY <1>3 DEF Crash, NotLoaded
<1>4. ASSUME NEW r \in Requests, WalletBroadcast(r) PROVE CalmRecord(q)'
  BY <1>4 DEF WalletBroadcast
<1>5. ASSUME NEW r \in Requests, Cancel(r) \/ Age(r) PROVE CalmRecord(q)'
  BY <1>5 DEF Cancel, Age
<1>6. ASSUME NEW r \in Requests, Handler(r) PROVE CalmRecord(q)'
  <2>1. CASE Start(r)
    BY <2>1 DEF Start
  <2>2. CASE AcquireIdempotency(r)
    BY <2>2 DEF AcquireIdempotency
  <2>3. CASE CheckInFlight(r)
    BY <2>3 DEF CheckInFlight
  <2>4. CASE ConsumePaymentCode(r)
    BY <2>4 DEF ConsumePaymentCode
  <2>5. CASE ConsumeQuote(r)
    BY <2>5 DEF ConsumeQuote
  <2>6. CASE CreateRecord(r)
    BY <2>6 DEF CreateRecord
  <2>7. CASE RefuseEarly(r)
    BY <2>7 DEF RefuseEarly, Release, DbFault
  <2>8. CASE RejectExpiredCode(r)
    BY <2>8 DEF RejectExpiredCode, Release, DbFault
  <2>9. CASE FailBeforeSubmit(r)
    BY <2>9 DEF FailBeforeSubmit
  <2>10. CASE Submit(r)
    BY <2>10 DEF Submit
  <2>11. CASE SubmitReplyLost(r)
    BY <2>11 DEF SubmitReplyLost
  <2>12. CASE RecordSubmission(r)
    BY <2>12 DEF RecordSubmission, StoreHash, RecoverSubmission
  <2>13. CASE CompleteIdempotency(r)
    BY <2>13 DEF CompleteIdempotency
  <2>14. CASE CatchError(r)
    BY <2>14 DEF CatchError, SaveDoc
  <2> QED
    BY <1>6, <2>1, <2>2, <2>3, <2>4, <2>5, <2>6, <2>7, <2>8, <2>9, <2>10,
       <2>11, <2>12, <2>13, <2>14 DEF Handler
<1>7. ASSUME NEW r \in Requests, Waiter(r) PROVE CalmRecord(q)'
  <2>1. CASE ConfirmSuccess(r)
    BY <2>1 DEF ConfirmSuccess, StopWaiting, SaveDoc
  <2>2. CASE ConfirmReverted(r)
    BY <2>2 DEF ConfirmReverted, StopWaiting, SaveDoc
  <2>3. CASE ConfirmUnknown(r)
    BY <2>3 DEF ConfirmUnknown, StopWaiting
  <2> QED
    BY <1>7, <2>1, <2>2, <2>3 DEF Waiter
<1>8. ASSUME NEW r \in Requests, Reconcile(r) PROVE CalmRecord(q)'
  <2>1. CASE FetchReceipt(r)
    BY <2>1 DEF FetchReceipt, Receipt
  <2>2. CASE FetchFails(r)
    BY <2>2 DEF FetchFails, NotLoaded
  <2>3. CASE ApplyMissing(r)
    BY <2>3 DEF ApplyMissing, NotLoaded
  <2>4. CASE ApplyReceipt(r)
    BY <2>4 DEF ApplyReceipt, NotLoaded
  <2>5. CASE ApplyFails(r)
    BY <2>5 DEF ApplyFails, NotLoaded, Fetched
  <2> QED
    BY <1>8, <2>1, <2>2, <2>3, <2>4, <2>5 DEF Reconcile
<1>9. ASSUME NEW h \in Hashes, IngestEvent(h) PROVE CalmRecord(q)'
  BY <1>9 DEF IngestEvent
<1>10. ASSUME NEW h \in Hashes, Decide(h) \/ PassEvent(h) PROVE CalmRecord(q)'
  BY <1>10 DEF Decide, PassEvent
<1>11. CASE UNCHANGED vars
  BY <1>11 DEF vars
<1> QED
  BY <1>1, <1>2, <1>3, <1>4, <1>5, <1>6, <1>7, <1>8, <1>9, <1>10, <1>11
  DEF Next

\* Who could write another status over a stored success: a handler works on a
\* pending record, and nobody else holds a revert receipt.
LEMMA SuccessStays ==
  ASSUME TypeOK, RecordInv, HashInv, SuccessInv, CalmInv, Calm, [Next]_vars,
         NEW q \in Requests, status[q] = "success"
  PROVE  status'[q] = "success"
<1>b. \A r \in Requests : CalmRecord(r)
  BY DEF CalmInv
<1>d. ~DbFault /\ ~(dbFaults + 1 < MaxDbFaults)
  BY CalmHasNoFault
<1>e. Hazards = {}
  BY DEF Calm
<1> USE <1>b, <1>d, <1>e, ScenarioType, NoneIsNew
  DEF TypeOK, RecordInv, HashInv, SuccessInv, CalmRecord, Before, Early
<1>1. CASE SendPaymentCode
  BY <1>1 DEF SendPaymentCode
<1>2. CASE LoadBatch
  BY <1>2 DEF LoadBatch, Eligible, NotLoaded
<1>3. CASE Crash
  BY <1>3 DEF Crash, NotLoaded
<1>4. ASSUME NEW r \in Requests, WalletBroadcast(r) PROVE status'[q] = "success"
  BY <1>4 DEF WalletBroadcast
<1>5. ASSUME NEW r \in Requests, Cancel(r) \/ Age(r)
      PROVE  status'[q] = "success"
  BY <1>5 DEF Cancel, Age
<1>6. ASSUME NEW r \in Requests, Handler(r) PROVE status'[q] = "success"
  <2>1. CASE Start(r)
    BY <2>1 DEF Start
  <2>2. CASE AcquireIdempotency(r)
    BY <2>2 DEF AcquireIdempotency
  <2>3. CASE CheckInFlight(r)
    BY <2>3 DEF CheckInFlight
  <2>4. CASE ConsumePaymentCode(r)
    BY <2>4 DEF ConsumePaymentCode
  <2>5. CASE ConsumeQuote(r)
    BY <2>5 DEF ConsumeQuote
  <2>6. CASE CreateRecord(r)
    BY <2>6 DEF CreateRecord
  <2>7. CASE RefuseEarly(r)
    BY <2>7 DEF RefuseEarly, Release, DbFault
  <2>8. CASE RejectExpiredCode(r)
    BY <2>8 DEF RejectExpiredCode, Release, DbFault
  <2>9. CASE FailBeforeSubmit(r)
    BY <2>9 DEF FailBeforeSubmit
  <2>10. CASE Submit(r)
    BY <2>10 DEF Submit
  <2>11. CASE SubmitReplyLost(r)
    BY <2>11 DEF SubmitReplyLost
  <2>12. CASE RecordSubmission(r)
    BY <2>12 DEF RecordSubmission, StoreHash, RecoverSubmission
  <2>13. CASE CompleteIdempotency(r)
    BY <2>13 DEF CompleteIdempotency
  <2>14. CASE CatchError(r)
    BY <2>14 DEF CatchError, SaveDoc
  <2> QED
    BY <1>6, <2>1, <2>2, <2>3, <2>4, <2>5, <2>6, <2>7, <2>8, <2>9, <2>10,
       <2>11, <2>12, <2>13, <2>14 DEF Handler
<1>7. ASSUME NEW r \in Requests, Waiter(r) PROVE status'[q] = "success"
  <2>1. CASE ConfirmSuccess(r)
    BY <2>1 DEF ConfirmSuccess, StopWaiting, SaveDoc
  <2>2. CASE ConfirmReverted(r)
    BY <2>2 DEF ConfirmReverted, StopWaiting, SaveDoc
  <2>3. CASE ConfirmUnknown(r)
    BY <2>3 DEF ConfirmUnknown, StopWaiting
  <2> QED
    BY <1>7, <2>1, <2>2, <2>3 DEF Waiter
<1>8. ASSUME NEW r \in Requests, Reconcile(r) PROVE status'[q] = "success"
  <2>1. CASE FetchReceipt(r)
    BY <2>1 DEF FetchReceipt, Receipt
  <2>2. CASE FetchFails(r)
    BY <2>2 DEF FetchFails, NotLoaded
  <2>3. CASE ApplyMissing(r)
    BY <2>3 DEF ApplyMissing, NotLoaded
  <2>4. CASE ApplyReceipt(r)
    BY <2>4 DEF ApplyReceipt, NotLoaded
  <2>5. CASE ApplyFails(r)
    BY <2>5 DEF ApplyFails, NotLoaded, Fetched
  <2> QED
    BY <1>8, <2>1, <2>2, <2>3, <2>4, <2>5 DEF Reconcile
<1>9. ASSUME NEW h \in Hashes, IngestEvent(h) PROVE status'[q] = "success"
  BY <1>9 DEF IngestEvent
<1>10. ASSUME NEW h \in Hashes, Decide(h) \/ PassEvent(h)
       PROVE  status'[q] = "success"
  BY <1>10 DEF Decide, PassEvent
<1>11. CASE UNCHANGED vars
  BY <1>11 DEF vars
<1> QED
  BY <1>1, <1>2, <1>3, <1>4, <1>5, <1>6, <1>7, <1>8, <1>9, <1>10, <1>11
  DEF Next

(* In a calm run a failed record with a hash is of a reverted transaction,    *)
(* and a record its handler works on stays pending (CalmRecord).              *)
THEOREM CalmInvariant == Spec => [](TypeOK /\ SendInv /\ CalmInv)
<1>1. Init => CalmInv
  BY CalmInvInit
<1>2. TypeOK /\ SendInv /\ CalmInv /\ [Next]_vars => CalmInv'
  BY CalmNext DEF SendInv
<1> QED
  BY <1>1, <1>2, SendInvariant, PTL DEF Spec

(* In a calm run no transaction the chain executed is recorded as failed, from *)
(* whichever state the reconciler, the waiter and the event synchronisation    *)
(* loaded their copies of the record, and whatever restarts in between.        *)
THEOREM CalmFailedIsNotExecutedHolds == Spec => []CalmFailedIsNotExecuted
<1>1. TypeOK /\ SendInv /\ CalmInv => CalmFailedIsNotExecuted
  BY ScenarioType, NoneIsNew
  DEF TypeOK, SendInv, HashInv, CalmInv, CalmRecord, CalmFailedIsNotExecuted,
      FailedIsNotExecuted
<1> QED
  BY <1>1, CalmInvariant, PTL

(* Nor does a later writer of a calm run take a stored success back.           *)
THEOREM CalmSuccessIsFinalHolds == Spec => CalmSuccessIsFinal
<1>1. TypeOK /\ SendInv /\ CalmInv /\ [Next]_vars =>
        [\A r \in Requests :
           Calm /\ status[r] = "success" => status'[r] = "success"]_vars
  BY SuccessStays DEF SendInv
<1> QED
  BY <1>1, CalmInvariant, PTL DEF Spec, CalmSuccessIsFinal

=============================================================================
