---------------------------- MODULE LinkClaimProofs ----------------------------
(* Proofs about LinkClaim, for any number of claims, faults and restarts.      *)
EXTENDS LinkClaim, TLAPS

LEMMA NoDocType ==
  NoDoc \in [tx : Claims \cup {Nobody},
             status : {"none", "pending", "success", "failed"},
             phase : {"idle", "loaded", "missing", "ok", "reverted", "settle",
                      "write"}]
  BY DEF NoDoc

\* A reconciler that is at work holds a record.
ReconHolds == recon.phase # "idle" => recon.tx \in Claims

Typed == TypeOK /\ ReconHolds

LEMMA TypedInit == Init => Typed
<1> SUFFICES ASSUME Init PROVE Typed
  OBVIOUS
<1>1. scenario \in Scenario
  BY ScenariosAssumption DEF Init
<1>2. 0 \in 0 .. MaxDbFaults /\ 0 \in 0 .. MaxCrashes
  BY <1>1 DEF Scenario, MaxDbFaults, MaxCrashes
<1> QED
  BY <1>2, NoDocType DEF Init, Typed, TypeOK, ReconHolds, NoDoc

LEMMA FaultsType ==
  ASSUME TypeOK, scenario' = scenario, DbFault \/ dbFaults' = dbFaults
  PROVE  dbFaults' \in 0 .. MaxDbFaults'
<1>1. scenario.faults \in Nat
  BY ScenariosAssumption DEF TypeOK, Scenario
<1> QED
  BY <1>1 DEF TypeOK, DbFault, MaxDbFaults

LEMMA ReopenedType == Reopened \in {"active", "expired"}
  BY DEF Reopened

LEMMA MarkFailedType ==
  ASSUME TypeOK, NEW c \in Claims, MarkFailed(c), scenario' = scenario
  PROVE  /\ memStatus' \in [Claims -> {"none", "pending", "success", "failed"}]
         /\ status' \in [Claims -> {"none", "pending", "success", "failed"}]
         /\ stored' \subseteq Claims /\ unsaved' \subseteq Claims
         /\ dbFaults' \in 0 .. MaxDbFaults'
<1>1. DbFault \/ dbFaults' = dbFaults
  BY DEF MarkFailed, NotSaved
<1>2. /\ memStatus' \in [Claims -> {"none", "pending", "success", "failed"}]
      /\ status' \in [Claims -> {"none", "pending", "success", "failed"}]
      /\ stored' \subseteq Claims /\ unsaved' \subseteq Claims
  BY DEF MarkFailed, Saved, NotSaved, TypeOK
<1> QED
  BY <1>1, <1>2, FaultsType

LEMMA TypedNext == Typed /\ [Next]_vars => Typed'
<1> SUFFICES ASSUME Typed, [Next]_vars PROVE Typed'
  OBVIOUS
<1>0. TypeOK
  BY DEF Typed
<1> USE ReopenedType DEF Typed, TypeOK, ReconHolds, Goto, WaiterTo, linkVars,
        handlerVars, recordVars, boundVars, MaxDbFaults, MaxCrashes
<1>1. ASSUME NEW c \in Claims, Handler(c) PROVE Typed'
  <2>1. CASE LockLink(c)
    BY <2>1 DEF LockLink
  <2>2. CASE GiveBack(c)
    BY <2>2, FaultsType DEF GiveBack
  <2>3. CASE RefuseClaim(c) \/ CreateRecord(c) \/ SubmitFails(c)
    BY <2>3 DEF RefuseClaim, CreateRecord, SubmitFails
  <2>4. CASE Broadcast(c)
    BY <2>4 DEF Broadcast
  <2>9. CASE StoreHash(c)
    BY <2>9, FaultsType DEF StoreHash
  <2>5. CASE SaveLinkHash(c)
    BY <2>5, FaultsType DEF SaveLinkHash
  <2>6. CASE Complete(c)
    BY <2>6, FaultsType DEF Complete
  <2>7. CASE CatchError(c)
    BY <2>7, MarkFailedType DEF CatchError
  <2>8. CASE ResetLink(c)
    BY <2>8, FaultsType DEF ResetLink
  <2> QED
    BY <1>1, <2>1, <2>2, <2>3, <2>4, <2>5, <2>6, <2>7, <2>8, <2>9 DEF Handler
<1>2. ASSUME NEW c \in Claims, Waiter(c) PROVE Typed'
  <2>1. CASE ConfirmSuccess(c)
    <3>1. /\ memStatus' \in [Claims -> {"none", "pending", "success", "failed"}]
          /\ status' \in [Claims -> {"none", "pending", "success", "failed"}]
          /\ stored' \subseteq Claims /\ unsaved' \subseteq Claims
          /\ mined' \subseteq Claims
          /\ DbFault \/ dbFaults' = dbFaults
      BY <2>1 DEF ConfirmSuccess, Saved, NotSaved
    <3>2. waiter' \in [Claims -> {"off", "waiting", "succeeded", "failed"}]
      BY <2>1 DEF ConfirmSuccess
    <3> QED
      BY <2>1, <3>1, <3>2, FaultsType DEF ConfirmSuccess
  <2>2. CASE ConfirmReverted(c)
    BY <2>2, MarkFailedType DEF ConfirmReverted
  <2>3. CASE ConfirmUnknown(c)
    BY <2>3, FaultsType DEF ConfirmUnknown
  <2>4. CASE OnSuccess(c)
    BY <2>4, FaultsType DEF OnSuccess
  <2>5. CASE OnFailure(c)
    BY <2>5, FaultsType DEF OnFailure
  <2> QED
    BY <1>2, <2>1, <2>2, <2>3, <2>4, <2>5 DEF Waiter
<1>3. ASSUME NEW c \in Claims, Decide(c) PROVE Typed'
  BY <1>3 DEF Decide
<1>4. CASE ResolveLink \/ Expire
  <2>1. CASE ResolveLink
    BY <2>1 DEF ResolveLink
  <2>2. CASE Expire
    <3>1. /\ expired' \in BOOLEAN
          /\ UNCHANGED <<scenario, linkVars, handlerVars, recordVars, waiter,
                         recon, chain, boundVars>>
      BY <2>2 DEF Expire
    <3> QED
      BY <3>1
  <2> QED
    BY <1>4, <2>1, <2>2
<1>5. ASSUME NEW c \in Claims, LoadRecord(c) \/ SyncEvent(c) \/ IngestEvent(c)
      PROVE  Typed'
  BY <1>5 DEF LoadRecord, SyncEvent, IngestEvent, Recon
<1>6. CASE FetchReceipt
  <2>1. recon.tx \in Claims
    BY <1>6 DEF FetchReceipt
  <2>2. recon' \in [tx : Claims \cup {Nobody},
          status : {"none", "pending", "success", "failed"},
          phase : {"idle", "loaded", "missing", "ok", "reverted", "settle",
                   "write"}]
    BY <1>6, <2>1, NoDocType DEF FetchReceipt, Recon
  <2>3. ReconHolds'
    BY <1>6, <2>1 DEF FetchReceipt, Recon, NoDoc
  <2> QED
    BY <1>6, <2>2, <2>3 DEF FetchReceipt
<1>7. CASE ApplyMissing
  BY <1>7, NoDocType DEF ApplyMissing, Recon, NoDoc
<1>8. CASE ApplyReceipt
  BY <1>8, NoDocType DEF ApplyReceipt, Recon, NoDoc
<1>9. CASE ApplyFails
  BY <1>9, NoDocType, FaultsType DEF ApplyFails, NoDoc
<1>10. CASE ReadLink
  BY <1>10, NoDocType DEF ReadLink, Recon, NoDoc
<1>11. CASE WriteLink
  BY <1>11, NoDocType, FaultsType DEF WriteLink, NoDoc
<1>12. CASE Crash
  <2>1. scenario.crashes \in Nat
    BY ScenariosAssumption DEF Scenario
  <2> QED
    BY <1>12, <2>1, NoDocType DEF Crash, NoDoc
<1>13. CASE UNCHANGED vars
  BY <1>13 DEF vars
<1> QED
  BY <1>1, <1>2, <1>3, <1>4, <1>5, <1>6, <1>7, <1>8, <1>9, <1>10, <1>11,
     <1>12, <1>13
  DEF Next, Reconciler

(* Every variable of LinkClaim stays in its range, under every hazard.         *)
THEOREM TypeCorrect == Spec => []TypeOK
<1>1. Typed => TypeOK
  BY DEF Typed
<1> QED
  BY <1>1, TypedInit, TypedNext, PTL DEF Spec

-----------------------------------------------------------------------------
(* A claimed link was paid *)

\* A claim that has not been broadcast yet has nothing on the chain.
NotYetSent ==
  \A c \in Claims :
    pc[c] \in {"idle", "locked", "created"} => chain[c] = "none"

\* Whoever is about to mark the link as claimed saw its transaction executed.
ClaimersSawIt ==
  /\ \A c \in Claims : waiter[c] = "succeeded" => chain[c] = "ok"
  /\ recon.phase = "ok" => chain[recon.tx] = "ok"
  /\ recon.phase \in {"settle", "write"} /\ recon.status = "success"
       => chain[recon.tx] = "ok"
  /\ link = "claimed" => claimedBy \in Claims /\ chain[claimedBy] = "ok"

LEMMA ClaimedInit == Init => NotYetSent /\ ClaimersSawIt
  BY DEF Init, NotYetSent, ClaimersSawIt, NoDoc

\* Executed transactions stay executed.
LEMMA NotYetSentNext ==
  ASSUME Typed, NotYetSent, [Next]_vars
  PROVE  NotYetSent' /\ \A c \in Claims : chain[c] = "ok" => chain'[c] = "ok"
<1> DEFINE Goal ==
      NotYetSent' /\ \A c \in Claims : chain[c] = "ok" => chain'[c] = "ok"
<1> USE DEF Typed, TypeOK, NotYetSent, Goto, handlerVars
<1>1. ASSUME UNCHANGED <<pc, chain>> PROVE Goal
  BY <1>1
<1>2. ASSUME NEW c \in Claims, Decide(c) PROVE Goal
  BY <1>2 DEF Decide
<1>3. ASSUME NEW c \in Claims, Handler(c) PROVE Goal
  <2>1. CASE LockLink(c)
    BY <2>1 DEF LockLink
  <2>2. CASE CreateRecord(c) \/ RefuseClaim(c) \/ GiveBack(c)
    BY <2>2 DEF CreateRecord, RefuseClaim, GiveBack
  <2>3. CASE Broadcast(c) \/ StoreHash(c)
    BY <2>3 DEF Broadcast, StoreHash
  <2>4. CASE SubmitFails(c)
    BY <2>4 DEF SubmitFails
  <2>5. CASE SaveLinkHash(c) \/ Complete(c) \/ CatchError(c) \/ ResetLink(c)
    BY <2>5 DEF SaveLinkHash, Complete, CatchError, ResetLink
  <2> QED
    BY <1>3, <2>1, <2>2, <2>3, <2>4, <2>5 DEF Handler
<1>4. ASSUME NEW c \in Claims, Waiter(c) PROVE Goal
  BY <1>1, <1>4 DEF Waiter, ConfirmSuccess, ConfirmReverted, ConfirmUnknown,
    OnSuccess, OnFailure
<1>5. CASE Reconciler
  BY <1>1, <1>5 DEF Reconciler, FetchReceipt, ApplyMissing, ApplyReceipt,
    ApplyFails, ReadLink, WriteLink, LoadRecord, SyncEvent, IngestEvent
<1>6. CASE ResolveLink \/ Expire
  BY <1>1, <1>6 DEF ResolveLink, Expire
<1>7. CASE Crash
  BY <1>7 DEF Crash
<1>8. CASE UNCHANGED vars
  BY <1>1, <1>8 DEF vars
<1> QED
  BY <1>2, <1>3, <1>4, <1>5, <1>6, <1>7, <1>8 DEF Next

LEMMA ClaimersSawItNext ==
  ASSUME Typed, ClaimersSawIt, [Next]_vars,
         \A c \in Claims : chain[c] = "ok" => chain'[c] = "ok"
  PROVE  ClaimersSawIt'
<1> USE ReopenedType DEF Typed, TypeOK, ReconHolds, ClaimersSawIt, WaiterTo,
        linkVars, Recon, NoDoc
<1>1. ASSUME UNCHANGED <<waiter, recon>>,
             link' # "claimed" \/ UNCHANGED linkVars
      PROVE  ClaimersSawIt'
  BY <1>1
<1>2. ASSUME NEW c \in Claims, Handler(c) PROVE ClaimersSawIt'
  <2>1. CASE LockLink(c)
    BY <1>1, <2>1 DEF LockLink
  <2>2. CASE SaveLinkHash(c)
    BY <2>2 DEF SaveLinkHash
  <2>3. CASE GiveBack(c) \/ ResetLink(c)
    BY <1>1, <2>3 DEF GiveBack, ResetLink
  <2> QED
    BY <1>1, <1>2, <2>1, <2>2, <2>3 DEF Handler, RefuseClaim, CreateRecord,
      Broadcast, StoreHash, SubmitFails, Complete, CatchError
<1>3. ASSUME NEW c \in Claims, Waiter(c) PROVE ClaimersSawIt'
  <2>1. CASE ConfirmSuccess(c)
    BY <2>1 DEF ConfirmSuccess
  <2>2. CASE ConfirmReverted(c) \/ ConfirmUnknown(c)
    BY <2>2 DEF ConfirmReverted, ConfirmUnknown
  <2>3. CASE OnSuccess(c)
    BY <2>3 DEF OnSuccess
  <2>4. CASE OnFailure(c)
    BY <2>4 DEF OnFailure
  <2> QED
    BY <1>3, <2>1, <2>2, <2>3, <2>4 DEF Waiter
<1>4. CASE Reconciler
  <2>1. ASSUME NEW c \in Claims, LoadRecord(c) \/ SyncEvent(c) \/ IngestEvent(c)
        PROVE  ClaimersSawIt'
    BY <2>1 DEF LoadRecord, SyncEvent, IngestEvent
  <2>2. CASE FetchReceipt
    BY <2>2 DEF FetchReceipt
  <2>3. CASE ApplyMissing \/ ApplyFails
    BY <2>3 DEF ApplyMissing, ApplyFails
  <2>4. CASE ApplyReceipt
    BY <2>4 DEF ApplyReceipt
  <2>5. CASE ReadLink
    BY <2>5 DEF ReadLink
  <2>6. CASE WriteLink
    BY <2>6 DEF WriteLink
  <2> QED
    BY <1>4, <2>1, <2>2, <2>3, <2>4, <2>5, <2>6 DEF Reconciler
<1>5. ASSUME NEW c \in Claims, Decide(c) PROVE ClaimersSawIt'
  BY <1>1, <1>5 DEF Decide
<1>6. CASE ResolveLink \/ Expire
  BY <1>1, <1>6 DEF ResolveLink, Expire
<1>7. CASE Crash
  BY <1>7 DEF Crash
<1>8. CASE UNCHANGED vars
  BY <1>1, <1>8 DEF vars
<1> QED
  BY <1>2, <1>3, <1>4, <1>5, <1>6, <1>7, <1>8 DEF Next

(* Under every hazard a link shown as claimed was paid to the account it names:*)
(* the waiter's onSuccess and the reconciler's settlement both saw a receipt.  *)
THEOREM ClaimedLinkWasPaidHolds == Spec => []ClaimedLinkWasPaid
<1> DEFINE Inv == Typed /\ NotYetSent /\ ClaimersSawIt
<1>1. Init => Inv
  BY TypedInit, ClaimedInit
<1>2. Inv /\ [Next]_vars => Inv'
  BY TypedNext, NotYetSentNext, ClaimersSawItNext
<1>3. Inv => ClaimedLinkWasPaid
  BY DEF ClaimersSawIt, ClaimedLinkWasPaid
<1> QED
  BY <1>1, <1>2, <1>3, PTL DEF Spec

-----------------------------------------------------------------------------
(* Claims of one link in calm weather *)

\* c took the link and has not let go of it: its handler or its waiter may
\* still write the link, or it was sent and no event took its hash away.
Holds(c) ==
  \/ pc[c] \in {"locked", "created", "sent", "submitted", "catch", "reset"}
  \/ waiter[c] # "off"
  \/ chain[c] # "none" /\ c \notin ingested

\* In calm weather the chain executes what it is given, and a confirmation
\* fails only where the index refuses its save.
FailsOnlyIngested ==
  /\ \A c \in Claims :
       /\ chain[c] # "reverted"
       /\ waiter[c] = "failed" => c \in ingested
       /\ waiter[c] # "off" => pc[c] \in {"completing", "done"}
       /\ pc[c] \in {"idle", "locked", "created", "catch", "reset"}
            => chain[c] = "none"
  /\ recon.phase # "reverted"
  /\ recon.phase \in {"settle", "write"} => recon.status = "success"

\* The claim that holds the link keeps it from being active.
OneHolds ==
  /\ \A c, d \in Claims : Holds(c) /\ Holds(d) => c = d
  /\ link = "active" => \A c \in Claims : ~Holds(c)

CalmInv == Calm => FailsOnlyIngested /\ OneHolds

LEMMA CalmInit == Init => CalmInv
  BY DEF Init, CalmInv, FailsOnlyIngested, OneHolds, Holds, NoDoc

LEMMA CalmBounds ==
  ASSUME TypeOK, Calm
  PROVE  ~DbFault /\ Hazards = {}
  BY DEF TypeOK, Calm, DbFault

\* A step after which no claim holds a link it did not hold before, and that
\* opens no link.
LEMMA SameHolds ==
  ASSUME OneHolds, link' # "active" \/ link' = link,
         \A c \in Claims : Holds(c)' => Holds(c)
  PROVE  OneHolds'
  BY DEF OneHolds

\* A step by which the claim that holds the link lets go of it.
LEMMA LetsGo ==
  ASSUME OneHolds, NEW c \in Claims, Holds(c), ~Holds(c)',
         \A d \in Claims \ {c} : Holds(d)' => Holds(d)
  PROVE  OneHolds'
<1>1. \A d \in Claims : ~Holds(d)'
  BY DEF OneHolds
<1> QED
  BY <1>1 DEF OneHolds

LEMMA CalmNext ==
  ASSUME Typed, CalmInv, [Next]_vars
  PROVE  CalmInv'
<1> SUFFICES ASSUME Calm' PROVE (FailsOnlyIngested /\ OneHolds)'
  BY DEF CalmInv
<1>0. scenario' = scenario /\ TypeOK /\ Calm
  <2>1. scenario' = scenario
    BY DEF Next, vars, Handler, Waiter, Reconciler, LockLink, GiveBack,
      RefuseClaim, CreateRecord, Broadcast, StoreHash, SubmitFails,
      SaveLinkHash, Complete, CatchError, ResetLink, ConfirmSuccess,
      ConfirmReverted, ConfirmUnknown, OnSuccess, OnFailure, FetchReceipt,
      ApplyMissing, ApplyReceipt, ApplyFails, ReadLink, WriteLink, LoadRecord,
      SyncEvent, IngestEvent, Decide, ResolveLink, Expire, Crash
  <2> QED
    BY <2>1 DEF Typed, Calm, Hazards, MaxDbFaults
<1>00. FailsOnlyIngested /\ OneHolds /\ ~DbFault /\ Hazards = {}
  BY <1>0, CalmBounds DEF CalmInv
<1> USE <1>0, <1>00 DEF Typed, TypeOK, FailsOnlyIngested, Goto, WaiterTo,
        Recon, linkVars, handlerVars, recordVars, boundVars
<1>1. ASSUME UNCHANGED <<pc, chain, waiter, ingested, recon>>,
             link' # "active" \/ link' = link
      PROVE  (FailsOnlyIngested /\ OneHolds)'
  <2>1. \A c \in Claims : Holds(c)' => Holds(c)
    BY <1>1 DEF Holds
  <2> QED
    BY <1>1, <2>1, SameHolds
<1>2. ASSUME NEW c \in Claims, Handler(c)
      PROVE  (FailsOnlyIngested /\ OneHolds)'
  <2>1. CASE LockLink(c)
    <3>1. FailsOnlyIngested'
      BY <2>1 DEF LockLink
    <3>2. CASE link = "active"
      <4>1. \A d \in Claims : ~Holds(d)
        BY <3>2 DEF OneHolds
      <4>2. link' # "active" /\ \A d \in Claims \ {c} : ~Holds(d)'
        BY <2>1, <3>2, <4>1 DEF LockLink, Holds
      <4> QED
        BY <3>1, <4>2 DEF OneHolds
    <3>3. CASE link # "active"
      <4>1. link' # "active" /\ \A d \in Claims : Holds(d)' => Holds(d)
        BY <2>1, <3>3 DEF LockLink, Holds
      <4> QED
        BY <3>1, <4>1, SameHolds
    <3> QED
      BY <3>2, <3>3
  <2>2. CASE GiveBack(c) \/ ResetLink(c)
    <3>1. chain[c] = "none" /\ pc[c] \in {"locked", "reset"}
          /\ waiter[c] = "off"
      BY <2>2 DEF GiveBack, ResetLink
    <3>2. pc' = [pc EXCEPT ![c] = "done"]
          /\ UNCHANGED <<chain, waiter, ingested, recon>>
      BY <2>2 DEF GiveBack, ResetLink
    <3>3. FailsOnlyIngested'
      BY <3>1, <3>2
    <3>4. OneHolds'
      BY <3>1, <3>2, LetsGo DEF Holds
    <3> QED
      BY <3>3, <3>4
  <2>3. CASE RefuseClaim(c) \/ CreateRecord(c) \/ SubmitFails(c)
    <3>1. FailsOnlyIngested'
      BY <2>3 DEF RefuseClaim, CreateRecord, SubmitFails
    <3>2. UNCHANGED link /\ \A d \in Claims : Holds(d)' => Holds(d)
      BY <2>3 DEF RefuseClaim, CreateRecord, SubmitFails, Holds
    <3> QED
      BY <3>1, <3>2, SameHolds
  <2>4. CASE Broadcast(c) \/ StoreHash(c)
    <3>1. FailsOnlyIngested'
      BY <2>4 DEF Broadcast, StoreHash
    <3>2. UNCHANGED link /\ \A d \in Claims : Holds(d)' => Holds(d)
      BY <2>4 DEF Broadcast, StoreHash, Holds
    <3> QED
      BY <3>1, <3>2, SameHolds
  <2>5. CASE SaveLinkHash(c)
    <3>1. FailsOnlyIngested'
      BY <2>5 DEF SaveLinkHash
    <3>2. UNCHANGED link /\ \A d \in Claims : Holds(d)' => Holds(d)
      BY <2>5 DEF SaveLinkHash, Holds
    <3> QED
      BY <3>1, <3>2, SameHolds
  <2>6. CASE Complete(c)
    <3>1. FailsOnlyIngested'
      BY <2>6 DEF Complete
    <3>2. UNCHANGED link /\ \A d \in Claims : Holds(d)' => Holds(d)
      BY <2>6 DEF Complete, Holds
    <3> QED
      BY <3>1, <3>2, SameHolds
  <2>7. CASE CatchError(c)
    <3>1. FailsOnlyIngested'
      BY <2>7 DEF CatchError
    <3>2. UNCHANGED link /\ \A d \in Claims : Holds(d)' => Holds(d)
      BY <2>7 DEF CatchError, Holds
    <3> QED
      BY <3>1, <3>2, SameHolds
  <2> QED
    BY <1>2, <2>1, <2>2, <2>3, <2>4, <2>5, <2>6, <2>7 DEF Handler
<1>3. ASSUME NEW c \in Claims, Waiter(c)
      PROVE  (FailsOnlyIngested /\ OneHolds)'
  <2>1. CASE ConfirmSuccess(c)
    <3>1. \/ waiter' = [waiter EXCEPT ![c] = "succeeded"]
          \/ c \in ingested /\ waiter' = [waiter EXCEPT ![c] = "failed"]
      BY <2>1 DEF ConfirmSuccess, NotSaved, Refused
    <3>2. waiter[c] = "waiting"
          /\ UNCHANGED <<link, pc, chain, ingested, recon>>
      BY <2>1 DEF ConfirmSuccess
    <3>3. FailsOnlyIngested'
      BY <3>1, <3>2
    <3>4. \A d \in Claims : Holds(d)' => Holds(d)
      BY <3>1, <3>2 DEF Holds
    <3> QED
      BY <3>2, <3>3, <3>4, SameHolds
  <2>2. CASE OnSuccess(c)
    <3>1. FailsOnlyIngested'
      BY <2>2 DEF OnSuccess
    <3>2. \A d \in Claims : Holds(d)' => Holds(d)
      BY <2>2 DEF OnSuccess, Holds
    <3>3. link' # "active" \/ link' = link
      BY <2>2 DEF OnSuccess
    <3> QED
      BY <3>1, <3>2, <3>3, SameHolds
  <2>3. CASE OnFailure(c)
    <3>1. waiter[c] = "failed" /\ waiter' = [waiter EXCEPT ![c] = "off"]
          /\ UNCHANGED <<pc, chain, ingested, recon>>
      BY <2>3 DEF OnFailure
    <3>2. c \in ingested /\ pc[c] \in {"completing", "done"}
      BY <3>1
    <3>3. FailsOnlyIngested'
      BY <3>1
    <3>4. Holds(c) /\ ~Holds(c)' /\ \A d \in Claims \ {c} : Holds(d)' => Holds(d)
      BY <3>1, <3>2 DEF Holds
    <3> QED
      BY <3>3, <3>4, LetsGo
  <2>4. ~ConfirmReverted(c) /\ ~ConfirmUnknown(c)
    BY DEF ConfirmReverted, ConfirmUnknown
  <2> QED
    BY <1>3, <2>1, <2>2, <2>3, <2>4 DEF Waiter
<1>4. ASSUME NEW c \in Claims, Decide(c)
      PROVE  (FailsOnlyIngested /\ OneHolds)'
  <2>1. FailsOnlyIngested'
    BY <1>4 DEF Decide
  <2>2. UNCHANGED link /\ \A d \in Claims : Holds(d)' => Holds(d)
    BY <1>4 DEF Decide, Holds
  <2> QED
    BY <2>1, <2>2, SameHolds
<1>5. CASE Reconciler
  <2>1. ASSUME UNCHANGED <<pc, chain, waiter>>,
               ingested \subseteq ingested',
               link' # "active" \/ link' = link,
               recon'.phase # "reverted",
               recon'.phase \in {"settle", "write"}
                 => recon'.status = "success"
        PROVE  (FailsOnlyIngested /\ OneHolds)'
    <3>1. \A d \in Claims : Holds(d)' => Holds(d)
      BY <2>1 DEF Holds
    <3> QED
      BY <2>1, <3>1, SameHolds
  <2>2. ASSUME NEW c \in Claims, LoadRecord(c) \/ SyncEvent(c) \/ IngestEvent(c)
        PROVE  (FailsOnlyIngested /\ OneHolds)'
    BY <2>1, <2>2 DEF LoadRecord, SyncEvent, IngestEvent
  <2>3. CASE FetchReceipt
    BY <2>1, <2>3 DEF FetchReceipt, ReconHolds, NoDoc
  <2>4. CASE ApplyMissing
    BY <2>1, <2>4 DEF ApplyMissing, NoDoc
  <2>5. CASE ApplyReceipt
    BY <2>1, <2>5 DEF ApplyReceipt, NoDoc
  <2>6. CASE ReadLink
    BY <2>1, <2>6 DEF ReadLink, NoDoc
  <2>7. CASE WriteLink
    BY <2>1, <2>7 DEF WriteLink, NoDoc
  <2>8. ~ApplyFails
    BY DEF ApplyFails
  <2> QED
    BY <1>5, <2>2, <2>3, <2>4, <2>5, <2>6, <2>7, <2>8 DEF Reconciler
<1>6. CASE ResolveLink \/ Expire
  BY <1>1, <1>6 DEF ResolveLink, Expire
<1>7. CASE Crash
  <2>1. FailsOnlyIngested'
    BY <1>7 DEF Crash, NoDoc
  <2>2. UNCHANGED link /\ \A d \in Claims : Holds(d)' => Holds(d)
    BY <1>7 DEF Crash, Holds
  <2> QED
    BY <2>1, <2>2, SameHolds
<1>8. CASE UNCHANGED vars
  BY <1>1, <1>8 DEF vars
<1> QED
  BY <1>2, <1>3, <1>4, <1>5, <1>6, <1>7, <1>8 DEF Next

(* In calm weather, for any number of claims and restarts, two claims are paid *)
(* only if the event of one was recorded before its hash: findOneAndUpdate     *)
(* admits one claim at a time, and a claim whose hash is on record or still to *)
(* be recorded is never the reason for which the link is opened again.         *)
THEOREM CalmOneClaimIsPaidHolds == Spec => []CalmOneClaimIsPaid
<1> DEFINE Inv == Typed /\ CalmInv
<1>1. Init => Inv
  BY TypedInit, CalmInit
<1>2. Inv /\ [Next]_vars => Inv'
  BY TypedNext, CalmNext
<1>3. Inv => CalmOneClaimIsPaid
  BY DEF CalmInv, OneHolds, Holds, CalmOneClaimIsPaid
<1> QED
  BY <1>1, <1>2, <1>3, PTL DEF Spec

=============================================================================
