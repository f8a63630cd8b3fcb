------------------------------ MODULE ChainProofs -----------------------------
(* Proofs about what happens on the chain: the escrow contract (Remittance), *)
(* for any set of accounts and contracts, any number of escrows and any      *)
(* amounts, and the synchronisation of the events it emits (EventSync), for  *)
(* any configuration, chain and number of transfers.  Neither part uses a    *)
(* fact about the other one.                                                 *)
EXTENDS Remittance, EventSync, FiniteSetTheorems, SequenceTheorems, TLAPS

-----------------------------------------------------------------------------
(* The escrow contract *)

USE DEF admin, escrows, frame

LEMMA SupplyType == Supply \in Nat
  BY AccountsAssumption, BoundsAssumption, FS_CardinalityType DEF Supply

\* TypeOK without the detour over records that Snapshot makes.
Fields ==
  /\ owner \in Accounts /\ paused \in BOOLEAN
  /\ nextTransactionId \in 1 .. MaxId + 1
  /\ transactions \in [Ids -> Escrow]
  /\ withdrawableBalances \in [Accounts -> Nat]
  /\ balance \in Int /\ wallet \in [Accounts -> Int]
  /\ saved \in Storage
  /\ locked \in {1, 2}
  /\ now \in 0 .. MaxTime
  /\ sending \in [receiver : Addresses, amount : Nat]

LEMMA FieldsAreTypes == Fields <=> TypeOK
  BY DEF Fields, TypeOK, Snapshot, Storage

LEMMA NothingType == Nothing \in Escrow
  BY DEF Nothing, Escrow, Addresses

LEMMA NoFrameType ==
  /\ NoSnapshot \in Storage
  /\ NoCall \in [receiver : Addresses, amount : Nat]
<1>1. /\ 1 \in 1 .. MaxId + 1
      /\ [id \in Ids |-> Nothing] \in [Ids -> Escrow]
      /\ [a \in Accounts |-> 0] \in [Accounts -> Nat]
      /\ [a \in Accounts |-> Funds] \in [Accounts -> Int]
  BY BoundsAssumption, NothingType
<1> QED
  BY <1>1, AccountsAssumption DEF NoSnapshot, Storage, NoCall, Addresses

LEMMA FieldsInit == Init => Fields
<1> SUFFICES ASSUME Init PROVE Fields
  OBVIOUS
<1>1. transactions \in [Ids -> Escrow]
  BY NothingType DEF Init
<1>2. /\ withdrawableBalances \in [Accounts -> Nat]
      /\ balance \in Int /\ wallet \in [Accounts -> Int]
  BY BoundsAssumption DEF Init
<1>3. saved \in Storage /\ sending \in [receiver : Addresses, amount : Nat]
  BY NoFrameType DEF Init
<1>4. nextTransactionId \in 1 .. MaxId + 1 /\ now \in 0 .. MaxTime
  BY BoundsAssumption DEF Init
<1> QED
  BY <1>1, <1>2, <1>3, <1>4, AccountsAssumption DEF Init, Fields

LEMMA SnapshotType == Fields => Snapshot \in Storage
  BY FieldsAreTypes DEF TypeOK

LEMMA OpenFrameType ==
  ASSUME Fields, NEW r \in Accounts, NEW v \in Nat, OpenFrame(r, v)
  PROVE  /\ locked' \in {1, 2} /\ saved' \in Storage
         /\ sending' \in [receiver : Addresses, amount : Nat]
  BY SnapshotType DEF OpenFrame, Addresses

LEMMA SettleType ==
  ASSUME Fields, NEW id \in Ids, NEW a \in Accounts,
         NEW s \in {"Claimed", "Cancelled"}, Settle(id, a, s)
  PROVE  Fields'
<1>1. transactions[id] \in Escrow
  BY DEF Fields
<1>2. [transactions[id] EXCEPT !.status = s] \in Escrow
  BY <1>1 DEF Escrow
<1>3. transactions' = [transactions EXCEPT ![id] =
                         [transactions[id] EXCEPT !.status = s]]
  BY DEF Settle
<1>4. transactions' \in [Ids -> Escrow]
  BY <1>2, <1>3 DEF Fields
<1>5. transactions[id].amount \in Nat
  BY <1>1 DEF Escrow
<1>6. withdrawableBalances' \in [Accounts -> Nat]
  BY <1>5 DEF Fields, Settle
<1> QED
  BY <1>4, <1>6 DEF Fields, Settle

LEMMA FieldsNext == Fields /\ [Next]_vars => Fields'
<1> SUFFICES ASSUME Fields, [Next]_vars PROVE Fields'
  OBVIOUS
<1> USE AccountsAssumption, BoundsAssumption, SupplyType DEF Fields
<1>1. ASSUME NEW s \in Accounts, NEW r \in Accounts \cup {Zero},
             NEW v \in 0 .. Supply, transfer(s, r, v)
      PROVE  Fields'
  <2>1. r \in Accounts /\ v \in Nat
    BY <1>1 DEF transfer, ValidTransfer
  <2>2. wallet' \in [Accounts -> Int]
    BY <1>1, <2>1 DEF transfer
  <2> QED
    BY <1>1, <2>1, <2>2, OpenFrameType DEF transfer
<1>2. ASSUME NEW s \in Accounts, NEW r \in Accounts \cup {Zero},
             NEW v \in 0 .. Supply, NEW t \in 0 .. MaxTime,
             createEscrow(s, r, v, t)
      PROVE  Fields'
  <2>1. r \in Accounts /\ v \in Nat /\ t \in Nat
    BY <1>2 DEF createEscrow, ValidTransfer
  <2>2. [sender |-> s, receiver |-> r, amount |-> v, expiresAt |-> t,
         status |-> "Pending"] \in Escrow
    BY <2>1 DEF Escrow, Addresses
  <2>3. transactions' \in [Ids -> Escrow]
    BY <1>2, <2>2 DEF createEscrow
  <2>4. nextTransactionId' \in 1 .. MaxId + 1
    BY <1>2 DEF createEscrow, Ids
  <2>5. wallet' \in [Accounts -> Int] /\ balance' \in Int
    BY <1>2, <2>1 DEF createEscrow
  <2> QED
    BY <1>2, <2>3, <2>4, <2>5 DEF createEscrow
<1>3. ASSUME NEW s \in Accounts, NEW id \in Ids, claim(s, id) PROVE Fields'
  BY <1>3, SettleType DEF claim
<1>4. ASSUME NEW s \in Accounts, NEW id \in Ids, cancel(s, id) PROVE Fields'
  BY <1>4, SettleType DEF cancel
<1>5. ASSUME NEW s \in Accounts, withdraw(s) PROVE Fields'
  <2>1. withdrawableBalances[s] \in Nat
    OBVIOUS
  <2>2. wallet' \in [Accounts -> Int] /\ balance' \in Int
    BY <1>5, <2>1 DEF withdraw
  <2>3. withdrawableBalances' \in [Accounts -> Nat]
    BY <1>5 DEF withdraw
  <2> QED
    BY <1>5, <2>1, <2>2, <2>3, OpenFrameType DEF withdraw
<1>6. ASSUME NEW s \in Accounts, pause(s) \/ unpause(s) PROVE Fields'
  BY <1>6 DEF pause, unpause
<1>7. ASSUME NEW s \in Accounts, NEW r \in Accounts \cup {Zero},
             transferOwnership(s, r)
      PROVE  Fields'
  BY <1>7 DEF transferOwnership
<1>8. CASE SendSucceeds
  BY <1>8, NoFrameType DEF SendSucceeds, CloseFrame
<1>9. CASE SendFails
  <2>1. /\ saved.owner \in Accounts /\ saved.paused \in BOOLEAN
        /\ saved.nextTransactionId \in 1 .. MaxId + 1
        /\ saved.transactions \in [Ids -> Escrow]
        /\ saved.withdrawableBalances \in [Accounts -> Nat]
        /\ saved.balance \in Int /\ saved.wallet \in [Accounts -> Int]
    BY DEF Storage
  <2> QED
    BY <1>9, <2>1, NoFrameType DEF SendFails, CloseFrame
<1>10. CASE Tick
  BY <1>10 DEF Tick
<1>11. CASE UNCHANGED vars
  BY <1>11 DEF vars
<1> QED
  BY <1>1, <1>2, <1>3, <1>4, <1>5, <1>6, <1>7, <1>8, <1>9, <1>10, <1>11
  DEF Next

(* Every variable of the contract stays in its range, through reentrant calls *)
(* and reverts; the owner is never address(0).                               *)
THEOREM TypeCorrect == Spec => []TypeOK
<1>1. Spec => []Fields
  BY FieldsInit, FieldsNext, PTL DEF Spec
<1> QED
  BY <1>1, FieldsAreTypes, PTL

-----------------------------------------------------------------------------
(* The lock and the frame.  While value is being sent the lock is taken, so  *)
(* no second frame opens and saved is the storage of the outer call; what the *)
(* receiver's code did to an escrow since then is what the ledger allows.    *)

LockInv == sending # NoCall => locked = 2

\* Identifiers not issued yet have never been written.
FreshInv ==
  /\ \A id \in Ids : id >= nextTransactionId => transactions[id] = Nothing
  /\ \A id \in Ids : id >= saved.nextTransactionId
                       => saved.transactions[id] = Nothing

FrameInv ==
  sending # NoCall =>
    \A id \in Ids :
      Ledger!Allowed(saved.transactions[id], transactions[id], now)

EscrowInv == LockInv /\ FreshInv /\ FrameInv

\* A call that opens or settles one escrow does what the ledger allows.
LEMMA OpenIsAllowed ==
  ASSUME Fields, FreshInv, NEW s \in Accounts, NEW r \in Accounts \cup {Zero},
         NEW v \in 0 .. Supply, NEW t \in 0 .. MaxTime,
         createEscrow(s, r, v, t), NEW id \in Ids
  PROVE  Ledger!Allowed(transactions[id], transactions'[id], now)
<1> DEFINE f == [sender |-> s, receiver |-> r, amount |-> v, expiresAt |-> t,
                 status |-> "Pending"]
<1>1. CASE id = nextTransactionId
  <2>1. transactions[id] = Nothing
    BY <1>1 DEF FreshInv, Fields
  <2>2. transactions'[id] = f
    BY <1>1 DEF createEscrow, Fields
  <2>3. v > 0 /\ s # r /\ t > now
    BY SupplyType DEF createEscrow, ValidTransfer
  <2> QED
    BY <2>1, <2>2, <2>3 DEF Ledger!Allowed, Ledger!Opened
<1>2. CASE id # nextTransactionId
  BY <1>2 DEF createEscrow, Fields, Ledger!Allowed
<1> QED
  BY <1>1, <1>2

LEMMA SettleIsAllowed ==
  ASSUME Fields, NEW s \in Accounts, NEW i \in Ids, claim(s, i) \/ cancel(s, i),
         NEW id \in Ids
  PROVE  Ledger!Allowed(transactions[id], transactions'[id], now)
<1>1. CASE id = i
  <2>1. transactions[id] \in Escrow /\ transactions[id].status = "Pending"
    BY <1>1 DEF Fields, claim, cancel
  <2>2. now \in Nat /\ transactions[id].expiresAt \in Nat
    BY <2>1, BoundsAssumption DEF Fields, Escrow
  <2>3. transactions'[id] =
          [transactions[id] EXCEPT !.status =
             IF now < transactions[id].expiresAt THEN "Claimed" ELSE "Cancelled"]
    BY <1>1, <2>2 DEF claim, cancel, Settle, Fields
  <2> QED
    BY <2>1, <2>3 DEF Ledger!Allowed, Ledger!Closed, Ledger!SameTerms, Escrow
<1>2. CASE id # i
  BY <1>2 DEF claim, cancel, Settle, Fields, Ledger!Allowed
<1> QED
  BY <1>1, <1>2

\* Two steps of one blockchain transaction, taken together, are one.
LEMMA AllowedComposes ==
  ASSUME NEW e \in Escrow, NEW f \in Escrow, NEW g \in Escrow, NEW t \in Nat,
         Ledger!Allowed(e, f, t), Ledger!Allowed(f, g, t)
  PROVE  Ledger!Allowed(e, g, t)
  BY DEF Ledger!Allowed, Ledger!Opened, Ledger!Closed, Ledger!SameTerms,
         Nothing, Escrow

-----------------------------------------------------------------------------
LEMMA EscrowInvInit == Init => EscrowInv
  BY DEF Init, EscrowInv, LockInv, FreshInv, FrameInv, NoSnapshot

LEMMA LockNext == Fields /\ LockInv /\ [Next]_vars => LockInv'
<1> SUFFICES ASSUME Fields, LockInv, [Next]_vars PROVE LockInv'
  OBVIOUS
<1> USE DEF LockInv
<1>1. ASSUME NEW s \in Accounts, NEW r \in Accounts \cup {Zero},
             NEW v \in 0 .. Supply, transfer(s, r, v)
      PROVE  LockInv'
  BY <1>1 DEF transfer, OpenFrame
<1>2. ASSUME NEW s \in Accounts, NEW r \in Accounts \cup {Zero},
             NEW v \in 0 .. Supply, NEW t \in 0 .. MaxTime,
             createEscrow(s, r, v, t)
      PROVE  LockInv'
  BY <1>2 DEF createEscrow
<1>3. ASSUME NEW s \in Accounts, NEW id \in Ids, claim(s, id) \/ cancel(s, id)
      PROVE  LockInv'
  BY <1>3 DEF claim, cancel, Settle
<1>4. ASSUME NEW s \in Accounts, withdraw(s) PROVE LockInv'
  BY <1>4 DEF withdraw, OpenFrame
<1>5. ASSUME NEW s \in Accounts, NEW r \in Accounts \cup {Zero},
             pause(s) \/ unpause(s) \/ transferOwnership(s, r)
      PROVE  LockInv'
  BY <1>5 DEF pause, unpause, transferOwnership
<1>6. CASE SendSucceeds \/ SendFails
  BY <1>6 DEF SendSucceeds, SendFails, CloseFrame
<1>7. CASE Tick \/ UNCHANGED vars
  BY <1>7 DEF Tick, vars
<1> QED
  BY <1>1, <1>2, <1>3, <1>4, <1>5, <1>6, <1>7 DEF Next

LEMMA FreshNext == Fields /\ FreshInv /\ [Next]_vars => FreshInv'
<1> SUFFICES ASSUME Fields, FreshInv, [Next]_vars PROVE FreshInv'
  OBVIOUS
<1> USE DEF FreshInv
<1>1. ASSUME NEW s \in Accounts, NEW r \in Accounts \cup {Zero},
             NEW v \in 0 .. Supply, transfer(s, r, v)
      PROVE  FreshInv'
  BY <1>1 DEF transfer, OpenFrame, Snapshot
<1>2. ASSUME NEW s \in Accounts, NEW r \in Accounts \cup {Zero},
             NEW v \in 0 .. Supply, NEW t \in 0 .. MaxTime,
             createEscrow(s, r, v, t)
      PROVE  FreshInv'
  <2> SUFFICES ASSUME NEW id \in Ids, id >= nextTransactionId'
               PROVE  transactions'[id] = Nothing
    BY <1>2 DEF createEscrow
  <2>1. id >= nextTransactionId /\ id # nextTransactionId
    BY <1>2, BoundsAssumption DEF createEscrow, Fields, Ids
  <2> QED
    BY <1>2, <2>1 DEF createEscrow, Fields
<1>3. ASSUME NEW s \in Accounts, NEW i \in Ids, claim(s, i) \/ cancel(s, i)
      PROVE  FreshInv'
  <2>1. i < nextTransactionId
    BY <1>3 DEF claim, cancel, Nothing, Fields, Ids
  <2>2. /\ UNCHANGED <<nextTransactionId, saved>>
        /\ \A id \in Ids : id # i => transactions'[id] = transactions[id]
    <3>1. CASE claim(s, i)
      BY <3>1 DEF claim, Settle, Fields, frame
    <3>2. CASE cancel(s, i)
      BY <3>2 DEF cancel, Settle, Fields, frame
    <3> QED
      BY <1>3, <3>1, <3>2
  <2>3. nextTransactionId \in Int /\ Ids \subseteq Int
    BY BoundsAssumption DEF Fields, Ids
  <2> QED
    BY <2>1, <2>2, <2>3
<1>4. ASSUME NEW s \in Accounts, withdraw(s) PROVE FreshInv'
  BY <1>4 DEF withdraw, OpenFrame, Snapshot
<1>5. ASSUME NEW s \in Accounts, NEW r \in Accounts \cup {Zero},
             pause(s) \/ unpause(s) \/ transferOwnership(s, r)
      PROVE  FreshInv'
  BY <1>5 DEF pause, unpause, transferOwnership
<1>6. CASE SendSucceeds \/ SendFails
  BY <1>6 DEF SendSucceeds, SendFails, CloseFrame, NoSnapshot
<1>7. CASE Tick \/ UNCHANGED vars
  BY <1>7 DEF Tick, vars
<1> QED
  BY <1>1, <1>2, <1>3, <1>4, <1>5, <1>6, <1>7 DEF Next

\* A call inside an open frame extends what the frame has done so far.
LEMMA FrameExtends ==
  ASSUME Fields, FrameInv,
         UNCHANGED <<now, frame>>, transactions' \in [Ids -> Escrow],
         \A id \in Ids :
           Ledger!Allowed(transactions[id], transactions'[id], now)
  PROVE  FrameInv'
<1> SUFFICES ASSUME sending # NoCall, NEW id \in Ids
             PROVE  Ledger!Allowed(saved.transactions[id], transactions'[id], now)
  BY DEF FrameInv, Ledger!Allowed, Ledger!Opened, Ledger!Closed
<1>1. /\ saved.transactions[id] \in Escrow
      /\ transactions[id] \in Escrow /\ transactions'[id] \in Escrow
      /\ now \in Nat
  BY BoundsAssumption DEF Fields, Storage
<1> QED
  BY <1>1, AllowedComposes DEF FrameInv

LEMMA FrameNext == Fields /\ EscrowInv /\ [Next]_vars => FrameInv'
<1> SUFFICES ASSUME Fields, EscrowInv, [Next]_vars PROVE FrameInv'
  OBVIOUS
<1> USE DEF EscrowInv
<1>0. Fields'
  BY FieldsNext
<1>1. ASSUME NEW s \in Accounts, NEW r \in Accounts \cup {Zero},
             NEW v \in 0 .. Supply, transfer(s, r, v)
      PROVE  FrameInv'
  BY <1>1 DEF transfer, OpenFrame, Snapshot, FrameInv, Ledger!Allowed
<1>2. ASSUME NEW s \in Accounts, NEW r \in Accounts \cup {Zero},
             NEW v \in 0 .. Supply, NEW t \in 0 .. MaxTime,
             createEscrow(s, r, v, t)
      PROVE  FrameInv'
  <2>1. \A id \in Ids : Ledger!Allowed(transactions[id], transactions'[id], now)
    BY <1>2, OpenIsAllowed
  <2>2. UNCHANGED <<now, frame>>
    BY <1>2 DEF createEscrow
  <2> QED
    BY <1>0, <2>1, <2>2, FrameExtends DEF Fields
<1>3. ASSUME NEW s \in Accounts, NEW i \in Ids, claim(s, i) \/ cancel(s, i)
      PROVE  FrameInv'
  <2>1. \A id \in Ids : Ledger!Allowed(transactions[id], transactions'[id], now)
    BY <1>3, SettleIsAllowed
  <2>2. UNCHANGED <<now, frame>>
    BY <1>3 DEF claim, cancel, Settle
  <2> QED
    BY <1>0, <2>1, <2>2, FrameExtends DEF Fields
<1>4. ASSUME NEW s \in Accounts, withdraw(s) PROVE FrameInv'
  BY <1>4 DEF withdraw, OpenFrame, Snapshot, FrameInv, Ledger!Allowed
<1>5. ASSUME NEW s \in Accounts, NEW r \in Accounts \cup {Zero},
             pause(s) \/ unpause(s) \/ transferOwnership(s, r)
      PROVE  FrameInv'
  <2>1. UNCHANGED <<now, frame, transactions>>
    BY <1>5 DEF pause, unpause, transferOwnership
  <2> QED
    BY <2>1 DEF FrameInv, Ledger!Allowed, Ledger!Opened, Ledger!Closed
<1>6. CASE SendSucceeds \/ SendFails
  BY <1>6 DEF SendSucceeds, SendFails, CloseFrame, FrameInv
<1>7. CASE Tick
  BY <1>7 DEF Tick, FrameInv
<1>8. CASE UNCHANGED vars
  BY <1>8 DEF vars, FrameInv, Ledger!Allowed, Ledger!Opened, Ledger!Closed
<1> QED
  BY <1>1, <1>2, <1>3, <1>4, <1>5, <1>6, <1>7, <1>8 DEF Next

-----------------------------------------------------------------------------
(* Refinement *)

Committed == IF sending = NoCall THEN transactions ELSE saved.transactions

LEMMA LedgerStep == Fields /\ EscrowInv /\ [Next]_vars =>
  [Ledger!LedgerNext]_<<Committed, now>>
<1> SUFFICES ASSUME Fields, EscrowInv, [Next]_vars
             PROVE  [Ledger!LedgerNext]_<<Committed, now>>
  OBVIOUS
<1> USE DEF EscrowInv, Committed
<1>c. ASSUME sending = NoCall, UNCHANGED <<now, frame>>,
             \A id \in Ids :
               Ledger!Allowed(transactions[id], transactions'[id], now)
      PROVE  Ledger!LedgerNext
  BY <1>c DEF Ledger!LedgerNext, Ledger!Commit
<1>f. ASSUME sending # NoCall, UNCHANGED <<now, frame>>
      PROVE  UNCHANGED <<Committed, now>>
  BY <1>f
<1>1. ASSUME NEW s \in Accounts, NEW r \in Accounts \cup {Zero},
             NEW v \in 0 .. Supply, transfer(s, r, v)
      PROVE  UNCHANGED <<Committed, now>>
  BY <1>1 DEF transfer, OpenFrame, Snapshot, LockInv
<1>2. ASSUME NEW s \in Accounts, NEW r \in Accounts \cup {Zero},
             NEW v \in 0 .. Supply, NEW t \in 0 .. MaxTime,
             createEscrow(s, r, v, t)
      PROVE  [Ledger!LedgerNext]_<<Committed, now>>
  <2>1. UNCHANGED <<now, frame>>
    BY <1>2 DEF createEscrow
  <2>2. \A id \in Ids : Ledger!Allowed(transactions[id], transactions'[id], now)
    BY <1>2, OpenIsAllowed
  <2> QED
    BY <2>1, <2>2, <1>c, <1>f
<1>3. ASSUME NEW s \in Accounts, NEW i \in Ids, claim(s, i) \/ cancel(s, i)
      PROVE  [Ledger!LedgerNext]_<<Committed, now>>
  <2>1. UNCHANGED <<now, frame>>
    BY <1>3 DEF claim, cancel, Settle
  <2>2. \A id \in Ids : Ledger!Allowed(transactions[id], transactions'[id], now)
    BY <1>3, SettleIsAllowed
  <2> QED
    BY <2>1, <2>2, <1>c, <1>f
<1>4. ASSUME NEW s \in Accounts, withdraw(s) PROVE UNCHANGED <<Committed, now>>
  BY <1>4 DEF withdraw, OpenFrame, Snapshot, LockInv
<1>5. ASSUME NEW s \in Accounts, NEW r \in Accounts \cup {Zero},
             pause(s) \/ unpause(s) \/ transferOwnership(s, r)
      PROVE  UNCHANGED <<Committed, now>>
  BY <1>5 DEF pause, unpause, transferOwnership
<1>6. CASE SendSucceeds
  BY <1>6 DEF SendSucceeds, CloseFrame, FrameInv, Ledger!LedgerNext,
     Ledger!Commit
<1>7. CASE SendFails
  BY <1>7 DEF SendFails, CloseFrame
<1>8. CASE Tick
  BY <1>8, BoundsAssumption DEF Tick, Fields, Ledger!LedgerNext, Ledger!Advance
<1>9. CASE UNCHANGED vars
  BY <1>9 DEF vars
<1> QED
  BY <1>1, <1>2, <1>3, <1>4, <1>5, <1>6, <1>7, <1>8, <1>9 DEF Next

LEMMA LedgerStarts == Init => Ledger!LedgerInit
  BY DEF Init, Ledger!LedgerInit

(* The lock is taken in every frame, and what a frame has done so far is what *)
(* the ledger allows one blockchain transaction to do.                       *)
THEOREM EscrowInvariant == Spec => [](Fields /\ EscrowInv)
<1>1. Init => Fields /\ EscrowInv
  BY FieldsInit, EscrowInvInit
<1>2. Fields /\ EscrowInv /\ [Next]_vars => (Fields /\ EscrowInv)'
  BY FieldsNext, LockNext, FreshNext, FrameNext DEF EscrowInv
<1> QED
  BY <1>1, <1>2, PTL DEF Spec

(* The contract implements the ledger: for any accounts, amounts and depth of *)
(* callbacks, a committed escrow keeps its terms and leaves Pending at most  *)
(* once, to Claimed before its expiry or to Cancelled from then on.          *)
THEOREM Refinement == Spec => RefinesLedger
<1>1. Fields /\ EscrowInv /\ [Next]_vars => [Ledger!LedgerNext]_<<Committed, now>>
  BY LedgerStep
<1> QED
  BY <1>1, LedgerStarts, EscrowInvariant, PTL
  DEF Spec, RefinesLedger, Ledger!LedgerSpec, Committed

-----------------------------------------------------------------------------
(* Sums over finite sets.  MapThenSumSet is the value at S of a function     *)
(* defined by recursion on the subsets of S.  That there is such a function, *)
(* and what it computes, is shown by minimal counterexample: the proper subset *)
(* order on the subsets of a finite set is well founded.                     *)

\* the element MapThenSumSet takes next
Pick(s) == CHOOSE x \in s : TRUE

\* g is the recursive function behind MapThenSumSet over S, for the summands f.
SumsOf(g, f, S) ==
  g = [s \in SUBSET S |->
         IF s = {} THEN 0 ELSE f[Pick(s)] + g[s \ {Pick(s)}]]

\* The sum of the summands f over S.
Total(f, S) == (CHOOSE g : SumsOf(g, f, S))[S]

LEMMA PickIsIn == \A s : s # {} => Pick(s) \in s
  BY DEF Pick

\* A non-empty family of subsets of a finite set has a minimal member.
LEMMA SmallestSet ==
  ASSUME NEW S, IsFiniteSet(S), NEW B \in SUBSET SUBSET S, B # {}
  PROVE  \E T \in B : \A U \in SUBSET T : U # T => U \notin B
<1>1. IsWellFoundedOn(StrictSubsetOrdering(S), SUBSET S)
  BY FS_StrictSubsetOrderingWellFounded, FS_FiniteSubsetsOfFinite
<1>2. PICK T \in B : \A U \in B : ~ (<<U, T>> \in StrictSubsetOrdering(S))
  BY <1>1, WFMin
<1>3. ASSUME NEW U \in SUBSET T, U # T, U \in B
      PROVE  FALSE
  <2>1. <<U, T>> \in StrictSubsetOrdering(S)
    BY <1>3 DEF StrictSubsetOrdering
  <2> QED
    BY <1>2, <1>3, <2>1
<1> QED
  BY <1>2, <1>3

\* What is computed for a set depends on the summands at its elements only.
LEMMA SumsAgree ==
  ASSUME NEW S1, NEW S2, NEW f1, NEW f2, NEW g1, NEW g2,
         SumsOf(g1, f1, S1), SumsOf(g2, f2, S2),
         NEW S, IsFiniteSet(S), S \subseteq S1, S \subseteq S2,
         \A x \in S : f1[x] = f2[x]
  PROVE  g1[S] = g2[S]
<1> SUFFICES ASSUME g1[S] # g2[S] PROVE FALSE
  OBVIOUS
<1> DEFINE B == {T \in SUBSET S : g1[T] # g2[T]}
<1>1. S \in B
  OBVIOUS
<1>0. B \in SUBSET SUBSET S
  OBVIOUS
<1> HIDE DEF B
<1>2. PICK T \in B : \A U \in SUBSET T : U # T => U \notin B
  BY <1>0, <1>1, SmallestSet
<1>3. T \in SUBSET S /\ T \in SUBSET S1 /\ T \in SUBSET S2 /\ g1[T] # g2[T]
  BY <1>2 DEF B
<1>4. g1[T] = IF T = {} THEN 0 ELSE f1[Pick(T)] + g1[T \ {Pick(T)}]
  BY <1>3 DEF SumsOf
<1>5. g2[T] = IF T = {} THEN 0 ELSE f2[Pick(T)] + g2[T \ {Pick(T)}]
  BY <1>3 DEF SumsOf
<1>6. T # {} /\ Pick(T) \in T
  BY <1>3, <1>4, <1>5, PickIsIn
<1>7. g1[T \ {Pick(T)}] = g2[T \ {Pick(T)}]
  BY <1>2, <1>3, <1>6 DEF B
<1> QED
  BY <1>3, <1>4, <1>5, <1>6, <1>7

\* The recursion defines a function.
LEMMA SumExists ==
  ASSUME NEW S, IsFiniteSet(S), NEW f
  PROVE  SumsOf(CHOOSE g : SumsOf(g, f, S), f, S)
<1> SUFFICES \E g : SumsOf(g, f, S)
  OBVIOUS
<1> SUFFICES ASSUME ~ \E g : SumsOf(g, f, S) PROVE FALSE
  OBVIOUS
<1> DEFINE B == {T \in SUBSET S : ~ \E g : SumsOf(g, f, T)}
<1>1. S \in B
  OBVIOUS
<1>0. B \in SUBSET SUBSET S
  OBVIOUS
<1> HIDE DEF B
<1>2. PICK T \in B : \A U \in SUBSET T : U # T => U \notin B
  BY <1>0, <1>1, SmallestSet
<1>3. T \subseteq S /\ ~ \E g : SumsOf(g, f, T)
  BY <1>2 DEF B
<1>4. \A U \in SUBSET T : IsFiniteSet(U)
  BY <1>3, FS_Subset
<1>5. ASSUME NEW U \in SUBSET T, U # T
      PROVE  SumsOf(CHOOSE g : SumsOf(g, f, U), f, U)
  <2>1. \E g : SumsOf(g, f, U)
    BY <1>2, <1>3, <1>5 DEF B
  <2> QED
    BY <2>1
<1>6. ASSUME NEW U \in SUBSET T, U # T, U # {}
      PROVE  Total(f, U) = f[Pick(U)] + Total(f, U \ {Pick(U)})
  <2> DEFINE g == CHOOSE h : SumsOf(h, f, U)
             V == U \ {Pick(U)}
             k == CHOOSE h : SumsOf(h, f, V)
  <2>1. SumsOf(g, f, U)
    BY <1>5, <1>6
  <2>2. Pick(U) \in U /\ V \in SUBSET T /\ V # T /\ V \subseteq U
    BY <1>6, PickIsIn
  <2>3. SumsOf(k, f, V)
    BY <2>2, <1>5
  <2>4. IsFiniteSet(V)
    BY <2>2, <1>4
  <2>5. Total(f, U) = g[U] /\ Total(f, V) = k[V]
    BY DEF Total
  <2> HIDE DEF g, k, V
  <2>6. g[V] = k[V]
    BY <2>1, <2>2, <2>3, <2>4, SumsAgree
  <2>7. g[U] = f[Pick(U)] + g[V]
    BY <2>1, <1>6 DEF SumsOf, V
  <2> QED
    BY <2>5, <2>6, <2>7 DEF V
<1>7. Total(f, {}) = 0 \/ T = {}
  <2>1. CASE T # {}
    <3> DEFINE g == CHOOSE h : SumsOf(h, f, {})
    <3>1. SumsOf(g, f, {})
      BY <1>5, <2>1
    <3>2. Total(f, {}) = g[{}]
      BY DEF Total
    <3> HIDE DEF g
    <3> QED
      BY <3>1, <3>2 DEF SumsOf
  <2> QED
    BY <2>1
<1> DEFINE k == [s \in SUBSET T |->
                   IF s = {} THEN 0 ELSE f[Pick(s)] + Total(f, s \ {Pick(s)})]
<1>8. \A s \in SUBSET T : s # {} =>
        k[s \ {Pick(s)}] = Total(f, s \ {Pick(s)})
  <2> SUFFICES ASSUME NEW s \in SUBSET T, s # {}
               PROVE  k[s \ {Pick(s)}] = Total(f, s \ {Pick(s)})
    OBVIOUS
  <2> DEFINE U == s \ {Pick(s)}
  <2>1. U \in SUBSET T /\ U # T
    BY PickIsIn
  <2> HIDE DEF U
  <2>2. k[U] = IF U = {} THEN 0 ELSE f[Pick(U)] + Total(f, U \ {Pick(U)})
    BY <2>1
  <2>3. k[U] = Total(f, U)
    BY <2>1, <2>2, <1>6, <1>7
  <2> QED
    BY <2>3 DEF U
<1>9. SumsOf(k, f, T)
  BY <1>8 DEF SumsOf
<1> QED
  BY <1>3, <1>9

\* The recursion, for Total itself.
LEMMA TotalRecursion ==
  ASSUME NEW S, IsFiniteSet(S), NEW f
  PROVE  Total(f, S) =
           IF S = {} THEN 0 ELSE f[Pick(S)] + Total(f, S \ {Pick(S)})
<1> DEFINE V == S \ {Pick(S)}
           g == CHOOSE h : SumsOf(h, f, S)
           k == CHOOSE h : SumsOf(h, f, V)
<1>1. IsFiniteSet(V) /\ V \subseteq S
  BY FS_Subset
<1>2. SumsOf(g, f, S) /\ SumsOf(k, f, V)
  BY <1>1, SumExists
<1>3. Total(f, S) = g[S] /\ Total(f, V) = k[V]
  BY DEF Total
<1> HIDE DEF g, k, V
<1>4. g[V] = k[V]
  BY <1>1, <1>2, SumsAgree
<1>5. g[S] = IF S = {} THEN 0 ELSE f[Pick(S)] + g[V]
  BY <1>2 DEF SumsOf, V
<1> QED
  BY <1>3, <1>4, <1>5 DEF V

LEMMA TotalAgrees ==
  ASSUME NEW S, IsFiniteSet(S), NEW f1, NEW f2, \A x \in S : f1[x] = f2[x]
  PROVE  Total(f1, S) = Total(f2, S)
<1> DEFINE g == CHOOSE h : SumsOf(h, f1, S)
           k == CHOOSE h : SumsOf(h, f2, S)
<1>1. SumsOf(g, f1, S) /\ SumsOf(k, f2, S)
  BY SumExists
<1>2. Total(f1, S) = g[S] /\ Total(f2, S) = k[S]
  BY DEF Total
<1> HIDE DEF g, k
<1> QED
  BY <1>1, <1>2, SumsAgree

LEMMA TotalType ==
  ASSUME NEW S, IsFiniteSet(S), NEW f, \A x \in S : f[x] \in Nat
  PROVE  Total(f, S) \in Nat
<1> SUFFICES ASSUME Total(f, S) \notin Nat PROVE FALSE
  OBVIOUS
<1> DEFINE B == {T \in SUBSET S : Total(f, T) \notin Nat}
<1>1. S \in B /\ B \in SUBSET SUBSET S
  OBVIOUS
<1> HIDE DEF B
<1>2. PICK T \in B : \A U \in SUBSET T : U # T => U \notin B
  BY <1>1, SmallestSet
<1>3. T \in SUBSET S /\ Total(f, T) \notin Nat /\ IsFiniteSet(T)
  BY <1>2, FS_Subset DEF B
<1>0. Total(f, T) = IF T = {} THEN 0 ELSE f[Pick(T)] + Total(f, T \ {Pick(T)})
  BY <1>3, TotalRecursion
<1>4. T # {} /\ Total(f, T) = f[Pick(T)] + Total(f, T \ {Pick(T)})
  BY <1>0, <1>3
<1>5. Pick(T) \in T
  BY <1>4, PickIsIn
<1>6. Total(f, T \ {Pick(T)}) \in Nat
  BY <1>2, <1>3, <1>5 DEF B
<1> QED
  BY <1>3, <1>4, <1>5, <1>6

LEMMA TotalOfZeros ==
  ASSUME NEW S, IsFiniteSet(S), NEW f, \A x \in S : f[x] = 0
  PROVE  Total(f, S) = 0
<1> SUFFICES ASSUME Total(f, S) # 0 PROVE FALSE
  OBVIOUS
<1> DEFINE B == {T \in SUBSET S : Total(f, T) # 0}
<1>1. S \in B /\ B \in SUBSET SUBSET S
  OBVIOUS
<1> HIDE DEF B
<1>2. PICK T \in B : \A U \in SUBSET T : U # T => U \notin B
  BY <1>1, SmallestSet
<1>3. T \in SUBSET S /\ Total(f, T) # 0 /\ IsFiniteSet(T)
  BY <1>2, FS_Subset DEF B
<1>4. T # {} /\ Total(f, T) = f[Pick(T)] + Total(f, T \ {Pick(T)})
  BY <1>3, TotalRecursion
<1>5. Pick(T) \in T
  BY <1>4, PickIsIn
<1>6. Total(f, T \ {Pick(T)}) = 0
  BY <1>2, <1>3, <1>5 DEF B
<1> QED
  BY <1>3, <1>4, <1>5, <1>6

\* Any element can be taken out of a sum, not only the one the recursion takes.
LEMMA TotalSplits ==
  ASSUME NEW S, IsFiniteSet(S), NEW f, \A x \in S : f[x] \in Nat, NEW e \in S
  PROVE  Total(f, S) = f[e] + Total(f, S \ {e})
<1> DEFINE Splits(T) == \A x \in T : Total(f, T) = f[x] + Total(f, T \ {x})
           B == {T \in SUBSET S : ~ Splits(T)}
<1> SUFFICES ASSUME ~ Splits(S) PROVE FALSE
  OBVIOUS
<1>1. S \in B /\ B \in SUBSET SUBSET S
  OBVIOUS
<1> HIDE DEF B
<1>2. PICK T \in B : \A U \in SUBSET T : U # T => U \notin B
  BY <1>1, SmallestSet
<1>3. T \in SUBSET S /\ IsFiniteSet(T) /\ ~ Splits(T)
  BY <1>2, FS_Subset DEF B
<1>4. \A U \in SUBSET T : U # T => Splits(U)
  BY <1>2, <1>3 DEF B
<1>5. PICK x \in T : Total(f, T) # f[x] + Total(f, T \ {x})
  BY <1>3
<1> DEFINE c == Pick(T)
<1>6. c \in T /\ Total(f, T) = f[c] + Total(f, T \ {c})
  BY <1>3, <1>5, PickIsIn, TotalRecursion
<1> HIDE DEF c
<1>7. x # c
  BY <1>5, <1>6
<1>8. Total(f, T \ {c}) = f[x] + Total(f, (T \ {c}) \ {x})
  BY <1>4, <1>5, <1>6, <1>7
<1>9. Total(f, T \ {x}) = f[c] + Total(f, (T \ {x}) \ {c})
  BY <1>4, <1>5, <1>6, <1>7
<1>10. (T \ {c}) \ {x} = (T \ {x}) \ {c}
  OBVIOUS
<1>11. Total(f, (T \ {x}) \ {c}) \in Nat /\ f[x] \in Nat /\ f[c] \in Nat
  <2>1. \A U \in SUBSET T : IsFiniteSet(U) /\ \A y \in U : f[y] \in Nat
    BY <1>3, FS_Subset
  <2> QED
    BY <2>1, <1>5, <1>6, TotalType
<1> DEFINE z == Total(f, (T \ {x}) \ {c})
<1>12. /\ Total(f, T) = f[c] + (f[x] + z)
       /\ Total(f, T \ {x}) = f[c] + z
       /\ z \in Nat
  BY <1>6, <1>8, <1>9, <1>10, <1>11
<1> HIDE DEF z
<1>13. f[c] + (f[x] + z) = f[x] + (f[c] + z)
  BY <1>11, <1>12
<1> QED
  BY <1>5, <1>12, <1>13

-----------------------------------------------------------------------------
(* Solvency *)

Amounts(t) == [id \in Ids |-> t[id].amount]
PendingIn(t) == {id \in Ids : t[id].status = "Pending"}

Solvent(b, t, w) ==
  b = Total(Amounts(t), PendingIn(t)) + Total(w, Accounts)

LEMMA IdsAreFinite == IsFiniteSet(Ids) /\ \A S \in SUBSET Ids : IsFiniteSet(S)
<1>1. IsFiniteSet(1 .. MaxId)
  BY BoundsAssumption, FS_Interval
<1> QED
  BY <1>1, FS_Subset DEF Ids

\* What the property sums is what Total sums.
LEMMA SumsAreTotals ==
  /\ MapThenSumSet(LAMBDA id : transactions[id].amount, Pending)
       = Total(Amounts(transactions), Pending)
  /\ MapThenSumSet(LAMBDA a : withdrawableBalances[a], Accounts)
       = Total(withdrawableBalances, Accounts)
<1>1. MapThenSumSet(LAMBDA a : withdrawableBalances[a], Accounts)
       = Total(withdrawableBalances, Accounts)
  <2>1. MapThenSumSet(LAMBDA a : withdrawableBalances[a], Accounts) =
          (CHOOSE g : g = [s \in SUBSET Accounts |->
             IF s = {} THEN 0
             ELSE withdrawableBalances[Pick(s)] + g[s \ {Pick(s)}]])[Accounts]
    BY DEF MapThenSumSet, MapThenFoldSet, Pick
  <2> QED
    BY <2>1 DEF Total, SumsOf
<1>2. MapThenSumSet(LAMBDA id : transactions[id].amount, Pending)
        = Total(Amounts(transactions), Pending)
  <2> DEFINE Sums(g) == g = [s \in SUBSET Pending |->
               IF s = {} THEN 0
               ELSE transactions[Pick(s)].amount + g[s \ {Pick(s)}]]
             f == Amounts(transactions)
             k == CHOOSE g : Sums(g)
             h == CHOOSE g : SumsOf(g, f, Pending)
  <2>1. MapThenSumSet(LAMBDA id : transactions[id].amount, Pending) = k[Pending]
    BY DEF MapThenSumSet, MapThenFoldSet, Pick
  <2>2. Pending \in SUBSET Ids /\ IsFiniteSet(Pending)
    BY IdsAreFinite DEF Pending
  <2>3. \A s \in SUBSET Pending :
          s # {} => f[Pick(s)] = transactions[Pick(s)].amount
    BY <2>2, PickIsIn DEF Amounts
  <2>4. SumsOf(h, f, Pending)
    BY <2>2, SumExists
  <2> HIDE DEF f, h
  <2>5. Sums(h)
    BY <2>3, <2>4 DEF SumsOf
  <2>6. Sums(k)
    BY <2>5
  <2> HIDE DEF k
  <2>7. SumsOf(k, f, Pending)
    BY <2>3, <2>6 DEF SumsOf
  <2>8. k[Pending] = h[Pending]
    BY <2>2, <2>4, <2>7, SumsAgree
  <2> QED
    BY <2>1, <2>8 DEF Total, f, h
<1> QED
  BY <1>1, <1>2

SolventInv ==
  /\ Solvent(balance, transactions, withdrawableBalances)
  /\ Solvent(saved.balance, saved.transactions, saved.withdrawableBalances)

LEMMA SolvencyIsSolvent ==
  Solvency <=> Solvent(balance, transactions, withdrawableBalances)
  BY SumsAreTotals DEF Solvency, Solvent, Pending, PendingIn

\* Adding to one summand adds to the sum.
LEMMA TotalOneChanges ==
  ASSUME NEW S, IsFiniteSet(S), NEW f \in [S -> Nat], NEW g \in [S -> Nat],
         NEW e \in S, \A x \in S : x # e => g[x] = f[x]
  PROVE  Total(g, S) = Total(f, S) - f[e] + g[e]
<1>1. IsFiniteSet(S \ {e})
  BY FS_Subset
<1>2. Total(f, S) = f[e] + Total(f, S \ {e})
  BY TotalSplits
<1>3. Total(g, S) = g[e] + Total(g, S \ {e})
  BY TotalSplits
<1>4. Total(f, S \ {e}) = Total(g, S \ {e})
  BY <1>1, TotalAgrees
<1>5. Total(f, S \ {e}) \in Nat
  BY <1>1, TotalType
<1> QED
  BY <1>2, <1>3, <1>4, <1>5

LEMMA NoSnapshotIsSolvent ==
  Solvent(NoSnapshot.balance, NoSnapshot.transactions,
          NoSnapshot.withdrawableBalances)
<1> DEFINE t == [id \in Ids |-> Nothing]
           w == [a \in Accounts |-> 0]
<1>1. PendingIn(t) = {}
  BY DEF PendingIn, Nothing
<1>2. Total(Amounts(t), {}) = 0
  BY TotalRecursion, FS_EmptySet
<1>3. Total(w, Accounts) = 0
  BY AccountsAssumption, TotalOfZeros
<1>4. Solvent(0, t, w)
  BY <1>1, <1>2, <1>3 DEF Solvent
<1> QED
  BY <1>4 DEF NoSnapshot

LEMMA SolventStarts == Init => SolventInv
  BY NoSnapshotIsSolvent DEF Init, NoSnapshot, SolventInv

LEMMA SettleIsSolvent ==
  ASSUME Fields, SolventInv, NEW id \in Ids, NEW a \in Accounts,
         NEW s \in {"Claimed", "Cancelled"}, transactions[id].status = "Pending",
         Settle(id, a, s)
  PROVE  SolventInv'
<1> DEFINE P == PendingIn(transactions)
           f == Amounts(transactions)
           g == Amounts(transactions')
           v == transactions[id].amount
<1>1. /\ transactions \in [Ids -> Escrow]
      /\ withdrawableBalances \in [Accounts -> Nat]
      /\ v \in Nat
      /\ \A i \in Ids : f[i] \in Nat
  BY DEF Fields, Escrow, Amounts
<1>2. g = f
  BY <1>1 DEF Settle, Amounts
<1>3. PendingIn(transactions') = P \ {id} /\ id \in P
  BY <1>1 DEF Settle, PendingIn
<1>4. P \in SUBSET Ids /\ IsFiniteSet(P) /\ IsFiniteSet(P \ {id})
  BY IdsAreFinite, FS_Subset DEF PendingIn
<1>5. f[id] = v
  BY DEF Amounts
<1>6. Total(withdrawableBalances', Accounts)
        = Total(withdrawableBalances, Accounts) + v
  <2>1. withdrawableBalances' =
          [withdrawableBalances EXCEPT ![a] = withdrawableBalances[a] + v]
    BY DEF Settle
  <2>2. /\ withdrawableBalances[a] \in Nat
        /\ withdrawableBalances[a] + v \in Nat
    BY <1>1
  <2>3. Total(withdrawableBalances', Accounts) =
          Total(withdrawableBalances, Accounts) - withdrawableBalances[a]
            + (withdrawableBalances[a] + v)
    <3>1. /\ withdrawableBalances \in [Accounts -> Nat] /\ IsFiniteSet(Accounts)
          /\ withdrawableBalances' \in [Accounts -> Nat]
          /\ \A x \in Accounts :
               x # a => withdrawableBalances'[x] = withdrawableBalances[x]
          /\ withdrawableBalances'[a] = withdrawableBalances[a] + v
      BY <1>1, <2>1, <2>2, AccountsAssumption
    <3> QED
      BY <3>1, TotalOneChanges
  <2>4. Total(withdrawableBalances, Accounts) \in Nat
    BY <1>1, AccountsAssumption, TotalType
  <2> QED
    BY <1>1, <2>2, <2>3, <2>4
<1> HIDE DEF f, g, v
<1>7. Total(f, P) = v + Total(f, P \ {id}) /\ Total(f, P \ {id}) \in Nat
  <2>1. \A i \in P : f[i] \in Nat
    BY <1>1, <1>4
  <2> HIDE DEF P
  <2> QED
    BY <2>1, <1>3, <1>4, <1>5, TotalSplits, TotalType
<1>8. Total(withdrawableBalances, Accounts) \in Nat
  BY <1>1, AccountsAssumption, TotalType
<1>9. balance = Total(f, P) + Total(withdrawableBalances, Accounts)
  BY DEF SolventInv, Solvent, f
<1>10. balance = Total(g, P \ {id}) + Total(withdrawableBalances', Accounts)
  BY <1>1, <1>2, <1>6, <1>7, <1>8, <1>9
<1> QED
  BY <1>3, <1>10 DEF SolventInv, Solvent, Settle, g

LEMMA SolventNext ==
  Fields /\ EscrowInv /\ SolventInv /\ [Next]_vars => SolventInv'
<1> SUFFICES ASSUME Fields, EscrowInv, SolventInv, [Next]_vars PROVE SolventInv'
  OBVIOUS
<1> USE DEF SolventInv
<1>1. ASSUME NEW s \in Accounts, NEW r \in Accounts \cup {Zero},
             NEW v \in 0 .. Supply, transfer(s, r, v)
      PROVE  SolventInv'
  BY <1>1 DEF transfer, OpenFrame, Snapshot
<1>2. ASSUME NEW s \in Accounts, NEW r \in Accounts \cup {Zero},
             NEW v \in 0 .. Supply, NEW t \in 0 .. MaxTime,
             createEscrow(s, r, v, t)
      PROVE  SolventInv'
  <2> DEFINE n == nextTransactionId
             P == PendingIn(transactions)
             f == Amounts(transactions)
             g == Amounts(transactions')
  <2>1. /\ n \in Ids /\ v \in Nat /\ transactions \in [Ids -> Escrow]
        /\ withdrawableBalances \in [Accounts -> Nat]
    BY <1>2, SupplyType DEF createEscrow, Fields
  <2>2. transactions[n].status # "Pending"
    BY <2>1, BoundsAssumption DEF EscrowInv, FreshInv, Nothing, Ids
  <2>3. transactions' = [transactions EXCEPT ![n] =
          [sender |-> s, receiver |-> r, amount |-> v, expiresAt |-> t,
           status |-> "Pending"]]
    BY <1>2 DEF createEscrow
  <2>4. PendingIn(transactions') = P \cup {n} /\ n \notin P
    BY <2>1, <2>2, <2>3 DEF PendingIn
  <2>5. g[n] = v /\ \A i \in Ids : i # n => g[i] = f[i]
    BY <2>1, <2>3 DEF Amounts
  <2>6. \A i \in Ids : f[i] \in Nat
    BY <2>1 DEF Amounts, Escrow
  <2>7. P \in SUBSET Ids /\ IsFiniteSet(P) /\ IsFiniteSet(P \cup {n})
    BY <2>1, IdsAreFinite, FS_Subset DEF PendingIn
  <2> HIDE DEF n, P, f, g
  <2>8. \A i \in P \cup {n} : g[i] \in Nat
    BY <2>1, <2>4, <2>5, <2>6, <2>7
  <2>9. (P \cup {n}) \ {n} = P
    BY <2>4
  <2>10. Total(g, P \cup {n}) = v + Total(g, P)
    BY <2>5, <2>7, <2>8, <2>9, TotalSplits
  <2>11. Total(g, P) = Total(f, P)
    BY <2>4, <2>5, <2>7, TotalAgrees
  <2>12. Total(f, P) \in Nat
    BY <2>6, <2>7, TotalType
  <2>13. Total(withdrawableBalances, Accounts) \in Nat
    BY <2>1, AccountsAssumption, TotalType
  <2>14. balance = Total(f, P) + Total(withdrawableBalances, Accounts)
    BY DEF Solvent, f, P
  <2>15. balance' = Total(g, P \cup {n}) + Total(withdrawableBalances, Accounts)
    BY <1>2, <2>1, <2>10, <2>11, <2>12, <2>13, <2>14 DEF createEscrow
  <2> QED
    BY <1>2, <2>4, <2>15 DEF Solvent, g, createEscrow
<1>3. ASSUME NEW s \in Accounts, NEW id \in Ids, claim(s, id) \/ cancel(s, id)
      PROVE  SolventInv'
  BY <1>3, SettleIsSolvent DEF claim, cancel
<1>4. ASSUME NEW s \in Accounts, withdraw(s) PROVE SolventInv'
  <2>1. /\ withdrawableBalances \in [Accounts -> Nat]
        /\ withdrawableBalances[s] \in Nat
    BY DEF Fields
  <2>2. withdrawableBalances' = [withdrawableBalances EXCEPT ![s] = 0]
    BY <1>4 DEF withdraw
  <2>3. Total(withdrawableBalances', Accounts)
          = Total(withdrawableBalances, Accounts) - withdrawableBalances[s] + 0
    <3>1. /\ IsFiniteSet(Accounts)
          /\ withdrawableBalances' \in [Accounts -> Nat]
          /\ \A x \in Accounts :
               x # s => withdrawableBalances'[x] = withdrawableBalances[x]
          /\ withdrawableBalances'[s] = 0
      BY <2>1, <2>2, AccountsAssumption
    <3> QED
      BY <2>1, <3>1, TotalOneChanges
  <2>4. Total(withdrawableBalances, Accounts) \in Nat
    BY <2>1, AccountsAssumption, TotalType
  <2>5. Total(Amounts(transactions), PendingIn(transactions)) \in Nat
    <3>1. \A i \in PendingIn(transactions) : Amounts(transactions)[i] \in Nat
      BY DEF PendingIn, Amounts, Fields, Escrow
    <3>2. IsFiniteSet(PendingIn(transactions))
      BY IdsAreFinite DEF PendingIn
    <3> QED
      BY <3>1, <3>2, TotalType
  <2>6. Solvent(balance', transactions, withdrawableBalances')
    BY <1>4, <2>1, <2>3, <2>4, <2>5 DEF withdraw, Solvent
  <2> QED
    BY <1>4, <2>6 DEF withdraw, OpenFrame, Snapshot
<1>5. ASSUME NEW s \in Accounts, NEW r \in Accounts \cup {Zero},
             pause(s) \/ unpause(s) \/ transferOwnership(s, r)
      PROVE  SolventInv'
  BY <1>5 DEF pause, unpause, transferOwnership
<1>6. CASE SendSucceeds \/ SendFails
  <2>1. Solvent(NoSnapshot.balance, NoSnapshot.transactions,
                NoSnapshot.withdrawableBalances)
    BY NoSnapshotIsSolvent
  <2> QED
    BY <1>6, <2>1 DEF SendSucceeds, SendFails, CloseFrame
<1>7. CASE Tick \/ UNCHANGED vars
  BY <1>7 DEF Tick, vars
<1> QED
  BY <1>1, <1>2, <1>3, <1>4, <1>5, <1>6, <1>7 DEF Next

(* The contract holds exactly what it owes, in every state: at rest, while a *)
(* receiver's code runs and calls back, and after a revert has put back the  *)
(* storage and the balances of the outer call.                               *)
THEOREM SolvencyHolds == Spec => []Solvency
<1>1. Init => Fields /\ EscrowInv /\ SolventInv
  BY FieldsInit, EscrowInvInit, SolventStarts
<1>2. Fields /\ EscrowInv /\ SolventInv /\ [Next]_vars
        => (Fields /\ EscrowInv /\ SolventInv)'
  BY FieldsNext, LockNext, FreshNext, FrameNext, SolventNext DEF EscrowInv
<1>3. Fields /\ EscrowInv /\ SolventInv => Solvency
  BY SolvencyIsSolvent DEF SolventInv
<1> QED
  BY <1>1, <1>2, <1>3, PTL DEF Spec

HIDE DEF admin, escrows, frame

-----------------------------------------------------------------------------
(* Event synchronisation *)

(* The shape of a run: its ranges lie side by side up to its last batch, the *)
(* answers before the questions.                                             *)
Event == [tx : Transfers, block : 1 .. MaxBlock]
Question == [from : Nat, to : Nat]
Answer == [to : Nat, events : SUBSET Event]

RunType == [from : Nat, safe : Nat, next : Nat,
            todo : Seq(Question), found : Seq(Answer),
            doc : {NoState} \cup Event,
            read : {NoState, "none", "pending", "success"}]

Running(r) == r.todo # <<>> \/ r.found # <<>>

\* The last block the run has an answer for.
Frontier(r) == IF r.todo # <<>> THEN r.todo[1].from - 1 ELSE r.next - 1

Asked(r) ==
  /\ \A i \in 1 .. Len(r.todo) :
       /\ r.from <= r.todo[i].from /\ r.todo[i].from <= r.todo[i].to
       /\ r.todo[i].to < r.next
  /\ \A i \in 1 .. Len(r.todo) :
       /\ i < Len(r.todo) => r.todo[i + 1].from = r.todo[i].to + 1
       /\ i = Len(r.todo) => r.todo[i].to = r.next - 1

Answered(r) ==
  \A i \in 1 .. Len(r.found) :
    /\ r.found[i].to <= Frontier(r)
    /\ \A e \in r.found[i].events : e.block <= r.found[i].to
    /\ \A j \in 1 .. Len(r.found) : i < j =>
         /\ r.found[i].to < r.found[j].to
         /\ \A e \in r.found[j].events : r.found[i].to < e.block

Shape(r) ==
  Running(r) => /\ r.from <= r.safe /\ r.next <= r.safe + 1
                /\ r.from <= r.next
                /\ Asked(r) /\ Answered(r)

LEMMA RunFields ==
  ASSUME NEW r \in RunType
  PROVE  /\ r.from \in Nat /\ r.safe \in Nat /\ r.next \in Nat
         /\ r.todo \in Seq(Question) /\ Len(r.todo) \in Nat
         /\ \A i \in 1 .. Len(r.todo) :
              r.todo[i].from \in Nat /\ r.todo[i].to \in Nat
         /\ r.found \in Seq(Answer) /\ Len(r.found) \in Nat
         /\ \A i \in 1 .. Len(r.found) :
              r.found[i].to \in Nat /\ r.found[i].events \in SUBSET Event
<1>1. r.todo \in Seq(Question) /\ r.found \in Seq(Answer)
  BY DEF RunType
<1>2. \A i \in 1 .. Len(r.todo) : r.todo[i] \in Question
  BY <1>1
<1>3. \A i \in 1 .. Len(r.found) : r.found[i] \in Answer
  BY <1>1
<1>4. \A i \in 1 .. Len(r.todo) :
        r.todo[i].from \in Nat /\ r.todo[i].to \in Nat
  BY <1>2 DEF Question
<1>5. \A i \in 1 .. Len(r.found) :
        r.found[i].to \in Nat /\ r.found[i].events \in SUBSET Event
  BY <1>3 DEF Answer
<1> QED
  BY <1>1, <1>4, <1>5 DEF RunType

LEMMA EmptySequence ==
  ASSUME NEW S, NEW s \in Seq(S)
  PROVE  s = <<>> <=> Len(s) = 0
  OBVIOUS

LEMMA IdleShape == Idle \in RunType /\ Shape(Idle) /\ ~Running(Idle)
  BY DEF Idle, RunType, Shape, Running

\* A new batch of a run without questions and answers.
Batch(r, end) ==
  [r EXCEPT !.found = <<>>, !.next = end + 1, !.todo = <<Blocks(r.next, end)>>]

LEMMA BatchShape ==
  ASSUME NEW r \in RunType, NEW end \in Nat, r.from <= r.next, r.next <= end,
         end <= r.safe
  PROVE  /\ Batch(r, end) \in RunType /\ Shape(Batch(r, end))
         /\ Frontier(Batch(r, end)) = r.next - 1
<1> DEFINE n == Batch(r, end)
<1>1. /\ n.todo = <<Blocks(r.next, end)>> /\ n.found = <<>>
      /\ n.next = end + 1 /\ n.from = r.from /\ n.safe = r.safe
  BY DEF Batch, RunType
<1>2. Blocks(r.next, end) \in Question
  BY DEF Blocks, Question, RunType
<1>3. n \in RunType
  <2> DEFINE todo == <<Blocks(r.next, end)>>
             found == <<>>
  <2>1. todo \in Seq(Question) /\ found \in Seq(Answer) /\ end + 1 \in Nat
    BY <1>2
  <2>2. n = [r EXCEPT !.found = found, !.next = end + 1, !.todo = todo]
    BY DEF Batch
  <2> HIDE DEF todo, found, n
  <2> QED
    BY <2>1, <2>2 DEF RunType
<1>4. /\ Len(n.todo) = 1 /\ n.todo[1] = Blocks(r.next, end) /\ Len(n.found) = 0
      /\ n.todo # <<>>
  BY <1>1
<1>5. Frontier(n) = r.next - 1
  BY <1>1, <1>4 DEF Frontier, Blocks
<1>6. Asked(n) /\ Answered(n)
  BY <1>1, <1>4 DEF Asked, Answered, Blocks, RunType
<1>7. n.from <= n.safe /\ n.next <= n.safe + 1 /\ n.from <= n.next
  BY <1>1 DEF RunType
<1> QED
  BY <1>3, <1>5, <1>6, <1>7 DEF Shape

\* The first question is answered with some events of its blocks.
Reply(r, events) ==
  [r EXCEPT !.todo = Tail(r.todo),
            !.found = Append(r.found, [to |-> r.todo[1].to, events |-> events])]

LEMMA ReplyShape ==
  ASSUME NEW r \in RunType, Shape(r), r.todo # <<>>,
         NEW events \in SUBSET Event,
         \A e \in events : e.block \in r.todo[1].from .. r.todo[1].to
  PROVE  /\ Reply(r, events) \in RunType /\ Shape(Reply(r, events))
         /\ Frontier(Reply(r, events)) = r.todo[1].to
         /\ Frontier(r) < r.todo[1].to
         /\ Len(Reply(r, events).found) = Len(r.found) + 1
<1> DEFINE n == Reply(r, events)
           new == [to |-> r.todo[1].to, events |-> events]
<1>1. /\ n.todo = Tail(r.todo) /\ n.found = Append(r.found, new)
      /\ n.next = r.next /\ n.from = r.from /\ n.safe = r.safe
  BY DEF Reply, RunType
<1>2. /\ r.todo \in Seq(Question) /\ Len(r.todo) \in Nat \ {0}
      /\ \A i \in 1 .. Len(r.todo) :
           r.todo[i].from \in Nat /\ r.todo[i].to \in Nat
      /\ r.from \in Nat /\ r.safe \in Nat /\ r.next \in Nat
  BY RunFields
<1>3. new \in Answer
  BY <1>2 DEF Answer
<1>4. /\ r.found \in Seq(Answer) /\ Len(r.found) \in Nat
      /\ \A i \in 1 .. Len(r.found) :
           r.found[i].to \in Nat /\ r.found[i].events \in SUBSET Event
  BY RunFields
<1>c. new.to = r.todo[1].to /\ new.events = events
  OBVIOUS
<1>d. r.todo[1].from \in Nat /\ r.todo[1].to \in Nat
  BY <1>2
<1>e. Len(r.todo) \in Nat /\ (Len(r.todo) = 1 \/ 1 < Len(r.todo))
  <2>1. r.todo \in Seq(Question) /\ Len(r.todo) \in Nat
    BY RunFields
  <2>2. Len(r.todo) # 0
    BY <2>1, EmptySequence
  <2>3. \A k \in Nat : k # 0 => k = 1 \/ 1 < k
    OBVIOUS
  <2> QED
    BY <2>1, <2>2, <2>3, Zenon
<1> HIDE DEF new
<1>6. /\ n.found \in Seq(Answer) /\ Len(n.found) = Len(r.found) + 1
      /\ n.found[Len(r.found) + 1] = new
      /\ \A i \in 1 .. Len(r.found) : n.found[i] = r.found[i]
  BY <1>1, <1>3, <1>4
<1>5. n \in RunType
  <2>1. Tail(r.todo) \in Seq(Question) /\ Append(r.found, new) \in Seq(Answer)
    BY <1>2, <1>3, <1>4
  <2> QED
    BY <2>1 DEF Reply, RunType, new
<1>7. /\ Len(n.todo) = Len(r.todo) - 1
      /\ \A i \in 1 .. Len(r.todo) - 1 : n.todo[i] = r.todo[i + 1]
      /\ (n.todo = <<>>) <=> Len(r.todo) = 1
  <2>1. /\ Tail(r.todo) \in Seq(Question)
        /\ Len(Tail(r.todo)) = Len(r.todo) - 1
        /\ \A i \in 1 .. Len(r.todo) - 1 : Tail(r.todo)[i] = r.todo[i + 1]
    BY <1>2
  <2>2. Tail(r.todo) = <<>> <=> Len(Tail(r.todo)) = 0
    BY <2>1, EmptySequence
  <2> QED
    BY <1>1, <1>2, <2>1, <2>2
<1>8. /\ r.from <= r.safe /\ r.next <= r.safe + 1 /\ r.from <= r.next
      /\ Asked(r) /\ Answered(r)
  BY DEF Shape, Running
<1>9. Frontier(r) = r.todo[1].from - 1 /\ Frontier(r) < r.todo[1].to
  BY <1>2, <1>8 DEF Frontier, Asked
<1> HIDE DEF n
<1>10. Frontier(n) = r.todo[1].to
  <2>1. CASE Len(r.todo) = 1
    BY <1>1, <1>2, <1>7, <1>8, <2>1 DEF Frontier, Asked
  <2>2. CASE Len(r.todo) # 1
    <3>1. n.todo[1] = r.todo[2] /\ n.todo # <<>>
      BY <1>2, <1>7, <2>2
    <3>2. r.todo[2].from = r.todo[1].to + 1
      <4>1. 1 \in 1 .. Len(r.todo) /\ 1 < Len(r.todo)
        BY <1>e, <2>2
      <4>2. r.todo[1 + 1].from = r.todo[1].to + 1
        BY <1>8, <4>1 DEF Asked
      <4> QED
        BY <4>2
    <3> QED
      BY <1>2, <3>1, <3>2 DEF Frontier
  <2> QED
    BY <2>1, <2>2
<1>11. Asked(n)
  <2>1. ASSUME NEW i \in 1 .. Len(n.todo)
        PROVE  /\ n.from <= n.todo[i].from /\ n.todo[i].from <= n.todo[i].to
               /\ n.todo[i].to < n.next
    BY <1>1, <1>2, <1>7, <1>8 DEF Asked
  <2>2. ASSUME NEW i \in 1 .. Len(n.todo)
        PROVE  /\ i < Len(n.todo) => n.todo[i + 1].from = n.todo[i].to + 1
               /\ i = Len(n.todo) => n.todo[i].to = n.next - 1
    <3>1. \A k \in Nat : \A x \in 1 .. k - 1 :
            /\ x + 1 \in 1 .. k
            /\ x < k - 1 => x + 1 \in 1 .. k - 1 /\ x + 1 < k
            /\ x = k - 1 => x + 1 = k
      OBVIOUS
    <3>2. Len(r.todo) \in Nat /\ i \in 1 .. Len(r.todo) - 1
      BY <1>2, <1>7
    <3>3. /\ i + 1 \in 1 .. Len(r.todo)
          /\ i < Len(n.todo)
               => i + 1 \in 1 .. Len(r.todo) - 1 /\ i + 1 < Len(r.todo)
          /\ i = Len(n.todo) => i + 1 = Len(r.todo)
      BY <1>7, <3>1, <3>2, Zenon
    <3>4. /\ n.todo[i] = r.todo[i + 1]
          /\ i < Len(n.todo) => n.todo[i + 1] = r.todo[i + 1 + 1]
      BY <1>7, <3>2, <3>3, Zenon
    <3>5. /\ i + 1 < Len(r.todo)
               => r.todo[i + 1 + 1].from = r.todo[i + 1].to + 1
          /\ i + 1 = Len(r.todo) => r.todo[i + 1].to = r.next - 1
      BY <1>8, <3>3, Zenon DEF Asked
    <3> QED
      BY <1>1, <3>3, <3>4, <3>5, Zenon
  <2> QED
    BY <2>1, <2>2 DEF Asked
<1>12. Answered(n)
  <2>1. new.to = r.todo[1].to /\ new.events = events
    BY <1>c
  <2>2. ASSUME NEW i \in 1 .. Len(r.found)
        PROVE  r.found[i].to < r.todo[1].from
    <3>1. r.found[i].to <= Frontier(r)
      BY <1>8 DEF Answered
    <3>2. r.found[i].to \in Nat
      BY <1>4
    <3> QED
      BY <1>9, <1>d, <3>1, <3>2
  <2>3. \A e \in events : e.block \in Int
    BY DEF Event
  <2> SUFFICES ASSUME NEW i \in 1 .. Len(n.found)
               PROVE  /\ n.found[i].to <= Frontier(n)
                      /\ \A e \in n.found[i].events : e.block <= n.found[i].to
                      /\ \A j \in 1 .. Len(n.found) : i < j =>
                           /\ n.found[i].to < n.found[j].to
                           /\ \A e \in n.found[j].events :
                                n.found[i].to < e.block
    BY DEF Answered
  <2>4. CASE i = Len(r.found) + 1
    <3>1. n.found[i] = new /\ ~ \E j \in 1 .. Len(n.found) : i < j
      BY <1>4, <1>6, <2>4
    <3>2. \A e \in events : e.block <= r.todo[1].to
      BY <1>2, <2>3
    <3> QED
      BY <1>2, <1>10, <2>1, <3>1, <3>2
  <2>5. CASE i \in 1 .. Len(r.found)
    <3>1. n.found[i] = r.found[i]
      BY <1>6, <2>5
    <3>2. r.found[i].to < r.todo[1].from /\ r.found[i].to \in Nat
      BY <1>4, <2>2, <2>5
    <3>3. \A e \in n.found[i].events : e.block <= n.found[i].to
      BY <1>8, <2>5, <3>1 DEF Answered
    <3>4. n.found[i].to <= Frontier(n)
      BY <1>2, <1>9, <1>10, <3>1, <3>2
    <3>5. ASSUME NEW j \in 1 .. Len(n.found), i < j
          PROVE  /\ n.found[i].to < n.found[j].to
                 /\ \A e \in n.found[j].events : n.found[i].to < e.block
      <4>1. CASE j = Len(r.found) + 1
        <5>1. n.found[j] = new /\ r.todo[1].from <= r.todo[1].to
          BY <1>2, <1>6, <1>8, <4>1 DEF Asked
        <5>2. \A e \in events : r.todo[1].from <= e.block
          BY <1>2, <2>3
        <5>3. n.found[i].to < new.to
          BY <1>d, <2>1, <3>1, <3>2, <5>1
        <5>4. \A e \in events : n.found[i].to < e.block
          BY <1>d, <2>3, <3>1, <3>2, <5>2
        <5> QED
          BY <2>1, <5>1, <5>3, <5>4
      <4>2. CASE j \in 1 .. Len(r.found)
        BY <1>6, <1>8, <2>5, <3>1, <3>5, <4>2 DEF Answered
      <4> QED
        BY <1>4, <1>6, <4>1, <4>2
    <3> QED
      BY <3>3, <3>4, <3>5
  <2> QED
    BY <1>4, <1>6, <2>4, <2>5
<1> QED
  BY <1>1, <1>5, <1>6, <1>8, <1>9, <1>10, <1>11, <1>12 DEF Shape, n

LEMMA Middle ==
  ASSUME NEW a \in Nat, NEW b \in Nat, a < b
  PROVE  /\ (a + b) \div 2 \in Nat
         /\ a <= (a + b) \div 2 /\ (a + b) \div 2 + 1 <= b
  OBVIOUS

\* The first question is asked in two halves.
Halved(r) == [r EXCEPT !.todo = Halves(r.todo[1]) \o Tail(r.todo)]

LEMMA HalvedShape ==
  ASSUME NEW r \in RunType, Shape(r), r.todo # <<>>,
         r.todo[1].from < r.todo[1].to
  PROVE  /\ Halved(r) \in RunType /\ Shape(Halved(r)) /\ Running(Halved(r))
         /\ Frontier(Halved(r)) = Frontier(r)
<1> DEFINE n == Halved(r)
           q == r.todo[1]
           m == (q.from + q.to) \div 2
           left == Blocks(q.from, m)
           right == Blocks(m + 1, q.to)
<1>1. /\ r.todo \in Seq(Question) /\ Len(r.todo) \in Nat
      /\ \A i \in 1 .. Len(r.todo) :
           r.todo[i].from \in Nat /\ r.todo[i].to \in Nat
      /\ r.from \in Nat /\ r.safe \in Nat /\ r.next \in Nat
  BY RunFields
<1>2. 1 <= Len(r.todo)
  <2>1. Len(r.todo) # 0
    BY <1>1, EmptySequence
  <2>2. \A k \in Nat : k # 0 => 1 <= k
    OBVIOUS
  <2> QED
    BY <1>1, <2>1, <2>2, Zenon
<1>3. q.from \in Nat /\ q.to \in Nat
  BY <1>1, <1>2
<1>4. m \in Nat /\ q.from <= m /\ m + 1 <= q.to
  BY <1>3, Middle
<1>5. /\ left.from = q.from /\ left.to = m
      /\ right.from = m + 1 /\ right.to = q.to
      /\ left \in Question /\ right \in Question
  BY <1>3, <1>4 DEF Blocks, Question
<1>6. n.todo = <<left, right>> \o Tail(r.todo)
  BY DEF Halved, Halves, RunType
<1>7. /\ n.next = r.next /\ n.from = r.from /\ n.safe = r.safe
      /\ n.found = r.found
  BY DEF Halved, RunType
<1> HIDE DEF left, right, m, q
<1>8. /\ Tail(r.todo) \in Seq(Question) /\ Len(Tail(r.todo)) = Len(r.todo) - 1
      /\ \A i \in 1 .. Len(r.todo) - 1 : Tail(r.todo)[i] = r.todo[i + 1]
  BY <1>1, <1>2
<1>9. /\ <<left, right>> \in Seq(Question) /\ Len(<<left, right>>) = 2
      /\ <<left, right>>[1] = left /\ <<left, right>>[2] = right
  BY <1>5
<1>10. /\ n.todo \in Seq(Question) /\ Len(n.todo) = Len(r.todo) + 1
       /\ n.todo[1] = left /\ n.todo[2] = right
       /\ \A i \in 1 .. Len(r.todo) - 1 : n.todo[i + 2] = r.todo[i + 1]
  <2> DEFINE both == <<left, right>>
             rest == Tail(r.todo)
  <2>1. both \in Seq(Question) /\ Len(both) = 2
    BY <1>9
  <2>2. rest \in Seq(Question) /\ Len(rest) = Len(r.todo) - 1
    BY <1>8
  <2> HIDE DEF both, rest
  <2>3. /\ both \o rest \in Seq(Question)
        /\ Len(both \o rest) = 2 + Len(rest)
        /\ \A i \in 1 .. 2 + Len(rest) :
             (both \o rest)[i] = IF i <= 2 THEN both[i] ELSE rest[i - 2]
    <3>1. /\ both \o rest \in Seq(Question)
          /\ Len(both \o rest) = Len(both) + Len(rest)
          /\ \A i \in 1 .. Len(both) + Len(rest) : (both \o rest)[i] =
               IF i <= Len(both) THEN both[i] ELSE rest[i - Len(both)]
      BY <2>1, <2>2, ConcatProperties, Zenon
    <3> QED
      BY <2>1, <3>1, Zenon
  <2>4. n.todo = both \o rest
    BY <1>6 DEF both, rest
  <2>5. Len(n.todo) = Len(r.todo) + 1
    BY <1>1, <2>2, <2>3, <2>4
  <2>6. n.todo[1] = left /\ n.todo[2] = right
    <3>1. 1 \in 1 .. 2 + Len(rest) /\ 2 \in 1 .. 2 + Len(rest)
      BY <2>2
    <3> QED
      BY <1>9, <2>3, <2>4, <3>1 DEF both
  <2>7. ASSUME NEW i \in 1 .. Len(r.todo) - 1
        PROVE  n.todo[i + 2] = r.todo[i + 1]
    <3>1. /\ i + 2 \in 1 .. 2 + Len(rest) /\ ~(i + 2 <= 2)
          /\ (i + 2) - 2 = i
      BY <1>1, <2>2
    <3>2. (both \o rest)[i + 2] = rest[i]
      BY <2>3, <3>1
    <3> QED
      BY <1>8, <2>4, <3>2 DEF rest
  <2> QED
    BY <2>3, <2>4, <2>5, <2>6, <2>7
<1>11. n \in RunType
  <2> DEFINE todo == n.todo
  <2>1. n = [r EXCEPT !.todo = todo] /\ todo \in Seq(Question)
    BY <1>10 DEF Halved, RunType
  <2> HIDE DEF todo, n
  <2> QED
    BY <2>1 DEF RunType
<1>12. Running(r) /\ Shape(r)
  BY DEF Running
<1>13. n.todo # <<>>
  BY <1>1, <1>10, EmptySequence
<1> HIDE DEF n
<1>14. Frontier(n) = Frontier(r)
  BY <1>5, <1>10, <1>13 DEF Frontier, q
<1>18. /\ r.from <= q.from /\ q.to < r.next
       /\ 1 = Len(r.todo) => q.to = r.next - 1
       /\ 1 < Len(r.todo) => r.todo[2].from = q.to + 1
  <2>1. 1 \in 1 .. Len(r.todo)
    BY <1>1, <1>2
  <2>2. Asked(r)
    BY <1>12 DEF Shape
  <2>3. /\ r.from <= r.todo[1].from /\ r.todo[1].to < r.next
        /\ 1 < Len(r.todo) => r.todo[1 + 1].from = r.todo[1].to + 1
        /\ 1 = Len(r.todo) => r.todo[1].to = r.next - 1
    BY <2>1, <2>2 DEF Asked
  <2> QED
    BY <2>3 DEF q
<1>15. Asked(n)
  <2> SUFFICES ASSUME NEW i \in 1 .. Len(n.todo)
               PROVE  /\ n.from <= n.todo[i].from
                      /\ n.todo[i].from <= n.todo[i].to
                      /\ n.todo[i].to < n.next
                      /\ i < Len(n.todo)
                           => n.todo[i + 1].from = n.todo[i].to + 1
                      /\ i = Len(n.todo) => n.todo[i].to = n.next - 1
    BY DEF Asked
  <2>1. Asked(r)
    BY <1>12 DEF Shape
  <2>2. CASE i = 1
    <3>1. n.todo[i] = left /\ n.todo[i + 1] = right
      BY <1>10, <2>2
    <3>2. i # Len(n.todo)
      BY <1>1, <1>2, <1>10, <2>2
    <3>3. m < r.next
      BY <1>1, <1>3, <1>4, <1>18
    <3> QED
      BY <1>4, <1>5, <1>7, <1>18, <3>1, <3>2, <3>3
  <2>3. CASE i = 2
    <3>1. n.todo[i] = right
      BY <1>10, <2>3
    <3>2. i < Len(n.todo) => n.todo[i + 1] = r.todo[2]
      <4>1. i < Len(n.todo) => 1 \in 1 .. Len(r.todo) - 1
        BY <1>1, <1>10, <2>3
      <4>2. i < Len(n.todo) => n.todo[1 + 2] = r.todo[1 + 1]
        BY <1>10, <4>1
      <4> QED
        BY <2>3, <4>2
    <3>3. /\ i < Len(n.todo) => 1 < Len(r.todo)
          /\ i = Len(n.todo) => 1 = Len(r.todo)
      <4>1. Len(n.todo) = Len(r.todo) + 1 /\ Len(r.todo) \in Nat
        BY <1>1, <1>10
      <4>2. \A k \in Nat : (2 < k + 1 => 1 < k) /\ (2 = k + 1 => 1 = k)
        OBVIOUS
      <4> QED
        BY <2>3, <4>1, <4>2, Zenon
    <3>4. r.from <= m + 1 /\ m + 1 <= q.to
      BY <1>1, <1>3, <1>4, <1>18
    <3> QED
      BY <1>5, <1>7, <1>18, <3>1, <3>2, <3>3, <3>4
  <2>4. CASE i \in 3 .. Len(n.todo)
    <3> DEFINE j == i - 1
    <3>1. /\ j \in 2 .. Len(r.todo) /\ j - 1 \in 1 .. Len(r.todo) - 1
          /\ j \in 1 .. Len(r.todo)
      <4>1. \A k \in Nat : \A x \in 3 .. k + 1 :
              /\ x - 1 \in 2 .. k /\ x - 1 - 1 \in 1 .. k - 1
              /\ x - 1 \in 1 .. k
        OBVIOUS
      <4>2. Len(r.todo) \in Nat /\ i \in 3 .. Len(r.todo) + 1
        BY <1>1, <1>10, <2>4
      <4> QED
        BY <4>1, <4>2, Zenon
    <3>2. n.todo[i] = r.todo[j]
      <4>1. n.todo[(j - 1) + 2] = r.todo[(j - 1) + 1]
        BY <1>10, <3>1
      <4> QED
        BY <3>1, <4>1
    <3>3. i < Len(n.todo) => n.todo[i + 1] = r.todo[j + 1]
      <4>1. i < Len(n.todo) => j \in 1 .. Len(r.todo) - 1
        BY <1>1, <1>10, <3>1
      <4>2. i < Len(n.todo) => n.todo[j + 2] = r.todo[j + 1]
        BY <1>10, <4>1
      <4> QED
        BY <4>2
    <3>4. (i < Len(n.todo) <=> j < Len(r.todo))
          /\ (i = Len(n.todo) <=> j = Len(r.todo))
      BY <1>1, <1>10, <3>1
    <3> HIDE DEF j
    <3> QED
      BY <1>7, <2>1, <3>1, <3>2, <3>3, <3>4 DEF Asked
  <2> QED
    BY <1>1, <1>10, <2>2, <2>3, <2>4
<1>16. Answered(n)
  BY <1>7, <1>12, <1>14 DEF Shape, Answered
<1>17. Shape(n)
  BY <1>7, <1>12, <1>15, <1>16 DEF Shape
<1> QED
  BY <1>11, <1>13, <1>14, <1>17 DEF Running, n

\* The answers lose events, and nothing else changes but what is in memory.
LEMMA ShrinkShape ==
  ASSUME NEW r \in RunType, Shape(r), NEW n \in RunType,
         n.todo = r.todo, n.next = r.next, n.from = r.from, n.safe = r.safe,
         Len(n.found) = Len(r.found),
         \A i \in 1 .. Len(r.found) :
           /\ n.found[i].to = r.found[i].to
           /\ n.found[i].events \subseteq r.found[i].events
  PROVE  Shape(n) /\ Frontier(n) = Frontier(r)
<1>1. Frontier(n) = Frontier(r)
  BY DEF Frontier
<1>2. Asked(r) => Asked(n)
  BY DEF Asked
<1>3. Answered(r) => Answered(n)
  BY <1>1 DEF Answered
<1>4. Running(n) <=> Running(r)
  <2>1. n.found \in Seq(Answer) /\ r.found \in Seq(Answer)
    BY RunFields
  <2> QED
    BY <2>1, EmptySequence DEF Running
<1> QED
  BY <1>1, <1>2, <1>3, <1>4 DEF Shape

\* The first answer is done with.
Dropped(r) == [r EXCEPT !.found = Tail(r.found)]

LEMMA DroppedShape ==
  ASSUME NEW r \in RunType, Shape(r), r.found # <<>>
  PROVE  /\ Dropped(r) \in RunType
         /\ Tail(r.found) # <<>> => Shape(Dropped(r))
         /\ Frontier(Dropped(r)) = Frontier(r)
         /\ Len(Dropped(r).found) = Len(r.found) - 1
         /\ \A i \in 1 .. Len(r.found) - 1 :
              Dropped(r).found[i] = r.found[i + 1]
<1> DEFINE n == Dropped(r)
           rest == Tail(r.found)
<1>1. /\ r.found \in Seq(Answer) /\ Len(r.found) \in Nat
      /\ \A i \in 1 .. Len(r.found) : r.found[i].to \in Nat
  BY RunFields
<1>2. /\ rest \in Seq(Answer) /\ Len(rest) = Len(r.found) - 1
      /\ \A i \in 1 .. Len(r.found) - 1 : rest[i] = r.found[i + 1]
  BY <1>1
<1>3. /\ n = [r EXCEPT !.found = rest] /\ n.found = rest
      /\ n.todo = r.todo /\ n.next = r.next
      /\ n.from = r.from /\ n.safe = r.safe
  BY DEF Dropped, RunType
<1> HIDE DEF rest, n
<1>4. n \in RunType
  BY <1>2, <1>3 DEF RunType
<1>5. Frontier(n) = Frontier(r)
  BY <1>3 DEF Frontier
<1>6. /\ Running(r) /\ r.from <= r.safe /\ r.next <= r.safe + 1
      /\ r.from <= r.next /\ Asked(r) /\ Answered(r)
  BY DEF Shape, Running
<1>7. Asked(n)
  BY <1>3, <1>6 DEF Asked
<1>8. Answered(n)
  <2>1. \A i \in 1 .. Len(n.found) :
          i + 1 \in 1 .. Len(r.found) /\ n.found[i] = r.found[i + 1]
    BY <1>1, <1>2, <1>3
  <2>2. \A i, j \in 1 .. Len(n.found) : i < j => i + 1 < j + 1
    BY <1>1, <1>2, <1>3
  <2> QED
    BY <1>5, <1>6, <2>1, <2>2 DEF Answered
<1>9. Shape(n)
  BY <1>3, <1>6, <1>7, <1>8 DEF Shape
<1> QED
  BY <1>2, <1>3, <1>4, <1>5, <1>9 DEF n, rest

-----------------------------------------------------------------------------
(* Types *)

LEMMA ScenarioFields ==
  ASSUME scenario \in Scenarios
  PROVE  /\ scenario.confirmations \in Nat /\ scenario.overlap \in Nat
         /\ scenario.batch \in Nat \ {0} /\ scenario.lookback \in Nat
         /\ scenario.depth \in Nat /\ scenario.deployed \in BOOLEAN
         /\ scenario.reorgs \in Nat /\ scenario.faults \in Nat
  BY EventSyncAssumption DEF Scenario

\* The strengthening of SyncTypeOK: what a run has in memory.
RunInv == run \in RunType /\ Shape(run)

SyncTyped == SyncTypeOK /\ RunInv /\ (cursor = NoState <=> first = NoState)

LEMMA SyncTypedInit == SyncInit => SyncTyped
<1> SUFFICES ASSUME SyncInit PROVE SyncTyped
  OBVIOUS
<1>1. MaxBlock \in Nat /\ scenario.faults \in Nat /\ scenario.reorgs \in Nat
  BY ScenarioFields, EventSyncAssumption DEF SyncInit
<1> QED
  BY <1>1, IdleShape DEF SyncInit, SyncTyped, SyncTypeOK, RunInv, Idle, Behind

\* The batch that follows, of a run that has blocks left.
LEMMA AskShape ==
  ASSUME scenario \in Scenarios, NEW r \in RunType,
         r.from <= r.next, r.next <= r.safe
  PROVE  /\ Ask(r) \in RunType /\ Shape(Ask(r))
         /\ Frontier(Ask(r)) = r.next - 1
         /\ Ask(r).found = <<>> /\ Ask(r).from = r.from
         /\ Ask(r).safe = r.safe /\ Ask(r).doc = r.doc /\ Ask(r).read = r.read
<1> DEFINE end == BatchEnd(r.next, r.safe)
<1>1. scenario.batch \in Nat \ {0} /\ r.next \in Nat /\ r.safe \in Nat
  BY ScenarioFields, RunFields
<1>2. end \in Nat /\ r.next <= end /\ end <= r.safe
  BY <1>1 DEF BatchEnd, Smaller
<1>3. Ask(r) = Batch(r, end)
  BY DEF Ask, Batch
<1> HIDE DEF end
<1>4. /\ Batch(r, end).found = <<>> /\ Batch(r, end).from = r.from
      /\ Batch(r, end).safe = r.safe /\ Batch(r, end).doc = r.doc
      /\ Batch(r, end).read = r.read
  BY DEF Batch, RunType
<1> QED
  BY <1>2, <1>3, <1>4, BatchShape

\* A run that begins at a block.
Begun(from, safe) == [Idle EXCEPT !.from = from, !.safe = safe, !.next = from]

LEMMA BegunShape ==
  ASSUME scenario \in Scenarios, NEW from \in Nat, NEW safe \in Nat,
         from <= safe
  PROVE  /\ Ask(Begun(from, safe)) \in RunType
         /\ Shape(Ask(Begun(from, safe)))
         /\ Frontier(Ask(Begun(from, safe))) = from - 1
         /\ Ask(Begun(from, safe)).found = <<>>
         /\ Ask(Begun(from, safe)).from = from
         /\ Ask(Begun(from, safe)).safe = safe
         /\ Ask(Begun(from, safe)).doc = NoState
         /\ Ask(Begun(from, safe)).read = NoState
<1>1. /\ Begun(from, safe) \in RunType
      /\ Begun(from, safe).from = from /\ Begun(from, safe).safe = safe
      /\ Begun(from, safe).next = from /\ Begun(from, safe).doc = NoState
      /\ Begun(from, safe).read = NoState
  BY IdleShape DEF Begun, RunType, Idle
<1> QED
  BY <1>1, AskShape

LEMMA HeadIsFirst ==
  ASSUME NEW S, NEW s \in Seq(S), s # <<>>
  PROVE  Head(s) = s[1] /\ Len(s) \in Nat /\ 1 \in 1 .. Len(s) /\ s[1] \in S
<1>1. Len(s) \in Nat /\ Len(s) # 0
  BY EmptySequence
<1>2. \A k \in Nat : k # 0 => 1 \in 1 .. k
  OBVIOUS
<1>3. 1 \in 1 .. Len(s)
  BY <1>1, <1>2, Zenon
<1> QED
  BY <1>1, <1>3

\* What each step makes of the run.
LEMMA StartRunIs ==
  ASSUME SyncTypeOK, StartRun
  PROVE  /\ FromBlock(SafeBlock) \in Nat /\ SafeBlock \in Nat
         /\ FromBlock(SafeBlock) <= SafeBlock
         /\ run' = Ask(Begun(FromBlock(SafeBlock), SafeBlock))
         /\ Behind(SafeBlock)
<1>1. height \in Nat /\ (cursor # NoState => cursor \in Nat)
  BY EventSyncAssumption DEF SyncTypeOK
<1>2. SafeBlock \in Nat /\ Behind(SafeBlock)
  BY <1>1, ScenarioFields DEF SafeBlock, Larger, Behind, SyncTypeOK
<1>3. FromBlock(SafeBlock) \in Nat
  BY <1>1, <1>2, ScenarioFields DEF FromBlock, Larger, SyncTypeOK
<1> QED
  BY <1>2, <1>3 DEF StartRun, Begun

LEMMA QueryAnsweredIs ==
  ASSUME SyncTyped, QueryAnswered
  PROVE  /\ run.todo # <<>> /\ EventsIn(run.todo[1]) \in SUBSET Event
         /\ run' = Reply(run, EventsIn(run.todo[1]))
         /\ \A e \in EventsIn(run.todo[1]) :
              e.block \in run.todo[1].from .. run.todo[1].to
<1>1. run.todo # <<>> /\ Head(run.todo) = run.todo[1]
  BY RunFields, HeadIsFirst DEF SyncTyped, RunInv, QueryAnswered, Querying
<1>2. run.todo[1].from \in Nat /\ run.todo[1].to \in Nat
  BY <1>1, RunFields, HeadIsFirst DEF SyncTyped, RunInv
<1>3. run' = Reply(run, EventsIn(run.todo[1]))
  BY <1>1 DEF QueryAnswered, Reply
<1>4. ASSUME NEW e \in EventsIn(run.todo[1])
      PROVE  e \in Event /\ e.block \in run.todo[1].from .. run.todo[1].to
  <2>1. PICK t \in Transfers : /\ e = [tx |-> t, block |-> where[t]]
                               /\ where[t] \in Larger(1, run.todo[1].from)
                                                 .. run.todo[1].to
    BY DEF EventsIn
  <2>2. where[t] \in 0 .. MaxBlock /\ MaxBlock \in Nat
    BY EventSyncAssumption DEF SyncTyped, SyncTypeOK
  <2> QED
    BY <1>2, <2>1, <2>2 DEF Event, Larger
<1> QED
  BY <1>1, <1>3, <1>4

LEMMA QueryRefusedIs ==
  ASSUME SyncTyped, QueryRefused
  PROVE  \/ run' = Idle
         \/ /\ run.todo # <<>> /\ run.todo[1].from < run.todo[1].to
            /\ run' = Halved(run)
<1>1. run.todo # <<>> /\ Head(run.todo) = run.todo[1]
  BY RunFields, HeadIsFirst DEF SyncTyped, RunInv, QueryRefused, Querying
<1> QED
  BY <1>1 DEF QueryRefused, Halved

LEMMA ReadRecordIs ==
  ASSUME SyncTyped, ReadRecord
  PROVE  /\ run.todo = <<>> /\ run.found # <<>>
         /\ \E e \in run.found[1].events :
              run' = [run EXCEPT !.doc = e, !.read = booked[e.tx]]
<1>1. run.found # <<>> /\ Head(run.found) = run.found[1] /\ run.todo = <<>>
  BY RunFields, HeadIsFirst DEF SyncTyped, RunInv, ReadRecord, Ingesting
<1> QED
  BY <1>1 DEF ReadRecord, Events

LEMMA WriteRecordIs ==
  ASSUME SyncTyped, WriteRecord
  PROVE  /\ run.todo = <<>> /\ run.found # <<>> /\ run.doc \in Event
         /\ run' = [run EXCEPT !.doc = NoState, !.read = NoState,
                               !.found = Ingested(run)]
         /\ applied' = applied \cup {run.doc.tx}
  BY DEF WriteRecord, Ingesting, SyncTyped, RunInv, RunType

LEMMA IngestedType ==
  ASSUME NEW r \in RunType, r.found # <<>>
  PROVE  /\ Ingested(r) \in Seq(Answer) /\ Len(Ingested(r)) = Len(r.found)
         /\ \A i \in 1 .. Len(r.found) :
              /\ Ingested(r)[i].to = r.found[i].to
              /\ Ingested(r)[i].events \subseteq r.found[i].events
              /\ r.found[i].events \ {r.doc} \subseteq Ingested(r)[i].events
<1>1. r.found \in Seq(Answer) /\ r.found[1] \in Answer
  BY RunFields, HeadIsFirst
<1> DEFINE new == [to |-> r.found[1].to, events |-> r.found[1].events \ {r.doc}]
<1>2. /\ new \in Answer /\ new.to = r.found[1].to
      /\ new.events = r.found[1].events \ {r.doc}
  BY <1>1 DEF Answer
<1>3. Ingested(r) = [r.found EXCEPT ![1] = new]
  BY DEF Ingested
<1> HIDE DEF new
<1>4. /\ Ingested(r) \in Seq(Answer) /\ Len(Ingested(r)) = Len(r.found)
      /\ \A i \in 1 .. Len(r.found) :
           Ingested(r)[i] = IF i = 1 THEN new ELSE r.found[i]
  BY <1>1, <1>2, <1>3
<1> QED
  BY <1>2, <1>4

LEMMA StoreCursorIs ==
  ASSUME SyncTyped, StoreCursor
  PROVE  /\ run.todo = <<>> /\ run.found # <<>> /\ run.found[1].events = {}
         /\ run.found[1].to \in Nat /\ cursor' = run.found[1].to
         /\ cursor' <= run.safe
         /\ first' = IF first = NoState THEN run.from ELSE first
         /\ \/ Tail(run.found) # <<>> /\ run' = Dropped(run)
            \/ Tail(run.found) = <<>> /\ run' = Idle
            \/ /\ Tail(run.found) = <<>> /\ run.from <= run.next
               /\ run.next <= run.safe /\ run' = Ask(run)
<1>1. /\ run.found # <<>> /\ Head(run.found) = run.found[1]
      /\ run.todo = <<>> /\ run.found[1].to \in Nat
      /\ 1 \in 1 .. Len(run.found)
      /\ run.next \in Nat /\ run.safe \in Nat
  BY RunFields, HeadIsFirst DEF SyncTyped, RunInv, StoreCursor, Ingesting
<1>2. run.next <= run.safe + 1 /\ run.from <= run.next /\ Answered(run)
  BY <1>1 DEF SyncTyped, RunInv, Shape, Running
<1>3. run.found[1].to <= run.next - 1
  BY <1>1, <1>2 DEF Answered, Frontier
<1>4. run.found[1].to <= run.safe
  BY <1>1, <1>2, <1>3
<1>5. run.next > run.safe \/ run.next <= run.safe
  BY <1>1
<1> QED
  BY <1>1, <1>2, <1>4, <1>5 DEF StoreCursor, NextBatch, Events, Dropped

LEMMA RunInvNext ==
  ASSUME SyncTyped, [SyncNext]_syncVars
  PROVE  RunInv' /\ Behind(run.safe)'
<1>1. /\ scenario \in Scenarios /\ run \in RunType /\ Shape(run)
      /\ Behind(run.safe) /\ height \in Nat /\ run.safe \in Nat
  BY EventSyncAssumption, RunFields DEF SyncTyped, SyncTypeOK, RunInv
<1>2. height' \in Nat /\ height <= height' /\ UNCHANGED scenario
  <2>1. (height' = height \/ height' = height + 1) /\ UNCHANGED scenario
    BY DEF SyncNext, Mine, Reorg, Sync, StartRun, QueryAnswered,
       QueryRefused, ReadRecord, WriteRecord, StoreCursor, RunFails,
       StoreHash, SettleRecord, chainVars, syncVars
  <2> QED
    BY <1>1, <2>1
<1>3. ASSUME NEW r \in RunType, Behind(r.safe)
      PROVE  r.safe = 0 \/ r.safe <= height' - scenario'.confirmations
  <2>1. r.safe \in Nat /\ scenario.confirmations \in Nat
    BY <1>1, RunFields, ScenarioFields
  <2> QED
    BY <1>1, <1>2, <1>3, <2>1 DEF Behind
<1> SUFFICES run' \in RunType /\ Shape(run') /\ Behind(run'.safe)
  BY <1>3 DEF RunInv, Behind
<1>4. CASE run' = run
  BY <1>1, <1>4
<1>5. CASE run' = Idle
  BY <1>5, IdleShape DEF Idle, Behind
<1>6. CASE StartRun
  BY <1>1, <1>6, StartRunIs, BegunShape DEF SyncTyped
<1>7. CASE QueryAnswered
  <2>1. Reply(run, EventsIn(run.todo[1])).safe = run.safe
    BY <1>1 DEF Reply, RunType
  <2> QED
    BY <1>1, <1>7, <2>1, QueryAnsweredIs, ReplyShape
<1>8. CASE run' = Halved(run) /\ QueryRefused /\ run' # Idle
  <2>1. Halved(run).safe = run.safe
    BY <1>1 DEF Halved, RunType
  <2> QED
    BY <1>1, <1>8, <2>1, QueryRefusedIs, HalvedShape
<1>9. CASE ReadRecord
  <2>1. PICK e \in run.found[1].events :
          run' = [run EXCEPT !.doc = e, !.read = booked[e.tx]]
    BY <1>9, ReadRecordIs
  <2>2. e \in Event
    BY <1>1, <1>9, ReadRecordIs, RunFields, HeadIsFirst
  <2>3. booked[e.tx] \in {NoState, "none", "pending", "success"}
    BY <2>2 DEF SyncTyped, SyncTypeOK, Event
  <2>4. /\ run' \in RunType /\ run'.found = run.found /\ run'.todo = run.todo
        /\ run'.next = run.next /\ run'.from = run.from
        /\ run'.safe = run.safe
    BY <1>1, <2>1, <2>2, <2>3 DEF RunType
  <2> QED
    BY <1>1, <2>4, ShrinkShape
<1>10. CASE WriteRecord
  <2>1. /\ run' \in RunType /\ run'.found = Ingested(run)
        /\ run'.todo = run.todo /\ run'.next = run.next
        /\ run'.from = run.from /\ run'.safe = run.safe
    BY <1>1, <1>10, WriteRecordIs, IngestedType DEF RunType
  <2>2. /\ Len(run'.found) = Len(run.found)
        /\ \A i \in 1 .. Len(run.found) :
             /\ run'.found[i].to = run.found[i].to
             /\ run'.found[i].events \subseteq run.found[i].events
    BY <1>1, <1>10, <2>1, WriteRecordIs, IngestedType
  <2>3. Shape(run')
    BY <1>1, <2>1, <2>2, ShrinkShape
  <2> QED
    BY <1>1, <2>1, <2>3
<1>11. CASE StoreCursor
  <2>1. CASE Tail(run.found) # <<>> /\ run' = Dropped(run)
    <3>1. Dropped(run).safe = run.safe
      BY <1>1 DEF Dropped, RunType
    <3> QED
      BY <1>1, <1>11, <2>1, <3>1, StoreCursorIs, DroppedShape
  <2>2. CASE run' = Idle
    BY <1>5, <2>2
  <2>3. CASE run.from <= run.next /\ run.next <= run.safe /\ run' = Ask(run)
    BY <1>1, <2>3, AskShape
  <2> QED
    BY <1>11, <2>1, <2>2, <2>3, StoreCursorIs
<1> QED
  BY <1>4, <1>5, <1>6, <1>7, <1>8, <1>9, <1>10, <1>11, QueryRefusedIs
     DEF SyncNext, Sync, Mine, Reorg, StoreHash, SettleRecord, RunFails,
         syncVars

\* A reorganisation moves transfers among the blocks it replaces only.
LEMMA ReorgMoves ==
  ASSUME SyncTypeOK, Reorg
  PROVE  \E k \in Nat :
           /\ 1 <= k /\ k <= scenario.depth /\ k <= height
           /\ \A t \in Transfers :
                \/ where'[t] = where[t]
                \/ /\ where[t] > height - k
                   /\ \/ where'[t] = 0
                      \/ where'[t] > height - k /\ where'[t] <= height
           /\ where' \in [Transfers -> 0 .. MaxBlock]
<1>1. /\ height \in Nat /\ height <= MaxBlock /\ scenario.depth \in Nat
      /\ MaxBlock \in Nat /\ where \in [Transfers -> 0 .. MaxBlock]
  BY EventSyncAssumption, ScenarioFields DEF SyncTypeOK
<1>2. PICK k \in 1 .. Smaller(scenario.depth, height) :
        \E to \in [{t \in Transfers : where[t] > height - k}
                     -> {0} \cup (height - k + 1 .. height)] :
          where' = [t \in Transfers |->
                      IF t \in {u \in Transfers : where[u] > height - k}
                      THEN to[t] ELSE where[t]]
  BY DEF Reorg
<1>3. k \in Nat /\ 1 <= k /\ k <= scenario.depth /\ k <= height
  BY <1>1, <1>2 DEF Smaller
<1>4. PICK to \in [{t \in Transfers : where[t] > height - k}
                     -> {0} \cup (height - k + 1 .. height)] :
        where' = [t \in Transfers |->
                    IF t \in {u \in Transfers : where[u] > height - k}
                    THEN to[t] ELSE where[t]]
  BY <1>2
<1>5. ASSUME NEW t \in Transfers
      PROVE  /\ \/ where'[t] = where[t]
                \/ /\ where[t] > height - k
                   /\ \/ where'[t] = 0
                      \/ where'[t] > height - k /\ where'[t] <= height
             /\ where'[t] \in 0 .. MaxBlock
  <2>1. CASE where[t] > height - k
    <3>1. where'[t] = to[t] /\ to[t] \in {0} \cup (height - k + 1 .. height)
      BY <1>4, <2>1
    <3>2. CASE to[t] = 0
      BY <1>1, <2>1, <3>1, <3>2
    <3>3. CASE to[t] \in height - k + 1 .. height
      BY <1>1, <1>3, <2>1, <3>1, <3>3
    <3> QED
      BY <3>1, <3>2, <3>3
  <2>2. CASE ~(where[t] > height - k)
    BY <1>1, <1>4, <2>2
  <2> QED
    BY <2>1, <2>2
<1>6. where' \in [Transfers -> 0 .. MaxBlock]
  <2>1. where' = [t \in Transfers |-> where'[t]]
    BY <1>4
  <2> QED
    BY <1>5, <2>1
<1> QED
  BY <1>3, <1>5, <1>6

LEMMA SyncTypedNext == SyncTyped /\ [SyncNext]_syncVars => SyncTyped'
<1> SUFFICES ASSUME SyncTyped, [SyncNext]_syncVars PROVE SyncTyped'
  OBVIOUS
<1>1. /\ height \in Nat /\ MaxBlock \in Nat /\ height <= MaxBlock
      /\ where \in [Transfers -> 0 .. MaxBlock]
      /\ \A t \in Transfers : where[t] <= height
      /\ cursor \in {NoState} \cup 0 .. MaxBlock
      /\ cursor # NoState => Behind(cursor)
      /\ NoState \notin Int /\ run \in RunType
  BY EventSyncAssumption DEF SyncTyped, SyncTypeOK, RunInv
<1>2. RunInv' /\ Behind(run.safe)'
  BY RunInvNext
<1>3. run'.read \in {NoState, "none", "pending", "success"}
  BY <1>2 DEF RunInv, RunType
<1> SUFFICES /\ (scenario \in Scenarios)'
             /\ height' \in 0 .. MaxBlock
             /\ where' \in [Transfers -> 0 .. MaxBlock]
             /\ \A t \in Transfers : where'[t] <= height'
             /\ booked' \in [Transfers -> {"none", "pending", "success"}]
             /\ cursor' \in {NoState} \cup 0 .. MaxBlock
             /\ first' \in {NoState} \cup 0 .. MaxBlock
             /\ (cursor # NoState => Behind(cursor))'
             /\ applied' \subseteq Transfers
             /\ faults' \in 0 .. scenario'.faults
             /\ reorgs' \in 0 .. scenario'.reorgs
             /\ cursor' = NoState <=> first' = NoState
  BY <1>2, <1>3 DEF SyncTyped, SyncTypeOK
<1>4. CASE Mine
  <2>1. /\ height' = height + 1 /\ height' \in 0 .. MaxBlock
        /\ UNCHANGED <<scenario, reorgs, booked, cursor, first, run, applied,
                       faults>>
    BY <1>1, <1>4 DEF Mine
  <2>2. /\ where' \in [Transfers -> 0 .. MaxBlock]
        /\ \A t \in Transfers : where'[t] <= height'
    <3>1. PICK mined \in SUBSET {t \in Transfers : where[t] = 0} :
            where' = [t \in Transfers |-> IF t \in mined THEN height + 1
                                          ELSE where[t]]
      BY <1>4 DEF Mine
    <3>2. \A t \in Transfers : where'[t] \in 0 .. MaxBlock
                                 /\ where'[t] <= height'
      BY <1>1, <2>1, <3>1
    <3> QED
      BY <3>1, <3>2
  <2>3. cursor # NoState => Behind(cursor)'
    BY <1>1, <2>1, ScenarioFields DEF Behind, SyncTyped, SyncTypeOK
  <2> QED
    BY <2>1, <2>2, <2>3 DEF SyncTyped, SyncTypeOK
<1>5. CASE Reorg
  <2>1. UNCHANGED <<scenario, height, booked, cursor, first, run, applied,
                    faults>>
    BY <1>5 DEF Reorg
  <2>2. where' \in [Transfers -> 0 .. MaxBlock]
    BY <1>5, ReorgMoves DEF SyncTyped
  <2>3. \A t \in Transfers : where'[t] <= height
    BY <1>1, <1>5, ReorgMoves DEF SyncTyped
  <2>4. reorgs' \in 0 .. scenario.reorgs
    BY <1>5, ScenarioFields DEF Reorg, SyncTyped, SyncTypeOK
  <2> QED
    BY <2>1, <2>2, <2>3, <2>4 DEF SyncTyped, SyncTypeOK, Behind
<1>6. CASE StoreCursor
  <2>1. /\ UNCHANGED <<scenario, chainVars, booked, applied, faults>>
        /\ first' = IF first = NoState THEN run.from ELSE first
        /\ cursor' = run.found[1].to /\ cursor' \in Nat
        /\ cursor' <= run.safe /\ Behind(run.safe)
        /\ run.from <= run.safe
    <3>1. Shape(run) /\ Running(run)
      BY <1>6, StoreCursorIs DEF SyncTyped, RunInv, Running
    <3> QED
      BY <1>6, <3>1, StoreCursorIs
         DEF StoreCursor, SyncTyped, SyncTypeOK, RunInv, Shape
  <2>2. run.safe \in Nat /\ run.from \in Nat /\ scenario.confirmations \in Nat
    BY <1>1, RunFields, ScenarioFields DEF SyncTyped, SyncTypeOK
  <2>3. run.safe <= height /\ Behind(cursor')
    BY <1>1, <2>1, <2>2 DEF Behind
  <2>4. cursor' \in 0 .. MaxBlock /\ cursor' # NoState
    BY <1>1, <2>1, <2>2, <2>3
  <2>5. first' \in 0 .. MaxBlock /\ first' # NoState
    BY <1>1, <2>1, <2>2, <2>3 DEF SyncTyped, SyncTypeOK
  <2>6. Behind(cursor)'
    BY <2>1, <2>3 DEF Behind, chainVars
  <2> QED
    BY <2>1, <2>4, <2>5, <2>6 DEF SyncTyped, SyncTypeOK, chainVars
<1>7. CASE WriteRecord
  <2>1. run.doc.tx \in Transfers
    BY <1>7, WriteRecordIs DEF Event
  <2>2. UNCHANGED <<scenario, chainVars, cursor, first, faults>>
    BY <1>7 DEF WriteRecord
  <2>3. booked' \in [Transfers -> {"none", "pending", "success"}]
    BY <1>7, <2>1 DEF WriteRecord, SyncTyped, SyncTypeOK
  <2>4. applied' \subseteq Transfers
    BY <1>7, <2>1, WriteRecordIs DEF SyncTyped, SyncTypeOK
  <2> QED
    BY <2>2, <2>3, <2>4 DEF SyncTyped, SyncTypeOK, chainVars, Behind
<1>8. ASSUME NEW t \in Transfers, StoreHash(t) \/ SettleRecord(t)
      PROVE  /\ UNCHANGED <<scenario, chainVars, cursor, first, applied,
                             faults>>
             /\ booked' \in [Transfers -> {"none", "pending", "success"}]
  BY <1>8 DEF StoreHash, SettleRecord, SyncTyped, SyncTypeOK
<1>9. CASE \E t \in Transfers : StoreHash(t) \/ SettleRecord(t)
  BY <1>8, <1>9 DEF SyncTyped, SyncTypeOK, chainVars, Behind
<1>10. CASE StartRun \/ QueryAnswered \/ QueryRefused \/ ReadRecord
              \/ RunFails \/ UNCHANGED syncVars
  <2>1. UNCHANGED <<scenario, chainVars, booked, cursor, first, applied>>
    BY <1>10 DEF StartRun, QueryAnswered, QueryRefused, ReadRecord, RunFails,
                 syncVars
  <2>2. faults' = faults \/ Fault
    BY <1>10 DEF StartRun, QueryAnswered, QueryRefused, ReadRecord, RunFails,
                 syncVars
  <2>3. faults' \in 0 .. scenario.faults
    BY <2>2, ScenarioFields DEF Fault, SyncTyped, SyncTypeOK
  <2> QED
    BY <2>1, <2>3 DEF SyncTyped, SyncTypeOK, chainVars, Behind
<1> QED
  BY <1>4, <1>5, <1>6, <1>7, <1>9, <1>10 DEF SyncNext, Sync

(* Every variable of event synchronisation stays in its range, the cursor    *)
(* behind the confirmations, and a run's ranges lie side by side.            *)
THEOREM SyncTypeOKHolds == SyncSpec => [](SyncTypeOK /\ RunInv)
<1>1. SyncTyped => SyncTypeOK /\ RunInv
  BY DEF SyncTyped
<1> QED
  BY <1>1, SyncTypedInit, SyncTypedNext, PTL DEF SyncSpec

-----------------------------------------------------------------------------
(* Nothing is skipped *)

\* Blocks up to b are out of the reach of any reorganisation.
Buried(b) == b < 1 \/ b <= height - scenario.depth

\* An answer in memory holds the transfer.
Waiting(t) ==
  \E i \in 1 .. Len(run.found) :
    [tx |-> t, block |-> where[t]] \in run.found[i].events

\* What the stored cursor promises of the blocks in front of the overlap.
KeptUp ==
  cursor # NoState =>
    \A t \in Transfers :
      /\ 1 <= where[t] /\ first <= where[t]
      /\ where[t] <= cursor - scenario.overlap
      => t \in applied

\* What a run has seen and not stored yet is in its answers.
Scanned ==
  Running(run) =>
    \A t \in Transfers :
      /\ 1 <= where[t] /\ run.from <= where[t]
      /\ where[t] <= Frontier(run) /\ where[t] <= run.safe - scenario.overlap
      => t \in applied \/ Waiting(t)

\* What lies before the blocks of a run was ingested by the runs before it.
Before ==
  Running(run) /\ first # NoState /\ first < run.from =>
    /\ Buried(run.from - 1)
    /\ \A t \in Transfers :
         1 <= where[t] /\ first <= where[t] /\ where[t] < run.from
           => t \in applied

SkipInv == Absorbed => KeptUp /\ Scanned /\ Before

LEMMA SyncFields ==
  ASSUME SyncTyped
  PROVE  /\ scenario \in Scenarios /\ height \in Nat /\ NoState \notin Int
         /\ cursor # NoState => cursor \in Nat /\ first \in Nat
         /\ first # NoState => cursor # NoState
         /\ \A t \in Transfers : where[t] \in Nat /\ where[t] <= height
         /\ run \in RunType /\ Shape(run) /\ run.from \in Nat
         /\ run.safe \in Nat /\ run.next \in Nat
         /\ scenario.overlap \in Nat /\ scenario.depth \in Nat
         /\ scenario.confirmations \in Nat
<1>1. MaxBlock \in Nat /\ NoState \notin Int
  BY EventSyncAssumption
<1> QED
  BY <1>1, ScenarioFields, RunFields DEF SyncTyped, SyncTypeOK, RunInv

LEMMA FrontierType ==
  ASSUME NEW r \in RunType
  PROVE  Frontier(r) \in Int
<1>1. r.todo \in Seq(Question) /\ r.next \in Nat
  BY RunFields
<1>2. r.todo # <<>> => r.todo[1].from \in Nat
  BY <1>1, RunFields, HeadIsFirst
<1> QED
  BY <1>1, <1>2 DEF Frontier

\* The confirmations and the overlap bury what is behind both of them.
LEMMA OverlapIsBuried ==
  ASSUME SyncTyped, Absorbed, NEW b \in Nat, Behind(b)
  PROVE  Buried(b - scenario.overlap)
  BY SyncFields DEF Absorbed, Behind, Buried

LEMMA BuriedStays ==
  ASSUME SyncTyped, Mine \/ Reorg, NEW b \in Int, Buried(b)
  PROVE  /\ Buried(b)'
         /\ \A t \in Transfers :
              1 <= where'[t] /\ where'[t] <= b => where'[t] = where[t]
<1> USE SyncFields
<1>1. CASE Mine
  <2>1. height' = height + 1 /\ scenario' = scenario
    BY <1>1 DEF Mine
  <2>2. Buried(b)'
    BY <2>1 DEF Buried
  <2>3. \A t \in Transfers : where'[t] \in {where[t], height + 1}
    BY <1>1 DEF Mine
  <2>4. 1 <= b => b < height + 1
    BY DEF Buried
  <2> QED
    BY <2>2, <2>3, <2>4
<1>2. CASE Reorg
  <2>1. height' = height /\ scenario' = scenario
    BY <1>2 DEF Reorg
  <2>2. Buried(b)'
    BY <2>1 DEF Buried
  <2>3. PICK k \in Nat :
          /\ 1 <= k /\ k <= scenario.depth /\ k <= height
          /\ \A t \in Transfers :
               \/ where'[t] = where[t]
               \/ where'[t] = 0
               \/ where'[t] > height - k /\ where'[t] <= height
          /\ where' \in [Transfers -> 0 .. MaxBlock]
    BY <1>2, ReorgMoves DEF SyncTyped
  <2>4. 1 <= b => b <= height - k
    BY <2>3 DEF Buried
  <2>5. \A t \in Transfers : where'[t] \in Int
    BY <2>3, EventSyncAssumption
  <2> QED
    BY <2>2, <2>3, <2>4, <2>5
<1> QED
  BY <1>1, <1>2

LEMMA SkipInvInit == SyncInit => SkipInv
<1> SUFFICES ASSUME SyncInit PROVE SkipInv
  OBVIOUS
<1>1. cursor = NoState /\ first = NoState /\ run = Idle
  BY DEF SyncInit
<1> QED
  BY <1>1, IdleShape DEF SkipInv, KeptUp, Scanned, Before

\* The chain moves, the service does not.
LEMMA ChainKeepsSkip ==
  ASSUME SyncTyped, SkipInv, Absorbed, Mine \/ Reorg
  PROVE  KeptUp' /\ Scanned' /\ Before'
<1>1. UNCHANGED <<scenario, cursor, first, run, applied>>
  BY DEF Mine, Reorg
<1>2. KeptUp /\ Scanned /\ Before
  BY DEF SkipInv
<1>3. \A t \in Transfers : where'[t] \in Int
  BY SyncTypedNext, EventSyncAssumption DEF SyncTyped, SyncTypeOK, SyncNext
<1>4. KeptUp'
  <2>1. CASE cursor # NoState
    <3>1. cursor \in Nat /\ Behind(cursor)
      BY <2>1, SyncFields DEF SyncTyped, SyncTypeOK
    <3>2. Buried(cursor - scenario.overlap)
      BY <3>1, OverlapIsBuried
    <3>3. cursor - scenario.overlap \in Int
      BY <3>1, SyncFields
    <3> QED
      BY <1>1, <1>2, <3>2, <3>3, BuriedStays DEF KeptUp
  <2>2. CASE cursor = NoState
    BY <1>1, <2>2 DEF KeptUp
  <2> QED
    BY <2>1, <2>2
<1>5. Scanned'
  <2>1. run.safe \in Nat /\ Behind(run.safe)
    BY SyncFields DEF SyncTyped, SyncTypeOK
  <2>2. Buried(run.safe - scenario.overlap)
    BY <2>1, OverlapIsBuried
  <2>3. run.safe - scenario.overlap \in Int
    BY <2>1, SyncFields
  <2>4. \A t \in Transfers :
          1 <= where'[t] /\ where'[t] <= run.safe - scenario.overlap
            => where'[t] = where[t]
    BY <2>2, <2>3, BuriedStays
  <2>5. \A t \in Transfers : where'[t] = where[t] => (Waiting(t) => Waiting(t)')
    BY <1>1 DEF Waiting
  <2> QED
    BY <1>1, <1>2, <2>4, <2>5 DEF Scanned
<1>6. Before'
  <2> SUFFICES ASSUME Running(run), first # NoState, first < run.from
               PROVE  /\ Buried(run.from - 1)'
                      /\ \A t \in Transfers :
                           /\ 1 <= where'[t] /\ first <= where'[t]
                           /\ where'[t] < run.from
                           => t \in applied
    BY <1>1 DEF Before
  <2>1. Buried(run.from - 1) /\ run.from - 1 \in Int
    BY <1>2, SyncFields DEF Before
  <2>2. Buried(run.from - 1)'
    BY <2>1, BuriedStays, <1>1 DEF Buried
  <2>3. \A t \in Transfers : where'[t] < run.from => where'[t] <= run.from - 1
    BY <1>3, SyncFields
  <2>4. \A t \in Transfers :
          1 <= where'[t] /\ where'[t] < run.from => where'[t] = where[t]
    BY <2>1, <2>3, BuriedStays
  <2> QED
    BY <1>2, <2>2, <2>4 DEF Before
<1> QED
  BY <1>4, <1>5, <1>6

LEMMA StartKeepsSkip ==
  ASSUME SyncTyped, SkipInv, Absorbed, StartRun
  PROVE  KeptUp' /\ Scanned' /\ Before'
<1> DEFINE from == FromBlock(SafeBlock)
<1>1. /\ from \in Nat /\ SafeBlock \in Nat /\ from <= SafeBlock
      /\ run' = Ask(Begun(from, SafeBlock))
  BY StartRunIs DEF SyncTyped
<1>2. UNCHANGED <<scenario, chainVars, cursor, first, applied>>
  BY DEF StartRun
<1>3. from = IF cursor # NoState THEN Larger(0, cursor + 1 - scenario.overlap)
             ELSE from
  BY DEF FromBlock
<1> HIDE DEF from
<1>4. run'.from = from /\ Frontier(run') = from - 1
  BY <1>1, BegunShape, SyncFields
<1>5. KeptUp'
  BY <1>2 DEF SkipInv, KeptUp, chainVars
<1>6. Scanned'
  <2>1. \A t \in Transfers : ~(from <= where[t] /\ where[t] <= from - 1)
    BY <1>1, SyncFields
  <2> QED
    BY <1>2, <1>4, <2>1 DEF Scanned, chainVars
<1>7. ASSUME first # NoState, first < from
      PROVE  /\ Buried(from - 1)
             /\ \A t \in Transfers :
                  1 <= where[t] /\ first <= where[t] /\ where[t] < from
                    => t \in applied
  <2>1. cursor \in Nat /\ first \in Nat /\ Behind(cursor) /\ cursor # NoState
    BY <1>7, SyncFields DEF SyncTyped, SyncTypeOK
  <2>2. from = cursor + 1 - scenario.overlap
    BY <1>1, <1>3, <1>7, <2>1, SyncFields DEF Larger
  <2>3. from - 1 = cursor - scenario.overlap
    BY <2>1, <2>2, SyncFields
  <2>4. Buried(from - 1)
    BY <2>1, <2>3, OverlapIsBuried
  <2>5. \A t \in Transfers :
          where[t] < from => where[t] <= cursor - scenario.overlap
    BY <1>1, <2>1, <2>2, SyncFields
  <2> QED
    BY <2>1, <2>4, <2>5 DEF SkipInv, KeptUp
<1> QED
  BY <1>2, <1>4, <1>5, <1>6, <1>7 DEF Before, Buried, chainVars

LEMMA AnswerKeepsSkip ==
  ASSUME SyncTyped, SkipInv, Absorbed, QueryAnswered
  PROVE  KeptUp' /\ Scanned' /\ Before'
<1> DEFINE q == run.todo[1]
           n == Reply(run, EventsIn(run.todo[1]))
<1>1. UNCHANGED <<scenario, chainVars, cursor, first, applied>>
  BY DEF QueryAnswered
<1>2. /\ run.todo # <<>> /\ EventsIn(q) \in SUBSET Event /\ run' = n
      /\ \A e \in EventsIn(q) : e.block \in q.from .. q.to
  BY QueryAnsweredIs
<1>3. /\ run \in RunType /\ Shape(run) /\ Running(run)
      /\ Len(run.found) \in Nat
  BY <1>2, SyncFields, RunFields DEF Running
<1>4. /\ n.from = run.from /\ n.safe = run.safe
      /\ n.found = Append(run.found, [to |-> q.to, events |-> EventsIn(q)])
  BY <1>3 DEF Reply, RunType
<1>5. /\ Frontier(n) = q.to /\ Len(n.found) = Len(run.found) + 1
  BY <1>2, <1>3, ReplyShape
<1>6. /\ q.from \in Nat /\ q.to \in Nat /\ Frontier(run) = q.from - 1
  BY <1>2, <1>3, RunFields, HeadIsFirst DEF Frontier
<1>7. /\ \A i \in 1 .. Len(run.found) : n.found[i] = run.found[i]
      /\ n.found[Len(run.found) + 1].events = EventsIn(q)
  BY <1>3, <1>4, RunFields
<1>8. KeptUp' /\ Before'
  BY <1>1, <1>2, <1>3, <1>4 DEF SkipInv, KeptUp, Before, Buried, chainVars
<1> HIDE DEF n
<1>9. Scanned'
  <2> SUFFICES ASSUME NEW t \in Transfers,
                      1 <= where[t], run.from <= where[t],
                      where[t] <= q.to,
                      where[t] <= run.safe - scenario.overlap
               PROVE  t \in applied \/ \E i \in 1 .. Len(n.found) :
                        [tx |-> t, block |-> where[t]] \in n.found[i].events
    BY <1>1, <1>2, <1>4, <1>5 DEF Scanned, Waiting, chainVars
  <2>1. CASE where[t] <= Frontier(run)
    <3>1. t \in applied \/ Waiting(t)
      BY <1>3, <2>1 DEF SkipInv, Scanned
    <3>2. CASE Waiting(t)
      <4>1. PICK i \in 1 .. Len(run.found) :
              [tx |-> t, block |-> where[t]] \in run.found[i].events
        BY <3>2 DEF Waiting
      <4>2. i \in 1 .. Len(n.found) /\ n.found[i] = run.found[i]
        BY <1>3, <1>5, <1>7
      <4> QED
        BY <4>1, <4>2
    <3> QED
      BY <3>1, <3>2
  <2>2. CASE ~(where[t] <= Frontier(run))
    <3>1. where[t] \in Larger(1, q.from) .. q.to
      BY <1>6, <2>2, SyncFields DEF Larger
    <3>2. [tx |-> t, block |-> where[t]] \in EventsIn(q)
      BY <3>1 DEF EventsIn
    <3>3. Len(run.found) + 1 \in 1 .. Len(n.found)
      BY <1>3, <1>5
    <3> QED
      BY <1>7, <3>2, <3>3
  <2> QED
    BY <2>1, <2>2
<1> QED
  BY <1>8, <1>9

\* Questions are halved, a record is read: no answer changes.
LEMMA SameAnswersKeepSkip ==
  ASSUME SyncTyped, SkipInv, Absorbed,
         UNCHANGED <<scenario, chainVars, cursor, first, applied>>,
         \/ ~Running(run')
         \/ /\ run'.from = run.from /\ run'.safe = run.safe
            /\ run'.found = run.found /\ Frontier(run') = Frontier(run)
            /\ Running(run)
  PROVE  KeptUp' /\ Scanned' /\ Before'
<1>1. KeptUp'
  BY DEF SkipInv, KeptUp, chainVars
<1>2. Scanned'
  BY DEF SkipInv, Scanned, Waiting, chainVars
<1>3. Before'
  BY DEF SkipInv, Before, Buried, chainVars
<1> QED
  BY <1>1, <1>2, <1>3

LEMMA WriteKeepsSkip ==
  ASSUME SyncTyped, SkipInv, Absorbed, WriteRecord
  PROVE  KeptUp' /\ Scanned' /\ Before'
<1>1. UNCHANGED <<scenario, chainVars, cursor, first>>
  BY DEF WriteRecord
<1>2. /\ run.todo = <<>> /\ run.found # <<>> /\ run.doc \in Event
      /\ run' = [run EXCEPT !.doc = NoState, !.read = NoState,
                            !.found = Ingested(run)]
      /\ applied' = applied \cup {run.doc.tx}
  BY WriteRecordIs
<1>3. /\ run'.from = run.from /\ run'.safe = run.safe
      /\ run'.found = Ingested(run) /\ run'.todo = run.todo
      /\ run'.next = run.next
  BY <1>2, SyncFields DEF RunType
<1>4. /\ Running(run) /\ Frontier(run') = Frontier(run)
      /\ Len(Ingested(run)) = Len(run.found)
      /\ \A i \in 1 .. Len(run.found) :
           run.found[i].events \ {run.doc} \subseteq Ingested(run)[i].events
  BY <1>2, <1>3, SyncFields, IngestedType DEF Running, Frontier
<1>5. KeptUp' /\ Before'
  BY <1>1, <1>2, <1>3, <1>4 DEF SkipInv, KeptUp, Before, Buried, chainVars
<1>6. ASSUME NEW t \in Transfers, Waiting(t)
      PROVE  t \in applied' \/ Waiting(t)'
  <2>1. PICK i \in 1 .. Len(run.found) :
          [tx |-> t, block |-> where[t]] \in run.found[i].events
    BY <1>6 DEF Waiting
  <2>2. CASE [tx |-> t, block |-> where[t]] = run.doc
    BY <1>2, <2>2
  <2>3. CASE [tx |-> t, block |-> where[t]] # run.doc
    BY <1>1, <1>3, <1>4, <2>1, <2>3 DEF Waiting, chainVars
  <2> QED
    BY <2>2, <2>3
<1>7. Scanned'
  BY <1>1, <1>2, <1>3, <1>4, <1>6 DEF SkipInv, Scanned, chainVars
<1> QED
  BY <1>5, <1>7

LEMMA StoreKeepsSkip ==
  ASSUME SyncTyped, SkipInv, Absorbed, StoreCursor
  PROVE  KeptUp' /\ Scanned' /\ Before'
<1> DEFINE c == run.found[1].to
<1>1. UNCHANGED <<scenario, chainVars, applied>>
  BY DEF StoreCursor
<1>2. /\ run.todo = <<>> /\ run.found # <<>> /\ run.found[1].events = {}
      /\ c \in Nat /\ cursor' = c /\ c <= run.safe
      /\ first' = IF first = NoState THEN run.from ELSE first
  BY StoreCursorIs
<1>3. /\ run \in RunType /\ Shape(run) /\ Running(run) /\ Answered(run)
      /\ 1 \in 1 .. Len(run.found) /\ Len(run.found) \in Nat
  BY <1>2, SyncFields, RunFields, HeadIsFirst DEF Running, Shape
<1>4. c <= Frontier(run)
  BY <1>2, <1>3 DEF Answered
<1>5. \A t \in Transfers : Waiting(t) =>
        \E i \in 1 .. Len(run.found) :
          /\ 1 < i /\ c < where[t]
          /\ [tx |-> t, block |-> where[t]] \in run.found[i].events
  <2> SUFFICES ASSUME NEW t \in Transfers, NEW i \in 1 .. Len(run.found),
                      [tx |-> t, block |-> where[t]] \in run.found[i].events
               PROVE  1 < i /\ c < where[t]
    BY DEF Waiting
  <2>1. i # 1
    BY <1>2
  <2>2. 1 < i
    BY <1>3, <2>1
  <2> QED
    BY <1>3, <2>2 DEF Answered
<1> HIDE DEF c
<1>6. KeptUp'
  <2> SUFFICES ASSUME NEW t \in Transfers, 1 <= where[t], first' <= where[t],
                      where[t] <= c - scenario.overlap
               PROVE  t \in applied
    BY <1>1, <1>2 DEF KeptUp, chainVars
  <2>1. where[t] <= c /\ where[t] <= run.safe - scenario.overlap
    BY <1>2, SyncFields
  <2>2. CASE where[t] < run.from
    <3>1. first # NoState /\ first' = first
      BY <1>2, <2>2, SyncFields
    <3>2. first < run.from
      BY <2>2, <3>1, SyncFields
    <3> QED
      BY <1>3, <2>2, <3>1, <3>2 DEF SkipInv, Before
  <2>3. CASE ~(where[t] < run.from)
    <3>1. run.from <= where[t] /\ where[t] <= Frontier(run)
      BY <1>2, <1>3, <1>4, <2>1, <2>3, SyncFields, FrontierType
    <3>2. t \in applied \/ Waiting(t)
      BY <1>3, <2>1, <3>1 DEF SkipInv, Scanned
    <3>3. ~(c < where[t])
      BY <1>2, <2>1, SyncFields
    <3> QED
      BY <1>5, <3>2, <3>3
  <2> QED
    BY <2>2, <2>3
<1>7. (Scanned' /\ run'.from = run.from) \/ ~Running(run')
  <2>1. CASE Tail(run.found) # <<>> /\ run' = Dropped(run)
    <3>1. /\ run'.from = run.from /\ run'.safe = run.safe
          /\ Frontier(run') = Frontier(run)
          /\ Len(run'.found) = Len(run.found) - 1
          /\ \A i \in 1 .. Len(run.found) - 1 :
               run'.found[i] = run.found[i + 1]
      <4>1. run'.from = run.from /\ run'.safe = run.safe
        BY <1>3, <2>1 DEF Dropped, RunType
      <4> QED
        BY <1>2, <1>3, <2>1, <4>1, DroppedShape
    <3>2. ASSUME NEW t \in Transfers, Waiting(t)
          PROVE  Waiting(t)'
      <4>1. PICK i \in 1 .. Len(run.found) :
              1 < i /\ [tx |-> t, block |-> where[t]] \in run.found[i].events
        BY <1>5, <3>2
      <4>2. i - 1 \in 1 .. Len(run.found) - 1 /\ (i - 1) + 1 = i
        BY <1>3, <4>1
      <4>3. run'.found[i - 1] = run.found[i] /\ i - 1 \in 1 .. Len(run'.found)
        BY <3>1, <4>2
      <4> QED
        BY <1>1, <4>1, <4>3 DEF Waiting, chainVars
    <3> QED
      BY <1>1, <1>3, <3>1, <3>2 DEF SkipInv, Scanned, chainVars
  <2>2. CASE run' = Idle
    BY <2>2, IdleShape
  <2>3. CASE /\ Tail(run.found) = <<>> /\ run.from <= run.next
             /\ run.next <= run.safe /\ run' = Ask(run)
    <3>1. /\ run'.from = run.from /\ run'.safe = run.safe
          /\ Frontier(run') = Frontier(run)
      BY <1>2, <1>3, <2>3, AskShape, SyncFields DEF Frontier
    <3>2. Len(run.found) = 1
      <4>1. /\ Tail(run.found) \in Seq(Answer)
            /\ Len(Tail(run.found)) = Len(run.found) - 1
        BY <1>2, <1>3, RunFields
      <4>2. Len(Tail(run.found)) = 0
        BY <2>3, <4>1, EmptySequence
      <4> QED
        BY <1>3, <4>1, <4>2
    <3>3. \A t \in Transfers : ~Waiting(t)
      BY <1>5, <3>2
    <3> QED
      BY <1>1, <1>3, <3>1, <3>3 DEF SkipInv, Scanned, chainVars
  <2> QED
    BY <2>1, <2>2, <2>3, StoreCursorIs
<1>8. Scanned'
  BY <1>7 DEF Scanned
<1>9. Before'
  <2>1. CASE ~Running(run')
    BY <2>1 DEF Before
  <2>2. CASE run'.from = run.from
    <3>1. first' < run.from /\ first' # NoState => first' = first
      BY <1>2, SyncFields
    <3> QED
      BY <1>1, <1>3, <2>2, <3>1 DEF SkipInv, Before, Buried, chainVars
  <2> QED
    BY <1>7, <2>1, <2>2
<1> QED
  BY <1>6, <1>8, <1>9

LEMMA SkipInvNext == SyncTyped /\ SkipInv /\ [SyncNext]_syncVars => SkipInv'
<1> SUFFICES ASSUME SyncTyped, SkipInv, [SyncNext]_syncVars PROVE SkipInv'
  OBVIOUS
<1>1. UNCHANGED scenario
  BY DEF SyncNext, Mine, Reorg, Sync, StartRun, QueryAnswered, QueryRefused,
     ReadRecord, WriteRecord, StoreCursor, RunFails, StoreHash, SettleRecord,
     syncVars
<1> SUFFICES ASSUME Absorbed PROVE KeptUp' /\ Scanned' /\ Before'
  BY <1>1 DEF SkipInv, Absorbed
<1>2. CASE QueryRefused
  <2>1. UNCHANGED <<scenario, chainVars, cursor, first, applied>>
    BY <1>2 DEF QueryRefused
  <2>2. CASE run' = Idle
    BY <2>1, <2>2, IdleShape, SameAnswersKeepSkip
  <2>3. CASE /\ run.todo # <<>> /\ run.todo[1].from < run.todo[1].to
             /\ run' = Halved(run)
    <3>1. /\ run'.from = run.from /\ run'.safe = run.safe
          /\ run'.found = run.found /\ Running(run)
      BY <2>3, SyncFields DEF Halved, RunType, Running
    <3>2. Frontier(run') = Frontier(run)
      BY <2>3, HalvedShape, SyncFields
    <3> QED
      BY <2>1, <3>1, <3>2, SameAnswersKeepSkip
  <2> QED
    BY <1>2, <2>2, <2>3, QueryRefusedIs
<1>3. CASE ReadRecord
  <2>1. UNCHANGED <<scenario, chainVars, cursor, first, applied>>
    BY <1>3 DEF ReadRecord
  <2>2. PICK e \in run.found[1].events :
          run' = [run EXCEPT !.doc = e, !.read = booked[e.tx]]
    BY <1>3, ReadRecordIs
  <2>3. /\ run'.from = run.from /\ run'.safe = run.safe /\ Running(run)
        /\ run'.found = run.found /\ run'.todo = run.todo
        /\ run'.next = run.next
    BY <1>3, <2>2, ReadRecordIs, SyncFields DEF RunType, Running
  <2> QED
    BY <2>1, <2>3, SameAnswersKeepSkip DEF Frontier
<1>4. CASE RunFails
  BY <1>4, IdleShape, SameAnswersKeepSkip DEF RunFails
<1>5. CASE UNCHANGED <<scenario, chainVars, cursor, first, applied, run>>
  <2>1. KeptUp' /\ Scanned' /\ Before'
    BY <1>5 DEF SkipInv, KeptUp, Scanned, Before, Buried, Waiting, chainVars
  <2> QED
    BY <2>1
<1>6. (\E t \in Transfers : StoreHash(t) \/ SettleRecord(t))
          \/ UNCHANGED syncVars
        => UNCHANGED <<scenario, chainVars, cursor, first, applied, run>>
  BY DEF StoreHash, SettleRecord, syncVars
<1> QED
  BY <1>2, <1>3, <1>4, <1>5, <1>6, ChainKeepsSkip, StartKeepsSkip,
     AnswerKeepsSkip, WriteKeepsSkip, StoreKeepsSkip DEF SyncNext, Sync

(* No transfer behind the cursor and the overlap was skipped, for any batch  *)
(* size, answer limit, overlap and reorganisation the two absorb, and however *)
(* often a run is cut short between two of its writes.                       *)
THEOREM NothingIsSkippedHolds == SyncSpec => []NothingIsSkipped
<1>1. ASSUME SyncTyped, SkipInv PROVE NothingIsSkipped
  <2> SUFFICES ASSUME Absorbed, cursor # NoState, NEW t \in Transfers,
                      where[t] \in Larger(1, first)
                                     .. cursor - scenario.overlap
               PROVE  t \in applied
    BY DEF NothingIsSkipped
  <2>1. /\ 1 <= where[t] /\ first <= where[t]
        /\ where[t] <= cursor - scenario.overlap
    BY <1>1, SyncFields DEF Larger
  <2> QED
    BY <1>1, <2>1 DEF SkipInv, KeptUp
<1> QED
  BY <1>1, SyncTypedInit, SyncTypedNext, SkipInvInit, SkipInvNext, PTL
     DEF SyncSpec

-----------------------------------------------------------------------------
(* Implementing the feed: what a run has found is on the chain where it was  *)
(* found, behind the confirmations, and no promised reorganisation moves it. *)
Kept(e) == where[e.tx] = e.block /\ Behind(e.block)

FeedInv ==
  Promised =>
    /\ \A t \in applied : Final(where[t])
    /\ \A i \in 1 .. Len(run.found) : \A e \in run.found[i].events : Kept(e)
    /\ run.doc # NoState => Kept(run.doc)

LEMMA FinalStays ==
  ASSUME SyncTyped, Promised, Mine \/ Reorg,
         NEW t \in Transfers, Final(where[t])
  PROVE  where'[t] = where[t] /\ Final(where[t])'
<1> USE SyncFields
<1>1. /\ where[t] \in Nat \ {0} /\ height \in Nat
      /\ where[t] <= height - scenario.confirmations
  BY DEF Final, Behind
<1>2. CASE Mine
  <2>1. /\ height' = height + 1 /\ scenario' = scenario
        /\ where'[t] = where[t]
    BY <1>1, <1>2 DEF Mine
  <2> QED
    BY <1>1, <2>1 DEF Final, Behind
<1>3. CASE Reorg
  <2>1. PICK k \in Nat :
          /\ k <= scenario.depth
          /\ where'[t] = where[t] \/ where[t] > height - k
    BY <1>3, ReorgMoves DEF SyncTyped
  <2>2. ~(where[t] > height - k)
    BY <1>1, <2>1 DEF Promised
  <2>3. height' = height /\ scenario' = scenario
    BY <1>3 DEF Reorg
  <2> QED
    BY <1>1, <2>1, <2>2, <2>3 DEF Final, Behind
<1> QED
  BY <1>2, <1>3

LEMMA FeedInvInit == SyncInit => FeedInv
<1>1. Len(<<>>) = 0
  OBVIOUS
<1> QED
  BY <1>1 DEF SyncInit, FeedInv, Idle

LEMMA EventsFound ==
  ASSUME SyncTyped, NEW i \in 1 .. Len(run.found),
         NEW e \in run.found[i].events
  PROVE  e \in Event /\ e.tx \in Transfers /\ e.block \in Nat \ {0}
<1>1. e \in Event
  BY SyncFields, RunFields
<1> QED
  BY <1>1, EventSyncAssumption DEF Event

\* A run whose answers are among those it had finds nothing that is not kept.
LEMMA FewerAnswersAreKept ==
  ASSUME SyncTyped, FeedInv, Promised,
         UNCHANGED <<scenario, chainVars, applied>>,
         \A i \in 1 .. Len(run'.found) : \E j \in 1 .. Len(run.found) :
           run'.found[i].events \subseteq run.found[j].events,
         run'.doc # NoState => Kept(run'.doc)
  PROVE  FeedInv'
<1>1. \A i \in 1 .. Len(run'.found) :
        \A e \in run'.found[i].events : Kept(e)
  BY DEF FeedInv
<1> QED
  BY <1>1 DEF FeedInv, Kept, Final, Behind, Promised, chainVars

LEMMA ChainKeepsFeed ==
  ASSUME SyncTyped, FeedInv, Promised, Mine \/ Reorg
  PROVE  FeedInv'
<1>1. UNCHANGED <<scenario, run, applied>>
  BY DEF Mine, Reorg
<1>2. ASSUME NEW e \in Event, Kept(e)
      PROVE  Kept(e)'
  <2>1. e.tx \in Transfers /\ e.block # 0
    BY EventSyncAssumption DEF Event
  <2>2. Final(where[e.tx])
    BY <1>2, <2>1 DEF Kept, Final
  <2> QED
    BY <1>2, <2>1, <2>2, FinalStays DEF Kept, Final
<1>3. \A t \in applied : Final(where[t])'
  BY <1>1, FinalStays DEF FeedInv, SyncTyped, SyncTypeOK
<1>4. \A i \in 1 .. Len(run.found) :
        \A e \in run.found[i].events : Kept(e)'
  BY <1>2, EventsFound DEF FeedInv
<1>5. run.doc # NoState => Kept(run.doc)'
  <2>1. run.doc # NoState => run.doc \in Event
    BY SyncFields DEF RunType
  <2>2. run.doc # NoState => Kept(run.doc)
    BY DEF FeedInv
  <2>3. ASSUME NEW e \in Event, run.doc = e, Kept(e)
        PROVE  Kept(run.doc)'
    BY <1>1, <1>2, <2>3 DEF Kept
  <2> QED
    BY <2>1, <2>2, <2>3
<1> QED
  BY <1>1, <1>3, <1>4, <1>5 DEF FeedInv, Kept

LEMMA AnswerKeepsFeed ==
  ASSUME SyncTyped, FeedInv, Promised, QueryAnswered
  PROVE  FeedInv'
<1> DEFINE q == run.todo[1]
           n == Reply(run, EventsIn(q))
<1>1. UNCHANGED <<scenario, chainVars, applied>>
  BY DEF QueryAnswered
<1>2. run.todo # <<>> /\ EventsIn(q) \in SUBSET Event /\ run' = n
  BY QueryAnsweredIs
<1>3. /\ n.found = Append(run.found, [to |-> q.to, events |-> EventsIn(q)])
      /\ n.doc = run.doc
  BY SyncFields DEF Reply, RunType
<1>4. q.from \in Nat /\ q.to \in Nat /\ q.to <= run.safe
  <2>1. run.todo \in Seq(Question)
    BY SyncFields, RunFields
  <2>2. 1 \in 1 .. Len(run.todo)
    BY <1>2, <2>1, HeadIsFirst
  <2>3. /\ q.from \in Nat /\ q.to \in Nat
        /\ Asked(run) /\ run.next <= run.safe + 1
    BY <1>2, <2>2, SyncFields, RunFields DEF Shape, Running
  <2>4. q.to < run.next
    BY <2>2, <2>3 DEF Asked
  <2> QED
    BY <2>3, <2>4, SyncFields
<1>5. ASSUME NEW e \in EventsIn(q)
      PROVE  Kept(e)
  <2>1. PICK t \in Transfers : /\ e = [tx |-> t, block |-> where[t]]
                               /\ where[t] \in Larger(1, q.from) .. q.to
    BY DEF EventsIn
  <2>2. Behind(run.safe)
    BY DEF SyncTyped, SyncTypeOK
  <2>3. where[t] = 0 \/ where[t] <= height - scenario.confirmations
    BY <1>4, <2>1, <2>2, SyncFields DEF Behind
  <2> QED
    BY <2>1, <2>3 DEF Kept, Behind
<1>6. run.found \in Seq(Answer) /\ Len(run.found) \in Nat
  BY SyncFields, RunFields
<1>7. ASSUME NEW i \in 1 .. Len(run.found) + 1
      PROVE  \/ n.found[i].events = EventsIn(q)
             \/ i \in 1 .. Len(run.found) /\ n.found[i] = run.found[i]
  BY <1>3, <1>6
<1>8. Len(n.found) = Len(run.found) + 1
  BY <1>3, <1>6
<1> HIDE DEF n, q
<1>9. \A i \in 1 .. Len(n.found) : \A e \in n.found[i].events : Kept(e)
  BY <1>5, <1>7, <1>8 DEF FeedInv
<1> QED
  BY <1>1, <1>2, <1>3, <1>9
     DEF FeedInv, Kept, Final, Behind, Promised, chainVars

LEMMA WriteKeepsFeed ==
  ASSUME SyncTyped, FeedInv, Promised, WriteRecord
  PROVE  FeedInv' /\ run.doc.tx \in final
<1>1. UNCHANGED <<scenario, chainVars>>
  BY DEF WriteRecord
<1>2. /\ run.found # <<>> /\ run.doc \in Event
      /\ run' = [run EXCEPT !.doc = NoState, !.read = NoState,
                            !.found = Ingested(run)]
      /\ applied' = applied \cup {run.doc.tx}
  BY WriteRecordIs
<1>3. run'.doc = NoState /\ run'.found = Ingested(run)
  BY <1>2, SyncFields DEF RunType
<1>4. run.doc # NoState
  BY DEF WriteRecord
<1>5. Final(where[run.doc.tx]) /\ run.doc.tx \in Transfers
  BY <1>2, <1>4, EventSyncAssumption DEF FeedInv, Kept, Final, Event
<1>6. \A i \in 1 .. Len(run'.found) :
        \A e \in run'.found[i].events : Kept(e)
  BY <1>2, <1>3, IngestedType, SyncFields DEF FeedInv
<1>7. \A t \in applied' : Final(where[t])
  BY <1>2, <1>5 DEF FeedInv
<1> QED
  BY <1>1, <1>3, <1>5, <1>6, <1>7
     DEF FeedInv, Kept, Final, Behind, Promised, final, chainVars

LEMMA StoreKeepsFeed ==
  ASSUME SyncTyped, FeedInv, Promised, StoreCursor
  PROVE  FeedInv'
<1>1. UNCHANGED <<scenario, chainVars, applied>> /\ run.doc = NoState
  BY DEF StoreCursor
<1>2. CASE Tail(run.found) # <<>> /\ run' = Dropped(run)
  <2>1. /\ run.found # <<>> /\ Len(run'.found) = Len(run.found) - 1
        /\ \A i \in 1 .. Len(run.found) - 1 :
             run'.found[i] = run.found[i + 1]
    BY <1>2, StoreCursorIs, SyncFields, DroppedShape
  <2>2. Len(run.found) \in Nat
    BY SyncFields, RunFields
  <2>3. \A i \in 1 .. Len(run'.found) :
          i + 1 \in 1 .. Len(run.found) /\ run'.found[i] = run.found[i + 1]
    BY <2>1, <2>2
  <2>4. run'.doc = NoState
    BY <1>1, <1>2, SyncFields DEF Dropped, RunType
  <2> QED
    BY <1>1, <2>3, <2>4, FewerAnswersAreKept
<1>3. CASE run' = Idle
  <2>1. Len(run'.found) = 0 /\ run'.doc = NoState
    BY <1>3 DEF Idle
  <2> QED
    BY <1>1, <2>1, FewerAnswersAreKept
<1>4. CASE run' = Ask(run)
  <2>1. run'.found = <<>> /\ run'.doc = NoState
    BY <1>1, <1>4, SyncFields DEF Ask, RunType
  <2>2. Len(run'.found) = 0
    BY <2>1
  <2> QED
    BY <1>1, <2>1, <2>2, FewerAnswersAreKept
<1> QED
  BY <1>2, <1>3, <1>4, StoreCursorIs

LEMMA OthersKeepFeed ==
  ASSUME SyncTyped, FeedInv, Promised,
         StartRun \/ QueryRefused \/ ReadRecord \/ RunFails
  PROVE  FeedInv'
<1>1. UNCHANGED <<scenario, chainVars, applied>>
  BY DEF StartRun, QueryRefused, ReadRecord, RunFails
<1>2. CASE run' = Idle
  <2>1. Len(run'.found) = 0 /\ run'.doc = NoState
    BY <1>2 DEF Idle
  <2> QED
    BY <1>1, <2>1, FewerAnswersAreKept
<1>3. CASE StartRun
  <2> DEFINE from == FromBlock(SafeBlock)
  <2>3. /\ from \in Nat /\ SafeBlock \in Nat /\ from <= SafeBlock
        /\ run' = Ask(Begun(from, SafeBlock)) /\ scenario \in Scenarios
    BY <1>3, StartRunIs DEF SyncTyped, SyncTypeOK
  <2> HIDE DEF from
  <2>1. run'.found = <<>> /\ run'.doc = NoState
    BY <2>3, BegunShape
  <2>2. Len(run'.found) = 0
    BY <2>1
  <2> QED
    BY <1>1, <2>1, <2>2, FewerAnswersAreKept
<1>4. CASE run' = Halved(run)
  <2>1. run'.found = run.found /\ run'.doc = run.doc
    BY <1>4, SyncFields DEF Halved, RunType
  <2> QED
    BY <1>1, <2>1, FewerAnswersAreKept DEF FeedInv
<1>5. CASE ReadRecord
  <2>1. PICK e \in run.found[1].events :
          run' = [run EXCEPT !.doc = e, !.read = booked[e.tx]]
    BY <1>5, ReadRecordIs
  <2>2. run'.found = run.found /\ run'.doc = e
    BY <2>1, SyncFields DEF RunType
  <2>3. 1 \in 1 .. Len(run.found)
    BY <1>5, ReadRecordIs, SyncFields, RunFields, HeadIsFirst
  <2> QED
    BY <1>1, <2>1, <2>2, <2>3, FewerAnswersAreKept DEF FeedInv
<1> QED
  BY <1>2, <1>3, <1>4, <1>5, QueryRefusedIs DEF RunFails

LEMMA FeedInvNext == SyncTyped /\ FeedInv /\ [SyncNext]_syncVars => FeedInv'
<1> SUFFICES ASSUME SyncTyped, FeedInv, [SyncNext]_syncVars PROVE FeedInv'
  OBVIOUS
<1>1. scenario' = scenario
  BY DEF SyncNext, Mine, Reorg, Sync, StartRun, QueryAnswered, QueryRefused,
     ReadRecord, WriteRecord, StoreCursor, RunFails, StoreHash, SettleRecord,
     syncVars
<1>2. CASE ~Promised
  BY <1>1, <1>2 DEF FeedInv, Promised
<1>3. (\E t \in Transfers : StoreHash(t) \/ SettleRecord(t))
          \/ UNCHANGED syncVars
        => UNCHANGED <<scenario, chainVars, applied, run>>
  BY DEF StoreHash, SettleRecord, syncVars
<1>4. CASE UNCHANGED <<scenario, chainVars, applied, run>>
  BY <1>4 DEF FeedInv, Kept, Final, Behind, Promised, chainVars
<1> QED
  BY <1>2, <1>3, <1>4, ChainKeepsFeed, OthersKeepFeed, AnswerKeepsFeed,
     WriteKeepsFeed, StoreKeepsFeed DEF SyncNext, Sync

\* What is final stays final.
LEMMA FinalGrows ==
  ASSUME SyncTyped, [SyncNext]_syncVars
  PROVE  /\ final \subseteq final'
         /\ ~(Mine \/ Reorg) => final' = final
         /\ Mine \/ Reorg \/ ~WriteRecord => delivered' = delivered
<1>1. /\ scenario' = scenario
      /\ Mine \/ Reorg \/ ~WriteRecord => applied' = applied
  BY DEF SyncNext, Mine, Reorg, Sync, StartRun, QueryAnswered, QueryRefused,
     ReadRecord, WriteRecord, StoreCursor, RunFails, StoreHash, SettleRecord,
     syncVars
<1>2. ~(Mine \/ Reorg) => UNCHANGED chainVars
  BY DEF SyncNext, Sync, StartRun, QueryAnswered, QueryRefused,
     ReadRecord, WriteRecord, StoreCursor, RunFails, StoreHash, SettleRecord,
     syncVars
<1>3. ~(Mine \/ Reorg) => final' = final
  BY <1>1, <1>2 DEF final, Final, Behind, Promised, chainVars
<1>4. ASSUME Mine \/ Reorg, NEW t \in final
      PROVE  t \in final'
  <2>1. Promised /\ t \in Transfers /\ Final(where[t])
    BY DEF final
  <2>2. Final(where[t])'
    BY <1>4, <2>1, FinalStays
  <2> QED
    BY <1>1, <2>1, <2>2 DEF final, Promised
<1>5. Mine \/ Reorg \/ ~WriteRecord => delivered' = delivered
  BY <1>1 DEF delivered, Promised
<1> QED
  BY <1>3, <1>4, <1>5

\* Synchronisation takes a step of the feed, or none: a block or a
\* reorganisation finalises, the ingestion of an event delivers a final one.
LEMMA FeedStep ==
  ASSUME SyncTyped, FeedInv, [SyncNext]_syncVars
  PROVE  [Feed!Next]_<<final, delivered>>
<1>1. CASE Mine \/ Reorg
  BY <1>1, FinalGrows DEF Feed!Next, Feed!Finalise
<1>2. CASE ~(Mine \/ Reorg) /\ ~WriteRecord
  BY <1>2, FinalGrows
<1>3. CASE WriteRecord /\ ~(Mine \/ Reorg)
  <2>1. final' = final
    BY <1>3, FinalGrows
  <2>2. CASE ~Promised
    <3>1. delivered' = delivered
      BY <1>3, <2>2 DEF delivered, Promised, WriteRecord
    <3> QED
      BY <2>1, <3>1
  <2>3. CASE Promised
    <3>1. run.doc.tx \in final
      BY <1>3, <2>3, WriteKeepsFeed
    <3>2. delivered' = delivered \cup {run.doc.tx}
      BY <1>3, <2>3, WriteRecordIs DEF delivered, Promised, WriteRecord
    <3> QED
      BY <2>1, <3>1, <3>2 DEF Feed!Next, Feed!Deliver
  <2> QED
    BY <2>2, <2>3
<1> QED
  BY <1>1, <1>2, <1>3

(* Synchronisation implements the feed, its fairness aside: it delivers final *)
(* transfers only, each once, and what is final or delivered stays so, for   *)
(* every configuration and reorganisation that RefinesFeed promises it for.  *)
THEOREM SyncImplementsFeed ==
  SyncSpec => Feed!Init /\ [][Feed!Next]_<<final, delivered>>
<1>1. SyncInit => Feed!Init
  <2> SUFFICES ASSUME SyncInit PROVE Feed!Init
    OBVIOUS
  <2>1. \A t \in Transfers : where[t] = 0
    BY DEF SyncInit
  <2> QED
    BY <2>1 DEF SyncInit, Feed!Init, final, delivered, Final
<1> QED
  BY <1>1, SyncTypedInit, SyncTypedNext, FeedInvInit, FeedInvNext, FeedStep,
     PTL DEF SyncSpec

===============================================================================
