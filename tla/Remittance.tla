------------------------------ MODULE Remittance ------------------------------
(* contracts/contracts/Remittance.sol.  A call that sends no value is one      *)
(* action.  transfer and withdraw hand control to the receiver in the middle:  *)
(* they open a frame (sending), the receiver's code may call back into the     *)
(* contract, and the frame closes with success or with a revert that restores  *)
(* the storage and the balances (saved) from before the outer call.            *)
EXTENDS Integers, FiniteSetsExt

CONSTANTS
  Accounts,
  Contracts,  \* accounts with code: they may call back and may reject value
  Deployer,
  Zero,       \* address(0)
  Funds,      \* bound: native asset each account starts with
  MaxId,      \* bound: escrows ever created
  MaxTime     \* bound: block.timestamp

ASSUME AccountsAssumption ==
  /\ Contracts \subseteq Accounts
  /\ Deployer \in Accounts
  /\ Zero \notin Accounts
  /\ IsFiniteSet(Accounts)

ASSUME BoundsAssumption == Funds \in Nat /\ MaxId \in Nat /\ MaxTime \in Nat

VARIABLES
  owner, paused, nextTransactionId, transactions, withdrawableBalances,
  locked,   \* _locked
  balance,  \* native asset the contract holds
  wallet,   \* native asset each account holds
  now,      \* block.timestamp
  sending,  \* the open _sendValue frame, or NoCall
  saved     \* what a revert of that frame restores

admin   == <<owner, paused>>
escrows == <<nextTransactionId, transactions>>
frame   == <<locked, sending, saved>>
vars    == <<admin, escrows, withdrawableBalances, balance, wallet, now, frame>>

Ids == 1 .. MaxId
Supply == Funds * Cardinality(Accounts)
NoCall == [receiver |-> Zero, amount |-> 0]
Nothing == [sender |-> Zero, receiver |-> Zero, amount |-> 0, expiresAt |-> 0,
            status |-> "None"]

Snapshot == [owner |-> owner, paused |-> paused,
             nextTransactionId |-> nextTransactionId,
             transactions |-> transactions,
             withdrawableBalances |-> withdrawableBalances,
             balance |-> balance, wallet |-> wallet]

\* no frame is open: nothing to restore
NoSnapshot == [owner |-> Deployer, paused |-> FALSE, nextTransactionId |-> 1,
               transactions |-> [id \in Ids |-> Nothing],
               withdrawableBalances |-> [a \in Accounts |-> 0],
               balance |-> 0, wallet |-> [a \in Accounts |-> Funds]]

Init ==
  /\ owner = Deployer /\ paused = FALSE
  /\ nextTransactionId = 1
  /\ transactions = [id \in Ids |-> Nothing]
  /\ withdrawableBalances = [a \in Accounts |-> 0]
  /\ locked = 1
  /\ balance = 0
  /\ wallet = [a \in Accounts |-> Funds]
  /\ now = 0
  /\ sending = NoCall
  /\ saved = NoSnapshot

-----------------------------------------------------------------------------
(* Who can be msg.sender: anyone between transactions, and the code that an    *)
(* open frame runs during one.                                                 *)
MayCall(s) == sending = NoCall \/ (sending.receiver \in Contracts /\ s \in Contracts)

ValidTransfer(s, receiver, v) == receiver # Zero /\ receiver # s /\ v # 0

CanPay(s, v) == wallet[s] >= v

\* nonReentrant, then _sendValue: the value has moved, the outcome is open
OpenFrame(receiver, v) ==
  /\ locked = 1 /\ locked' = 2
  /\ sending' = [receiver |-> receiver, amount |-> v]
  /\ saved' = Snapshot

transfer(s, receiver, v) ==
  /\ MayCall(s) /\ CanPay(s, v) /\ ~paused
  /\ ValidTransfer(s, receiver, v)
  /\ OpenFrame(receiver, v)
  /\ wallet' = [wallet EXCEPT ![s] = @ - v, ![receiver] = @ + v]
  /\ UNCHANGED <<admin, escrows, withdrawableBalances, balance, now>>

\* Mutant of createEscrow: nextTransactionId is not advanced.
createEscrowSameId(s, receiver, v, expiresAt) ==
  /\ MayCall(s) /\ CanPay(s, v) /\ ~paused
  /\ ValidTransfer(s, receiver, v)
  /\ expiresAt > now
  /\ nextTransactionId \in Ids
  /\ transactions' = [transactions EXCEPT ![nextTransactionId] =
       [sender |-> s, receiver |-> receiver, amount |-> v,
        expiresAt |-> expiresAt, status |-> "Pending"]]
  /\ wallet' = [wallet EXCEPT ![s] = @ - v]
  /\ balance' = balance + v
  /\ UNCHANGED <<admin, nextTransactionId, withdrawableBalances, now, frame>>

createEscrow(s, receiver, v, expiresAt) ==
  /\ MayCall(s) /\ CanPay(s, v) /\ ~paused
  /\ ValidTransfer(s, receiver, v)
  /\ expiresAt > now
  /\ nextTransactionId \in Ids
  /\ nextTransactionId' = nextTransactionId + 1
  /\ transactions' = [transactions EXCEPT ![nextTransactionId] =
       [sender |-> s, receiver |-> receiver, amount |-> v,
        expiresAt |-> expiresAt, status |-> "Pending"]]
  /\ wallet' = [wallet EXCEPT ![s] = @ - v]
  /\ balance' = balance + v
  /\ UNCHANGED <<admin, withdrawableBalances, now, frame>>

Settle(id, a, s) ==
  /\ transactions' = [transactions EXCEPT ![id].status = s]
  /\ withdrawableBalances' =
       [withdrawableBalances EXCEPT ![a] = @ + transactions[id].amount]
  /\ UNCHANGED <<admin, nextTransactionId, balance, wallet, now, frame>>

\* Mutant of claim: the expiry is not compared.
claimLate(s, id) ==
  /\ MayCall(s)
  /\ transactions[id].status = "Pending"
  /\ s = transactions[id].receiver
  /\ Settle(id, s, "Claimed")

claim(s, id) ==
  /\ MayCall(s)
  /\ transactions[id].status = "Pending"
  /\ s = transactions[id].receiver
  /\ now < transactions[id].expiresAt
  /\ Settle(id, s, "Claimed")

cancel(s, id) ==
  /\ MayCall(s)
  /\ transactions[id].status = "Pending"
  /\ s = transactions[id].sender
  /\ now >= transactions[id].expiresAt
  /\ Settle(id, s, "Cancelled")

\* Mutant of withdraw: whenNotPaused added to it.
withdrawUnpaused(s) ==
  /\ MayCall(s) /\ ~paused
  /\ withdrawableBalances[s] # 0
  /\ OpenFrame(s, withdrawableBalances[s])
  /\ withdrawableBalances' = [withdrawableBalances EXCEPT ![s] = 0]
  /\ balance' = balance - withdrawableBalances[s]
  /\ wallet' = [wallet EXCEPT ![s] = @ + withdrawableBalances[s]]
  /\ UNCHANGED <<admin, escrows, now>>

withdraw(s) ==
  /\ MayCall(s)
  /\ withdrawableBalances[s] # 0
  /\ OpenFrame(s, withdrawableBalances[s])
  /\ withdrawableBalances' = [withdrawableBalances EXCEPT ![s] = 0]
  /\ balance' = balance - withdrawableBalances[s]
  /\ wallet' = [wallet EXCEPT ![s] = @ + withdrawableBalances[s]]
  /\ UNCHANGED <<admin, escrows, now>>

pause(s) ==
  /\ MayCall(s) /\ s = owner /\ ~paused
  /\ paused' = TRUE
  /\ UNCHANGED <<owner, escrows, withdrawableBalances, balance, wallet, now, frame>>

unpause(s) ==
  /\ MayCall(s) /\ s = owner /\ paused
  /\ paused' = FALSE
  /\ UNCHANGED <<owner, escrows, withdrawableBalances, balance, wallet, now, frame>>

transferOwnership(s, newOwner) ==
  /\ MayCall(s) /\ s = owner /\ newOwner # Zero
  /\ owner' = newOwner
  /\ UNCHANGED <<paused, escrows, withdrawableBalances, balance, wallet, now, frame>>

CloseFrame == locked' = 1 /\ sending' = NoCall /\ saved' = NoSnapshot

SendSucceeds ==
  /\ sending # NoCall
  /\ CloseFrame
  /\ UNCHANGED <<admin, escrows, withdrawableBalances, balance, wallet, now>>

\* The receiver rejects the value: TransferFailed undoes the outer call and
\* everything the receiver's code did in it.
SendFails ==
  /\ sending # NoCall /\ sending.receiver \in Contracts
  /\ CloseFrame
  /\ owner' = saved.owner /\ paused' = saved.paused
  /\ nextTransactionId' = saved.nextTransactionId
  /\ transactions' = saved.transactions
  /\ withdrawableBalances' = saved.withdrawableBalances
  /\ balance' = saved.balance /\ wallet' = saved.wallet
  /\ UNCHANGED now

Tick ==
  /\ sending = NoCall /\ now < MaxTime
  /\ now' = now + 1
  /\ UNCHANGED <<admin, escrows, withdrawableBalances, balance, wallet, frame>>

Next ==
  \/ \E s \in Accounts :
       \/ \E r \in Accounts \cup {Zero}, v \in 0 .. Supply :
            \/ transfer(s, r, v)
            \/ \E t \in 0 .. MaxTime : createEscrow(s, r, v, t)
       \/ \E id \in Ids : claim(s, id) \/ cancel(s, id)
       \/ withdraw(s) \/ pause(s) \/ unpause(s)
       \/ \E r \in Accounts \cup {Zero} : transferOwnership(s, r)
  \/ SendSucceeds \/ SendFails \/ Tick

Spec == Init /\ [][Next]_vars

\* Time passes and calls end; an account without code that has something to
\* refund or to withdraw does so, whoever else calls in between.
FairSpec ==
  /\ Spec
  /\ SF_vars(Tick)
  /\ WF_vars(SendSucceeds \/ SendFails)
  /\ \A a \in Accounts \ Contracts :
       SF_vars(withdraw(a)) /\ \A id \in Ids : SF_vars(cancel(a, id))

-----------------------------------------------------------------------------
Addresses == Accounts \cup {Zero}
Escrow == [sender : Addresses, receiver : Addresses, amount : Nat,
           expiresAt : Nat,
           status : {"None", "Pending", "Claimed", "Cancelled"}]
Storage == [owner : Accounts, paused : BOOLEAN,
            nextTransactionId : 1 .. MaxId + 1,
            transactions : [Ids -> Escrow],
            withdrawableBalances : [Accounts -> Nat],
            balance : Int, wallet : [Accounts -> Int]]

(* Every variable stays in its range; the owner is never address(0).           *)
TypeOK ==
  /\ Snapshot \in Storage /\ saved \in Storage
  /\ locked \in {1, 2}
  /\ now \in 0 .. MaxTime
  /\ sending \in [receiver : Addresses, amount : Nat]

Pending == {id \in Ids : transactions[id].status = "Pending"}

(* The contract holds exactly what it owes: the pending escrows and the        *)
(* withdrawable balances, also while a receiver's code runs.                   *)
Solvency ==
  balance = MapThenSumSet(LAMBDA id : transactions[id].amount, Pending)
          + MapThenSumSet(LAMBDA a : withdrawableBalances[a], Accounts)

(* The escrows as the last committed blockchain transaction left them evolve   *)
(* as the abstract ledger says: no reentrant call and no revert makes an       *)
(* escrow leave Pending twice, early, late or with other terms.                *)
Ledger == INSTANCE EscrowLedger WITH
  entry <- IF sending = NoCall THEN transactions ELSE saved.transactions,
  time <- now
RefinesLedger == Ledger!LedgerSpec

(* Pausing traps no funds: what an account without code escrowed leaves        *)
(* Pending, and what it may withdraw reaches it, whatever the owner does.      *)
FundsAreNotTrapped ==
  \A a \in Accounts \ Contracts :
    /\ withdrawableBalances[a] > 0 ~> withdrawableBalances[a] = 0
    /\ \A id \in Ids :
         (transactions[id].status = "Pending" /\ transactions[id].sender = a)
           ~> transactions[id].status # "Pending"

=============================================================================
