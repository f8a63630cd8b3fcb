------------------------------ MODULE EventSync ------------------------------
(* syncTransferEvents: the block cursor, the overlap that follows reorganised *)
(* blocks, the split of a range the node refuses, and the ingestion of one    *)
(* event after another, against a chain that grows and reorganises, a process *)
(* that restarts and handlers that store the same transaction hashes.         *)
EXTENDS Integers, Sequences, FiniteSets

CONSTANTS
  Transfers,   \* Transfer events of the contract, one transaction each
  MaxBlock,    \* bound: the last block of the chain
  NoState,     \* no BlockchainSyncState document, no document in memory
  Scenarios    \* configuration of the service and behaviour of its world

Scenario == [
  confirmations : Nat,       \* TRANSACTION_EVENT_CONFIRMATIONS
  overlap  : Nat,            \* TRANSACTION_EVENT_REORG_LOOKBACK_BLOCKS
  batch    : Nat \ {0},      \* TRANSACTION_EVENT_BLOCK_BATCH_SIZE
  lookback : Nat \ {0},      \* TRANSACTION_EVENT_INITIAL_LOOKBACK_BLOCKS
  deployed : BOOLEAN,        \* REM_CONTRACT_DEPLOYMENT_BLOCK is set (to 1)
  limit    : Nat \ {0},      \* blocks the node answers for in one query
  depth    : Nat,            \* blocks a reorganisation may replace
  reorgs   : Nat,            \* bound: reorganisations
  handlers : BOOLEAN,        \* handlers of the service store hashes too
  faults   : Nat]            \* bound: failed queries and writes, restarts

ASSUME EventSyncAssumption ==
  /\ MaxBlock \in Nat /\ NoState \notin Int
  /\ \A s \in Scenarios : s \in Scenario

VARIABLES
  scenario,    \* chosen at the start, never changed
  height,      \* the latest block
  where,       \* the block of each transfer, 0 while it has none
  booked,      \* status of the record with the transfer's hash
  cursor,      \* lastProcessedBlock
  first,       \* block at which the first run that stored a cursor began
  run,         \* what the running syncTransferEvents has in memory
  applied,     \* transfers whose event was ingested, updated or duplicate
  reorgs, faults

chainVars == <<height, where, reorgs>>
syncVars == <<scenario, chainVars, booked, cursor, first, run, applied, faults>>

Larger(a, b) == IF a < b THEN b ELSE a
Smaller(a, b) == IF a < b THEN a ELSE b

Blocks(from, to) == [from |-> from, to |-> to]
Idle == [from |-> 0, safe |-> 0, next |-> 0, todo |-> <<>>, found |-> <<>>,
         doc |-> NoState, read |-> NoState]

SyncInit ==
  /\ scenario \in Scenarios
  /\ height = 0 /\ where = [t \in Transfers |-> 0]
  /\ booked = [t \in Transfers |-> "none"]
  /\ cursor = NoState /\ first = NoState
  /\ run = Idle /\ applied = {}
  /\ reorgs = 0 /\ faults = 0

Fault == faults < scenario.faults /\ faults' = faults + 1

-----------------------------------------------------------------------------
(* The chain *)

\* A new block with some of the transfers that have none yet.
Mine ==
  /\ height < MaxBlock /\ height' = height + 1
  /\ \E mined \in SUBSET {t \in Transfers : where[t] = 0} :
       where' = [t \in Transfers |-> IF t \in mined THEN height + 1
                                     ELSE where[t]]
  /\ UNCHANGED <<scenario, reorgs, booked, cursor, first, run, applied,
                 faults>>

\* The top blocks are replaced; their transfers are in any of the new blocks
\* or back in the mempool.
Reorg ==
  /\ reorgs < scenario.reorgs /\ reorgs' = reorgs + 1
  /\ \E k \in 1 .. Smaller(scenario.depth, height) :
       LET moved == {t \in Transfers : where[t] > height - k}
       IN /\ moved # {}
          /\ \E to \in [moved -> {0} \cup (height - k + 1 .. height)] :
               where' = [t \in Transfers |-> IF t \in moved THEN to[t]
                                             ELSE where[t]]
  /\ UNCHANGED <<scenario, height, booked, cursor, first, run, applied,
                 faults>>

-----------------------------------------------------------------------------
(* The other writers of the records *)

\* A handler stores the hash of a transfer it submitted; the unique index
\* refuses a hash that event synchronisation has stored already.
StoreHash(t) ==
  /\ scenario.handlers /\ booked[t] = "none"
  /\ booked' = [booked EXCEPT ![t] = "pending"]
  /\ UNCHANGED <<scenario, chainVars, cursor, first, run, applied, faults>>

\* The waiter or the reconciler stores the result of the receipt.
SettleRecord(t) ==
  /\ booked[t] = "pending" /\ where[t] # 0
  /\ booked' = [booked EXCEPT ![t] = "success"]
  /\ UNCHANGED <<scenario, chainVars, cursor, first, run, applied, faults>>

-----------------------------------------------------------------------------
(* One run of syncTransferEvents *)

BatchEnd(start, safe) == Smaller(safe, start + scenario.batch - 1)

\* Mutant of FromBlock: the scan goes on behind the cursor.
FromBlockAfterCursor(safe) ==
  IF cursor # NoState THEN cursor + 1
  ELSE IF scenario.deployed THEN 1 ELSE Larger(0, safe - scenario.lookback)

FromBlock(safe) ==
  IF cursor # NoState THEN Larger(0, cursor + 1 - scenario.overlap)
  ELSE IF scenario.deployed THEN 1 ELSE Larger(0, safe - scenario.lookback)

SafeBlock == Larger(0, height - scenario.confirmations)

\* The loop asks for the next batch of blocks.
Ask(r) ==
  LET end == BatchEnd(r.next, r.safe)
  IN [r EXCEPT !.found = <<>>, !.next = end + 1,
               !.todo = <<Blocks(r.next, end)>>]

StartRun ==
  LET safe == SafeBlock
      from == FromBlock(safe)
  IN /\ run = Idle /\ from <= safe
     /\ run' = Ask([Idle EXCEPT !.from = from, !.safe = safe, !.next = from])
     /\ UNCHANGED <<scenario, chainVars, booked, cursor, first, applied,
                    faults>>

EventsIn(r) == {[tx |-> t, block |-> where[t]] :
                  t \in {u \in Transfers :
                        where[u] \in Larger(1, r.from) .. r.to}}

Querying == run.todo # <<>>
Wide(r) == r.to - r.from >= scenario.limit

QueryAnswered ==
  /\ Querying /\ ~Wide(Head(run.todo))
  /\ LET r == Head(run.todo)
     IN run' = [run EXCEPT !.todo = Tail(@),
                           !.found = Append(@, [to |-> r.to,
                                                events |-> EventsIn(r)])]
  /\ UNCHANGED <<scenario, chainVars, booked, cursor, first, applied, faults>>

\* Mutant of Halves: the right half begins at the middle's second neighbour.
HalvesWithAGap(r) ==
  LET middle == (r.from + r.to) \div 2
  IN <<Blocks(r.from, middle), Blocks(middle + 2, r.to)>>

Halves(r) ==
  LET middle == (r.from + r.to) \div 2
  IN <<Blocks(r.from, middle), Blocks(middle + 1, r.to)>>

\* The node refuses the range, or fails with an error that looks the same.
QueryRefused ==
  /\ Querying
  /\ IF Wide(Head(run.todo)) THEN UNCHANGED faults ELSE Fault
  /\ LET r == Head(run.todo)
     IN run' = IF r.from < r.to
               THEN [run EXCEPT !.todo = Halves(r) \o Tail(@)]
               ELSE Idle
  /\ UNCHANGED <<scenario, chainVars, booked, cursor, first, applied>>

\* Any other error, or a restart of the process, leaves the run between any
\* two of its writes.
RunFails ==
  /\ run # Idle /\ Fault /\ run' = Idle
  /\ UNCHANGED <<scenario, chainVars, booked, cursor, first, applied>>

Ingesting == run.todo = <<>> /\ run.found # <<>>
Events == Head(run.found).events

\* findOne({ txHash }), the events in the order of their blocks.
ReadRecord ==
  /\ Ingesting /\ run.doc = NoState
  /\ \E e \in Events :
       /\ \A f \in Events : e.block <= f.block
       /\ run' = [run EXCEPT !.doc = e, !.read = booked[e.tx]]
  /\ UNCHANGED <<scenario, chainVars, booked, cursor, first, applied, faults>>

\* The answers without the event that was ingested.
Ingested(r) ==
  [r.found EXCEPT ![1] = [to |-> r.found[1].to,
                          events |-> r.found[1].events \ {r.doc}]]

\* The record found is confirmed; otherwise one is made, unless a handler has
\* stored the hash in between.
WriteRecord ==
  /\ Ingesting /\ run.doc # NoState
  /\ LET t == run.doc.tx
     IN /\ booked' = IF run.read = "none" /\ booked[t] # "none" THEN booked
                     ELSE [booked EXCEPT ![t] = "success"]
        /\ applied' = applied \cup {t}
  /\ run' = [run EXCEPT !.doc = NoState, !.read = NoState,
                        !.found = Ingested(run)]
  /\ UNCHANGED <<scenario, chainVars, cursor, first, faults>>

NextBatch ==
  IF Tail(run.found) # <<>> THEN [run EXCEPT !.found = Tail(@)]
  ELSE IF run.next > run.safe THEN Idle
  ELSE Ask(run)

\* Mutant of StoreCursor: the cursor is stored as soon as a range is answered.
StoreCursorEarly ==
  /\ Ingesting /\ run.doc = NoState
  /\ cursor' = Head(run.found).to
  /\ first' = IF first = NoState THEN run.from ELSE first
  /\ run' = NextBatch
  /\ UNCHANGED <<scenario, chainVars, booked, applied, faults>>

\* lastProcessedBlock follows every range, back over the overlap too.
StoreCursor ==
  /\ Ingesting /\ run.doc = NoState /\ Events = {}
  /\ cursor' = Head(run.found).to
  /\ first' = IF first = NoState THEN run.from ELSE first
  /\ run' = NextBatch
  /\ UNCHANGED <<scenario, chainVars, booked, applied, faults>>

-----------------------------------------------------------------------------
Sync == \/ StartRun \/ QueryAnswered \/ QueryRefused
        \/ ReadRecord \/ WriteRecord \/ StoreCursor

SyncNext ==
  \/ Mine \/ Reorg \/ Sync \/ RunFails
  \/ \E t \in Transfers : StoreHash(t) \/ SettleRecord(t)

SyncSpec == SyncInit /\ [][SyncNext]_syncVars

\* The timer starts a run every interval and a run that started goes on;
\* recorded hashes are settled by the pass before each run.
FairSyncSpec == /\ SyncSpec /\ WF_syncVars(Sync)
            /\ \A t \in Transfers : WF_syncVars(SettleRecord(t))

-----------------------------------------------------------------------------
Behind(b) == b = 0 \/ b <= height - scenario.confirmations

(* Every variable stays in its range, the cursor behind the confirmations.    *)
SyncTypeOK ==
  /\ scenario \in Scenarios
  /\ height \in 0 .. MaxBlock /\ where \in [Transfers -> 0 .. MaxBlock]
  /\ \A t \in Transfers : where[t] <= height
  /\ booked \in [Transfers -> {"none", "pending", "success"}]
  /\ cursor \in {NoState} \cup 0 .. MaxBlock
  /\ first \in {NoState} \cup 0 .. MaxBlock
  /\ cursor # NoState => Behind(cursor)
  /\ applied \subseteq Transfers
  /\ Behind(run.safe)
  /\ run.read \in {NoState, "none", "pending", "success"}
  /\ faults \in 0 .. scenario.faults
  /\ reorgs \in 0 .. scenario.reorgs

\* Reorganisations that the confirmations and the overlap together absorb.
Absorbed == scenario.depth <= scenario.confirmations + scenario.overlap

(* No transfer further behind the cursor than the overlap was skipped, though *)
(* ranges are split, runs are cut short anywhere, the cursor goes back over   *)
(* the overlap and blocks are reorganised during a run.                       *)
NothingIsSkipped ==
  Absorbed /\ cursor # NoState =>
    \A t \in Transfers :
      where[t] \in Larger(1, first) .. cursor - scenario.overlap
        => t \in applied

\* A block no reorganisation reaches any more and the next run scans.
Settled(t) ==
  /\ Absorbed /\ first # NoState /\ where[t] >= Larger(1, first)
  /\ where[t] <= height - Larger(scenario.depth, scenario.confirmations)

(* A transfer that stays on the chain ends as a success on record, also when  *)
(* its handler stored the hash between the lookup and the create.             *)
SettledIsRecorded ==
  \A t \in Transfers : Settled(t) ~> booked[t] = "success"

\* What the feed may promise: the service knows where the contract begins and
\* no reorganisation is deeper than the confirmations.
Promised == scenario.deployed /\ scenario.depth <= scenario.confirmations

\* No reorganisation the feed is promised against replaces the block.
Final(b) == b # 0 /\ Behind(b)
final == IF ~Promised THEN {} ELSE {t \in Transfers : Final(where[t])}
delivered == IF Promised THEN applied ELSE {}

Feed == INSTANCE EventFeed

(* With the deployment block set and enough confirmations, synchronisation    *)
(* delivers the final transfers, all of them and nothing that is taken back.  *)
RefinesFeed == Feed!Spec

=============================================================================
