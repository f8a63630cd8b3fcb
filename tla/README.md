# Verification of the remittance system

TLA+ models, TLC runs and TLAPS proofs of the parts of this repository that move
money or decide who may: the escrow contract, the four ways a payment is made
(direct send, transfer link, payment request link, chat request), the
reconciliation and event synchronisation that keep database and chain in
agreement, accounts and wallets, and the pages that drive them. Paths are relative
to the root of the repository; `B/` stands for `backend/src/` and `F/` for
`frontend/src/`.

## 1. The system

One Express process serves a React client, keeps its data in MongoDB (mongoose)
and sends transactions to a contract on an EVM chain through ethers. Node runs one
callback at a time, so what interleaves is the code between two awaits: HTTP
handlers, the detached confirmation waiters they start, one reconciliation pass on
a timer, the user, the chain, and a restart of the process that loses all of these
but no document of the database. In the browser the same holds of one tab:
clicks, answers, timers and the wallet provider come in any order.

| Component | State | Operations | Hard behaviour |
| --- | --- | --- | --- |
| Escrow contract, `contracts/contracts/Remittance.sol` | escrows, withdrawable balances, lock, owner, paused | transfer, createEscrow, claim, cancel, withdraw, pause, unpause, transferOwnership | receivers that call back, rejected value, reverts of nested effects, the instant of expiry, pausing |
| Direct send, `B/routes/transactionRoutes.js` 1048-1372 | record, Idempotency-Key record, quote, payment code, in-flight key | quote, send, cancel, status | two requests racing for one key, quote or code; a cancel or a fault on each side of the broadcast |
| Confirmation waiter, `B/utils/transactionRequests.js` 256-346 | the handler's mongoose document | success, revert, unreachable node | runs after the response, writes a document that others have changed since |
| Reconciliation, `B/blockchain/transactionReconciliation.js` | miss counts, record status, linked settlements | load a batch, look up receipts, settle, time out | documents loaded long before they are saved; saves that fail |
| Event synchronisation, same file 460-660 | block cursor, records made of events | scan a range, split a refused one, ingest, store the cursor | reorganised blocks, a run cut short anywhere, handlers that store the same hash |
| Transfer links, routes 583-1006 | link status, claimant | create, resolve, claim, settle | guarded updates in some places and unguarded `save()` in others |
| Payment request links, routes 374-580 and the `requestToken` path of send, `F/pages/RequestMoney.jsx` | link status, reservation | create, resolve, reserve, pay, release, revoke | the page, the field whitelist and the handler must agree on every call |
| Chat payments, `B/routes/chatRoutes.js` | request, message, transaction | request, pay, unsend, cancel | unsend while another handler pays; browser wallets that pay before the server locks |
| Chat page, `F/pages/Chat.jsx` and the thread, message, transfer and report routes | shown friend, active thread, timeline, key cache | open a friend, load, synchronise, send, transfer, report | the friend, the thread and the timeline arrive in separate answers |
| Payment page, `F/pages/SendMoney.jsx` | form, quote, calls, poll | fill, quote, code, confirm, poll | a timeout while the server works on; a form reopened before an answer |
| Accounts, `B/controllers/authController.js`, `B/middleware/authMiddleware.js`, `B/routes/userRoutes.js` | password, session version, attempts, lockout, codes | sign-in, code, reset, change, logout, close, disable | every handler saves a document it read before an await |
| Sign-in pages and session, `F/pages/Register.jsx`, `Login.jsx`, `ForgotPassword.jsx`, `Dashboard.jsx`, `F/components/Navbar.jsx`, `F/services/` | wizard, form, stored token, shown user | register, sign in, reset, log out, navigate | late answers to forms, pages and sessions that are gone |
| Wallets, `B/controllers/walletController.js`, `F/pages/Account.jsx`, `F/components/ConnectWalletButton.jsx` | challenge, wallet, page | challenge, link, create, unlink | two pages of one account, two accounts at one address, a read of the type and a later delete |
| Quotes, rates and fees | quote | make, consume | single use; floating-point arithmetic |
| Friends, administration, profile, rate limits, health, audit | single documents or counters | CRUD and queries | none over several steps |
| Backup and restore scripts | archives | dump, restore, reconcile | operator driven |

Interaction: a page makes a quote and posts a transfer; the handler creates a
record, calls the blockchain client, stores the hash and starts the waiter. The
waiter, the reconciler and the event synchronisation all write the same record
later, the latter two from what they read off the chain. Links and chat requests
are settled by the callbacks `onSuccess` and `onFailure` of the waiter or, failing
it, by `applyLinkedSettlement` of the reconciler. A browser wallet broadcasts by
itself, so that the server may learn of a transaction from its event first. The
contract knows nothing of the database. Every signed-in call passes `protect`,
which compares the token's session version with the account's.

What makes each component correct:

* contract: it holds what it owes; an escrow leaves Pending once, to the right
  party and on the right side of its expiry; pausing traps nothing;
* direct send: one broadcast per Idempotency-Key, one record per quote, a status
  that says of the chain only what is true, and a final status in the end;
* transfer links and chat requests: one claim or payment at a time, paid once,
  "paid" means paid by the payment named, and no lock that stays for ever;
* request links: a payer who opens an open link can pay it;
* event synchronisation: no event is skipped, a repeated one changes nothing, and
  a transfer that stays on the chain ends on record;
* payment page: a user who believes the page pays once and is told the truth;
* chat page: a message is readable for its thread, a report arrives whole, a transfer goes
  where the screen says;
* accounts: a replaced password, an ended session and a used code stay so;
* sign-in pages: what an answer changes belongs to the form and session it was
  asked for; who is registered was confirmed;
* wallets: an address has one owner, and an app wallet's key is not dropped.

## 2. Modules

A component `X` has its model `X.tla`, the instances `MCX.tla` with a `.cfg`, and,
where something is proved, `XProofs.tla`. Two proof modules are about two components
each: `ChainProofs` about `Remittance` and `EventSync`, `PageProofs` about `ChatPage` and
`SendMoney`. For that the definitions every model has are named `SyncInit`, `SyncNext`,
`SyncSpec`, `SyncTypeOK`, ... in `EventSync` and `PayInit`, `PayNext`, `PaySpec`,
`PayTypeOK`, ... in `SendMoney`; neither half of such a module uses a fact about the other.

| Module | Models |
| --- | --- |
| `Remittance` | every function of the contract, callbacks and reverts included |
| `EscrowLedger` | the abstract ledger the contract implements |
| `DirectSend` | `POST /api/transactions/send`, its waiters, the reconciliation pass with its windows, the ingestion of the transfer's event, cancel, refused writes, restart |
| `LinkClaim` | one transfer link: claim handlers, resolve, waiters, the reconciler's settlement, expiry, restart |
| `ChatPay` | one chat request: payments from both kinds of wallet, waiters, cancel, unsend, settlement, restart |
| `RequestLink` | one payment request link between the requester's page, the payers' pages and the routes |
| `EventSync` | cursor, overlap, batches, range splitting, ingestion, reorganisations, restarts |
| `EventFeed` | the abstract feed that event synchronisation implements |
| `Account` | one account and the requests that read and write it |
| `WalletLink` | the wallets of several accounts and the pages that connect them |
| `SendMoney` | the payment page against the send route, the browser wallet and the chain |
| `ChatPage` | the chat page against its routes and the peers' keys |
| `SignIn` | one tab: registration, sign-in, reset, stored token, signed-in pages |

In every model of the server an action is the code between two awaits. Most
modules choose a `scenario` in `Init` that never changes: which requests are made,
which hazards are admitted, how many writes, restarts or answers may fail. A
property named Calm... or Serial... speaks of the scenarios without the hazards
under which the code does not keep it, and its comment says which those are.

**DirectSend.** `pc[r]` is where the handler of request r stands; the states up to
`consumed` precede the record, `created` and `submitted` lie on either side of the
broadcast, `catch` is the catch block. `status`, `txHash` and `miss` are the stored
record; `memStatus` and `memHash` the mongoose document that handler and waiter
share: `save()` writes the modified paths only, a refused save leaves them modified
(`unsaved`), and the next save stores them. `recon` holds the documents of one
reconciliation batch, loaded together and applied one after the other, each
possibly stale. The partial unique indexes are `KeyFree` (one pending record per
transferRequestKey) and `HashFree` (one record per hash); a record made of an
unknown event is a member of `ingested` and holds the hash against the user's
record. The miss counter saturates at `MissThreshold`, beyond which the code only
compares it. `recheck` says whether a record that is no longer pending is still selected
by a pass: never looked up, inside `recheckWindowMs`, or past it (`Age`). `event` says
whether the event of a hash was not read yet, may be read again, or lies before the
overlap of the scan (`PassEvent`).

**LinkClaim.** The link is written by `findOneAndUpdate` with a status filter in
`LockLink`, `ResolveLink`, `OnSuccess` and `OnFailure`, and by `save()` of a copy
without one in `GiveBack`, `ResetLink` and `WriteLink`, which may undo what the
database has become. The transaction is a reduced DirectSend record. Its broadcast
(`Broadcast`) and the save of its hash (`StoreHash`) are steps of their own: an event read
between them becomes a record without a link (`IngestEvent`), and the unique index then
refuses the hash to the claim for ever.

**ChatPay.** As LinkClaim, with the request's lock (`LockRequest`), a linked
wallet that has broadcast before the pay route is called (`WalletTransfer`,
`AdoptTransfer`, which takes over the record that event synchronisation may have
made), and the unsend handler that reads the request, saves it as cancelled
and deletes the message in three steps.

**EventSync.** `StartRun` reads the cursor and the latest block; `todo` are the
ranges still to be asked for, halved by `QueryRefused`; `found` the answered events,
ingested one after another (`ReadRecord`, `WriteRecord`: lookup, then update or
create against the unique index); `StoreCursor` ends a batch. `RunFails` is an error
or a restart between any two of these. `Reorg` replaces the top blocks.

**Account.** A request finds its account by identifier, token, challenge or
administrator's id, keeps a document (`doc`), and `Saved` writes back the fields
that it changed. Codes and passwords are named by the request that made them,
which lets a token remember the password it was opened with.

**WalletLink.** `challenging` to `linked` are the awaits of `linkWallet`; `UpsertWallet`
may hit the unique index on the address. A page shows what it was last answered.

**SendMoney.** A submission is a record of the handler's locals: draft, quote, what
the client, the server and the chain make of it. The server's part is the contract
of DirectSend as the page sees it: an accepted submission, a refused one, a lost
answer behind which the server works on, and a failure of the server before or after it
has broadcast (`ServerFails`), which it answers alike: with an error.

**ChatPage.** A thread is named by the friend it is shared with. `page.friend`,
`page.thread` and `page.shown` are the header, the thread the buttons act on, and
the conversation on the timeline; `newest` is the sequence reference that decides
which history load may write. Messages pass the key fetch and the post as separate
calls.

**SignIn.** A call is a record with its kind, its subject, the token it carries, its
state (`out`, `ok`, `refused`) and whether the page that made it is still mounted; the
server serves calls in any order (`Serve`), pages take answers in any order, and
answers to pages that are gone (`StrayAnswer`) still touch the stored token.

**RequestLink.** A request is the set of fields it carries; `PageSends`, `Allowed` and
`Needed` are read off the page, `allowBodyFields` and the handler.

**Remittance and EscrowLedger.** A function that sends no value is one action.
`transfer` and `withdraw` move the value and open a frame (`sending`): the receiver's
code, if it has any, may call every function, as any account that is a contract,
before the frame closes. `SendFails` restores `saved`, which is what a revert undoes,
nested effects included. The lock is a variable and every entry tests it, so
reentrancy is excluded by what the code does and not by the shape of the model.

## 3. Runs

| Run | Instance | Shows |
| --- | --- | --- |
| `Remittance` | an account without code, a contract that deploys and owns the escrow; 2 units of value, 2 escrows, 2 instants | `Solvency` inside callbacks too, `RefinesLedger`, `FundsAreNotTrapped` |
| `DirectSend` | 2 requests in five scenarios: identical transfers in calm weather; one Idempotency-Key with two payment codes and a restart in calm weather; the same key with a refused write and a restart; one quote and one wallet transaction with two refused writes; a custodial and a wallet transfer for one quote; the last three with cancel, lost replies and a slow chain | `OneBroadcastPerIdempotencyKey`, `QuoteBacksOneRecord`, `SuccessIsOnChain`, `RecordedTransferSettles` always; `CalmFailedIsNotExecuted`, `CalmSuccessIsFinal` in calm weather |
| `LinkClaim` | 3 claims, one by the creator, with expiry; 2 claims with an unreachable node and reverts; with a restart; with lost replies, a slow chain and a restart; with an unreachable node and a refused write | `ClaimedLinkWasPaid` always; `CalmOneClaimIsPaid` and `PaidLinkIsClaimed`, an event before its hash aside; `ClaimingEnds` |
| `ChatPay` | 2 payments: calm; restart and unsend; unreachable node, reverts and unsend; slow chain, lost reply, reverts and a refused write; a linked wallet with unsend, an unreachable node and a refused write | `PaidRequestWasPaid` always; `CalmPaidOnce` and `CalmExecutedIsPaid`, an event before its hash aside; `ProcessingEnds` |
| `EventSync` | 2 transfers, 5 blocks: reorganisation within the confirmations; deeper, without deployment block; no overlap, with handlers storing hashes; one-block answers; each with one fault or restart | `NothingIsSkipped`, `SettledIsRecorded`, `RefinesFeed` |
| `AccountSafety` | 4 requests, lockout limit 2: every route one at a time, and eight routes overlapping | `ReplacedPasswordStaysReplaced` always; `SerialSessionsKnowThePassword`, `SerialSecretsAreUsedOnce`, `SerialLockout`, `SerialEndedSessionsStayEnded` |
| `WalletLink` | 2 addresses, 2 app wallets; two pages of one account overlapping; two with lost answers and a provider that switches; two accounts; two pages of one and one of another | `OneOwnerPerAddress` always; `CalmPageShowsTheWallet`, `SerialUnlinkKeepsAppWallets` |
| `SendMoney` | 2 drafts, 3 quotes, 2 submissions; both kinds of wallet with refusals and reverts; a custodial one with lost answers, a failing server and polls that give up; a linked one with all of these | `ToldPaidIsPaid` always; `PaidOnceUnlessLost` for a linked wallet always, for a custodial one without lost answers and failures; `LatestIsTold`; `PayTypeOK` |
| `ChatPage` | 2 friends, 3 clicks on a friend, 2 keys each, in seven scenarios of messages, reports, transfers and faults | `MessagesAreReadable`, `TimelineSettles` always; `QuietReportsAreWhole`, `CalmTransfersPayTheShown` |
| `SignIn` | 2 people, 2 phone numbers, up to 3 calls under way: a first registration; sign-ins with sessions ended elsewhere; clicks faster than the answers | `ActsOnTheSubmitted` always, `RegisteredWasConfirmed` for the phone always and the e-mail without haste; `CalmPageShowsItsAccount`, `CalmFreshSignInSurvives` |
| `LinkClaimEventFirst` | 3 claims, no hazard, no fault | expected violation of `OneClaimIsPaid`, section 5 |
| `RequestLinkOpen` | 2 payers | expected violation of `OpenedLinkLoads`, section 5 |

Bounds, and why they suffice. Two requests, claims, payments or submissions are
needed for every race that an index, a lock, a quote or a code decides, and a third
competes for the same document in the same way; three claims let a stale settlement
of the first meet the lock of the third in calm weather. Two refused writes reach the
second write of `recordTransactionSubmission`, the only place that recovers from a
first; one restart falls into each pair of steps; `MissThreshold` 2 separates the
first miss from the one at the threshold. Five blocks hold a cursor, an overlap, a
reorganisation across it and a block behind the confirmations at once. Four requests
let a login, a change, and two more requests between them interleave; with the limit 2
a first failure is not yet a lockout. Three clicks lead from a friend to another and
back while the first answer is still out. Two escrows and a contract let a callback
act on an escrow while the outer call is about the other; with two instants an escrow
is on both sides of its expiry. Two people and three calls let an answer for the first
meet a session of the second with a background call in between.

Symmetry is used in safety runs only, on values no constant or scenario singles out:
the requests of Account, the addresses of WalletLink, the people and phone numbers of
SignIn. Deadlock is not checked: every model ends when its requests are done or its
bounds are used up, and a contract between calls is at rest.

Fairness, asked of what the code or its environment repeats and of nothing a user
does:

* `DirectSend`: `setInterval` starts the next pass (`LoadBatch`); inside a pass each
  lookup succeeds if it is tried again and again (strong fairness of `FetchReceipt`,
  since an RPC failure ends the attempt), a save too, and an event that was not read yet
  is fetched (`IngestEvent`, strong because it waits for the loop). Reading an event a
  second time is possible, never certain: nothing keeps `Age` and `PassEvent` from coming
  first. None of handlers,
  waiters, users or the chain: the property starts from a hash on record and an
  executed transaction.
* `LinkClaim`, `ChatPay`: a handler or a waiter that has started goes on while the
  process lives, and the chain decides what it was given. The reconciler gets none.
  `ClaimingEnds`, `ProcessingEnds` and `PaidLinkIsClaimed` exclude restarts, since
  nothing picks up a link whose waiter is lost after the record was settled.
* `EventSync`: the timer starts a run and a run goes on; a recorded hash is settled by
  the pass before the run. Faults are bounded, so some run ends.
* `SendMoney`: calls are answered or time out, the wallet's user decides, the chain
  decides, the poll runs on its timer. Nothing makes the user fill in or confirm.
* `ChatPage`: calls end and the page's timer comes round.
* `Remittance`: time passes, an open call ends, and an account without code that can
  withdraw or cancel does so in the end; strong because a callback of others may
  disable it for a while. The owner is not assumed to unpause.
* `RequestLink`: a payer who opened the link goes on.

`Account`, `WalletLink` and `SignIn` are checked for safety only; every step of theirs
is made by a request or a click.

## 4. Proofs

Every theorem holds for any constants that satisfy the named assumptions of its module:
scenarios are well formed (`ScenariosAssumption`, `ChatPageAssumption`,
`EventSyncAssumption`, `SignInAssumption`), bounds are natural numbers as large as one
likes (`BoundsAssumption`, `LimitAssumption`), values that stand for nothing are not among
the others (`AddressAssumption`, `RequestsAssumption`), and the contract's accounts are
finitely many (`AccountsAssumption`). Each module proves its type invariant first, for
which most runs therefore have no invariant of their own (`SendMoney` keeps one, since its
records lose a field easily); the other theorems state a property that a run checks, or
the inductive invariant behind several of them. Every safety invariant and every action
property of the passing runs is a theorem.

`DirectSendProofs`. The properties are not inductive, since none mentions where a
handler stands or what memory holds. `SendInv` adds it in five parts, each inductive
relative to the ones before: `RecordInv` (when a record exists), `HashInv` (a record
and its document carry the request's own hash, and only its handler sends it),
`SuccessInv` (memory, the reconciler and the database claim success only after a
receipt), `KeyInv` (a request holds its key from acquiring it, and gives it up only
without a record), `QuoteInv` (the same for the quote). The lemma `Footprint` collects
what every step that is not about keys and quotes leaves alone. From it follow
`RetryIsSafe`, `QuoteIsSpentOnce` and `SuccessIsTrue`. The one subtle step is the catch
block, which releases the key only while `txDoc` is unset.

`CalmFailedIsNotExecuted` and `CalmSuccessIsFinal` need `CalmInv` on top: in a run without
a cancel, a refused write, a lost answer or a timeout (restarts and an unreachable node
stay) a failed record with a hash is of a reverted transaction, the reconciler's document
in the phase `reverted` too; a record its handler still works on is pending, without a
hash and with no write left over; a waiter's document is pending as long as it waits; and
a catch block reached with a hash in memory was refused by the unique index, for good,
since hashes are never taken off the records (`TakenStaysTaken`).

`ChainProofs`, the contract. `EscrowInvariant`: a frame is open only under the lock
(`LockInv`), identifiers not yet issued are blank, in the restore point too (`FreshInv`),
and what callbacks have done to an escrow since the frame opened the ledger allows in one
transaction (`FrameInv`). The last needs that allowed steps compose at one instant
(`AllowedComposes`), which is why `EscrowLedger` lets an escrow be opened and claimed in
one transaction but never opened and cancelled. `Refinement` is `Spec => RefinesLedger`: a
step inside a frame is a stutter, closing a frame commits what it accumulated or, by
revert, nothing.

`Solvency` is about two sums over finite sets. What `MapThenSumSet` returns is defined by
recursion, and the library's induction theorems take an operator no prover can
instantiate; the lemmas on sums (a changed summand, a member more or less) are proved by a
smallest counterexample instead, which exists because the strict subsets of a finite set are
well founded. The invariant adds to `EscrowInvariant` that the restore point is solvent too,
so that a revert restores what is owed together with what is held.

`ChainProofs`, event synchronisation. `NothingIsSkipped` relates the cursor to transfers,
while a run has its knowledge in memory. `Shape` says how: the ranges still to be asked for
lie side by side from the frontier to the end of the batch, the answers come before them in
order and hold events of their own ranges only; the split of a refused range, the answer to
one, and the next batch preserve it for every batch size and limit. `SkipInv` then has three
parts: `KeptUp` (behind the cursor and the overlap all is applied), `Scanned` (what lies
between the run's first block and its frontier, the overlap aside, is applied or waits in an
answer) and `Before` (what lies before the run was applied and is too deep to be
reorganised). A reorganisation keeps all three because confirmations and overlap together
bury what they speak of (`OverlapIsBuried`, `BuriedStays`); a run that is cut short leaves
`KeptUp`, since the cursor is stored after a range's events.

`SyncImplementsFeed` is the refinement of `EventFeed` without its fairness: every step
maps to `Finalise`, to `Deliver` or to a stutter. `FeedInv` says that what was applied,
what waits in an answer and the event being ingested are on the chain where they were
found and behind the confirmations, so that no promised reorganisation moves them
(`FinalStays`).

`LinkClaimProofs` and `ChatPayProofs` share a shape. A claimed link was paid because
whoever is about to say so saw the receipt: `ClaimersSawIt` (`PayersSawIt`) says it of the
waiter, of the reconciler's document in each phase and of the link itself, and
`NotYetSent` that what is not broadcast has no fate to see. In calm weather `CalmInv` has
two parts. `FailsOnlyIngested`: nothing reverts, and a confirmation fails only where an
event took the hash. `OneHolds`: at most one claim (payment) holds the link, that is, is
at work on it or on the chain, and while one does the link is not active; a claim whose
event came first stops holding it when its handler and waiter have ended. Hence two
executed claims have one of the kind among them.

`AccountProofs`. `ReplacedPasswordStaysReplaced` needs no restriction: the step lemma
`PasswordWritten` shows that a step leaves the stored password or writes one named by a
request that is not done yet, since `save()` writes only what the handler assigned. The
serial properties rest on `SerialInv`: `Memory` (the one running request's document agrees
with the database in every field but the lockout, whose time may have passed),
`TokensKnow` (no token is ahead of the version, one of the current version knows the
password), `SecretsAreFresh` (an accepted secret is in neither field, a stored one was not
accepted) and `FailuresCounted`.

`PageProofs`, the chat page. Calls that are out name friends and threads
(`CallsAreSelected`), and what a message on its way already knows makes it readable when
it is stored (`CallsAreReadable`): the friend it is encrypted for is the thread's, the key
is not older than the one in force when sending began. `CalmTransfersPayTheShown` adds
that, with every thread known, header, thread and captured call name one friend
(`OneConversation`): a click sets the friend and the thread together, so nothing a late
answer brings separates them. `QuietReportsAreWhole` adds the timeline: in a quiet page
what it shows and the load that may still write it are of the active thread
(`OneTimeline`), since choosing a friend empties the one and overtakes the other.

`PageProofs`, the payment page. `PayInv` says that what browser, server and chain know of
a submission fits together (`Sound`: an acceptance has a record, a record has an
acceptance or a refusal that may have come after the broadcast, and a success on record is
the chain's), that one submission is being sent at a time (`OneIsSent`), that the poll
watches an answered one (`WatchAnswered`) and that who was told "paid" has a successful
record (`PaidIsRecorded`); `ToldPaidIsPaid` follows. `PaidOnceUnlessLost` needs `CalmPay`:
while a submission of a draft is being sent or moves money no other of the draft moves
any, and a user whose money moves is not willing to send again, the polled draft included.
It is proved where the page is `Informed`: it signed the transaction itself, or no answer
is lost and the server does not fail.

`WalletLinkProofs`. A wallet is linked at an address a page asked for (`AddressKnown`),
app wallets have addresses already made (`MadeKnown`), and with them the unique index
gives `OneOwnerPerAddress` for any number of accounts and pages.
`SerialUnlinkKeepsAppWallets` needs that while an account's requests do not overlap one
page of it is busy and what `unlinkWallet` read before its await still holds when it
deletes (`SerialInv`, with `Footprint` for the steps of other pages).
`CalmPageShowsTheWallet` needs, for each state a page may be in, what its account's wallet
is then (`CalmPage`): none while it connects or creates, the new one before the answer has
arrived, none after an unlink.

`SignInProofs`. Seven parts, each inductive relative to the earlier ones. `FormInv`: a form
has one call at a time and keeps the person it was submitted for while it is under way.
`PhoneInv`: behind the phone steps the wizard's number is confirmed or none. `EmailInv`,
without haste: behind the first step the e-mail address is confirmed. `PageInv`: nothing but
background calls outlives a page, and the page asked for its user with the token it has.
`SomebodyInv`: the wizard's calls are about somebody. `TokenInv`: a refusal of the load of
the user says that its token is outdated, which with growing versions makes a token that is
still honoured a different one; a refusal of another background call clears the token it
carried or none. `PublicInv`: without haste a public page that is not about to be left has
no token.
Together they give all four properties of the run, the action property
`CalmFreshSignInSurvives` included.

Only model-checked: the liveness properties (`FundsAreNotTrapped`,
`RecordedTransferSettles`, `ClaimingEnds`, `PaidLinkIsClaimed`, `ProcessingEnds`,
`CalmExecutedIsPaid`, `SettledIsRecorded`, `LatestIsTold`, `TimelineSettles`) and the
fairness of `RefinesFeed`, because the prover has no rule for liveness under fairness and
none for ENABLED; and the two expected violations, which are counterexamples.

## 5. Where the code and its documentation part

Two runs end in a counterexample:

* `LinkClaimEventFirst`: nothing fails, but the event of a claim is read between its
  broadcast (`B/blockchain/remittanceClient.js:191`) and the save of its hash. It becomes
  a record of its own (`transactionReconciliation.js:524`), the unique index refuses the
  hash to the claim, the failure path returns the link to active, and a second claim is
  paid, although `docs/security-test-matrix.md:20` says "atomic one-time claim". A chat
  request is paid twice in the same way (`ChatPay` has the steps, `CalmPaidOnce` says that
  there is no other way in calm weather); no document speaks of that case.
* `RequestLinkOpen`: the resolve route asks for `receiverWallet` and `amountEth`
  (`B/routes/transactionRoutes.js:446`), and the page sends the token alone, so an open
  request never loads for its payer. Behind it the reserve route reads `payment` and
  `commitmentKey`, names it does not declare (530, 548), and the page's call to it carries
  fields the whitelist refuses.

Others were met while modelling. The models contain the steps, and the properties are
stated so that they hold beside them:

* `onFailure` also runs for an unreachable node and returns the link or the request to
  active, and a second claim or payment may follow (`B/utils/transactionRequests.js:343`;
  line 200 calls such an error "never evidence that the chain execution failed").
* A cancel asks for a pending record without `txHash`, and the hash is stored after the
  broadcast, so a transfer on its way can be cancelled and executes all the same
  (`transactionRoutes.js:1638`).
* `handleMissingReceipt` saves `failed` from a document loaded before the waiter stored
  `success`, although the comment below says a terminal result is never rewritten
  (`transactionReconciliation.js:326`, 332).
* A record that was marked failed and falls out of `recheckWindowMs` before a lookup
  succeeds stays failed, although its transaction may have executed
  (`transactionReconciliation.js:699-706`); `RecordedTransferSettles` names this end.
* When the server fails after the broadcast it answers an error
  (`transactionRoutes.js:1248`, 1357); from a custodial wallet the page then says "Failed to
  send transaction." and frees its key (`F/pages/SendMoney.jsx:1165`), and a user who sends
  again pays twice.
* A report files the texts on the screen under the active thread
  (`Chat.jsx:1634-1650`), and the route drops those of another thread. While a new thread is
  being opened, or the answer to a message of an earlier one is awaited, the two differ and
  the report loses its texts.
* The payment code is compared with the user that authentication loaded and removed later
  without a condition, so two requests in flight pass with one code
  (`paymentVerification.js:168`; `docs/security-test-matrix.md:19` says "single-use").
* When completing the Idempotency-Key fails after the broadcast, the catch block marks
  the record failed and frees the in-flight key while the chain has decided nothing
  (`transactionRoutes.js:1357`).
* The settlement of an old failed claim reopens a link that a later claim holds
  (`transactionReconciliation.js:245`; `docs/threat-model.md:26` says "state transitions
  prevent more than one active claim").
* Failed logins that run in parallel read one attempt count, so more than the threshold
  may be tried (`authController.js:91`; `docs/security-test-matrix.md:14`).
* Unsending the message of a request saves the request as cancelled while its payment is
  being processed (`chatRoutes.js:1071`).
* Linking an address over an app wallet drops its key fields, while unlinking refuses
  "because doing so could make their funds inaccessible" (`walletController.js:305`, 411).
* A chat transfer pays the active thread's peer, while the summary shows the active
  friend; the two differ while the thread of a new friend is being opened
  (`Chat.jsx:1125`, 1592).
* `api.js:126-128` says only the rejected token is invalidated; `Dashboard.jsx:184` and
  `Navbar.jsx:475` clear whatever is stored, and so does a 401 of a call without a token.
  A 403 clears a token that the server still honours (`api.js:122`), although it only says
  that this route is not the user's (`chatRoutes.js:682`, `authMiddleware.js:92`).
* A user who asks for the e-mail code twice in haste and meets an answer slower than the
  code's thirty seconds can edit the address behind a confirmed one; the server's register
  route does not look at the confirmation.

## 6. Abstractions

* One process: the deployment has one API replica, and the reconciler guards against
  overlap only inside a process. A refused write is not applied, except where the model
  says that its answer was lost.
* Outside EventSync the chain executes, reverts or drops a transaction once; there are no
  replaced (speed-up) transactions. A link's claim is not dropped. Gas, nonces and ABI
  encoding are left out. The contract has no receive function.
* Idempotency records are removed after a day, longer than a run. A request whose
  Idempotency-Key exists goes no further, whatever it is answered with. Link claims come
  without the header, but that completing it may fail is kept.
* `DirectSend`, `LinkClaim` and `ChatPay` ingest an event in one step; the lookup and the
  write it consists of, and what a handler does between them, are `EventSync`'s.
* Amounts, addresses and balances only decide whether a request is refused; `RefuseEarly`
  and `ServerRefuses` may refuse in every state before the record, `ServerFails` in those
  after it.
* `Account`: one account; the read that `loadAuthenticatedUser` shares between calls
  equals a read at an earlier start; the change of the phone number is left out; delivery
  of a code fails for a sign-in or its resend only.
* `WalletLink`: signatures and key encryption are library calls that succeed for the
  owner.
* `SendMoney`: making a claim link and the search for a recipient are left out; the user
  sends again only what the page does not say was sent (`Willing`).
* `ChatPage`: nobody blocks anybody; unread counters and decryption are left out, the
  clearing of a token by a 403 is `SignIn`'s; a chat transfer's post is atomic, its record
  is ChatPay's; several `openChatThread` calls for one friend are merged.
* `SignIn`: one tab, while the storage is shared by tabs; no page reload; the loads of the
  signed-in user by Navbar and Dashboard are merged, as are equal calls under way; one
  navigation is pending at a time; other devices and the settings dialogs end sessions
  (`EndSessions`); the cooldown of a resend button is patience; the first page may be
  opened by its address.

Not modelled, and why: rates and fees (floating point); encryption and signatures
(libraries); the operator's scripts (I/O); rate limits, metrics, health, audit records,
queries and exports (they only count or read); contacts and profile fields (single
writes); history, profile, settings and administration pages (forms over single calls);
page reloads and several tabs of one session (each multiplies the states of SignIn beyond
what TLC finishes); and the older `transactionController.sendTransaction`, which repeats
create, submit and settle without quote, code or key.

## 7. What could follow

1. `RequestLink` with the record of DirectSend behind it, once its calls agree on their
fields; its abstract specification is a link reserved by one payer and paid at most once.
2. `Settings.jsx` and the change of the phone number, which add two routes to `Account`
and a page to `SignIn`.
