------------------------------ MODULE ChatPage ------------------------------
(* The chat page of one viewer and the thread, message, transfer and report   *)
(* routes behind it.  What the page works with arrives in separate answers:   *)
(* the friend whose name it shows, the thread its buttons act on, the         *)
(* timeline, and the public key a message is encrypted for.  A thread is      *)
(* named by the friend the viewer shares it with.                             *)
EXTENDS Naturals, FiniteSets

CONSTANTS
  Friends,
  Nobody,       \* no friend, no thread, an empty timeline
  MaxOpens,     \* bound: clicks on a friend
  MaxKeys,      \* bound: public keys a friend publishes
  Scenarios

Scenario == [
  started   : SUBSET Friends,  \* those with a thread when the page is loaded
  stale     : SUBSET Friends,  \* whose saved address is not their wallet's
  linked    : BOOLEAN,         \* the viewer signs in the browser
  sends     : Nat,             \* bound: messages and requests sent
  reports   : Nat,             \* bound: reports submitted
  transfers : Nat,             \* bound: transfers confirmed
  faults    : Nat]             \* bound: calls refused or without an answer

ASSUME ChatPageAssumption ==
  /\ Nobody \notin Friends
  /\ MaxOpens \in Nat /\ MaxKeys \in Nat \ {0}
  /\ \A s \in Scenarios : s \in Scenario

VARIABLES
  scenario,   \* chosen at the start, never changed
  page,       \* what the viewer sees, and the newest history load
  opening,    \* friends whose openChatThread call is out
  sending,    \* the text and the request being sent
  transfer,   \* the transfer being sent
  threads,    \* ChatThread documents
  published,  \* ChatKey documents: how many keys each friend has published
  messages,   \* ChatMessage documents
  reports,    \* thread.reports
  paid,       \* history: who was shown, who was paid, at which address
  used        \* the bounds' counters

vars == <<scenario, page, opening, sending, transfer, threads, published,
          messages, reports, paid, used>>

Kinds == {"text", "request"}
OrNobody == Friends \cup {Nobody}
NoLoad == [thread |-> Nobody, by |-> "none"]
Idle == [step |-> "idle", thread |-> Nobody, friend |-> Nobody, asked |-> 0,
         key |-> 0]

Use(counter) == used' = [used EXCEPT ![counter] = @ + 1]
Fault == used.faults < scenario.faults /\ Use("faults")

Init ==
  /\ scenario \in Scenarios
  /\ page = [friend |-> Nobody, thread |-> Nobody, shown |-> Nobody,
             newest |-> NoLoad, syncing |-> FALSE, composer |-> "message",
             listed |-> scenario.started, keys |-> [f \in Friends |-> 0]]
  /\ opening = {} /\ sending = [k \in Kinds |-> Idle] /\ transfer = Idle
  /\ threads = scenario.started /\ published = [f \in Friends |-> 1]
  /\ messages = {} /\ reports = {} /\ paid = {}
  /\ used = [opens |-> 0, sends |-> 0, reports |-> 0, transfers |-> 0,
             faults |-> 0]

-----------------------------------------------------------------------------
(* The timeline: only the newest load may write it (historyLoadSeqRef)        *)

Loading(p, t, by) ==
  IF t = Nobody THEN p
  ELSE [p EXCEPT !.newest = [thread |-> t, by |-> by]]

\* A new active thread tears the old sync loop down and starts another.
OnThread(p, t) == [p EXCEPT !.thread = t, !.syncing = @ /\ p.thread = t]

pageOnly == <<scenario, opening, sending, transfer, threads, published,
              messages, reports, paid>>

\* Mutant of Sync: nothing is reloaded once a timeline is on the screen.
SyncUnlessShown ==
  /\ page.thread # Nobody /\ ~page.syncing /\ page.shown = Nobody
  /\ page' = [Loading(page, page.thread, "sync") EXCEPT !.syncing = TRUE]
  /\ UNCHANGED <<pageOnly, used>>

\* The loop (syncHistory) waits for its own load and starts again 3 s later.
Sync ==
  /\ page.thread # Nobody /\ ~page.syncing
  /\ page' = [Loading(page, page.thread, "sync") EXCEPT !.syncing = TRUE]
  /\ UNCHANGED <<pageOnly, used>>

\* The tab got the focus or went online (syncNow).
SyncNow ==
  /\ page.thread # Nobody /\ ~page.syncing
  /\ page' = Loading(page, page.thread, "focus")
  /\ UNCHANGED <<pageOnly, used>>

LoadDone(p) ==
  [p EXCEPT !.newest = NoLoad, !.syncing = @ /\ p.newest.by # "sync"]

HistoryArrives ==
  /\ page.newest # NoLoad
  /\ page' = [LoadDone(page) EXCEPT !.shown = page.newest.thread]
  /\ UNCHANGED <<pageOnly, used>>

HistoryFails ==
  /\ page.newest # NoLoad /\ Fault
  /\ page' = LoadDone(page)
  /\ UNCHANGED pageOnly

\* The loop's load was overtaken by a newer one: its answer is dropped.
OvertakenSyncEnds ==
  /\ page.syncing /\ page.newest.by # "sync"
  /\ page' = [page EXCEPT !.syncing = FALSE]
  /\ UNCHANGED <<pageOnly, used>>

-----------------------------------------------------------------------------
(* Choosing a friend *)

\* GET /friends: the friends whose thread it finds
Listed == threads

SyncFriends ==
  /\ page.listed # Listed
  /\ page' = [page EXCEPT !.listed = Listed]
  /\ UNCHANGED <<pageOnly, used>>

\* Mutant of Chosen: the old timeline stays until the new one arrives.
ChosenKeepsShown(f) == [page EXCEPT !.friend = f, !.newest = NoLoad]

\* The friend and an empty timeline are shown at once.
Chosen(f) == [page EXCEPT !.friend = f, !.shown = Nobody, !.newest = NoLoad]

\* Mutant of OpenKnown: an active thread is kept.
OpenKnownKeeps(f) ==
  LET p == Chosen(f)
  IN  Loading(IF p.thread = Nobody THEN OnThread(p, f) ELSE p, f, "open")

OpenKnown(f) == Loading(OnThread(Chosen(f), f), f, "open")

\* The composer is an overlay: while it is open no friend can be clicked.
OpenFriend(f) ==
  /\ page.composer = "message" /\ used.opens < MaxOpens /\ Use("opens")
  /\ IF f \in page.listed
     THEN page' = OpenKnown(f) /\ UNCHANGED opening
     ELSE page' = Chosen(f) /\ opening' = opening \cup {f}
  /\ UNCHANGED <<scenario, sending, transfer, threads, published, messages,
                 reports, paid>>

\* Whatever friend is shown by now, the answer's thread becomes active.
ThreadArrives(f) ==
  /\ f \in opening /\ opening' = opening \ {f}
  /\ threads' = threads \cup {f}
  /\ page' = Loading(OnThread(page, f), f, "open")
  /\ UNCHANGED <<scenario, sending, transfer, published, messages, reports,
                 paid, used>>

\* The server may have created the thread all the same.
ThreadFails(f) ==
  /\ f \in opening /\ opening' = opening \ {f} /\ Fault
  /\ threads' \in {threads, threads \cup {f}}
  /\ UNCHANGED <<scenario, page, sending, transfer, published, messages,
                 reports, paid>>

\* A load that is out is not overtaken and fills the closed page's timeline.
CloseActiveChat ==
  /\ page.friend # Nobody /\ page.composer = "message"
  /\ page' = [OnThread(page, Nobody) EXCEPT !.friend = Nobody,
                                            !.shown = Nobody]
  /\ UNCHANGED <<pageOnly, used>>

-----------------------------------------------------------------------------
(* Messages and requests, encrypted for the friend shown when sent            *)

Selected == page.thread # Nobody /\ page.friend # Nobody

Captured(stage) ==
  [step |-> stage, thread |-> page.thread, friend |-> page.friend,
   asked |-> published[page.friend], key |-> 0]

StartSend(k) ==
  /\ Selected /\ sending[k] = Idle
  /\ used.sends < scenario.sends /\ Use("sends")
  /\ sending' = [sending EXCEPT ![k] = Captured("key")]
  /\ UNCHANGED <<scenario, page, opening, transfer, threads, published,
                 messages, reports, paid>>

\* Another device of the friend takes over (PUT /keys/public); it matters to
\* the messages only.
PublishKey(f) ==
  /\ published[f] < MaxKeys /\ scenario.sends > 0
  /\ published' = [published EXCEPT ![f] = @ + 1]
  /\ UNCHANGED <<scenario, page, opening, sending, transfer, threads, messages,
                 reports, paid, used>>

\* Mutant of KeyFor: the page's copy is used when there is one.
KeyForCached(f) == IF page.keys[f] > 0 THEN page.keys[f] ELSE published[f]

\* fetchPeerPublicKey with forceRefresh
KeyFor(f) == published[f]

FetchKey(k) ==
  LET f == sending[k].friend IN
  /\ sending[k].step = "key"
  /\ page' = [page EXCEPT !.keys[f] = KeyFor(f)]
  /\ sending' = [sending EXCEPT ![k].step = "post", ![k].key = KeyFor(f)]
  /\ UNCHANGED <<scenario, opening, transfer, threads, published, messages,
                 reports, paid, used>>

RecipientMatches(s) == s.friend = s.thread

Stored(k) ==
  [kind |-> k, thread |-> sending[k].thread, reader |-> sending[k].friend,
   asked |-> sending[k].asked, key |-> sending[k].key]

PostMessage(k) ==
  /\ sending[k].step = "post" /\ RecipientMatches(sending[k])
  /\ messages' = messages \cup {Stored(k)}
  /\ page' = Loading(page, sending[k].thread, "send")
  /\ sending' = [sending EXCEPT ![k] = Idle]
  /\ UNCHANGED <<scenario, opening, transfer, threads, published, reports,
                 paid, used>>

MessageRefused(k) ==
  /\ sending[k].step = "post" /\ ~RecipientMatches(sending[k])
  /\ sending' = [sending EXCEPT ![k] = Idle]
  /\ UNCHANGED <<scenario, page, opening, transfer, threads, published,
                 messages, reports, paid, used>>

\* A call fails; the message may be stored and only its answer lost.
SendFails(k) ==
  /\ sending[k] # Idle /\ Fault
  /\ \/ messages' = messages
     \/ /\ sending[k].step = "post" /\ RecipientMatches(sending[k])
        /\ messages' = messages \cup {Stored(k)}
  /\ sending' = [sending EXCEPT ![k] = Idle]
  /\ UNCHANGED <<scenario, page, opening, transfer, threads, published,
                 reports, paid>>

-----------------------------------------------------------------------------
(* Transfers: the summary shows the friend, the call names the thread         *)

OpenComposer ==
  /\ Selected /\ page.composer = "message" /\ scenario.transfers > 0
  /\ page' = [page EXCEPT !.composer = "details"]
  /\ UNCHANGED <<pageOnly, used>>

ReviewTransfer ==
  /\ Selected /\ page.composer = "details"
  /\ page' = [page EXCEPT !.composer = "summary"]
  /\ UNCHANGED <<pageOnly, used>>

\* Enabled while the transfer is being sent.
CloseComposer ==
  /\ page.composer # "message"
  /\ page' = [page EXCEPT !.composer = "message"]
  /\ UNCHANGED <<pageOnly, used>>

ConfirmTransfer ==
  /\ Selected /\ page.composer = "summary" /\ transfer = Idle
  /\ used.transfers < scenario.transfers /\ Use("transfers")
  /\ transfer' = Captured(IF scenario.linked THEN "sign" ELSE "post")
  /\ UNCHANGED <<scenario, page, opening, sending, threads, published,
                 messages, reports, paid>>

Pay(payee, address) ==
  paid' = paid \cup {[shown |-> transfer.friend, payee |-> payee,
                      address |-> address]}

\* A contact keeps the address it was saved with (resolveFriendContacts).
SavedAddress(f) == IF f \in scenario.stale THEN "saved" ELSE "wallet"

\* The browser wallet pays the address saved with the contact.
WalletPays ==
  /\ transfer.step = "sign"
  /\ Pay(transfer.friend, SavedAddress(transfer.friend))
  /\ transfer' = [transfer EXCEPT !.step = "post"]
  /\ UNCHANGED <<scenario, page, opening, sending, threads, published,
                 messages, reports, used>>

\* The server accepts a signed transfer to the thread's peer only.
SignedForThread ==
  transfer.friend = transfer.thread /\ SavedAddress(transfer.friend) = "wallet"

PostTransfer ==
  /\ transfer.step = "post"
  /\ scenario.linked => SignedForThread
  /\ IF scenario.linked THEN UNCHANGED paid ELSE Pay(transfer.thread, "wallet")
  /\ page' = Loading([page EXCEPT !.composer = "message"], transfer.thread,
                     "transfer")
  /\ transfer' = Idle
  /\ UNCHANGED <<scenario, opening, sending, threads, published, messages,
                 reports, used>>

TransferRefused ==
  /\ transfer.step = "post" /\ scenario.linked /\ ~SignedForThread
  /\ transfer' = Idle
  /\ UNCHANGED <<scenario, page, opening, sending, threads, published,
                 messages, reports, paid, used>>

\* Refused in the wallet, or no answer; a custodial one may have been paid.
TransferFails ==
  /\ transfer # Idle /\ Fault
  /\ \/ paid' = paid
     \/ transfer.step = "post" /\ ~scenario.linked
        /\ Pay(transfer.thread, "wallet")
  /\ transfer' = Idle
  /\ UNCHANGED <<scenario, page, opening, sending, threads, published,
                 messages, reports>>

-----------------------------------------------------------------------------
(* Reports reveal the texts of the timeline on the screen                     *)

\* The texts of the timeline, sent along with the report
OnScreen == {page.shown} \ {Nobody}

\* ChatMessage.find({_id, threadId}): others are dropped without a word
Revealed == {page.shown} \cap {page.thread}

ReportChat ==
  /\ Selected /\ page.composer = "message" /\ page.friend = page.thread
  /\ used.reports < scenario.reports /\ Use("reports")
  /\ reports' = reports \cup
       {[thread |-> page.thread, sent |-> OnScreen, reveals |-> Revealed]}
  /\ UNCHANGED <<scenario, page, opening, sending, transfer, threads,
                 published, messages, paid>>

-----------------------------------------------------------------------------
Answers(f) == ThreadArrives(f) \/ ThreadFails(f)
Messaging(k) ==
  \/ StartSend(k) \/ FetchKey(k) \/ PostMessage(k) \/ MessageRefused(k)
  \/ SendFails(k)
Transferring ==
  \/ OpenComposer \/ ReviewTransfer \/ CloseComposer \/ ConfirmTransfer
  \/ WalletPays \/ PostTransfer \/ TransferRefused \/ TransferFails

Next ==
  \/ Sync \/ SyncNow \/ HistoryArrives \/ HistoryFails \/ OvertakenSyncEnds
  \/ SyncFriends \/ CloseActiveChat
  \/ \E f \in Friends : OpenFriend(f) \/ Answers(f) \/ PublishKey(f)
  \/ \E k \in Kinds : Messaging(k)
  \/ Transferring \/ ReportChat

Spec == Init /\ [][Next]_vars

\* Calls end, and the page's timer comes round.
Fairness ==
  /\ WF_vars(Sync) /\ WF_vars(HistoryArrives) /\ WF_vars(OvertakenSyncEnds)
  /\ \A f \in Friends : WF_vars(ThreadArrives(f))
  /\ \A k \in Kinds :
       WF_vars(FetchKey(k) \/ PostMessage(k) \/ MessageRefused(k))
  /\ WF_vars(WalletPays \/ PostTransfer \/ TransferRefused)

FairSpec == Spec /\ Fairness

-----------------------------------------------------------------------------
(* Properties *)

(* Every variable has its type.                                             *)
Call == [step : {"idle", "key", "sign", "post"}, thread : OrNobody,
         friend : OrNobody, asked : 0 .. MaxKeys, key : 0 .. MaxKeys]

TypeOK ==
  /\ scenario \in Scenarios
  /\ page \in [friend : OrNobody, thread : OrNobody, shown : OrNobody,
               newest : [thread : OrNobody,
                         by : {"none", "sync", "focus", "open", "send",
                               "transfer"}],
               syncing : BOOLEAN, composer : {"message", "details", "summary"},
               listed : SUBSET Friends, keys : [Friends -> 0 .. MaxKeys]]
  /\ opening \subseteq Friends
  /\ sending \in [Kinds -> Call] /\ transfer \in Call
  /\ threads \subseteq Friends /\ published \in [Friends -> 1 .. MaxKeys]
  /\ messages \subseteq [kind : Kinds, thread : Friends, reader : Friends,
                         asked : 1 .. MaxKeys, key : 1 .. MaxKeys]
  /\ reports \subseteq [thread : Friends, sent : SUBSET Friends,
                        reveals : SUBSET Friends]
  /\ paid \subseteq [shown : Friends, payee : Friends,
                     address : {"saved", "wallet"}]
  /\ used \in [{"opens", "sends", "reports", "transfers", "faults"} -> Nat]

(* However the shown friend and the active thread have come apart, no message *)
(* is stored in a thread whose other participant it is not encrypted for, and *)
(* none is encrypted for a key older than the one in force when it was sent.  *)
MessagesAreReadable ==
  \A m \in messages : m.reader = m.thread /\ m.key >= m.asked

\* Every thread is known, and no answer to a message or a transfer of an
\* earlier thread is awaited.
Quiet ==
  scenario.started = Friends /\ scenario.sends = 0 /\ scenario.transfers = 0

(* However fast its user changes friends, closes the chat and comes back, a   *)
(* report of a quiet page stores all the texts that were on the screen: the   *)
(* timeline is never another thread's, whose texts the route would drop.      *)
QuietReportsAreWhole == Quiet => \A r \in reports : r.sent \subseteq r.reveals

(* When every thread is known before its friend is clicked and every saved    *)
(* address is current, a transfer pays the friend the summary showed, at the  *)
(* wallet address it showed.                                                  *)
CalmTransfersPayTheShown ==
  (scenario.started = Friends /\ scenario.stale = {}) =>
    \A p \in paid : p.payee = p.shown /\ p.address = "wallet"

(* Whatever is overtaken, dropped or failed on the way, the timeline ends up  *)
(* as the active thread's.                                                    *)
TimelineSettles == <>[](page.thread \in {Nobody, page.shown})

=============================================================================
