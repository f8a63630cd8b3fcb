------------------------------ MODULE PageProofs ------------------------------
(* Proofs about the two pages that move money from the browser: the chat page *)
(* (ChatPage), for any number of friends, clicks, keys, messages and faults, *)
(* and the payment page (SendMoney), for any bounds, quotes and settings.    *)
(* Neither part uses a fact about the other page.                            *)
EXTENDS ChatPage, SendMoney, TLAPS

-----------------------------------------------------------------------------
(* The chat page *)

USE ChatPageAssumption DEF OrNobody

Modes == {"message", "details", "summary"}

Page == [friend : OrNobody, thread : OrNobody, shown : OrNobody,
         newest : [thread : OrNobody,
                   by : {"none", "sync", "focus", "open", "send", "transfer"}],
         syncing : BOOLEAN, composer : Modes,
         listed : SUBSET Friends, keys : [Friends -> 0 .. MaxKeys]]

LEMMA NoLoadType ==
  NoLoad \in [thread : OrNobody,
              by : {"none", "sync", "focus", "open", "send", "transfer"}]
  BY DEF NoLoad

LEMMA LoadingType ==
  ASSUME NEW p \in Page, NEW t \in OrNobody,
         NEW by \in {"sync", "focus", "open", "send", "transfer"}
  PROVE  Loading(p, t, by) \in Page
<1>1. [p EXCEPT !.newest = [thread |-> t, by |-> by]] \in Page
  BY DEF Page
<1> QED
  BY <1>1 DEF Loading

LEMMA OnThreadType ==
  ASSUME NEW p \in Page, NEW t \in OrNobody
  PROVE  OnThread(p, t) \in Page
  BY DEF OnThread, Page

LEMMA LoadDoneType ==
  ASSUME NEW p \in Page
  PROVE  LoadDone(p) \in Page
  BY NoLoadType DEF LoadDone, Page

LEMMA ChosenType ==
  ASSUME page \in Page, NEW f \in Friends
  PROVE  Chosen(f) \in Page
  BY NoLoadType DEF Chosen, Page

LEMMA IdleType == Idle \in Call
  BY DEF Idle, Call

LEMMA CapturedType ==
  ASSUME TypeOK, Selected, NEW stage \in {"key", "sign", "post"}
  PROVE  /\ Captured(stage) \in Call /\ Captured(stage).step = stage
         /\ Captured(stage).friend \in Friends
         /\ Captured(stage).thread \in Friends
         /\ Captured(stage).asked = published[Captured(stage).friend]
<1>1. page.friend \in Friends /\ page.thread \in Friends
  BY DEF TypeOK, Selected
<1>2. published[page.friend] \in 1 .. MaxKeys
  BY <1>1 DEF TypeOK
<1> QED
  BY <1>1, <1>2 DEF Captured, Call

\* Calls that are out name friends and threads.
CallsAreSelected ==
  /\ \A k \in Kinds : sending[k].step # "idle"
       => /\ sending[k].friend \in Friends /\ sending[k].thread \in Friends
          /\ sending[k].asked \in 1 .. MaxKeys
          /\ sending[k].step = "post" => sending[k].key \in 1 .. MaxKeys
  /\ transfer.step # "idle"
       => transfer.friend \in Friends /\ transfer.thread \in Friends

Typed == TypeOK /\ CallsAreSelected

LEMMA PageType == TypeOK => page \in Page
  BY DEF TypeOK, Page, Modes

LEMMA TypedInit == Init => Typed
<1> SUFFICES ASSUME Init PROVE Typed
  OBVIOUS
<1>1. scenario \in Scenario
  BY DEF Init
<1>2. scenario.started \subseteq Friends
  BY <1>1 DEF Scenario
<1> QED
  BY <1>2, NoLoadType, IdleType
  DEF Init, Typed, TypeOK, CallsAreSelected, Idle, Kinds

LEMMA UsedType ==
  ASSUME TypeOK,
         NEW c \in {"opens", "sends", "reports", "transfers", "faults"}, Use(c)
  PROVE  used' \in [{"opens", "sends", "reports", "transfers", "faults"} -> Nat]
  BY DEF Use, TypeOK

\* What a step that changes the page only has to show.
LEMMA PageStep ==
  ASSUME Typed, UNCHANGED pageOnly, page' \in Page,
         used' \in [{"opens", "sends", "reports", "transfers", "faults"} -> Nat]
  PROVE  Typed'
  BY DEF Typed, TypeOK, CallsAreSelected, pageOnly, Page, Modes

LEMMA StoredType ==
  ASSUME Typed, NEW k \in Kinds, sending[k].step = "post"
  PROVE  Stored(k) \in [kind : Kinds, thread : Friends, reader : Friends,
                        asked : 1 .. MaxKeys, key : 1 .. MaxKeys]
  BY DEF Stored, Typed, CallsAreSelected

LEMMA TypedNext == Typed /\ [Next]_vars => Typed'
<1> SUFFICES ASSUME Typed, [Next]_vars PROVE Typed'
  OBVIOUS
<1>0. TypeOK /\ page \in Page
  BY PageType DEF Typed
<1>1. ASSUME Sync \/ SyncNow \/ HistoryArrives \/ HistoryFails
             \/ OvertakenSyncEnds \/ SyncFriends \/ CloseActiveChat
      PROVE  Typed'
  <2>1. page' \in Page
    <3>1. CASE Sync
      <4>1. Loading(page, page.thread, "sync") \in Page
        BY <1>0, LoadingType DEF Page
      <4> QED
        BY <3>1, <4>1 DEF Sync, Page
    <3>2. CASE SyncNow
      BY <1>0, <3>2, LoadingType DEF SyncNow, Page
    <3>3. CASE HistoryArrives \/ HistoryFails
      BY <1>0, <3>3, LoadDoneType DEF HistoryArrives, HistoryFails, Page
    <3>4. CASE OvertakenSyncEnds
      BY <1>0, <3>4 DEF OvertakenSyncEnds, Page
    <3>5. CASE SyncFriends
      BY <1>0, <3>5 DEF SyncFriends, Listed, Page, TypeOK
    <3>6. CASE CloseActiveChat
      <4>1. OnThread(page, Nobody) \in Page
        BY <1>0, OnThreadType
      <4> QED
        BY <3>6, <4>1 DEF CloseActiveChat, Page
    <3> QED
      BY <1>1, <3>1, <3>2, <3>3, <3>4, <3>5, <3>6
  <2>2. UNCHANGED pageOnly
    BY <1>1 DEF Sync, SyncNow, HistoryArrives, HistoryFails,
      OvertakenSyncEnds, SyncFriends, Listed, CloseActiveChat
  <2>3. used' \in [{"opens", "sends", "reports", "transfers", "faults"} -> Nat]
    BY <1>0, <1>1, UsedType DEF Sync, SyncNow, HistoryArrives, HistoryFails,
      OvertakenSyncEnds, SyncFriends, Listed, CloseActiveChat, Fault, TypeOK
  <2> QED
    BY <2>1, <2>2, <2>3, PageStep
<1>2. ASSUME NEW f \in Friends, OpenFriend(f) PROVE Typed'
  <2>1. Chosen(f) \in Page
    BY <1>0, ChosenType
  <2>2. OpenKnown(f) \in Page
    BY <2>1, OnThreadType, LoadingType DEF OpenKnown
  <2>3. page' \in Page
    BY <1>2, <2>1, <2>2 DEF OpenFriend
  <2>4. used' \in [{"opens", "sends", "reports", "transfers", "faults"} -> Nat]
    BY <1>0, <1>2, UsedType DEF OpenFriend
  <2>5. opening' \subseteq Friends
    BY <1>0, <1>2 DEF OpenFriend, TypeOK
  <2> QED
    BY <1>2, <2>3, <2>4, <2>5
    DEF OpenFriend, Typed, TypeOK, CallsAreSelected, Page, Modes
<1>3. ASSUME NEW f \in Friends, ThreadArrives(f) PROVE Typed'
  <2>1. page' \in Page
    BY <1>0, <1>3, OnThreadType, LoadingType DEF ThreadArrives
  <2> QED
    BY <1>3, <2>1
    DEF ThreadArrives, Typed, TypeOK, CallsAreSelected, Page, Modes
<1>4. ASSUME NEW f \in Friends, ThreadFails(f) PROVE Typed'
  <2>1. used' \in [{"opens", "sends", "reports", "transfers", "faults"} -> Nat]
    BY <1>0, <1>4, UsedType DEF ThreadFails, Fault
  <2> QED
    BY <1>4, <2>1 DEF ThreadFails, Typed, TypeOK, CallsAreSelected
<1>5. ASSUME NEW f \in Friends, PublishKey(f) PROVE Typed'
  BY <1>5 DEF PublishKey, Typed, TypeOK, CallsAreSelected
<1>6. ASSUME NEW k \in Kinds, Messaging(k) PROVE Typed'
  <2>1. CASE StartSend(k)
    <3>1. sending' = [sending EXCEPT ![k] = Captured("key")]
      BY <2>1 DEF StartSend
    <3>2. used' \in [{"opens", "sends", "reports", "transfers", "faults"}
                       -> Nat]
      BY <1>0, <2>1, UsedType DEF StartSend
    <3>3. /\ Captured("key") \in Call /\ Captured("key").step = "key"
          /\ Captured("key").friend \in Friends
          /\ Captured("key").thread \in Friends
          /\ Captured("key").asked \in 1 .. MaxKeys
      BY <1>0, <2>1, CapturedType DEF StartSend, TypeOK
    <3> QED
      BY <2>1, <3>1, <3>2, <3>3
      DEF StartSend, Typed, TypeOK, CallsAreSelected
  <2>2. CASE FetchKey(k)
    <3> DEFINE f == sending[k].friend
    <3>1. f \in Friends /\ KeyFor(f) \in 1 .. MaxKeys
      BY <2>2 DEF FetchKey, KeyFor, Typed, TypeOK, CallsAreSelected
    <3>2. sending' = [sending EXCEPT ![k] =
                        [sending[k] EXCEPT !.step = "post", !.key = KeyFor(f)]]
      BY <2>2 DEF FetchKey
    <3>3. [sending[k] EXCEPT !.step = "post", !.key = KeyFor(f)] \in Call
      <4>1. sending[k] \in Call /\ KeyFor(f) \in 0 .. MaxKeys
        BY <1>0, <3>1 DEF TypeOK
      <4> HIDE DEF KeyFor, f
      <4> QED
        BY <4>1 DEF Call
    <3>4. page' \in Page
      BY <1>0, <2>2, <3>1 DEF FetchKey, Page
    <3>5. sending' \in [Kinds -> Call]
      BY <1>0, <3>2, <3>3 DEF TypeOK
    <3>6. CallsAreSelected'
      BY <2>2, <3>1, <3>2
      DEF FetchKey, Typed, TypeOK, CallsAreSelected, Call
    <3> QED
      BY <2>2, <3>4, <3>5, <3>6 DEF FetchKey, Typed, TypeOK, Page, Modes
  <2>3. CASE PostMessage(k)
    <3>1. page' \in Page
      BY <1>0, <2>3, LoadingType DEF PostMessage, TypeOK, Call
    <3>2. messages' \subseteq [kind : Kinds, thread : Friends,
                               reader : Friends, asked : 1 .. MaxKeys,
                               key : 1 .. MaxKeys]
      BY <1>0, <2>3, StoredType DEF PostMessage, TypeOK
    <3> QED
      BY <2>3, <3>1, <3>2, IdleType
      DEF PostMessage, Typed, TypeOK, CallsAreSelected, Page, Modes, Idle
  <2>4. CASE MessageRefused(k)
    BY <2>4, IdleType
    DEF MessageRefused, Typed, TypeOK, CallsAreSelected, Idle
  <2>5. CASE SendFails(k)
    <3>1. used' \in [{"opens", "sends", "reports", "transfers", "faults"}
                       -> Nat]
      BY <1>0, <2>5, UsedType DEF SendFails, Fault
    <3>2. messages' \subseteq [kind : Kinds, thread : Friends,
                               reader : Friends, asked : 1 .. MaxKeys,
                               key : 1 .. MaxKeys]
      BY <1>0, <2>5, StoredType DEF SendFails, TypeOK
    <3> QED
      BY <2>5, <3>1, <3>2, IdleType
      DEF SendFails, Typed, TypeOK, CallsAreSelected, Idle
  <2> QED
    BY <1>6, <2>1, <2>2, <2>3, <2>4, <2>5 DEF Messaging
<1>7. ASSUME Transferring PROVE Typed'
  <2>1. CASE OpenComposer \/ ReviewTransfer \/ CloseComposer
    <3>1. page' \in Page
      BY <1>0, <2>1 DEF OpenComposer, ReviewTransfer, CloseComposer, Page, Modes
    <3>2. UNCHANGED pageOnly /\ UNCHANGED used
      BY <2>1 DEF OpenComposer, ReviewTransfer, CloseComposer
    <3> QED
      BY <1>0, <3>1, <3>2, PageStep DEF TypeOK
  <2>2. CASE ConfirmTransfer
    <3>1. PICK stage \in {"sign", "post"} : transfer' = Captured(stage)
      BY <2>2 DEF ConfirmTransfer
    <3>2. used' \in [{"opens", "sends", "reports", "transfers", "faults"}
                       -> Nat]
      BY <1>0, <2>2, UsedType DEF ConfirmTransfer
    <3>3. /\ Captured(stage) \in Call /\ Captured(stage).friend \in Friends
          /\ Captured(stage).thread \in Friends
      BY <1>0, <2>2, CapturedType DEF ConfirmTransfer
    <3> QED
      BY <2>2, <3>1, <3>2, <3>3
      DEF ConfirmTransfer, Typed, TypeOK, CallsAreSelected
  <2>3. CASE WalletPays
    <3>1. transfer.friend \in Friends
      BY <2>3 DEF WalletPays, Typed, CallsAreSelected
    <3>2. paid' \subseteq [shown : Friends, payee : Friends,
                           address : {"saved", "wallet"}]
      BY <1>0, <2>3, <3>1 DEF WalletPays, SavedAddress, Pay, TypeOK
    <3>3. transfer' = [transfer EXCEPT !.step = "post"] /\ transfer' \in Call
      BY <1>0, <2>3 DEF WalletPays, TypeOK, Call
    <3> QED
      BY <2>3, <3>2, <3>3 DEF WalletPays, Typed, TypeOK, CallsAreSelected, Call
  <2>4. CASE PostTransfer
    <3>1. transfer.friend \in Friends /\ transfer.thread \in Friends
      BY <2>4 DEF PostTransfer, Typed, CallsAreSelected
    <3>2. paid' \subseteq [shown : Friends, payee : Friends,
                           address : {"saved", "wallet"}]
      BY <1>0, <2>4, <3>1 DEF PostTransfer, Pay, TypeOK
    <3>3. [page EXCEPT !.composer = "message"] \in Page
      BY <1>0 DEF Page, Modes
    <3>4. page' \in Page
      BY <2>4, <3>1, <3>3, LoadingType DEF PostTransfer
    <3> QED
      BY <2>4, <3>2, <3>4, IdleType
      DEF PostTransfer, Typed, TypeOK, CallsAreSelected, Page, Modes, Idle
  <2>5. CASE TransferRefused
    BY <2>5, IdleType
    DEF TransferRefused, Typed, TypeOK, CallsAreSelected, Idle
  <2>6. CASE TransferFails
    <3>1. used' \in [{"opens", "sends", "reports", "transfers", "faults"}
                       -> Nat]
      BY <1>0, <2>6, UsedType DEF TransferFails, Fault
    <3>2. transfer.step # "idle"
            => transfer.friend \in Friends /\ transfer.thread \in Friends
      BY DEF Typed, CallsAreSelected
    <3>3. paid' \subseteq [shown : Friends, payee : Friends,
                           address : {"saved", "wallet"}]
      BY <1>0, <2>6, <3>2 DEF TransferFails, Pay, TypeOK
    <3> QED
      BY <2>6, <3>1, <3>3, IdleType
      DEF TransferFails, Typed, TypeOK, CallsAreSelected, Idle
  <2> QED
    BY <1>7, <2>1, <2>2, <2>3, <2>4, <2>5, <2>6 DEF Transferring
<1>8. ASSUME ReportChat PROVE Typed'
  <2>1. used' \in [{"opens", "sends", "reports", "transfers", "faults"} -> Nat]
    BY <1>0, <1>8, UsedType DEF ReportChat
  <2>2. reports' \subseteq [thread : Friends, sent : SUBSET Friends,
                            reveals : SUBSET Friends]
    BY <1>0, <1>8 DEF ReportChat, Selected, OnScreen, Revealed, TypeOK
  <2> QED
    BY <1>8, <2>1, <2>2 DEF ReportChat, Typed, TypeOK, CallsAreSelected
<1>9. CASE UNCHANGED vars
  BY <1>9 DEF vars, Typed, TypeOK, CallsAreSelected
<1> QED
  BY <1>1, <1>2, <1>3, <1>4, <1>5, <1>6, <1>7, <1>8, <1>9 DEF Next, Answers

(* Every variable of the chat page and of its routes has its type.           *)
THEOREM TypeCorrect == Spec => []TypeOK
<1>1. Typed => TypeOK
  BY DEF Typed
<1> QED
  BY <1>1, TypedInit, TypedNext, PTL DEF Spec

-----------------------------------------------------------------------------
(* What is stored and what is revealed *)

\* The strengthening of MessagesAreReadable: what the messages on their way
\* already know.
CallsAreReadable ==
  \A k \in Kinds :
    /\ sending[k].step = "key"
         => sending[k].asked <= published[sending[k].friend]
    /\ sending[k].step = "post" => sending[k].key >= sending[k].asked

Readable == CallsAreReadable /\ MessagesAreReadable

LEMMA ReadableInit == Init => Readable
  BY DEF Init, Readable, CallsAreReadable, MessagesAreReadable, Idle, Kinds

LEMMA ReadableNext == Typed /\ Readable /\ [Next]_vars => Readable'
<1> SUFFICES ASSUME Typed, Readable, [Next]_vars PROVE Readable'
  OBVIOUS
<1>0. TypeOK
  BY DEF Typed
<1>1. ASSUME UNCHANGED <<sending, published, messages>> PROVE Readable'
  BY <1>1 DEF Readable, CallsAreReadable, MessagesAreReadable
<1>2. ASSUME NEW f \in Friends, PublishKey(f) PROVE Readable'
  <2>1. \A g \in Friends : published[g] \in Nat /\ published'[g] >= published[g]
    BY <1>0, <1>2 DEF PublishKey, TypeOK
  <2>2. \A k \in Kinds : sending[k].step = "key"
          => sending[k].friend \in Friends /\ sending[k].asked \in Nat
    BY DEF Typed, CallsAreSelected
  <2>3. CallsAreReadable'
    BY <1>2, <2>1, <2>2 DEF PublishKey, Readable, CallsAreReadable
  <2> QED
    BY <1>2, <2>3 DEF PublishKey, Readable, MessagesAreReadable
<1>3. ASSUME NEW k \in Kinds, Messaging(k) PROVE Readable'
  <2>1. CASE StartSend(k)
    <3>1. /\ Captured("key").step = "key"
          /\ Captured("key").asked = published[Captured("key").friend]
          /\ Captured("key").asked \in Nat
      BY <1>0, <2>1, CapturedType DEF StartSend, TypeOK
    <3> QED
      BY <1>0, <2>1, <3>1
      DEF StartSend, Readable, CallsAreReadable, MessagesAreReadable, TypeOK
  <2>2. CASE FetchKey(k)
    <3> DEFINE f == sending[k].friend
    <3>1. sending' = [sending EXCEPT ![k] =
                        [sending[k] EXCEPT !.step = "post", !.key = KeyFor(f)]]
      BY <2>2 DEF FetchKey
    <3>2. /\ f \in Friends /\ published[f] \in Nat
          /\ sending[k].asked \in Nat /\ sending[k].asked <= published[f]
      BY <2>2 DEF FetchKey, Typed, TypeOK, CallsAreSelected, Readable,
        CallsAreReadable
    <3>3. sending[k] \in Call
      BY <1>0 DEF TypeOK
    <3>4. /\ sending'[k].step = "post" /\ sending'[k].key = published[f]
          /\ sending'[k].asked = sending[k].asked
          /\ \A l \in Kinds \ {k} : sending'[l] = sending[l]
      BY <1>0, <3>1, <3>3 DEF TypeOK, Call, KeyFor
    <3>5. CallsAreReadable'
      BY <2>2, <3>2, <3>4 DEF FetchKey, Readable, CallsAreReadable
    <3> QED
      BY <2>2, <3>5 DEF FetchKey, Readable, MessagesAreReadable
  <2>3. ASSUME sending' = [sending EXCEPT ![k] = Idle], published' = published
        PROVE  CallsAreReadable'
    BY <1>0, <2>3 DEF TypeOK, Readable, CallsAreReadable, Idle
  <2>4. ASSUME sending[k].step = "post", RecipientMatches(sending[k])
        PROVE  Stored(k).reader = Stored(k).thread
               /\ Stored(k).key >= Stored(k).asked
    BY <2>4 DEF RecipientMatches, Stored, Readable, CallsAreReadable
  <2>5. CASE PostMessage(k)
    BY <2>3, <2>4, <2>5 DEF PostMessage, Readable, MessagesAreReadable
  <2>6. CASE MessageRefused(k)
    BY <2>3, <2>6 DEF MessageRefused, Readable, MessagesAreReadable
  <2>7. CASE SendFails(k)
    BY <2>3, <2>4, <2>7 DEF SendFails, Readable, MessagesAreReadable
  <2> QED
    BY <1>3, <2>1, <2>2, <2>5, <2>6, <2>7 DEF Messaging
<1>4. CASE \/ Sync \/ SyncNow \/ HistoryArrives \/ HistoryFails
           \/ OvertakenSyncEnds \/ SyncFriends \/ CloseActiveChat
  BY <1>1, <1>4 DEF Sync, SyncNow, HistoryArrives, HistoryFails,
    OvertakenSyncEnds, SyncFriends, Listed, CloseActiveChat, pageOnly
<1>5. ASSUME NEW f \in Friends, OpenFriend(f) \/ Answers(f) PROVE Readable'
  BY <1>1, <1>5 DEF OpenFriend, Answers, ThreadArrives, ThreadFails
<1>6. CASE Transferring
  BY <1>1, <1>6 DEF Transferring, OpenComposer, ReviewTransfer, CloseComposer,
    ConfirmTransfer, WalletPays, SavedAddress, PostTransfer, TransferRefused,
    TransferFails, pageOnly
<1>7. CASE ReportChat \/ UNCHANGED vars
  BY <1>1, <1>7 DEF ReportChat, vars
<1> QED
  BY <1>2, <1>3, <1>4, <1>5, <1>6, <1>7 DEF Next

(* Whatever the page shows by then, a message is stored only in the thread of *)
(* the friend it is encrypted for, and for a key not older than the one in   *)
(* force when sending began (sendEncryptedPayload, fetchPeerPublicKey).      *)
THEOREM MessagesAreReadableHolds == Spec => []MessagesAreReadable
<1>1. Readable => MessagesAreReadable
  BY DEF Readable
<1> QED
  BY <1>1, TypedInit, TypedNext, ReadableInit, ReadableNext, PTL DEF Spec

-----------------------------------------------------------------------------
(* Transfers when every thread is known.  Then a click sets the friend and the *)
(* thread together, so the summary and the call cannot come apart.           *)

Known == scenario.started = Friends /\ scenario.stale = {}

OneConversation(p) == p.friend = p.thread /\ p.listed = Friends

CalmInv ==
  Known => /\ OneConversation(page) /\ opening = {} /\ threads = Friends
           /\ transfer.step # "idle" => transfer.friend = transfer.thread
           /\ \A p \in paid : p.payee = p.shown /\ p.address = "wallet"

LEMMA LoadingKeeps ==
  ASSUME NEW p \in Page, NEW t, NEW by, OneConversation(p)
  PROVE  OneConversation(Loading(p, t, by))
  BY DEF Loading, Page, OneConversation

LEMMA LoadDoneKeeps ==
  ASSUME NEW p \in Page, OneConversation(p)
  PROVE  OneConversation(LoadDone(p))
  BY DEF LoadDone, Page, OneConversation

LEMMA OpenKnownAligns ==
  ASSUME page \in Page, NEW f \in Friends, OneConversation(page)
  PROVE  OneConversation(OpenKnown(f))
<1>1. Chosen(f) \in Page
  BY ChosenType
<1>2. OnThread(Chosen(f), f) \in Page
  BY <1>1, OnThreadType
<1>3. OneConversation(OnThread(Chosen(f), f))
  BY DEF OneConversation, OnThread, Chosen, Page
<1> QED
  BY <1>2, <1>3, LoadingKeeps DEF OpenKnown

LEMMA CalmInit == Init => CalmInv
  BY DEF Init, CalmInv, Known, OneConversation, Idle

LEMMA CalmNext == Typed /\ CalmInv /\ [Next]_vars => CalmInv'
<1> SUFFICES ASSUME Typed, CalmInv, [Next]_vars, Known' PROVE CalmInv'
  BY DEF CalmInv
<1>0. TypeOK /\ page \in Page
  BY PageType DEF Typed
<1>s. ASSUME UNCHANGED scenario
      PROVE  /\ Known /\ OneConversation(page) /\ opening = {}
             /\ threads = Friends
             /\ transfer.step # "idle" => transfer.friend = transfer.thread
             /\ \A p \in paid : p.payee = p.shown /\ p.address = "wallet"
  BY <1>s DEF CalmInv, Known
<1>p. ASSUME UNCHANGED <<scenario, opening, transfer, threads, paid>>,
             OneConversation(page')
      PROVE  CalmInv'
  BY <1>s, <1>p DEF CalmInv
<1>t. ASSUME UNCHANGED <<scenario, opening, threads>>, OneConversation(page'),
             transfer'.step # "idle" => transfer'.friend = transfer'.thread,
             \A p \in paid' : p.payee = p.shown /\ p.address = "wallet"
      PROVE  CalmInv'
  BY <1>s, <1>t DEF CalmInv
<1>1. ASSUME Sync \/ SyncNow \/ HistoryArrives \/ HistoryFails
             \/ OvertakenSyncEnds \/ SyncFriends \/ CloseActiveChat
      PROVE  CalmInv'
  <2>1. UNCHANGED <<scenario, opening, transfer, threads, paid>>
    BY <1>1 DEF Sync, SyncNow, HistoryArrives, HistoryFails,
      OvertakenSyncEnds, SyncFriends, CloseActiveChat, pageOnly
  <2>2. OneConversation(page) /\ threads = Friends
    BY <2>1, <1>s
  <2>3. CASE Sync
    <3>1. OneConversation(Loading(page, page.thread, "sync"))
      BY <1>0, <2>2, LoadingKeeps
    <3>2. Loading(page, page.thread, "sync") \in Page
      BY <1>0, LoadingType DEF Page
    <3>3. OneConversation(page')
      BY <2>3, <3>1, <3>2 DEF Sync, OneConversation, Page
    <3> QED
      BY <2>1, <3>3, <1>p
  <2>4. CASE SyncNow
    BY <1>0, <1>p, <2>1, <2>2, <2>4, LoadingKeeps DEF SyncNow
  <2>5. CASE HistoryArrives \/ HistoryFails
    <3>1. OneConversation(LoadDone(page)) /\ LoadDone(page) \in Page
      BY <1>0, <2>2, LoadDoneKeeps, LoadDoneType
    <3>2. OneConversation(page')
      BY <2>5, <3>1 DEF HistoryArrives, HistoryFails, OneConversation, Page
    <3> QED
      BY <2>1, <3>2, <1>p
  <2>6. CASE OvertakenSyncEnds
    BY <1>0, <1>p, <2>1, <2>2, <2>6 DEF OvertakenSyncEnds, OneConversation, Page
  <2>7. CASE SyncFriends
    BY <1>0, <1>p, <2>1, <2>2, <2>7
    DEF SyncFriends, Listed, OneConversation, Page
  <2>8. CASE CloseActiveChat
    BY <1>0, <1>p, <2>1, <2>2, <2>8
    DEF CloseActiveChat, OnThread, OneConversation, Page
  <2> QED
    BY <1>1, <2>3, <2>4, <2>5, <2>6, <2>7, <2>8
<1>2. ASSUME NEW f \in Friends, OpenFriend(f) PROVE CalmInv'
  <2>1. /\ UNCHANGED <<scenario, transfer, threads, paid>>
        /\ OneConversation(page)
    BY <1>2, <1>s DEF OpenFriend
  <2>2. page' = OpenKnown(f) /\ UNCHANGED opening
    BY <1>2, <2>1 DEF OpenFriend, OneConversation
  <2> QED
    BY <1>0, <1>p, <2>1, <2>2, OpenKnownAligns
<1>3. ASSUME NEW f \in Friends, Answers(f) PROVE CalmInv'
  BY <1>3, <1>s DEF Answers, ThreadArrives, ThreadFails
<1>4. ASSUME NEW f \in Friends, PublishKey(f) PROVE CalmInv'
  BY <1>4, <1>p, <1>s DEF PublishKey
<1>5. ASSUME NEW k \in Kinds, Messaging(k) PROVE CalmInv'
  <2>1. UNCHANGED <<scenario, opening, transfer, threads, paid>>
    BY <1>5 DEF Messaging, StartSend, FetchKey, PostMessage, MessageRefused,
      SendFails
  <2>2. OneConversation(page)
    BY <2>1, <1>s
  <2>3. CASE FetchKey(k)
    BY <1>0, <1>p, <2>1, <2>2, <2>3 DEF FetchKey, OneConversation, Page
  <2>4. CASE PostMessage(k)
    BY <1>0, <1>p, <2>1, <2>2, <2>4, LoadingKeeps DEF PostMessage
  <2>5. CASE StartSend(k) \/ MessageRefused(k) \/ SendFails(k)
    BY <1>p, <2>1, <2>2, <2>5 DEF StartSend, MessageRefused, SendFails
  <2> QED
    BY <1>5, <2>3, <2>4, <2>5 DEF Messaging
<1>6. ASSUME Transferring PROVE CalmInv'
  <2>1. UNCHANGED <<scenario, opening, threads>>
    BY <1>6 DEF Transferring, OpenComposer, ReviewTransfer, CloseComposer,
      ConfirmTransfer, WalletPays, PostTransfer, TransferRefused,
      TransferFails, pageOnly
  <2>2. /\ OneConversation(page) /\ scenario.stale = {}
        /\ transfer.step # "idle" => transfer.friend = transfer.thread
        /\ \A p \in paid : p.payee = p.shown /\ p.address = "wallet"
    BY <2>1, <1>s DEF Known
  <2>3. CASE OpenComposer \/ ReviewTransfer \/ CloseComposer
    BY <1>0, <1>p, <2>2, <2>3
    DEF OpenComposer, ReviewTransfer, CloseComposer, pageOnly,
        OneConversation, Page
  <2>4. CASE ConfirmTransfer
    <3>1. PICK stage : transfer' = Captured(stage)
      BY <2>4 DEF ConfirmTransfer
    <3>2. UNCHANGED <<page, paid>>
      BY <2>4 DEF ConfirmTransfer
    <3> QED
      BY <1>t, <2>1, <2>2, <3>1, <3>2 DEF Captured, OneConversation
  <2>5. CASE WalletPays
    <3>1. transfer'.friend = transfer.friend /\ transfer'.thread = transfer.thread
      BY <1>0, <2>5 DEF WalletPays, TypeOK, Call
    <3>2. \A p \in paid' : p.payee = p.shown /\ p.address = "wallet"
      BY <2>2, <2>5 DEF WalletPays, Pay, SavedAddress
    <3> QED
      BY <1>t, <2>1, <2>2, <2>5, <3>1, <3>2 DEF WalletPays
  <2>6. CASE PostTransfer
    <3>1. \A p \in paid' : p.payee = p.shown /\ p.address = "wallet"
      BY <2>2, <2>6 DEF PostTransfer, Pay
    <3>2. [page EXCEPT !.composer = "message"] \in Page
      BY <1>0 DEF Page, Modes
    <3>3. OneConversation([page EXCEPT !.composer = "message"])
      BY <1>0, <2>2 DEF OneConversation, Page
    <3>4. OneConversation(page')
      BY <2>6, <3>2, <3>3, LoadingKeeps DEF PostTransfer
    <3> QED
      BY <1>t, <2>1, <2>6, <3>1, <3>4 DEF PostTransfer, Idle
  <2>7. CASE TransferRefused
    BY <1>t, <2>1, <2>2, <2>7 DEF TransferRefused, Idle
  <2>8. CASE TransferFails
    <3>1. \A p \in paid' : p.payee = p.shown /\ p.address = "wallet"
      BY <2>2, <2>8 DEF TransferFails, Pay
    <3> QED
      BY <1>t, <2>1, <2>2, <2>8, <3>1 DEF TransferFails, Idle
  <2> QED
    BY <1>6, <2>3, <2>4, <2>5, <2>6, <2>7, <2>8 DEF Transferring
<1>7. CASE ReportChat \/ UNCHANGED vars
  BY <1>7, <1>p, <1>s DEF ReportChat, vars
<1> QED
  BY <1>1, <1>2, <1>3, <1>4, <1>5, <1>6, <1>7 DEF Next

(* While every thread is known before its friend is clicked and every saved  *)
(* address is current, the one paid is the one the summary showed, through any *)
(* sequence of clicks, overtaken loads, closed composers and failed calls.   *)
THEOREM CalmTransfersPayTheShownHolds == Spec => []CalmTransfersPayTheShown
<1>1. CalmInv => CalmTransfersPayTheShown
  BY DEF CalmInv, Known, CalmTransfersPayTheShown
<1> QED
  BY <1>1, TypedInit, TypedNext, CalmInit, CalmNext, PTL DEF Spec

-----------------------------------------------------------------------------
(* Reports of a quiet page.  A click empties the timeline and overtakes every  *)
(* load that is out, so whatever comes later is the new thread's.              *)

OneTimeline(p) ==
  p.thread # Nobody => /\ p.shown \in {Nobody, p.thread}
                       /\ p.newest.thread \in {Nobody, p.thread}

QuietInv ==
  Quiet => /\ OneTimeline(page) /\ page.listed = Friends /\ opening = {}
           /\ threads = Friends /\ transfer = Idle
           /\ \A k \in Kinds : sending[k] = Idle
           /\ \A r \in reports : r.sent \subseteq r.reveals

LEMMA QuietInit == Init => QuietInv
  BY DEF Init, QuietInv, Quiet, OneTimeline, NoLoad

LEMMA OpenKnownClears ==
  ASSUME page \in Page, NEW f \in Friends
  PROVE  OneTimeline(OpenKnown(f)) /\ OpenKnown(f).listed = page.listed
<1>1. Chosen(f) \in Page
  BY ChosenType
<1>2. OnThread(Chosen(f), f) \in Page
  BY <1>1, OnThreadType
<1>3. /\ OnThread(Chosen(f), f).shown = Nobody
      /\ OnThread(Chosen(f), f).thread = f
      /\ OnThread(Chosen(f), f).listed = page.listed
  BY DEF OnThread, Chosen, Page
<1> QED
  BY <1>2, <1>3 DEF OpenKnown, Loading, OneTimeline, Page

LEMMA QuietNext == Typed /\ QuietInv /\ [Next]_vars => QuietInv'
<1> SUFFICES ASSUME Typed, QuietInv, [Next]_vars, Quiet' PROVE QuietInv'
  BY DEF QuietInv
<1>0. TypeOK /\ page \in Page
  BY PageType DEF Typed
<1>s. ASSUME UNCHANGED scenario
      PROVE  /\ Quiet /\ OneTimeline(page) /\ page.listed = Friends
             /\ opening = {} /\ threads = Friends /\ transfer = Idle
             /\ \A k \in Kinds : sending[k] = Idle
             /\ \A r \in reports : r.sent \subseteq r.reveals
  BY <1>s DEF QuietInv, Quiet
<1>p. ASSUME UNCHANGED <<scenario, opening, transfer, threads, sending, reports>>,
             OneTimeline(page'), page'.listed = Friends
      PROVE  QuietInv'
  BY <1>s, <1>p DEF QuietInv
<1>1. ASSUME Sync \/ SyncNow \/ HistoryArrives \/ HistoryFails
             \/ OvertakenSyncEnds \/ SyncFriends \/ CloseActiveChat
      PROVE  QuietInv'
  <2>1. UNCHANGED <<scenario, opening, transfer, threads, sending, reports>>
    BY <1>1 DEF Sync, SyncNow, HistoryArrives, HistoryFails,
      OvertakenSyncEnds, SyncFriends, CloseActiveChat, pageOnly
  <2>2. OneTimeline(page) /\ page.listed = Friends /\ threads = Friends
    BY <2>1, <1>s
  <2>3. CASE Sync \/ SyncNow
    BY <1>0, <1>p, <2>1, <2>2, <2>3
    DEF Sync, SyncNow, Loading, OneTimeline, Page
  <2>4. CASE HistoryArrives \/ HistoryFails
    <3>1. /\ LoadDone(page) \in Page /\ LoadDone(page).newest.thread = Nobody
          /\ LoadDone(page).thread = page.thread
          /\ LoadDone(page).shown = page.shown
          /\ LoadDone(page).listed = page.listed
      <4>1. LoadDone(page) \in Page
        BY <1>0, LoadDoneType
      <4>2. LoadDone(page).newest = NoLoad
        BY <1>0 DEF LoadDone, Page
      <4>3. /\ LoadDone(page).thread = page.thread
            /\ LoadDone(page).shown = page.shown
            /\ LoadDone(page).listed = page.listed
        BY <1>0 DEF LoadDone, Page
      <4> QED
        BY <4>1, <4>2, <4>3 DEF NoLoad
    <3>2. OneTimeline(page') /\ page'.listed = Friends
      BY <1>0, <2>2, <2>4, <3>1 DEF HistoryArrives, HistoryFails, OneTimeline,
        Page
    <3> QED
      BY <1>p, <2>1, <3>2
  <2>5. CASE OvertakenSyncEnds
    BY <1>0, <1>p, <2>1, <2>2, <2>5 DEF OvertakenSyncEnds, OneTimeline, Page
  <2>6. CASE SyncFriends
    BY <1>0, <1>p, <2>1, <2>2, <2>6 DEF SyncFriends, Listed, OneTimeline, Page
  <2>7. CASE CloseActiveChat
    BY <1>0, <1>p, <2>1, <2>2, <2>7
    DEF CloseActiveChat, OnThread, OneTimeline, Page
  <2> QED
    BY <1>1, <2>3, <2>4, <2>5, <2>6, <2>7
<1>2. ASSUME NEW f \in Friends, OpenFriend(f) PROVE QuietInv'
  <2>1. /\ UNCHANGED <<scenario, transfer, threads, sending, reports>>
        /\ page.listed = Friends
    BY <1>2, <1>s DEF OpenFriend
  <2>2. page' = OpenKnown(f) /\ UNCHANGED opening
    BY <1>2, <2>1 DEF OpenFriend
  <2> QED
    BY <1>0, <1>p, <2>1, <2>2, OpenKnownClears
<1>3. ASSUME NEW f \in Friends, Answers(f) PROVE QuietInv'
  BY <1>3, <1>s DEF Answers, ThreadArrives, ThreadFails
<1>4. ASSUME NEW f \in Friends, PublishKey(f) PROVE QuietInv'
  BY <1>4, <1>p, <1>s DEF PublishKey
<1>5. ASSUME NEW k \in Kinds, Messaging(k) PROVE QuietInv'
  <2>1. UNCHANGED scenario
    BY <1>5 DEF Messaging, StartSend, FetchKey, PostMessage, MessageRefused,
      SendFails
  <2>2. sending[k].step = "idle" /\ sending[k] = Idle /\ scenario.sends = 0
    BY <2>1, <1>s DEF Idle, Quiet
  <2>3. used.sends \in Nat
    BY <1>0 DEF TypeOK
  <2> QED
    BY <1>5, <2>2, <2>3 DEF Messaging, StartSend, FetchKey, PostMessage,
      MessageRefused, SendFails
<1>6. ASSUME Transferring PROVE QuietInv'
  <2>1. UNCHANGED scenario
    BY <1>6 DEF Transferring, OpenComposer, ReviewTransfer, CloseComposer,
      ConfirmTransfer, WalletPays, PostTransfer, TransferRefused,
      TransferFails, pageOnly
  <2>2. transfer.step = "idle" /\ transfer = Idle /\ scenario.transfers = 0
    BY <2>1, <1>s DEF Idle, Quiet
  <2>3. used.transfers \in Nat
    BY <1>0 DEF TypeOK
  <2>4. OpenComposer \/ ReviewTransfer \/ CloseComposer
    BY <1>6, <2>2, <2>3 DEF Transferring, ConfirmTransfer, WalletPays,
      PostTransfer, TransferRefused, TransferFails
  <2> QED
    BY <1>0, <1>p, <1>s, <2>4
    DEF OpenComposer, ReviewTransfer, CloseComposer, pageOnly, OneTimeline,
        Page
<1>7. CASE ReportChat
  <2>1. /\ UNCHANGED <<scenario, opening, transfer, threads, sending, page>>
        /\ page.thread # Nobody
        /\ reports' = reports \cup
             {[thread |-> page.thread, sent |-> OnScreen, reveals |-> Revealed]}
    BY <1>7 DEF ReportChat, Selected
  <2>2. OnScreen \subseteq Revealed
    BY <1>s, <2>1 DEF OneTimeline, OnScreen, Revealed
  <2> QED
    BY <1>s, <2>1, <2>2 DEF QuietInv
<1>8. CASE UNCHANGED vars
  BY <1>8, <1>p, <1>s DEF vars
<1> QED
  BY <1>1, <1>2, <1>3, <1>4, <1>5, <1>6, <1>7, <1>8 DEF Next

(* A report of a quiet page stores every text that was on the screen, through *)
(* any sequence of clicks, overtaken and failed loads and closed chats.       *)
THEOREM QuietReportsAreWholeHolds == Spec => []QuietReportsAreWhole
<1>1. QuietInv => QuietReportsAreWhole
  BY DEF QuietInv, QuietReportsAreWhole
<1> QED
  BY <1>1, TypedInit, TypedNext, QuietInit, QuietNext, PTL DEF Spec

HIDE ChatPageAssumption DEF OrNobody

-----------------------------------------------------------------------------
(* The payment page *)

LEMMA SubmitsType ==
  PayTypeOK => /\ submits \in Seq(Submission(Len(quoted)))
               /\ Len(submits) \in Nat /\ Len(quoted) \in Nat
               /\ \A s \in Submissions :
                    submits[s] \in Submission(Len(quoted))
  BY DEF PayTypeOK, Submissions

\* An action that replaces the submission s leaves all others.
LEMMA OneReplaced ==
  ASSUME PayTypeOK, NEW s \in Submissions, NEW r \in Submission(Len(quoted)),
         submits' = [submits EXCEPT ![s] = r], UNCHANGED quoted
  PROVE  /\ submits' \in Seq(Submission(Len(quoted')))
         /\ Len(submits') = Len(submits) /\ Submissions' = Submissions
         /\ submits'[s] = r
         /\ \A u \in Submissions : u # s => submits'[u] = submits[u]
<1>1. submits \in Seq(Submission(Len(quoted)))
  BY SubmitsType
<1>2. /\ submits' \in Seq(Submission(Len(quoted)))
      /\ Len(submits') = Len(submits)
  BY <1>1 DEF Submissions
<1> QED
  BY <1>1, <1>2 DEF Submissions

\* What the submission r becomes in one step of it.
Becomes(r) ==
  {Signed(r), Accepted(r), Failed(r, TRUE), Failed(r, FALSE),
   [r EXCEPT !.client = "done"],
   [r EXCEPT !.server = "refused"], [r EXCEPT !.chain = "ok"],
   [r EXCEPT !.chain = "reverted"], [r EXCEPT !.record = "success"],
   [r EXCEPT !.record = "failed"]}

LEMMA BecomesType ==
  ASSUME NEW n \in Nat, NEW r \in Submission(n), NEW new \in Becomes(r)
  PROVE  new \in Submission(n)
<1>1. Signed(r) \in Submission(n)
  BY DEF Signed, Submission
<1>2. Accepted(r) \in Submission(n)
  BY DEF Accepted, Submission
<1>3. Failed(r, TRUE) \in Submission(n) /\ Failed(r, FALSE) \in Submission(n)
  BY DEF Failed, Submission
<1>4. CASE new \in {[r EXCEPT !.client = "done"],
                    [r EXCEPT !.server = "refused"],
                    [r EXCEPT !.chain = "ok"], [r EXCEPT !.chain = "reverted"],
                    [r EXCEPT !.record = "success"],
                    [r EXCEPT !.record = "failed"]}
  BY <1>4 DEF Submission
<1>5. CASE new \in {Signed(r), Accepted(r), Failed(r, TRUE), Failed(r, FALSE)}
  BY <1>1, <1>2, <1>3, <1>5
<1> QED
  BY <1>4, <1>5 DEF Becomes

LEMMA ProgressReplaces ==
  ASSUME PayTypeOK, NEW s \in Submissions, Progress(s)
  PROVE  /\ UNCHANGED <<setting, open, step, draft, quote, quoteCall, quoted>>
         /\ \E r \in Submission(Len(quoted)) :
              submits' = [submits EXCEPT ![s] = r]
<1>1. UNCHANGED <<setting, open, step, draft, quote, quoteCall, quoted>>
  BY DEF Progress, WalletSigns, WalletRefuses, ServerAccepts, ServerRefuses,
         ServerFails, AnswerArrives, ErrorArrives, Decide, SettleRecord,
         formVars
<1>2. \E r \in Becomes(submits[s]) : submits' = [submits EXCEPT ![s] = r]
  BY DEF Becomes, Progress, WalletSigns, WalletRefuses, ServerAccepts,
         ServerRefuses, ServerFails, AnswerArrives, ErrorArrives, Decide,
         SettleRecord, Set
<1> QED
  BY <1>1, <1>2, SubmitsType, BecomesType

LEMMA PayTypedInit == PayInit => PayTypeOK
<1> SUFFICES ASSUME PayInit PROVE PayTypeOK
  OBVIOUS
<1>1. Len(<<>>) = 0 /\ MaxQuotes \in Nat
  BY SendMoneyAssumption
<1>2. /\ submits \in Seq(Submission(Len(quoted))) /\ quoted \in Seq(Drafts)
      /\ consumed \subseteq 1 .. Len(quoted)
  BY DEF PayInit
<1>3. quote \in 0 .. Len(quoted) /\ watch \in 0 .. Len(submits)
  BY <1>1 DEF PayInit
<1>4. open \in BOOLEAN /\ codeAsked \in BOOLEAN
  BY DEF PayInit
<1> QED
  BY <1>1, <1>2, <1>3, <1>4 DEF PayInit, PayTypeOK

LEMMA PayTypedNext == PayTypeOK /\ [PayNext]_payVars => PayTypeOK'
<1> SUFFICES ASSUME PayTypeOK, [PayNext]_payVars PROVE PayTypeOK'
  OBVIOUS
<1> USE SubmitsType
<1>1. CASE User
  <2>1. CASE Submit
    <3>1. NewSubmission(draft) \in Submission(Len(quoted))
      BY <2>1 DEF Submit, Valid, NewSubmission, Submission, PayTypeOK
    <3>2. /\ submits' \in Seq(Submission(Len(quoted)))
          /\ Len(submits') = Len(submits) + 1
      BY <2>1, <3>1 DEF Submit
    <3> QED
      BY <2>1, <3>2 DEF Submit, PayTypeOK, formVars
  <2>2. CASE OpenMethod \/ CloseMethod
    <3>1. open' \in BOOLEAN /\ codeAsked' \in BOOLEAN
      BY <2>2 DEF OpenMethod, CloseMethod, ResetForm
    <3>2. quote' \in 0 .. Len(quoted)
      BY <2>2 DEF OpenMethod, CloseMethod, ResetForm
    <3> QED
      BY <2>2, <3>1, <3>2 DEF OpenMethod, CloseMethod, ResetForm, PayTypeOK
  <2>3. CASE AskQuote \/ AskCode
    BY <2>3 DEF AskQuote, AskCode, formVars, PayTypeOK
  <2>4. ASSUME NEW d \in Drafts, Type(d) PROVE PayTypeOK'
    <3>1. codeAsked' \in BOOLEAN
      BY <2>4 DEF Type
    <3>2. quote' \in 0 .. Len(quoted)
      BY <2>4 DEF Type
    <3> QED
      BY <2>4, <3>1, <3>2 DEF Type, PayTypeOK
  <2> QED
    BY <1>1, <2>1, <2>2, <2>3, <2>4 DEF User
<1>2. CASE QuoteArrives
  <2>1. /\ quoted' \in Seq(Drafts) /\ Len(quoted') = Len(quoted) + 1
        /\ Len(quoted') <= MaxQuotes
    BY <1>2, SendMoneyAssumption DEF QuoteArrives, PayTypeOK
  <2>2. Submission(Len(quoted)) \subseteq Submission(Len(quoted'))
    BY <2>1 DEF Submission
  <2>3. submits \in Seq(Submission(Len(quoted')))
    BY <2>2
  <2>4. consumed \subseteq 1 .. Len(quoted') /\ quote' \in 0 .. Len(quoted')
    BY <1>2, <2>1 DEF QuoteArrives, PayTypeOK
  <2> QED
    BY <1>2, <2>1, <2>3, <2>4 DEF QuoteArrives, PayTypeOK
<1>3. CASE QuoteFails
  BY <1>3 DEF QuoteFails, PayTypeOK, formVars
<1>4. CASE Poll
  <2>1. /\ UNCHANGED <<setting, quoteCall, submits, quoted, consumed>>
        /\ watch' = 0
    BY <1>4 DEF Poll, PollEnds, PollGivesUp
  <2>2. /\ open' \in BOOLEAN /\ step' \in {"details", "verify"}
        /\ draft' \in Drafts \cup {Nothing} /\ codeAsked' \in BOOLEAN
    BY <1>4 DEF Poll, PollEnds, PollGivesUp, ResetForm, formVars, PayTypeOK
  <2>3. quote' \in 0 .. Len(quoted) /\ watch' \in 0 .. Len(submits)
    BY <1>4, <2>1 DEF Poll, PollEnds, PollGivesUp, ResetForm, formVars,
                      PayTypeOK
  <2>4. told' \in [Drafts -> {"nothing", "failed", "pending", "on-chain",
                              "paid"}]
    BY <1>4 DEF Poll, PollEnds, PollGivesUp, Say, PayTypeOK
  <2> QED
    BY <2>1, <2>2, <2>3, <2>4 DEF PayTypeOK
<1>5. ASSUME NEW s \in Submissions, Progress(s) PROVE PayTypeOK'
  <2>1. /\ submits' \in Seq(Submission(Len(quoted')))
        /\ Len(submits') = Len(submits)
    BY <1>5, ProgressReplaces, OneReplaced
  <2>2. UNCHANGED <<setting, open, step, draft, quote, quoteCall, quoted>>
    BY <1>5, ProgressReplaces
  <2>3. submits[s].draft \in Drafts /\ submits[s].quote \in 1 .. Len(quoted)
    BY DEF Submission
  <2>4. told' \in [Drafts -> {"nothing", "failed", "pending", "on-chain",
                              "paid"}]
    BY <1>5, <2>3 DEF PayTypeOK, Progress, WalletSigns, WalletRefuses,
         ServerAccepts, ServerRefuses, ServerFails, AnswerArrives,
         ErrorArrives, Decide, SettleRecord, Say
  <2>5. CASE UNCHANGED <<consumed, codeAsked, watch>>
    BY <2>1, <2>2, <2>4, <2>5 DEF PayTypeOK
  <2>6. CASE ServerAccepts(s) \/ ServerFails(s)
    BY <2>1, <2>2, <2>3, <2>4, <2>6
    DEF ServerAccepts, ServerFails, PayTypeOK, formVars
  <2>7. CASE AnswerArrives(s)
    <3>1. codeAsked' \in BOOLEAN
      BY <2>7 DEF AnswerArrives
    <3>2. watch' \in 0 .. Len(submits)
      BY <2>7 DEF AnswerArrives, Submissions
    <3> QED
      BY <2>1, <2>2, <2>4, <2>7, <3>1, <3>2 DEF AnswerArrives, PayTypeOK
  <2>8. UNCHANGED <<consumed, codeAsked, watch>> \/ ServerAccepts(s)
          \/ ServerFails(s) \/ AnswerArrives(s)
    BY <1>5 DEF Progress, WalletSigns, WalletRefuses, ServerRefuses,
                ErrorArrives, Decide, SettleRecord, formVars
  <2> QED
    BY <2>5, <2>6, <2>7, <2>8
<1>6. CASE UNCHANGED payVars
  BY <1>6 DEF payVars, formVars, PayTypeOK
<1> QED
  BY <1>1, <1>2, <1>3, <1>4, <1>5, <1>6 DEF PayNext

(* Every variable of the payment page, its server and its chain stays in its *)
(* range, for any bounds, quotes and settings.                               *)
THEOREM PayTypeOKHolds == PaySpec => []PayTypeOK
  BY PayTypedInit, PayTypedNext, PTL DEF PaySpec

-----------------------------------------------------------------------------
(* Told to be paid *)

\* Where a submission stands: what the server, the browser and the chain know
\* of it fits together.
Sound(r) ==
  /\ r.server = "accepted" => r.record # "none"
  /\ r.record # "none" => r.server \in {"accepted", "refused"}
  /\ r.record = "pending" => r.server = "accepted"
  /\ r.record = "success" => r.chain = "ok"
  /\ r.record = "failed" => r.chain = "reverted" \/ r.server = "refused"
  /\ r.server = "none" => r.chain = "none"
  /\ r.client = "signing" => r.server = "none" /\ setting.linked
  /\ r.client = "posting" => r.server # "none"
  /\ setting.linked /\ r.server # "none" => r.chain # "none"
  /\ ~setting.linked /\ r.server = "posted" => r.chain = "none"
  /\ ~setting.linked /\ r.server = "refused" /\ "fault" \notin Hazards
       => r.chain = "none"
  /\ r.server = "posted" /\ "timeout" \notin Hazards => r.client = "posting"

AllSound == \A s \in Submissions : Sound(submits[s])

\* The guard of the button: nothing is sent while something is being sent.
OneIsSent ==
  \A s, u \in Submissions :
    submits[s].client # "done" /\ submits[u].client # "done" => s = u

WatchAnswered ==
  watch # 0 => /\ submits[watch].client = "done"
               /\ submits[watch].server = "accepted"

PaidIsRecorded ==
  \A d \in Drafts : told[d] = "paid" =>
    \E s \in Submissions : submits[s].draft = d /\ submits[s].record = "success"

PayInv == AllSound /\ OneIsSent /\ WatchAnswered /\ PaidIsRecorded

LEMMA PayInvInit == PayInit => PayInv
<1> SUFFICES ASSUME PayInit PROVE PayInv
  OBVIOUS
<1>1. Submissions = {} /\ watch = 0 /\ \A d \in Drafts : told[d] = "nothing"
  BY DEF PayInit, Submissions
<1> QED
  BY <1>1 DEF PayInv, AllSound, OneIsSent, WatchAnswered, PaidIsRecorded

LEMMA ProgressGives ==
  ASSUME PayTypeOK, NEW s \in Submissions
  PROVE  /\ WalletSigns(s) => submits'[s] = Signed(submits[s])
         /\ WalletRefuses(s) \/ AnswerArrives(s) \/ ErrorArrives(s)
              => submits'[s] = [submits[s] EXCEPT !.client = "done"]
         /\ ServerAccepts(s) => submits'[s] = Accepted(submits[s])
         /\ ServerRefuses(s)
              => submits'[s] = [submits[s] EXCEPT !.server = "refused"]
         /\ ServerFails(s) => \E sent \in BOOLEAN :
              submits'[s] = Failed(submits[s], sent)
         /\ Decide(s) => \E fate \in {"ok", "reverted"} :
              submits'[s] = [submits[s] EXCEPT !.chain = fate]
         /\ SettleRecord(s) => submits'[s] = [submits[s] EXCEPT !.record =
              IF submits[s].chain = "ok" THEN "success" ELSE "failed"]
<1> USE SubmitsType DEF Submissions, Set
<1>1. WalletSigns(s) => submits'[s] = Signed(submits[s])
  BY DEF WalletSigns
<1>2. ASSUME WalletRefuses(s) \/ AnswerArrives(s) \/ ErrorArrives(s)
      PROVE  submits'[s] = [submits[s] EXCEPT !.client = "done"]
  <2>1. submits' = [submits EXCEPT ![s].client = "done"]
    BY <1>2 DEF WalletRefuses, AnswerArrives, ErrorArrives
  <2> QED
    BY <2>1
<1>3. ServerAccepts(s) => submits'[s] = Accepted(submits[s])
  BY DEF ServerAccepts
<1>4. ServerRefuses(s)
        => submits'[s] = [submits[s] EXCEPT !.server = "refused"]
  BY DEF ServerRefuses
<1>5. ASSUME Decide(s)
      PROVE  \E fate \in {"ok", "reverted"} :
               submits'[s] = [submits[s] EXCEPT !.chain = fate]
  <2>1. PICK fate \in {"ok", "reverted"} :
          submits' = [submits EXCEPT ![s].chain = fate]
    BY <1>5 DEF Decide
  <2> QED
    BY <2>1
<1>6. SettleRecord(s) => submits'[s] = [submits[s] EXCEPT !.record =
        IF submits[s].chain = "ok" THEN "success" ELSE "failed"]
  BY DEF SettleRecord
<1>7. ASSUME ServerFails(s)
      PROVE  \E sent \in BOOLEAN : submits'[s] = Failed(submits[s], sent)
  <2>1. PICK sent \in BOOLEAN :
          submits' = [submits EXCEPT ![s] = Failed(submits[s], sent)]
    BY <1>7 DEF ServerFails
  <2> QED
    BY <2>1
<1> QED
  BY <1>1, <1>2, <1>3, <1>4, <1>5, <1>6, <1>7

\* How a submission moves: what is answered, accepted or settled stays so, and
\* money moves only for a submission whose browser is not done with it.
MovesOn(old, new) ==
  /\ new.draft = old.draft
  /\ old.client = "done" => new.client = "done"
  /\ old.server = "accepted" => new.server = "accepted"
  /\ old.record = "success" => new.record = "success"
  /\ Informed
       /\ new.chain \in {"mempool", "ok"} /\ old.chain \notin {"mempool", "ok"}
       => old.client # "done"

LEMMA ProgressMovesOn ==
  ASSUME PayTypeOK, PayInv, NEW s \in Submissions, Progress(s)
  PROVE  /\ Submissions' = Submissions /\ UNCHANGED setting
         /\ \A u \in Submissions : u # s => submits'[u] = submits[u]
         /\ Sound(submits'[s]) /\ MovesOn(submits[s], submits'[s])
<1>1. PICK r \in Submission(Len(quoted)) :
        submits' = [submits EXCEPT ![s] = r]
  BY ProgressReplaces
<1>2. UNCHANGED <<setting, quoted>>
  BY ProgressReplaces
<1>3. /\ Submissions' = Submissions
      /\ \A u \in Submissions : u # s => submits'[u] = submits[u]
  BY <1>1, <1>2, OneReplaced
<1>4. submits[s] \in Submission(Len(quoted)) /\ Sound(submits[s])
  BY SubmitsType DEF PayInv, AllSound
<1>5. Sound(submits'[s]) /\ MovesOn(submits[s], submits'[s])
  <2> USE <1>4 DEF Submission, Informed
  <2>1. CASE WalletSigns(s)
    <3>1. submits'[s] = Signed(submits[s])
      BY <2>1, ProgressGives
    <3> QED
      BY <2>1, <3>1 DEF WalletSigns, Signed, Sound, MovesOn
  <2>2. CASE WalletRefuses(s)
    <3>1. submits'[s] = [submits[s] EXCEPT !.client = "done"]
      BY <2>2, ProgressGives
    <3> QED
      BY <2>2, <3>1 DEF WalletRefuses, Sound, MovesOn
  <2>3. CASE ServerAccepts(s)
    <3>1. submits'[s] = Accepted(submits[s])
      BY <2>3, ProgressGives
    <3> QED
      BY <2>3, <3>1 DEF ServerAccepts, Accepted, Sound, MovesOn
  <2>4. CASE ServerRefuses(s)
    <3>1. submits'[s] = [submits[s] EXCEPT !.server = "refused"]
      BY <2>4, ProgressGives
    <3> QED
      BY <2>4, <3>1 DEF ServerRefuses, Sound, MovesOn
  <2>5. CASE AnswerArrives(s)
    <3>1. submits'[s] = [submits[s] EXCEPT !.client = "done"]
      BY <2>5, ProgressGives
    <3> QED
      BY <2>5, <3>1 DEF AnswerArrives, Sound, MovesOn
  <2>6. CASE ErrorArrives(s)
    <3>1. submits'[s] = [submits[s] EXCEPT !.client = "done"]
      BY <2>6, ProgressGives
    <3> QED
      BY <2>6, <3>1 DEF ErrorArrives, Sound, MovesOn
  <2>7. CASE Decide(s)
    <3>1. \E fate \in {"ok", "reverted"} :
            submits'[s] = [submits[s] EXCEPT !.chain = fate]
      BY <2>7, ProgressGives
    <3> QED
      BY <2>7, <3>1 DEF Decide, Sound, MovesOn
  <2>8. CASE SettleRecord(s)
    <3>1. submits'[s] = [submits[s] EXCEPT
            !.record = IF submits[s].chain = "ok" THEN "success" ELSE "failed"]
      BY <2>8, ProgressGives
    <3> QED
      BY <2>8, <3>1 DEF SettleRecord, Sound, MovesOn
  <2>9. CASE ServerFails(s)
    <3>1. \E sent \in BOOLEAN : submits'[s] = Failed(submits[s], sent)
      BY <2>9, ProgressGives
    <3> QED
      BY <2>9, <3>1 DEF ServerFails, Failed, Sound, MovesOn
  <2> QED
    BY <2>1, <2>2, <2>3, <2>4, <2>5, <2>6, <2>7, <2>8, <2>9 DEF Progress
<1> QED
  BY <1>2, <1>3, <1>5

\* A step of the page's form or of its quotes leaves the submissions, but for
\* the one it makes.
Untouched == UNCHANGED <<setting, submits, watch, told>>

LEMMA FormLeaves ==
  User \/ QuoteArrives \/ QuoteFails \/ UNCHANGED payVars
    => Untouched \/ Submit
  BY DEF User, OpenMethod, CloseMethod, AskQuote, AskCode, Type, QuoteArrives,
         QuoteFails, formVars, payVars, Untouched

LEMMA SubmitAppends ==
  ASSUME PayTypeOK, Submit
  PROVE  /\ Submissions' = Submissions \cup {Len(submits) + 1}
         /\ Len(submits) + 1 \notin Submissions
         /\ \A u \in Submissions : submits'[u] = submits[u]
         /\ submits'[Len(submits) + 1] = NewSubmission(draft)
         /\ UNCHANGED <<setting, watch, told>> /\ draft \in Drafts
<1>1. submits' = Append(submits, NewSubmission(draft)) /\ draft \in Drafts
  BY DEF Submit, Valid, PayTypeOK
<1>2. /\ Len(submits') = Len(submits) + 1 /\ Len(submits) \in Nat
      /\ \A u \in 1 .. Len(submits) : submits'[u] = submits[u]
      /\ submits'[Len(submits) + 1] = NewSubmission(draft)
  BY <1>1, SubmitsType
<1> QED
  BY <1>1, <1>2 DEF Submit, Submissions

LEMMA PayInvNext == PayTypeOK /\ PayInv /\ [PayNext]_payVars => PayInv'
<1> SUFFICES ASSUME PayTypeOK, PayInv, [PayNext]_payVars PROVE PayInv'
  OBVIOUS
<1>1. CASE Untouched
  BY <1>1 DEF Untouched, PayInv, AllSound, Sound, OneIsSent, WatchAnswered,
              PaidIsRecorded, Submissions, Hazards
<1>2. CASE Submit
  <2>1. Sound(NewSubmission(draft))
    BY DEF Sound, NewSubmission
  <2>2. AllSound'
    BY <1>2, <2>1, SubmitAppends DEF PayInv, AllSound, Sound, Hazards
  <2>3. OneIsSent'
    BY <1>2, SubmitAppends DEF Submit, Sending, OneIsSent
  <2>4. WatchAnswered'
    BY <1>2, SubmitAppends DEF PayTypeOK, PayInv, WatchAnswered, Submissions
  <2>5. PaidIsRecorded'
    BY <1>2, SubmitAppends DEF PayInv, PaidIsRecorded
  <2> QED
    BY <2>2, <2>3, <2>4, <2>5 DEF PayInv
<1>3. CASE Poll
  <2>1. UNCHANGED <<setting, submits>> /\ watch' = 0
    BY <1>3 DEF Poll, PollEnds, PollGivesUp
  <2>2. AllSound' /\ OneIsSent' /\ WatchAnswered'
    BY <2>1 DEF PayInv, AllSound, Sound, OneIsSent, WatchAnswered,
                Submissions, Hazards
  <2>3. PaidIsRecorded'
    <3> SUFFICES ASSUME NEW d \in Drafts, told'[d] = "paid"
                 PROVE  \E s \in Submissions : /\ submits[s].draft = d
                                               /\ submits[s].record = "success"
      BY <2>1 DEF PaidIsRecorded, Submissions
    <3>1. CASE told[d] = "paid"
      BY <3>1 DEF PayInv, PaidIsRecorded
    <3>2. CASE told[d] # "paid"
      <4>1. /\ watch \in Submissions /\ submits[watch].record = "success"
            /\ submits[watch].draft = d
        BY <1>3, <3>2 DEF Poll, PollEnds, PollGivesUp, Say, PayTypeOK,
                          Submissions
      <4> QED
        BY <4>1
    <3> QED
      BY <3>1, <3>2
  <2> QED
    BY <2>2, <2>3 DEF PayInv
<1>4. ASSUME NEW s \in Submissions, Progress(s) PROVE PayInv'
  <2>1. /\ Submissions' = Submissions /\ UNCHANGED setting
        /\ \A u \in Submissions : u # s => submits'[u] = submits[u]
        /\ Sound(submits'[s]) /\ MovesOn(submits[s], submits'[s])
    BY <1>4, ProgressMovesOn
  <2>2. AllSound'
    BY <2>1 DEF PayInv, AllSound, Sound, Hazards
  <2>3. OneIsSent'
    BY <2>1 DEF PayInv, OneIsSent, MovesOn
  <2>4. WatchAnswered'
    <3>1. CASE watch' = watch
      BY <2>1, <3>1 DEF PayInv, WatchAnswered, MovesOn, PayTypeOK, Submissions
    <3>2. CASE AnswerArrives(s)
      <4>1. submits' = [submits EXCEPT ![s].client = "done"] /\ watch' = s
        BY <3>2 DEF AnswerArrives, Set
      <4>2. /\ submits'[s].client = "done"
            /\ submits'[s].server = submits[s].server
        BY <4>1, SubmitsType DEF Submission, Submissions
      <4> QED
        BY <3>2, <4>1, <4>2 DEF AnswerArrives, WatchAnswered
    <3> QED
      BY <1>4, <3>1, <3>2 DEF Progress, WalletSigns, WalletRefuses,
           ServerAccepts, ServerRefuses, ServerFails, ErrorArrives, Decide,
           SettleRecord
  <2>5. \A d \in Drafts : told'[d] = "paid" => told[d] = "paid"
    <3>1. \A d \in Drafts : submits[s].draft = d => d \in Drafts
      OBVIOUS
    <3> QED
      BY <1>4 DEF Progress, WalletSigns, WalletRefuses, ServerAccepts,
           ServerRefuses, ServerFails, AnswerArrives, ErrorArrives, Decide,
           SettleRecord, Say, PayTypeOK
  <2>6. PaidIsRecorded'
    BY <2>1, <2>5 DEF PayInv, PaidIsRecorded, MovesOn
  <2> QED
    BY <2>2, <2>3, <2>4, <2>6 DEF PayInv
<1> QED
  BY <1>1, <1>2, <1>3, <1>4, FormLeaves DEF PayNext

(* What the page is told of a submission, what the server recorded of it and *)
(* what the chain decided never come apart.                                  *)
THEOREM PayInvariant == PaySpec => [](PayTypeOK /\ PayInv)
  BY PayTypedInit, PayTypedNext, PayInvInit, PayInvNext, PTL DEF PaySpec

(* A draft its user is told to be paid has a submission that the chain has   *)
(* executed, whichever submission of whichever form the poll was for.        *)
THEOREM ToldPaidIsPaidHolds == PaySpec => []ToldPaidIsPaid
<1>1. PayTypeOK /\ PayInv => ToldPaidIsPaid
  BY DEF PayInv, AllSound, Sound, PaidIsRecorded, ToldPaidIsPaid
<1> QED
  BY <1>1, PayInvariant, PTL

-----------------------------------------------------------------------------
(* Paid once *)

Moves(s) == submits[s].chain \in {"mempool", "ok"}

Same(s, u) == s # u /\ submits[u].draft = submits[s].draft

\* While a submission is being sent no other of its draft moves money, and a
\* user whose money moved has been told so.
CalmSubmissions ==
  \A s \in Submissions :
    /\ submits[s].client # "done" \/ Moves(s)
         => \A u \in Submissions : Same(s, u) => ~Moves(u)
    /\ submits[s].client = "done" => ~Moves(s) \/ ~Willing(submits[s].draft)

\* A submission that is polled is the only one of its draft that may move.
CalmWatch ==
  watch # 0 =>
    /\ told[submits[watch].draft] = "pending"
    /\ \A u \in Submissions :
         Same(watch, u) => ~Moves(u) /\ submits[u].client = "done"

CalmPay == Informed => CalmSubmissions /\ CalmWatch

LEMMA CalmPayInit == PayInit => CalmPay
<1> SUFFICES ASSUME PayInit PROVE CalmPay
  OBVIOUS
<1>1. Submissions = {} /\ watch = 0
  BY DEF PayInit, Submissions
<1> QED
  BY <1>1 DEF CalmPay, CalmSubmissions, CalmWatch

LEMMA WatchRange == PayTypeOK => watch = 0 \/ watch \in Submissions
  BY SubmitsType DEF PayTypeOK, Submissions

\* What a step of the submission s makes the page say of a draft.
LEMMA ProgressSays ==
  ASSUME PayTypeOK, PayInv, NEW s \in Submissions, Progress(s)
  PROVE  /\ \A d \in Drafts : d # submits[s].draft => told'[d] = told[d]
         /\ told' = told \/ submits[s].client # "done"
         /\ watch' = watch
              \/ /\ watch' = s /\ submits[s].client # "done"
                 /\ told'[submits[s].draft] = "pending"
         /\ Informed /\ submits'[s].client = "done"
              => \/ told' = told /\ submits[s].client = "done"
                 \/ submits'[s].chain \notin {"mempool", "ok"}
                 \/ told'[submits[s].draft] \in {"pending", "on-chain"}
<1>1. submits[s] \in Submission(Len(quoted)) /\ Sound(submits[s])
  BY SubmitsType DEF PayInv, AllSound
<1>2. submits[s].draft \in DOMAIN told
  BY <1>1 DEF Submission, PayTypeOK
<1> USE <1>1, <1>2 DEF Submission, Informed
<1>3. CASE WalletRefuses(s)
  <2>1. submits'[s] = [submits[s] EXCEPT !.client = "done"]
    BY <1>3, ProgressGives
  <2> QED
    BY <1>3, <2>1 DEF WalletRefuses, Sound, Say, PayTypeOK
<1>4. CASE AnswerArrives(s)
  <2>1. /\ told' = [told EXCEPT ![submits[s].draft] = "pending"]
        /\ watch' = s /\ submits[s].client = "posting"
    BY <1>4 DEF AnswerArrives, Say
  <2> QED
    BY <2>1 DEF PayTypeOK
<1>5. CASE ErrorArrives(s)
  <2>1. submits'[s] = [submits[s] EXCEPT !.client = "done"]
    BY <1>5, ProgressGives
  <2> QED
    BY <1>5, <2>1 DEF ErrorArrives, Sound, Say, PayTypeOK
<1>6. CASE WalletSigns(s)
  <2>1. submits'[s] = Signed(submits[s])
    BY <1>6, ProgressGives
  <2> QED
    BY <1>6, <2>1 DEF WalletSigns, Signed
<1>7. CASE ServerAccepts(s)
  <2>1. submits'[s] = Accepted(submits[s])
    BY <1>7, ProgressGives
  <2> QED
    BY <1>7, <2>1 DEF ServerAccepts, Accepted, Sound
<1>8. CASE ServerRefuses(s)
  <2>1. submits'[s] = [submits[s] EXCEPT !.server = "refused"]
    BY <1>8, ProgressGives
  <2> QED
    BY <1>8, <2>1 DEF ServerRefuses, Sound
<1>9. CASE Decide(s) \/ SettleRecord(s)
  <2>1. submits'[s].client = submits[s].client
    BY <1>9, ProgressGives
  <2> QED
    BY <1>9, <2>1 DEF Decide, SettleRecord
<1>10. CASE ServerFails(s)
  <2>1. \E sent \in BOOLEAN : submits'[s] = Failed(submits[s], sent)
    BY <1>10, ProgressGives
  <2> QED
    BY <1>10, <2>1 DEF ServerFails, Failed, Sound
<1> QED
  BY <1>3, <1>4, <1>5, <1>6, <1>7, <1>8, <1>9, <1>10 DEF Progress

LEMMA CalmPayNext ==
  PayTypeOK /\ PayInv /\ CalmPay /\ [PayNext]_payVars => CalmPay'
<1> SUFFICES ASSUME PayTypeOK, PayInv, CalmPay, [PayNext]_payVars
             PROVE  CalmPay'
  OBVIOUS
<1>a. UNCHANGED setting
  <2>1. Poll => UNCHANGED setting
    BY DEF Poll, PollEnds, PollGivesUp
  <2>2. Untouched \/ Submit => UNCHANGED setting
    BY DEF Untouched, Submit
  <2>3. ASSUME NEW s \in Submissions, Progress(s) PROVE UNCHANGED setting
    BY <2>3, ProgressReplaces
  <2> QED
    BY <2>1, <2>2, <2>3, FormLeaves DEF PayNext
<1> SUFFICES ASSUME Informed
             PROVE  CalmSubmissions' /\ CalmWatch'
  BY <1>a DEF CalmPay, Informed, Hazards
<1>0. CalmSubmissions /\ CalmWatch
  BY DEF CalmPay
<1>1. CASE Untouched
  BY <1>0, <1>1 DEF Untouched, CalmSubmissions, CalmWatch, Same, Moves,
                    Willing, Submissions
<1>2. CASE Submit
  <2> DEFINE new == Len(submits) + 1
  <2>1. /\ Submissions' = Submissions \cup {new} /\ new \notin Submissions
        /\ \A u \in Submissions : submits'[u] = submits[u]
        /\ UNCHANGED <<watch, told>>
    BY <1>2, SubmitAppends
  <2>2. /\ submits'[new].draft = draft /\ submits'[new].chain = "none"
        /\ Willing(draft) /\ \A u \in Submissions : submits[u].client = "done"
    BY <1>2, SubmitAppends DEF Submit, NewSubmission, Sending
  <2>3. \A u \in Submissions : submits[u].draft = draft => ~Moves(u)
    BY <1>0, <2>2 DEF CalmSubmissions
  <2> HIDE DEF new
  <2>4. CalmSubmissions'
    BY <1>0, <2>1, <2>2, <2>3 DEF CalmSubmissions, Same, Moves, Willing
  <2>5. CalmWatch'
    <3>1. CASE watch = 0
      BY <2>1, <3>1 DEF CalmWatch
    <3>2. CASE watch \in Submissions
      <4>1. submits[watch].draft # draft
        BY <1>0, <2>2, <3>2 DEF CalmWatch, Willing, Submissions
      <4> QED
        BY <1>0, <2>1, <2>2, <3>2, <4>1 DEF CalmWatch, Same, Moves
    <3> QED
      BY <3>1, <3>2, WatchRange
  <2> QED
    BY <2>4, <2>5
<1>3. CASE Poll
  <2>1. UNCHANGED submits /\ watch' = 0 /\ Submissions' = Submissions
    BY <1>3 DEF Poll, PollEnds, PollGivesUp, Submissions
  <2>2. CASE told' = told
    BY <1>0, <2>1, <2>2 DEF CalmSubmissions, CalmWatch, Same, Moves, Willing
  <2>3. ASSUME told' # told PROVE CalmSubmissions'
    <3>1. /\ watch \in Submissions
          /\ \/ told' = [told EXCEPT ![submits[watch].draft] = "paid"]
             \/ /\ told' = [told EXCEPT ![submits[watch].draft] = "failed"]
                /\ submits[watch].record = "failed"
      BY <1>3, <2>3, WatchRange DEF Poll, PollEnds, PollGivesUp, Say
    <3>2. submits[watch].record = "failed" => ~Moves(watch)
      BY <3>1 DEF PayInv, AllSound, Sound, WatchAnswered, Moves, Submissions
    <3>3. \A u \in Submissions : Same(watch, u) => ~Moves(u)
      BY <1>0, <3>1 DEF CalmWatch, Submissions
    <3>4. \A u \in Submissions : submits[u].draft \in Drafts
      BY SubmitsType DEF Submission
    <3>5. \A u \in Submissions :
            Willing(submits[u].draft)' /\ Moves(u)
              => Willing(submits[u].draft)
      BY <2>1, <3>1, <3>2, <3>3, <3>4 DEF Willing, Same, PayTypeOK
    <3> QED
      BY <1>0, <2>1, <3>5 DEF CalmSubmissions, Same, Moves, Willing
  <2>4. CalmWatch'
    BY <2>1 DEF CalmWatch
  <2> QED
    BY <2>2, <2>3, <2>4
<1>4. ASSUME NEW s \in Submissions, Progress(s)
      PROVE  CalmSubmissions' /\ CalmWatch'
  <2>1. /\ Submissions' = Submissions
        /\ \A u \in Submissions : u # s => submits'[u] = submits[u]
        /\ MovesOn(submits[s], submits'[s])
    BY <1>4, ProgressMovesOn
  <2>2. /\ \A d \in Drafts : d # submits[s].draft => told'[d] = told[d]
        /\ told' = told \/ submits[s].client # "done"
        /\ watch' = watch
             \/ /\ watch' = s /\ submits[s].client # "done"
                /\ told'[submits[s].draft] = "pending"
        /\ submits'[s].client = "done"
             => \/ told' = told /\ submits[s].client = "done"
                \/ submits'[s].chain \notin {"mempool", "ok"}
                \/ told'[submits[s].draft] \in {"pending", "on-chain"}
    BY <1>4, ProgressSays
  <2>3. \A u \in Submissions :
          /\ submits[u].draft \in Drafts
          /\ submits'[u].draft = submits[u].draft
          /\ Moves(u)' => Moves(u) \/ (u = s /\ submits[s].client # "done")
          /\ submits[u].client = "done" => submits'[u].client = "done"
    <3> TAKE u \in Submissions
    <3>1. submits[u].draft \in Drafts
      BY SubmitsType DEF Submission
    <3>2. CASE u # s
      BY <2>1, <3>1, <3>2 DEF Moves
    <3>3. CASE u = s
      BY <2>1, <3>1, <3>3 DEF Moves, MovesOn
    <3> QED
      BY <3>2, <3>3
  <2>4. \A u \in Submissions :
          u # s /\ submits[s].client # "done" => submits[u].client = "done"
    BY DEF PayInv, OneIsSent
  <2>5. CalmSubmissions'
    <3> SUFFICES ASSUME NEW u \in Submissions
                 PROVE  /\ submits'[u].client # "done" \/ Moves(u)'
                             => \A v \in Submissions :
                                  Same(u, v) => ~Moves(v)'
                        /\ submits'[u].client = "done" /\ Moves(u)'
                             => told'[submits[u].draft]
                                  \notin {"nothing", "failed"}
      BY <2>1, <2>3 DEF CalmSubmissions, Same, Willing
    <3>1. ASSUME submits'[u].client # "done" \/ Moves(u)',
                 NEW v \in Submissions, Same(u, v)
          PROVE  ~Moves(v)'
      <4>1. submits[u].client # "done" \/ Moves(u)
        BY <2>3, <3>1
      <4>2. ~Moves(v) /\ Same(v, u)
        BY <1>0, <3>1, <4>1 DEF CalmSubmissions, Same
      <4>3. ~(v = s /\ submits[s].client # "done")
        BY <1>0, <2>4, <4>1, <4>2 DEF CalmSubmissions, Same
      <4> QED
        BY <2>3, <4>2, <4>3
    <3>2. ASSUME submits'[u].client = "done", Moves(u)'
          PROVE  told'[submits[u].draft] \notin {"nothing", "failed"}
      <4>1. CASE u = s
        BY <1>0, <2>2, <2>3, <3>2, <4>1 DEF CalmSubmissions, Moves, Willing
      <4>2. CASE u # s
        <5>1. Moves(u) /\ submits[u].client = "done"
          BY <2>1, <2>3, <3>2, <4>2
        <5>2. told[submits[u].draft] \notin {"nothing", "failed"}
          BY <1>0, <5>1 DEF CalmSubmissions, Willing
        <5>3. submits[s].client # "done" => submits[u].draft # submits[s].draft
          BY <1>0, <4>2, <5>1 DEF CalmSubmissions, Same
        <5> QED
          BY <2>2, <2>3, <5>2, <5>3
      <4> QED
        BY <4>1, <4>2
    <3> QED
      BY <3>1, <3>2
  <2>6. CalmWatch'
    <3>1. CASE watch' = s /\ submits[s].client # "done"
      <4>1. /\ submits'[s].draft = submits[s].draft
            /\ told'[submits'[s].draft] = "pending" \/ watch' = watch
        BY <2>2, <2>3
      <4>2. s # watch
        BY <3>1 DEF PayInv, WatchAnswered, Submissions
      <4>3. \A u \in Submissions : Same(s, u) =>
              ~Moves(u)' /\ submits'[u].client = "done"
        BY <1>0, <2>3, <2>4, <3>1 DEF CalmSubmissions, Same
      <4> QED
        BY <2>1, <2>3, <3>1, <4>1, <4>2, <4>3 DEF CalmWatch, Same
    <3>2. CASE watch' = watch /\ watch \in Submissions
      <4>1. watch # 0 /\ submits[watch].client = "done"
        BY <3>2 DEF PayInv, WatchAnswered, Submissions
      <4>2. submits[s].client # "done"
              => submits[s].draft # submits[watch].draft
        BY <1>0, <4>1 DEF CalmWatch, Same
      <4> QED
        BY <1>0, <2>1, <2>2, <2>3, <3>2, <4>1, <4>2 DEF CalmWatch, Same
    <3>3. CASE watch' = 0
      BY <3>3 DEF CalmWatch
    <3> QED
      BY <2>2, <3>1, <3>2, <3>3, WatchRange
  <2> QED
    BY <2>5, <2>6
<1> QED
  BY <1>1, <1>2, <1>3, <1>4, FormLeaves DEF PayNext

(* No two submissions of a draft move money, in whatever order forms are     *)
(* opened, submitted, refused, answered and watched: for a wallet that signs  *)
(* in the browser always, else while no answer is lost and no broadcast is    *)
(* followed by a fault of the server.                                         *)
THEOREM PaidOnceUnlessLostHolds == PaySpec => []PaidOnceUnlessLost
<1>1. ASSUME PayTypeOK, PayInv, CalmPay PROVE PaidOnceUnlessLost
  <2> SUFFICES ASSUME Informed, NEW d \in Drafts,
                      NEW s \in Submissions, NEW u \in Submissions,
                      Moving(s, d), Moving(u, d), s # u
               PROVE  FALSE
    BY DEF PaidOnceUnlessLost
  <2> QED
    BY <1>1 DEF CalmPay, CalmSubmissions, Moving, Moves, Same
<1> QED
  BY <1>1, PayInvariant, CalmPayInit, CalmPayNext, PTL DEF PaySpec

===============================================================================
