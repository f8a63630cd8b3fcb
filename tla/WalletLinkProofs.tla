--------------------------- MODULE WalletLinkProofs ---------------------------
(* Proofs about WalletLink, for any accounts, pages and addresses and for     *)
(* requests that overlap in any way.                                          *)
EXTENDS WalletLink, TLAPS

USE DEF User, Open

LEMMA OpenPages ==
  ASSUME scenario \in Scenarios
  PROVE  Open \subseteq Tabs /\ \A t \in Open : User(t) \in Users
<1>1. PICK open \in SUBSET Tabs : scenario.user \in [open -> Users]
  BY ScenariosAssumption
<1> QED
  BY <1>1

\* Where a page knows the address it connects.
Connecting == {"challenging", "signing", "verified", "consumed", "checked",
               "linked"}

\* The strengthening of TypeOK: a wallet is linked at an address that a page
\* really asked for.
AddressKnown == \A t \in Tabs : pc[t] \in Connecting => addr[t] \in External

\* The strengthening of OneOwnerPerAddress: a new app wallet's address is fresh.
MadeKnown ==
  \A u \in Users : wallet[u] # NoWallet /\ wallet[u].address \in Created
                     => wallet[u].address \in made

Typed == TypeOK /\ AddressKnown

LEMMA TypedInit == Init => Typed
  BY DEF Init, Typed, TypeOK, AddressKnown, Connecting

LEMMA OverKeepsTypes ==
  ASSUME Typed, NEW t \in Tabs, Over(t)
  PROVE  /\ AddressKnown' /\ addr' \in [Tabs -> External \cup {NoAddress}]
         /\ pc' \in [Tabs -> {"idle", "challenging", "signing", "verified",
                              "consumed", "checked", "linked", "creating",
                              "created", "unlinking", "unlinked"}]
  BY DEF Typed, TypeOK, AddressKnown, Connecting, Over

LEMMA LinkedType ==
  ASSUME Typed, NEW t \in Tabs, pc[t] \in Connecting
  PROVE  Linked(t) \in WalletDocument
  BY DEF Typed, AddressKnown, Linked, WalletDocument

LEMMA TypedNext == Typed /\ [Next]_vars => Typed'
<1> SUFFICES ASSUME Typed, [Next]_vars PROVE Typed'
  OBVIOUS
<1> USE DEF Typed, TypeOK, AddressKnown, Connecting
<1>1. ASSUME NEW t \in Open, LoadAccount(t) PROVE Typed'
  <2>1. t \in Tabs /\ User(t) \in Users
    BY OpenPages
  <2>2. wallet[User(t)] # NoWallet
          => wallet[User(t)].type \in {"external", "custodial"}
    BY <2>1 DEF WalletDocument
  <2>3. page' \in [Tabs -> [connected : BOOLEAN,
                            type : {"none", "external", "custodial"}]]
    BY <1>1, <2>1, <2>2 DEF LoadAccount, HasWallet
  <2> QED
    BY <1>1, <2>1, <2>3 DEF LoadAccount
<1>2. ASSUME NEW t \in Open, AccountsChanged(t) PROVE Typed'
  BY <1>2, OpenPages DEF AccountsChanged
<1>3. ASSUME NEW t \in Open, ExpireChallenge(t) PROVE Typed'
  BY <1>3, OpenPages DEF ExpireChallenge
<1>4. ASSUME NEW t \in Open, Connect(t) PROVE Typed'
  <2>1. t \in Tabs /\ User(t) \in Users
    BY OpenPages
  <2>2. ASSUME NEW a \in External, AskChallenge(t, a) PROVE Typed'
    BY <2>1, <2>2 DEF AskChallenge
  <2>3. CASE StoreChallenge(t)
    BY <2>1, <2>3 DEF StoreChallenge
  <2>4. CASE FindChallenge(t)
    BY <2>1, <2>4, OverKeepsTypes DEF FindChallenge
  <2>5. CASE ConsumeChallenge(t)
    BY <2>1, <2>5, OverKeepsTypes DEF ConsumeChallenge
  <2>6. CASE CheckOwner(t)
    BY <2>1, <2>6, OverKeepsTypes DEF CheckOwner
  <2>7. CASE UpsertWallet(t)
    <3>1. CASE wallet' = wallet /\ Over(t)
      BY <2>1, <2>7, <3>1, OverKeepsTypes DEF UpsertWallet
    <3>2. CASE /\ wallet' = [wallet EXCEPT ![User(t)] = Linked(t)]
               /\ pc' = [pc EXCEPT ![t] = "linked"]
               /\ UNCHANGED addr
      <4>1. Linked(t) \in WalletDocument /\ addr[t] \in External
        BY <2>1, <2>7, LinkedType DEF UpsertWallet
      <4>2. wallet' \in [Users -> WalletDocument \cup {NoWallet}]
        BY <2>1, <3>2, <4>1
      <4>3. AddressKnown'
        BY <2>1, <3>2, <4>1
      <4> QED
        BY <2>1, <2>7, <3>2, <4>2, <4>3 DEF UpsertWallet
    <3> QED
      BY <2>7, <3>1, <3>2 DEF UpsertWallet
  <2> QED
    BY <1>4, <2>2, <2>3, <2>4, <2>5, <2>6, <2>7 DEF Connect
<1>5. ASSUME NEW t \in Open, FindNone(t) PROVE Typed'
  BY <1>5, OpenPages DEF FindNone
<1>6. ASSUME NEW t \in Open, CreateWallet(t) PROVE Typed'
  <2>1. t \in Tabs /\ User(t) \in Users
    BY OpenPages
  <2>2. CASE HasWallet(User(t))
    BY <1>6, <2>1, <2>2, OverKeepsTypes DEF CreateWallet
  <2>3. CASE ~HasWallet(User(t))
    <3>1. PICK a \in Created \ made :
            /\ wallet' = [wallet EXCEPT ![User(t)] =
                 [address |-> a, type |-> "custodial", key |-> TRUE]]
            /\ made' = made \cup {a}
      BY <1>6, <2>3 DEF CreateWallet
    <3>2. wallet' \in [Users -> WalletDocument \cup {NoWallet}]
      BY <2>1, <3>1 DEF WalletDocument
    <3> QED
      BY <1>6, <2>1, <2>3, <3>1, <3>2 DEF CreateWallet
  <2> QED
    BY <2>2, <2>3
<1>7. ASSUME NEW t \in Open, FindUnlinkable(t) PROVE Typed'
  BY <1>7, OpenPages DEF FindUnlinkable
<1>8. ASSUME NEW t \in Open, DeleteWallet(t) PROVE Typed'
  BY <1>8, OpenPages DEF DeleteWallet
<1>9. ASSUME NEW t \in Open, Answered(t) PROVE Typed'
  <2>1. t \in Tabs /\ User(t) \in Users
    BY OpenPages
  <2>2. page' \in [Tabs -> [connected : BOOLEAN,
                            type : {"none", "external", "custodial"}]]
    <3>1. CASE pc[t] = "unlinked"
      <4>1. page' = [page EXCEPT ![t].connected = FALSE]
        BY <1>9, <3>1 DEF Answered
      <4> QED
        BY <2>1, <4>1
    <3>2. CASE pc[t] # "unlinked"
      <4>1. PICK ty \in {"external", "custodial"} :
              page' = [page EXCEPT ![t] = [connected |-> TRUE, type |-> ty]]
        BY <1>9, <3>2 DEF Answered
      <4> QED
        BY <2>1, <4>1
    <3> QED
      BY <3>1, <3>2
  <2>3. remembered' \subseteq Users
    BY <1>9, <2>1 DEF Answered
  <2> QED
    BY <1>9, <2>1, <2>2, <2>3, OverKeepsTypes DEF Answered
<1>10. ASSUME NEW t \in Open, AnswerLost(t) PROVE Typed'
  BY <1>10, OpenPages, OverKeepsTypes DEF AnswerLost
<1>11. CASE UNCHANGED vars
  BY <1>11 DEF vars
<1> QED
  BY <1>1, <1>2, <1>3, <1>4, <1>5, <1>6, <1>7, <1>8, <1>9, <1>10, <1>11
  DEF Next

(* Every variable of WalletLink stays in its range, whatever overlaps.        *)
THEOREM TypeCorrect == Spec => []TypeOK
<1>1. Typed => TypeOK
  BY DEF Typed
<1> QED
  BY <1>1, TypedInit, TypedNext, PTL DEF Spec

-----------------------------------------------------------------------------
(* One owner per address *)

OneOwner == MadeKnown /\ OneOwnerPerAddress

LEMMA OneOwnerInit == Init => OneOwner
  BY DEF Init, OneOwner, MadeKnown, OneOwnerPerAddress, HasWallet

\* A wallet written at an address that nobody else holds.
LEMMA OneOwnerWrite ==
  ASSUME TypeOK, OneOwner, NEW u \in Users, NEW w \in WalletDocument,
         wallet' = [wallet EXCEPT ![u] = w],
         made \subseteq made', w.address \in Created => w.address \in made',
         \A v \in Users \ {u} : wallet[v] # NoWallet
                                  => wallet[v].address # w.address
  PROVE  OneOwner'
<1>1. wallet'[u] = w /\ \A v \in Users \ {u} : wallet'[v] = wallet[v]
  BY DEF TypeOK
<1>2. MadeKnown'
  BY <1>1 DEF MadeKnown, OneOwner
<1>3. OneOwnerPerAddress'
  BY <1>1 DEF OneOwner, OneOwnerPerAddress, HasWallet
<1> QED
  BY <1>2, <1>3 DEF OneOwner

LEMMA OneOwnerNext == Typed /\ OneOwner /\ [Next]_vars => OneOwner'
<1> SUFFICES ASSUME Typed, OneOwner, [Next]_vars PROVE OneOwner'
  OBVIOUS
<1>1. scenario \in Scenarios /\ TypeOK
  BY DEF Typed, TypeOK
<1>2. ASSUME UNCHANGED <<wallet, made>> PROVE OneOwner'
  BY <1>2 DEF OneOwner, MadeKnown, OneOwnerPerAddress, HasWallet
<1>3. ASSUME NEW t \in Open, UpsertWallet(t) PROVE OneOwner'
  <2>1. t \in Tabs /\ User(t) \in Users
    BY <1>1, OpenPages
  <2>2. CASE UNCHANGED wallet
    BY <1>2, <1>3, <2>2 DEF UpsertWallet
  <2>3. CASE /\ Held(addr[t]) \subseteq {User(t)}
             /\ wallet' = [wallet EXCEPT ![User(t)] = Linked(t)]
    <3>1. Linked(t) \in WalletDocument /\ addr[t] \in External
      BY <1>3, <2>1, LinkedType
      DEF UpsertWallet, Connecting, Typed, AddressKnown
    <3>2. Linked(t).address = addr[t]
      BY DEF Linked
    <3>3. \A v \in Users \ {User(t)} : wallet[v] # NoWallet
                                         => wallet[v].address # addr[t]
      BY <2>3 DEF Held, HasWallet
    <3>4. made' = made /\ addr[t] \notin Created
      BY <1>3, <3>1, AddressAssumption DEF UpsertWallet
    <3> HIDE DEF User
    <3> DEFINE w == Linked(t)
    <3>5. /\ w \in WalletDocument /\ wallet' = [wallet EXCEPT ![User(t)] = w]
          /\ made \subseteq made' /\ w.address \notin Created
          /\ \A v \in Users \ {User(t)} : wallet[v] # NoWallet
                                          => wallet[v].address # w.address
      BY <2>3, <3>1, <3>2, <3>3, <3>4
    <3> HIDE DEF w
    <3> QED
      BY <1>1, <2>1, <3>5, OneOwnerWrite
  <2> QED
    BY <1>3, <2>2, <2>3 DEF UpsertWallet
<1>4. ASSUME NEW t \in Open, CreateWallet(t) PROVE OneOwner'
  <2>1. User(t) \in Users
    BY <1>1, OpenPages
  <2>2. CASE HasWallet(User(t))
    BY <1>2, <1>4, <2>2 DEF CreateWallet
  <2>3. CASE ~HasWallet(User(t))
    <3>1. PICK a \in Created \ made :
            /\ wallet' = [wallet EXCEPT ![User(t)] =
                 [address |-> a, type |-> "custodial", key |-> TRUE]]
            /\ made' = made \cup {a}
      BY <1>4, <2>3 DEF CreateWallet
    <3> DEFINE w == [address |-> a, type |-> "custodial", key |-> TRUE]
    <3>2. /\ w \in WalletDocument /\ w.address = a
          /\ wallet' = [wallet EXCEPT ![User(t)] = w]
      BY <3>1 DEF WalletDocument
    <3>3. \A v \in Users : wallet[v] # NoWallet => wallet[v].address # a
      BY DEF OneOwner, MadeKnown
    <3> HIDE DEF User, w
    <3> QED
      BY <1>1, <2>1, <3>1, <3>2, <3>3, OneOwnerWrite
  <2> QED
    BY <2>2, <2>3
<1>5. ASSUME NEW t \in Open, DeleteWallet(t) PROVE OneOwner'
  <2>1. User(t) \in Users
    BY <1>1, OpenPages
  <2>2. /\ wallet' = [wallet EXCEPT ![User(t)] = NoWallet]
        /\ made' = made
    BY <1>5 DEF DeleteWallet
  <2> QED
    BY <1>1, <2>1, <2>2
    DEF TypeOK, OneOwner, MadeKnown, OneOwnerPerAddress, HasWallet
<1>6. ASSUME NEW t \in Open, LoadAccount(t) \/ AccountsChanged(t)
        \/ ExpireChallenge(t) \/ FindNone(t) \/ FindUnlinkable(t)
        \/ Answered(t) \/ AnswerLost(t)
      PROVE OneOwner'
  BY <1>2, <1>6 DEF LoadAccount, AccountsChanged, ExpireChallenge, FindNone,
    FindUnlinkable, Answered, AnswerLost
<1>7. ASSUME NEW t \in Open, Connect(t) PROVE OneOwner'
  BY <1>2, <1>3, <1>7 DEF Connect, AskChallenge, StoreChallenge,
    FindChallenge, ConsumeChallenge, CheckOwner
<1>8. CASE UNCHANGED vars
  BY <1>2, <1>8 DEF vars
<1> QED
  BY <1>4, <1>5, <1>6, <1>7, <1>8 DEF Next

(* No two accounts hold one address, although two requests may both have      *)
(* passed linkWallet's look for another owner before either wrote.            *)
THEOREM OneOwnerPerAddressHolds == Spec => []OneOwnerPerAddress
<1>1. OneOwner => OneOwnerPerAddress
  BY DEF OneOwner
<1> QED
  BY <1>1, TypedInit, TypedNext, OneOwnerInit, OneOwnerNext, PTL DEF Spec

-----------------------------------------------------------------------------
(* A step is one page's: what it leaves alone. *)

Step(t) ==
  \/ LoadAccount(t) \/ AccountsChanged(t) \/ ExpireChallenge(t)
  \/ \E a \in External : AskChallenge(t, a)
  \/ StoreChallenge(t) \/ FindChallenge(t) \/ ConsumeChallenge(t)
  \/ CheckOwner(t) \/ UpsertWallet(t)
  \/ FindNone(t) \/ CreateWallet(t) \/ FindUnlinkable(t) \/ DeleteWallet(t)
  \/ Answered(t) \/ AnswerLost(t)

LEMMA NextIsStep == Next => \E t \in Open : Step(t)
  BY DEF Next, Connect, Step

\* Other pages and other accounts; a page leaves idle when its account is free,
\* and only a page that is busy writes the wallet.
Apart(t) ==
  /\ UNCHANGED scenario
  /\ \A o \in Tabs \ {t} : pc'[o] = pc[o] /\ page'[o] = page[o]
  /\ \A u \in Users \ {User(t)} :
       wallet'[u] = wallet[u] /\ (u \in remembered' <=> u \in remembered)
  /\ pc[t] = "idle" /\ pc'[t] # "idle" => Free(t)
  /\ wallet' # wallet => pc[t] # "idle" /\ pc'[t] # "unlinking"
  /\ pc'[t] = "unlinking" => pc[t] = "unlinking" \/ MayUnlink(User(t))
  /\ wallet[User(t)] # NoWallet /\ wallet'[User(t)] = NoWallet
       => pc[t] = "unlinking"

LEMMA Footprint ==
  ASSUME Typed, NEW t \in Open, Step(t)
  PROVE  Apart(t)
<1>0. t \in Tabs /\ User(t) \in Users
  BY OpenPages DEF Typed, TypeOK
<1> USE <1>0 DEF Typed, TypeOK, Apart
<1>1. CASE LoadAccount(t)
  BY <1>1 DEF LoadAccount
<1>2. CASE AccountsChanged(t)
  BY <1>2 DEF AccountsChanged
<1>3. CASE ExpireChallenge(t)
  BY <1>3 DEF ExpireChallenge
<1>4. CASE StoreChallenge(t)
  BY <1>4 DEF StoreChallenge
<1>5. CASE FindChallenge(t)
  BY <1>5 DEF FindChallenge, Over
<1>6. CASE ConsumeChallenge(t)
  BY <1>6 DEF ConsumeChallenge, Over
<1>7. CASE CheckOwner(t)
  BY <1>7 DEF CheckOwner, Over
<1>8. CASE UpsertWallet(t)
  <2>1. Linked(t) # NoWallet
    BY <1>8, LinkedType, AddressAssumption
    DEF UpsertWallet, Connecting, WalletDocument
  <2> QED
    BY <1>8, <2>1 DEF UpsertWallet, Over
<1>9. CASE FindNone(t)
  BY <1>9 DEF FindNone, Free
<1>10. CASE CreateWallet(t)
  <2>1. wallet[User(t)] # NoWallet => wallet' = wallet
    BY <1>10 DEF CreateWallet, HasWallet
  <2> QED
    BY <1>10, <2>1 DEF CreateWallet, Over
<1>11. CASE FindUnlinkable(t)
  BY <1>11 DEF FindUnlinkable
<1>12. CASE DeleteWallet(t)
  BY <1>12 DEF DeleteWallet
<1>13. CASE Answered(t)
  BY <1>13 DEF Answered, Over
<1>14. CASE AnswerLost(t)
  BY <1>14 DEF AnswerLost, Over
<1>15. ASSUME NEW a \in External, AskChallenge(t, a) PROVE Apart(t)
  BY <1>15 DEF AskChallenge, Free
<1> QED
  BY <1>1, <1>2, <1>3, <1>4, <1>5, <1>6, <1>7, <1>8,
     <1>9, <1>10, <1>11, <1>12, <1>13, <1>14, <1>15 DEF Step

-----------------------------------------------------------------------------
(* Requests of one account that come one after another *)

\* At most one page of an account is busy, and what unlinkWallet read is still
\* so when it deletes.
SerialInv ==
  ~Hazard("overlap") =>
    /\ \A t, o \in Open :
         User(t) = User(o) /\ pc[t] # "idle" /\ pc[o] # "idle" => t = o
    /\ \A t \in Open : pc[t] = "unlinking" => MayUnlink(User(t))

LEMMA SerialInit == Init => SerialInv
  BY OpenPages DEF Init, SerialInv

LEMMA SerialNext == Typed /\ SerialInv /\ [Next]_vars => SerialInv'
<1> SUFFICES ASSUME Typed, SerialInv, [Next]_vars PROVE SerialInv'
  OBVIOUS
<1>0. scenario \in Scenarios
  BY DEF Typed, TypeOK
<1>1. CASE UNCHANGED vars
  BY <1>1 DEF vars, SerialInv, Hazard, MayUnlink, HasWallet
<1>2. ASSUME NEW t \in Open, Step(t), ~Hazard("overlap") PROVE SerialInv'
  <2>1. Apart(t) /\ t \in Tabs /\ Open \subseteq Tabs
    BY <1>0, <1>2, Footprint, OpenPages
  <2>2. /\ \A r, o \in Open :
             User(r) = User(o) /\ pc[r] # "idle" /\ pc[o] # "idle" => r = o
        /\ \A o \in Open : pc[o] = "unlinking" => MayUnlink(User(o))
    BY <1>2 DEF SerialInv
  <2>3. pc'[t] # "idle" =>
          \A o \in Open \ {t} : User(o) = User(t) => pc[o] = "idle"
    BY <1>2, <2>1, <2>2 DEF Apart, Free, TabsOf
  <2>4. \A r, o \in Open :
          User(r) = User(o) /\ pc'[r] # "idle" /\ pc'[o] # "idle" => r = o
    BY <2>1, <2>2, <2>3 DEF Apart
  <2>5. ASSUME NEW o \in Open, pc'[o] = "unlinking"
        PROVE  MayUnlink(User(o))'
    <3>1. CASE o = t
      <4>1. MayUnlink(User(t)) /\ wallet' = wallet
        BY <2>1, <2>2, <2>5, <3>1 DEF Apart
      <4> QED
        BY <2>1, <3>1, <4>1 DEF Apart, MayUnlink, HasWallet
    <3>2. CASE o # t
      <4>1. pc[o] = "unlinking" /\ MayUnlink(User(o)) /\ UNCHANGED scenario
        BY <2>1, <2>2, <2>5, <3>2 DEF Apart
      <4>2. User(o) \in Users
        BY <1>0, OpenPages
      <4>3. wallet'[User(o)] = wallet[User(o)]
        BY <2>1, <2>2, <3>2, <4>1, <4>2 DEF Apart
      <4> QED
        BY <4>1, <4>3 DEF MayUnlink, HasWallet
    <3> QED
      BY <3>1, <3>2
  <2> QED
    BY <2>1, <2>4, <2>5 DEF SerialInv, Apart, Hazard
<1>3. ASSUME NEW t \in Open, Step(t), Hazard("overlap") PROVE SerialInv'
  <2>1. UNCHANGED scenario
    BY <1>3, Footprint DEF Apart
  <2> QED
    BY <1>3, <2>1 DEF SerialInv, Hazard
<1> QED
  BY <1>1, <1>2, <1>3, NextIsStep

(* An app wallet is never deleted while the requests of its account come one   *)
(* after another: what unlinkWallet read of the type still holds when it       *)
(* deletes, however old what the page shows is.                                *)
THEOREM SerialUnlinkKeepsAppWalletsHolds == Spec => SerialUnlinkKeepsAppWallets
<1>1. Typed /\ SerialInv /\ [Next]_vars =>
        [~Hazard("overlap") => \A u \in Users :
           HasWallet(u) /\ wallet[u].type = "custodial"
             => wallet'[u] # NoWallet]_vars
  <2> SUFFICES ASSUME Typed, SerialInv, Next, ~Hazard("overlap"),
                      NEW u \in Users, HasWallet(u),
                      wallet[u].type = "custodial", wallet'[u] = NoWallet
               PROVE  FALSE
    OBVIOUS
  <2>1. PICK t \in Open : Step(t)
    BY NextIsStep
  <2>2. Apart(t)
    BY <2>1, Footprint
  <2>3. u = User(t) /\ pc[t] = "unlinking"
    BY <2>2 DEF Apart, HasWallet
  <2> QED
    BY <2>1, <2>3 DEF SerialInv, MayUnlink
<1> QED
  BY <1>1, TypedInit, TypedNext, SerialInit, SerialNext, PTL
  DEF Spec, SerialUnlinkKeepsAppWallets

-----------------------------------------------------------------------------
(* One page per account, no lost answer, no switched account *)

Absent(t) == ~HasWallet(User(t)) /\ User(t) \notin remembered

\* What the page of a calm account and its wallet have to do with each other.
CalmPage(t) ==
  LET u == User(t) IN
    /\ pc[t] = "idle" =>
         /\ page[t].connected <=> HasWallet(u)
         /\ HasWallet(u) => page[t].type = wallet[u].type
         /\ u \in remembered => HasWallet(u)
    /\ pc[t] \in (Connecting \ {"linked"}) \cup {"creating"} =>
         ~page[t].connected /\ Absent(t)
    /\ pc[t] = "linked" => HasWallet(u) /\ wallet[u].type = "external"
    /\ pc[t] = "created" => HasWallet(u) /\ wallet[u].type = "custodial"
    /\ pc[t] = "unlinking" => page[t].connected
    /\ pc[t] = "unlinked" => ~HasWallet(u)

CalmInv == Calm => \A t \in Open : CalmPage(t)

LEMMA CalmInit == Init => CalmInv
<1> SUFFICES ASSUME Init PROVE CalmInv
  OBVIOUS
<1>1. \A t \in Open : t \in Tabs /\ User(t) \in Users
  BY OpenPages DEF Init
<1> QED
  BY <1>1 DEF Init, CalmInv, CalmPage, Connecting, HasWallet

LEMMA CalmOwnPage ==
  ASSUME Typed, Calm, NEW t \in Open, CalmPage(t), Step(t)
  PROVE  CalmPage(t)'
<1>0. t \in Tabs /\ User(t) \in Users
  BY OpenPages DEF Typed, TypeOK
<1>h. \A h : ~Hazard(h)
  BY DEF Calm, Hazard
<1> USE <1>0, <1>h DEF Typed, TypeOK, CalmPage, Absent, Connecting, HasWallet
<1>1. CASE LoadAccount(t)
  BY <1>1 DEF LoadAccount
<1>2. CASE AccountsChanged(t)
  BY <1>2 DEF AccountsChanged
<1>3. CASE ExpireChallenge(t)
  BY <1>3 DEF ExpireChallenge
<1>4. CASE StoreChallenge(t)
  BY <1>4 DEF StoreChallenge
<1>5. CASE FindChallenge(t)
  BY <1>5 DEF FindChallenge, Over
<1>6. CASE ConsumeChallenge(t)
  BY <1>6 DEF ConsumeChallenge, Over
<1>7. CASE CheckOwner(t)
  BY <1>7 DEF CheckOwner, Over
<1>8. CASE UpsertWallet(t)
  <2>1. Linked(t) # NoWallet /\ Linked(t).type = "external"
    <3>1. pc[t] \in Connecting /\ Typed
      BY <1>8 DEF UpsertWallet
    <3>2. Linked(t) \in WalletDocument
      BY <3>1, LinkedType
    <3> QED
      BY <3>2, AddressAssumption DEF WalletDocument, Linked
  <2> QED
    BY <1>8, <2>1 DEF UpsertWallet, Over
<1>9. CASE FindNone(t)
  BY <1>9 DEF FindNone, Free
<1>10. CASE CreateWallet(t)
  <2>1. PICK a \in Created :
          /\ wallet' = [wallet EXCEPT ![User(t)] =
               [address |-> a, type |-> "custodial", key |-> TRUE]]
          /\ pc' = [pc EXCEPT ![t] = "created"]
    BY <1>10 DEF CreateWallet
  <2>2. [address |-> a, type |-> "custodial", key |-> TRUE] # NoWallet
    <3>1. [address |-> a, type |-> "custodial", key |-> TRUE] \in WalletDocument
      BY DEF WalletDocument
    <3> QED
      BY <3>1, AddressAssumption DEF WalletDocument
  <2> QED
    BY <1>10, <2>1, <2>2 DEF CreateWallet
<1>11. CASE FindUnlinkable(t)
  BY <1>11 DEF FindUnlinkable
<1>12. CASE DeleteWallet(t)
  BY <1>12 DEF DeleteWallet
<1>13. CASE Answered(t)
  BY <1>13 DEF Answered, Over
<1>14. CASE AnswerLost(t)
  BY <1>14 DEF AnswerLost, Over
<1>15. ASSUME NEW a \in External, AskChallenge(t, a) PROVE CalmPage(t)'
  BY <1>15 DEF AskChallenge, Free
<1> QED
  BY <1>1, <1>2, <1>3, <1>4, <1>5, <1>6, <1>7, <1>8,
     <1>9, <1>10, <1>11, <1>12, <1>13, <1>14, <1>15 DEF Step

LEMMA CalmNext == Typed /\ CalmInv /\ [Next]_vars => CalmInv'
<1> SUFFICES ASSUME Typed, CalmInv, [Next]_vars PROVE CalmInv'
  OBVIOUS
<1>0. scenario \in Scenarios
  BY DEF Typed, TypeOK
<1>1. CASE UNCHANGED vars
  BY <1>1 DEF vars, CalmInv, Calm, CalmPage, Absent, HasWallet
<1>2. ASSUME NEW t \in Open, Step(t), Calm PROVE CalmInv'
  <2>1. Apart(t) /\ t \in Tabs /\ Open \subseteq Tabs
    BY <1>0, <1>2, Footprint, OpenPages
  <2>2. CalmPage(t)'
    BY <1>2, CalmOwnPage DEF CalmInv
  <2>3. ASSUME NEW o \in Open, o # t PROVE CalmPage(o)'
    <3>1. User(o) # User(t) /\ User(o) \in Users /\ CalmPage(o)
      BY <1>0, <1>2, <2>3, OpenPages DEF Calm, CalmInv
    <3>2. /\ pc'[o] = pc[o] /\ page'[o] = page[o]
          /\ wallet'[User(o)] = wallet[User(o)]
          /\ User(o) \in remembered' <=> User(o) \in remembered
          /\ UNCHANGED scenario
      BY <2>1, <2>3, <3>1 DEF Apart
    <3> QED
      BY <3>1, <3>2 DEF CalmPage, Absent, HasWallet
  <2> QED
    BY <2>1, <2>2, <2>3 DEF CalmInv, Apart
<1>3. ASSUME NEW t \in Open, Step(t), ~Calm PROVE CalmInv'
  <2>1. UNCHANGED scenario
    BY <1>3, Footprint DEF Apart
  <2> QED
    BY <1>3, <2>1 DEF CalmInv, Calm
<1> QED
  BY <1>1, <1>2, <1>3, NextIsStep

(* In calm weather a page at rest shows the wallet the account has, whichever  *)
(* sequence of connecting, creating, unlinking and reloading came before.      *)
THEOREM CalmPageShowsTheWalletHolds == Spec => []CalmPageShowsTheWallet
<1>1. CalmInv => CalmPageShowsTheWallet
  BY DEF CalmInv, CalmPage, CalmPageShowsTheWallet
<1> QED
  BY <1>1, TypedInit, TypedNext, CalmInit, CalmNext, PTL DEF Spec

=============================================================================
