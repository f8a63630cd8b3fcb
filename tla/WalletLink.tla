----------------------------- MODULE WalletLink -----------------------------
(* The wallet of an account: proving that one owns an address (challenge,      *)
(* signature, link), creating an app wallet whose key the server keeps, and    *)
(* unlinking, each started from an Account page that shows what it last heard. *)
(* A handler is split at its awaits; the unique indexes of Wallet (userId and  *)
(* address) refuse the writes that break them.                                 *)
EXTENDS Naturals, FiniteSets

CONSTANTS
  Users,           \* accounts
  External,        \* addresses held by the browsers' wallet provider
  Created,         \* addresses of app wallets, each generated once
  Tabs,            \* Account pages
  NoWallet,        \* the account has no Wallet document
  NoAddress,
  Scenarios        \* the instances checked; see ScenariosAssumption

\* user: the account of each page that is open.  hazards: "overlap", two
\* requests of one account at the same time; "lost", an answer that does not
\* reach its page; "switched", the wallet provider reports another account.
ASSUME ScenariosAssumption ==
  \A s \in Scenarios :
    /\ \E open \in SUBSET Tabs : s.user \in [open -> Users]
    /\ s.hazards \subseteq {"overlap", "lost", "switched"}

ASSUME AddressAssumption ==
  /\ External \cap Created = {}
  /\ NoAddress \notin External \cup Created
  /\ NoWallet \notin [address : External \cup Created,
                      type : {"external", "custodial"}, key : BOOLEAN]

VARIABLES
  scenario,
  wallet,     \* the Wallet document of each account; key: its private key is kept
  made,       \* app wallets ever created
  challenge,  \* address of the open WalletChallenge made for each page
  page,       \* what each page shows: connected and walletType
  remembered, \* accounts whose browser remembers a connected wallet
  addr,       \* the address a page connects
  pc          \* where the page's request is

vars == <<scenario, wallet, made, challenge, page, remembered, addr, pc>>

WalletDocument == [address : External \cup Created,
                   type : {"external", "custodial"}, key : BOOLEAN]

User(t) == scenario.user[t]
Hazard(h) == h \in scenario.hazards
Open == DOMAIN scenario.user
TabsOf(u) == {t \in Open : User(t) = u}
HasWallet(u) == wallet[u] # NoWallet
Held(a) == {u \in Users : HasWallet(u) /\ wallet[u].address = a}

Init ==
  /\ scenario \in Scenarios
  /\ wallet = [u \in Users |-> NoWallet]
  /\ made = {}
  /\ challenge = [t \in Tabs |-> NoAddress]
  /\ page = [t \in Tabs |-> [connected |-> FALSE, type |-> "none"]]
  /\ remembered = {}
  /\ addr = [t \in Tabs |-> NoAddress]
  /\ pc = [t \in Tabs |-> "idle"]

-----------------------------------------------------------------------------
\* loadAccount: the server's wallet, or else what the browser remembers.
LoadAccount(t) ==
  /\ pc[t] = "idle"
  /\ LET u == User(t) IN
     /\ page' = [page EXCEPT ![t] =
                  [connected |-> HasWallet(u) \/ u \in remembered,
                   type |-> IF HasWallet(u) THEN wallet[u].type ELSE "none"]]
     /\ remembered' = IF HasWallet(u) THEN remembered \cup {u} ELSE remembered
  /\ UNCHANGED <<scenario, wallet, made, challenge, addr, pc>>

\* handleAccountsChanged: a connected page drops its wallet, whatever its type.
AccountsChanged(t) ==
  /\ Hazard("switched") /\ page[t].connected
  /\ page' = [page EXCEPT ![t].connected = FALSE]
  /\ remembered' = remembered \ {User(t)}
  /\ UNCHANGED <<scenario, wallet, made, challenge, addr, pc>>

\* A page starts one request at a time; without the hazard so does an account.
Free(t) == /\ pc[t] = "idle"
           /\ Hazard("overlap") \/ \A o \in TabsOf(User(t)) : pc[o] = "idle"

\* The request ends; one that failed leaves what the page shows as it was.
Over(t) == /\ pc' = [pc EXCEPT ![t] = "idle"]
           /\ addr' = [addr EXCEPT ![t] = NoAddress]

\* handleConnectAndVerify asks for a challenge: those open for the same account
\* and address are used up first,
AskChallenge(t, a) ==
  /\ Free(t) /\ ~page[t].connected
  /\ addr' = [addr EXCEPT ![t] = a]
  /\ challenge' = [o \in Tabs |-> IF o \in TabsOf(User(t)) /\ challenge[o] = a
                                  THEN NoAddress ELSE challenge[o]]
  /\ pc' = [pc EXCEPT ![t] = "challenging"]
  /\ UNCHANGED <<scenario, wallet, made, page, remembered>>

\* then a new one is stored and the wallet asks its owner to sign it.
StoreChallenge(t) ==
  /\ pc[t] = "challenging"
  /\ challenge' = [challenge EXCEPT ![t] = addr[t]]
  /\ pc' = [pc EXCEPT ![t] = "signing"]
  /\ UNCHANGED <<scenario, wallet, made, page, remembered, addr>>

ExpireChallenge(t) ==
  /\ challenge[t] # NoAddress
  /\ challenge' = [challenge EXCEPT ![t] = NoAddress]
  /\ UNCHANGED <<scenario, wallet, made, page, remembered, addr, pc>>

\* linkWallet finds the open challenge and verifies the signature,
FindChallenge(t) ==
  /\ pc[t] = "signing"
  /\ \/ /\ challenge[t] # NoAddress
        /\ pc' = [pc EXCEPT ![t] = "verified"]
        /\ UNCHANGED addr
     \/ Over(t)                       \* none open, or the owner declined
  /\ UNCHANGED <<scenario, wallet, made, challenge, page, remembered>>

\* uses it up if it is still open,
ConsumeChallenge(t) ==
  /\ pc[t] = "verified"
  /\ \/ /\ challenge[t] # NoAddress
        /\ challenge' = [challenge EXCEPT ![t] = NoAddress]
        /\ pc' = [pc EXCEPT ![t] = "consumed"]
        /\ UNCHANGED addr
     \/ challenge[t] = NoAddress /\ Over(t) /\ UNCHANGED challenge
  /\ UNCHANGED <<scenario, wallet, made, page, remembered>>

\* looks for another owner of the address,
CheckOwner(t) ==
  /\ pc[t] = "consumed"
  /\ IF Held(addr[t]) \subseteq {User(t)}
     THEN pc' = [pc EXCEPT ![t] = "checked"] /\ UNCHANGED addr ELSE Over(t)
  /\ UNCHANGED <<scenario, wallet, made, challenge, page, remembered>>

\* The wallet a link leaves behind.
Linked(t) == [address |-> addr[t], type |-> "external", key |-> FALSE]

\* Mutant of UpsertWallet: no unique index on address.
UpsertUnindexed(t) ==
  /\ pc[t] = "checked"
  /\ wallet' = [wallet EXCEPT ![User(t)] = Linked(t)]
  /\ pc' = [pc EXCEPT ![t] = "linked"]
  /\ UNCHANGED <<scenario, made, challenge, page, remembered, addr>>

\* and writes the account's wallet over whatever it had, key fields removed.
UpsertWallet(t) ==
  /\ pc[t] = "checked"
  /\ \/ /\ Held(addr[t]) \subseteq {User(t)}
        /\ wallet' = [wallet EXCEPT ![User(t)] = Linked(t)]
        /\ pc' = [pc EXCEPT ![t] = "linked"]
        /\ UNCHANGED addr
     \/ ~(Held(addr[t]) \subseteq {User(t)}) /\ Over(t) /\ UNCHANGED wallet
  /\ UNCHANGED <<scenario, made, challenge, page, remembered>>

-----------------------------------------------------------------------------
\* createManagedWallet: an account with a wallet is refused,
FindNone(t) ==
  /\ Free(t) /\ ~page[t].connected
  /\ ~HasWallet(User(t))                 \* otherwise refused, nothing changes
  /\ pc' = [pc EXCEPT ![t] = "creating"]
  /\ UNCHANGED <<scenario, wallet, made, challenge, page, remembered, addr>>

\* otherwise a key is generated and stored, unless a wallet came in between.
CreateWallet(t) ==
  /\ pc[t] = "creating"
  /\ \/ /\ ~HasWallet(User(t))
        /\ \E a \in Created \ made :
             /\ wallet' = [wallet EXCEPT ![User(t)] =
                            [address |-> a, type |-> "custodial", key |-> TRUE]]
             /\ made' = made \cup {a}
        /\ pc' = [pc EXCEPT ![t] = "created"]
        /\ UNCHANGED addr
     \/ HasWallet(User(t)) /\ Over(t) /\ UNCHANGED <<wallet, made>>
  /\ UNCHANGED <<scenario, challenge, page, remembered>>

\* Mutant of MayUnlink: the type is not looked at.
MayAlwaysUnlink(u) == wallet[u] = wallet[u]

\* unlinkWallet reads the type and refuses for an app wallet,
MayUnlink(u) == HasWallet(u) => wallet[u].type # "custodial"

FindUnlinkable(t) ==
  /\ Free(t) /\ page[t].connected /\ page[t].type # "custodial"
  /\ MayUnlink(User(t))                  \* otherwise refused, nothing changes
  /\ pc' = [pc EXCEPT ![t] = "unlinking"]
  /\ UNCHANGED <<scenario, wallet, made, challenge, page, remembered, addr>>

\* then deletes the wallet the account has by now.
DeleteWallet(t) ==
  /\ pc[t] = "unlinking"
  /\ wallet' = [wallet EXCEPT ![User(t)] = NoWallet]
  /\ pc' = [pc EXCEPT ![t] = "unlinked"]
  /\ UNCHANGED <<scenario, made, challenge, page, remembered, addr>>

\* Mutant of Answered: onLinked is given the address only.
AnsweredWithoutType(t) ==
  /\ pc[t] \in {"linked", "created", "unlinked"}
  /\ Over(t)
  /\ page' = [page EXCEPT ![t].connected = (pc[t] # "unlinked")]
  /\ remembered' = IF pc[t] = "unlinked" THEN remembered \ {User(t)}
                   ELSE remembered \cup {User(t)}
  /\ UNCHANGED <<scenario, wallet, made, challenge>>

\* onLinked and onDisconnected: the page shows what it was answered.
Answered(t) ==
  /\ pc[t] \in {"linked", "created", "unlinked"}
  /\ Over(t)
  /\ IF pc[t] = "unlinked"
     THEN /\ page' = [page EXCEPT ![t].connected = FALSE]
          /\ remembered' = remembered \ {User(t)}
     ELSE /\ page' = [page EXCEPT ![t] =
               [connected |-> TRUE,
                type |-> IF pc[t] = "linked" THEN "external" ELSE "custodial"]]
          /\ remembered' = remembered \cup {User(t)}
  /\ UNCHANGED <<scenario, wallet, made, challenge>>

AnswerLost(t) ==
  /\ Hazard("lost") /\ pc[t] \in {"linked", "created", "unlinked"}
  /\ Over(t)
  /\ UNCHANGED <<scenario, wallet, made, challenge, page, remembered>>

Connect(t) == \/ \E a \in External : AskChallenge(t, a)
              \/ StoreChallenge(t) \/ FindChallenge(t) \/ ConsumeChallenge(t)
              \/ CheckOwner(t) \/ UpsertWallet(t)

Next ==
  \E t \in Open :
    \/ LoadAccount(t) \/ AccountsChanged(t) \/ ExpireChallenge(t)
    \/ Connect(t) \/ FindNone(t) \/ CreateWallet(t)
    \/ FindUnlinkable(t) \/ DeleteWallet(t) \/ Answered(t) \/ AnswerLost(t)

Spec == Init /\ [][Next]_vars

-----------------------------------------------------------------------------
(* Every variable stays in its range.                                          *)
TypeOK ==
  /\ scenario \in Scenarios
  /\ wallet \in [Users -> WalletDocument \cup {NoWallet}]
  /\ made \subseteq Created
  /\ challenge \in [Tabs -> External \cup {NoAddress}]
  /\ page \in [Tabs -> [connected : BOOLEAN,
                        type : {"none", "external", "custodial"}]]
  /\ remembered \subseteq Users
  /\ addr \in [Tabs -> External \cup {NoAddress}]
  /\ pc \in [Tabs -> {"idle", "challenging", "signing", "verified", "consumed",
                      "checked", "linked", "creating", "created", "unlinking",
                      "unlinked"}]

(* No two accounts hold one address, although both may have passed the look    *)
(* for another owner before either wrote: a payment to it has one receiver.    *)
OneOwnerPerAddress ==
  \A u, v \in Users :
    HasWallet(u) /\ HasWallet(v) /\ wallet[u].address = wallet[v].address
      => u = v

\* One page per account, every answer arrives, the provider stays on its account.
Calm == /\ scenario.hazards = {}
        /\ \A t, o \in Open : User(t) = User(o) => t = o

(* In calm weather a page at rest shows the wallet the account has, of the     *)
(* right type: it never offers to connect over an app wallet.                  *)
CalmPageShowsTheWallet ==
  Calm => \A t \in Open : LET u == User(t) IN
            pc[t] = "idle" =>
              /\ page[t].connected <=> HasWallet(u)
              /\ HasWallet(u) => page[t].type = wallet[u].type

(* While an account's requests come one after another, unlinking never deletes *)
(* an app wallet, however old what the page shows is.                          *)
SerialUnlinkKeepsAppWallets ==
  [][~Hazard("overlap")
       => \A u \in Users :
            HasWallet(u) /\ wallet[u].type = "custodial" => wallet'[u] # NoWallet]_vars

=============================================================================
