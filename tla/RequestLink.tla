---------------------------- MODULE RequestLink ----------------------------
(* One payment request link: the requester's page makes and may revoke it,     *)
(* each payer opens it on the send page, which resolves the link, reserves it, *)
(* posts the transfer and, when that fails, releases the reservation.  A       *)
(* request is the set of fields it carries; a route lets a request in when it  *)
(* knows every field and finds the ones it needs.                              *)
EXTENDS Naturals

CONSTANTS
  Payers,          \* accounts that open the link
  Nobody           \* no payer: paidByUserId is unset

VARIABLES
  link,            \* PaymentRequestLink.status, "none" before it is made
  paidBy,          \* its paidByUserId
  hasTransaction,  \* its transactionId is set
  expired,         \* expiresAt has passed
  held,            \* claimingAt is older than five minutes
  page             \* the send page of each payer

vars == <<link, paidBy, hasTransaction, expired, held, page>>

Payment == {"commitmentKey", "receiverWallet", "amountEth"}

\* The fields each call of the page carries,
PageSends == [resolve |-> {"token"},
              reserve |-> {"token", "assetSymbol"} \cup Payment,
              release |-> {"token"}]

\* those its route knows (allowBodyFields),
Allowed == [resolve |-> {"token", "assetSymbol"} \cup Payment,
            reserve |-> {"token"},
            release |-> {"token"}]

\* and those its handler reads before it looks at the link.  The reservation
\* reads commitmentKey and payment, which it never takes from its body.
Needed == [resolve |-> {"token", "receiverWallet", "amountEth"},
           reserve |-> {"token"} \cup Payment,
           release |-> {"token"}]

LetIn(route) == /\ PageSends[route] \subseteq Allowed[route]
                /\ Needed[route] \subseteq PageSends[route] \cap Allowed[route]

Init == /\ link = "none" /\ paidBy = Nobody
        /\ hasTransaction = FALSE /\ expired = FALSE /\ held = FALSE
        /\ page = [p \in Payers |-> "closed"]

\* POST /request-link: the requester has a verified wallet.
Create == /\ link = "none"
          /\ link' = "active"
          /\ UNCHANGED <<paidBy, hasTransaction, expired, held, page>>

\* POST /request-link/revoke is one guarded write.
Revoke == /\ link = "active"
          /\ link' = "revoked"
          /\ UNCHANGED <<paidBy, hasTransaction, expired, held, page>>

Expire == /\ link # "none" /\ ~expired
          /\ expired' = TRUE
          /\ UNCHANGED <<link, paidBy, hasTransaction, held, page>>

Hold == /\ link = "claiming" /\ ~held
        /\ held' = TRUE
        /\ UNCHANGED <<link, paidBy, hasTransaction, expired, page>>

-----------------------------------------------------------------------------
Open(p) == /\ link # "none" /\ page[p] = "closed"
           /\ page' = [page EXCEPT ![p] = "opened"]
           /\ UNCHANGED <<link, paidBy, hasTransaction, expired, held>>

\* loadRequestLink: only a link shown as active fills in amount and wallet; the
\* amount of a request can not be typed in by the payer.
Resolve(p) ==
  /\ page[p] = "opened"
  /\ \/ /\ LetIn("resolve") /\ link = "active" /\ ~expired
        /\ page' = [page EXCEPT ![p] = "loaded"] /\ UNCHANGED link
     \/ /\ LetIn("resolve") /\ ~(link = "active" /\ ~expired)
        /\ page' = [page EXCEPT ![p] = "refused"]
        /\ link' = IF link = "active" THEN "expired" ELSE link
     \/ /\ ~LetIn("resolve")
        /\ page' = [page EXCEPT ![p] = "refused"] /\ UNCHANGED link
  /\ UNCHANGED <<paidBy, hasTransaction, expired, held>>

\* The link may be taken while free, by its holder, or from a stale holder.
Free(p) == /\ ~expired
           /\ \/ link = "active"
              \/ link = "claiming" /\ (held \/ paidBy = p)

Reserve(p) ==
  /\ page[p] = "loaded"
  /\ \/ /\ LetIn("reserve") /\ Free(p)
        /\ link' = "claiming" /\ paidBy' = p /\ held' = FALSE
        /\ page' = [page EXCEPT ![p] = "reserved"]
     \/ /\ ~(LetIn("reserve") /\ Free(p))
        /\ page' = [page EXCEPT ![p] = "loaded"]
        /\ UNCHANGED <<link, paidBy, held>>
  /\ UNCHANGED <<hasTransaction, expired>>

\* POST /send takes the payer's own reservation and stores the transaction.
Send(p) ==
  /\ page[p] = "reserved"
  /\ \/ /\ link = "claiming" /\ paidBy = p /\ ~expired
        /\ hasTransaction' = TRUE /\ held' = FALSE
        /\ page' = [page EXCEPT ![p] = "sent"]
     \/ /\ ~(link = "claiming" /\ paidBy = p /\ ~expired)
        /\ page' = [page EXCEPT ![p] = "failed"]
        /\ UNCHANGED <<hasTransaction, held>>
  /\ UNCHANGED <<link, paidBy, expired>>

\* settleSubmission: onSuccess marks the link paid, onFailure reopens it.
Settle(p) ==
  /\ page[p] = "sent"
  /\ page' = [page EXCEPT ![p] = "done"]
  /\ UNCHANGED expired
  /\ \/ /\ link' = IF link = "claiming" THEN "paid" ELSE link
        /\ UNCHANGED <<paidBy, hasTransaction, held>>
     \/ /\ link = "claiming"
        /\ link' = IF expired THEN "expired" ELSE "active"
        /\ paidBy' = Nobody /\ hasTransaction' = FALSE /\ held' = FALSE

\* The page gives a reservation back when its transfer was refused.
Release(p) ==
  /\ page[p] = "failed"
  /\ page' = [page EXCEPT ![p] = "loaded"]
  /\ UNCHANGED expired
  /\ IF LetIn("release") /\ link = "claiming" /\ paidBy = p /\ ~hasTransaction
     THEN link' = "active" /\ paidBy' = Nobody /\ held' = FALSE
     ELSE UNCHANGED <<link, paidBy, held>>
  /\ UNCHANGED hasTransaction

Pay(p) == Resolve(p) \/ Reserve(p) \/ Send(p) \/ Settle(p) \/ Release(p)

Next == Create \/ Revoke \/ Expire \/ Hold \/ \E p \in Payers : Open(p) \/ Pay(p)

Spec == Init /\ [][Next]_vars

\* A payer who opened the link goes on until the transfer is settled.
FairSpec == Spec /\ \A p \in Payers : WF_vars(Open(p)) /\ WF_vars(Pay(p))

-----------------------------------------------------------------------------
(* The send page loads the request of a payer who opens an active link, unless *)
(* the link ceases to be active or expires meanwhile.                          *)
OpenedLinkLoads ==
  \A p \in Payers :
    (page[p] = "opened" /\ link = "active")
      ~> (page[p] = "loaded" \/ link # "active" \/ expired)

=============================================================================
