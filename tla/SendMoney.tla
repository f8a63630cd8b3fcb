------------------------------ MODULE SendMoney ------------------------------
(* The payment page: a form, the calls it has in flight, the browser wallet,  *)
(* the poll for the result, and the send route at the other end of the wire.  *)
(* The page goes on while calls are pending: the form may be closed, opened   *)
(* and filled again before an answer comes back.  A custodial payment is      *)
(* broadcast by the server, a linked wallet's by the browser before the call. *)
EXTENDS Naturals, Sequences, FiniteSets

CONSTANTS
  Drafts,       \* payments the user means to make, once each
  Nothing,      \* an empty form, no call in flight
  MaxQuotes,    \* bound: quotes the server makes
  MaxSubmits,   \* bound: presses of "Confirm and send" that are accepted
  Settings

Setting == [
  linked  : BOOLEAN,   \* the user signs in the browser
  hazards : SUBSET {"refuse", "fault", "timeout", "revert", "longPoll"}]

ASSUME SendMoneyAssumption ==
  /\ Nothing \notin Drafts /\ MaxQuotes \in Nat /\ MaxSubmits \in Nat
  /\ \A s \in Settings : s \in Setting

VARIABLES
  setting,    \* chosen at the start, never changed
  open,        \* activeMethod is "address"
  step,        \* transferStep
  draft,       \* receiver and amount in the form
  quote,       \* transferQuote, 0 while there is none
  codeAsked,   \* a code was sent for this form (verificationDestination)
  quoteCall,   \* the draft a pending createTransferQuote was made for
  submits,     \* the submissions: the handler's locals and what became of them
  watch,       \* the submission that is polled, 0 while none is
  quoted,      \* TransferQuote documents: the draft each was made for
  consumed,    \* quotes with consumedAt
  told         \* the last thing the page said of each draft

formVars == <<open, step, draft, quote, codeAsked>>
payVars ==
  <<setting, formVars, quoteCall, submits, watch, quoted, consumed, told>>

Hazards == setting.hazards

PayInit ==
  /\ setting \in Settings
  /\ open = FALSE /\ step = "details" /\ draft = Nothing
  /\ quote = 0 /\ codeAsked = FALSE
  /\ quoteCall = Nothing /\ submits = <<>> /\ watch = 0
  /\ quoted = <<>> /\ consumed = {}
  /\ told = [d \in Drafts |-> "nothing"]

ResetForm ==
  /\ step' = "details" /\ draft' = Nothing /\ quote' = 0 /\ codeAsked' = FALSE

Say(d, message) == told' = [told EXCEPT ![d] = message]

-----------------------------------------------------------------------------
(* The form *)

OpenMethod ==
  /\ ~open /\ open' = TRUE /\ ResetForm
  /\ UNCHANGED <<setting, quoteCall, submits, watch, quoted, consumed, told>>

\* The close button stays enabled while a payment is being sent.
CloseMethod ==
  /\ open /\ open' = FALSE /\ ResetForm
  /\ UNCHANGED <<setting, quoteCall, submits, watch, quoted, consumed, told>>

\* The fields stay enabled while a quote is being made.
Type(d) ==
  /\ open /\ step = "details" /\ draft # d
  /\ draft' = d /\ quote' = 0 /\ codeAsked' = FALSE
  /\ UNCHANGED <<setting, open, step, quoteCall, submits, watch, quoted,
                 consumed, told>>

\* validateAddressTransferDetails
Valid == draft # Nothing

AskQuote ==
  /\ open /\ step = "details" /\ Valid /\ quoteCall = Nothing
  /\ quoteCall' = draft
  /\ UNCHANGED <<setting, formVars, submits, watch, quoted, consumed, told>>

\* The answer is put into whatever form is there by now.
QuoteArrives ==
  /\ quoteCall # Nothing /\ Len(quoted) < MaxQuotes
  /\ quoted' = Append(quoted, quoteCall)
  /\ quote' = Len(quoted) + 1 /\ step' = "verify" /\ codeAsked' = FALSE
  /\ quoteCall' = Nothing
  /\ UNCHANGED <<setting, open, draft, submits, watch, consumed, told>>

QuoteFails ==
  /\ quoteCall # Nothing /\ quoteCall' = Nothing
  /\ UNCHANGED <<setting, formVars, submits, watch, quoted, consumed, told>>

AskCode ==
  /\ open /\ step = "verify" /\ Valid /\ ~codeAsked
  /\ codeAsked' = TRUE
  /\ UNCHANGED <<setting, open, step, draft, quote, quoteCall, submits, watch,
                 quoted, consumed, told>>

-----------------------------------------------------------------------------
(* A submission *)

Submissions == 1 .. Len(submits)
Sending == \E s \in Submissions : submits[s].client # "done"

\* A user who reads the page does not send again what it says was sent.
Willing(d) == told[d] \in {"nothing", "failed"}

Set(s, field, value) == submits' = [submits EXCEPT ![s][field] = value]

NewSubmission(d) ==
  [draft |-> d, quote |-> quote, chain |-> "none", record |-> "none",
   client |-> IF setting.linked THEN "signing" ELSE "posting",
   server |-> IF setting.linked THEN "none" ELSE "posted"]

Submit ==
  /\ open /\ step = "verify" /\ Valid /\ quote # 0 /\ codeAsked
  /\ ~Sending
  /\ Willing(draft) /\ Len(submits) < MaxSubmits
  /\ submits' = Append(submits, NewSubmission(draft))
  /\ UNCHANGED <<setting, formVars, quoteCall, watch, quoted, consumed, told>>

\* Mutant of WalletSigns: a misspelt step, which nothing waits for.
WalletSignsMisspelt(s) ==
  /\ submits[s].client = "signing"
  /\ submits' = [submits EXCEPT ![s].client = "post", ![s].server = "posted",
                                ![s].chain = "mempool"]
  /\ UNCHANGED <<setting, formVars, quoteCall, watch, quoted, consumed, told>>

Signed(r) ==
  [r EXCEPT !.client = "posting", !.server = "posted", !.chain = "mempool"]

\* eth_sendTransaction returns once the wallet has broadcast.
WalletSigns(s) ==
  /\ submits[s].client = "signing"
  /\ submits' = [submits EXCEPT ![s] = Signed(@)]
  /\ UNCHANGED <<setting, formVars, quoteCall, watch, quoted, consumed, told>>

WalletRefuses(s) ==
  /\ submits[s].client = "signing" /\ Set(s, "client", "done")
  /\ Say(submits[s].draft, "failed")
  /\ UNCHANGED <<setting, formVars, quoteCall, watch, quoted, consumed>>

\* The quote is unused and made for this amount.
QuoteMatches(s) ==
  /\ submits[s].quote \notin consumed
  /\ quoted[submits[s].quote] = submits[s].draft

InFlight(d) ==
  \E s \in Submissions : submits[s].draft = d /\ submits[s].record = "pending"

\* The server broadcasts a custodial payment; a linked wallet's is on its way.
Accepted(r) ==
  [r EXCEPT !.server = "accepted", !.record = "pending",
            !.chain = IF r.chain = "none" THEN "mempool" ELSE r.chain]

ServerAccepts(s) ==
  /\ submits[s].server = "posted"
  /\ QuoteMatches(s) /\ ~InFlight(submits[s].draft)
  /\ submits' = [submits EXCEPT ![s] = Accepted(@)]
  /\ consumed' = consumed \cup {submits[s].quote}
  /\ UNCHANGED <<setting, formVars, quoteCall, watch, quoted, told>>

\* A wrong code, an expired quote, a limit or a fault refuse before a record
\* exists; the wallet may have broadcast by then.
ServerRefuses(s) ==
  /\ submits[s].server = "posted"
  /\ \/ ~QuoteMatches(s)
     \/ InFlight(submits[s].draft)
     \/ "refuse" \in Hazards
  /\ Set(s, "server", "refused")
  /\ UNCHANGED <<setting, formVars, quoteCall, watch, quoted, consumed, told>>

\* Failed is a request that ends in the catch block of the route: its record is
\* marked failed, although a custodial payment may have been broadcast and a
\* linked wallet's has been.
Failed(r, sent) ==
  [r EXCEPT !.server = "refused", !.record = "failed",
            !.chain = IF sent /\ r.chain = "none" THEN "mempool" ELSE r.chain]

\* The node's answer is lost, or the database refuses the hash or the response.
ServerFails(s) ==
  /\ "fault" \in Hazards
  /\ submits[s].server = "posted"
  /\ QuoteMatches(s) /\ ~InFlight(submits[s].draft)
  /\ \E sent \in BOOLEAN :
       submits' = [submits EXCEPT ![s] = Failed(@, sent)]
  /\ consumed' = consumed \cup {submits[s].quote}
  /\ UNCHANGED <<setting, formVars, quoteCall, watch, quoted, told>>

\* Mutant of AnswerArrives: the poll begins while the form is open only.
AnswerPolledIfOpen(s) ==
  /\ submits[s].client = "posting" /\ submits[s].server = "accepted"
  /\ Set(s, "client", "done") /\ Say(submits[s].draft, "pending")
  /\ watch' = IF open THEN s ELSE watch
  /\ codeAsked' = FALSE
  /\ UNCHANGED <<setting, open, step, draft, quote, quoteCall, quoted,
                 consumed>>

\* A poll that was running is aborted.
AnswerArrives(s) ==
  /\ submits[s].client = "posting" /\ submits[s].server = "accepted"
  /\ Set(s, "client", "done") /\ Say(submits[s].draft, "pending")
  /\ watch' = s
  /\ codeAsked' = FALSE
  /\ UNCHANGED <<setting, open, step, draft, quote, quoteCall, quoted,
                 consumed>>

\* Mutant of ErrorArrives: every error reads "Failed to send transaction."
ErrorArrivesAlike(s) ==
  /\ submits[s].client = "posting"
  /\ submits[s].server = "refused" \/ "timeout" \in Hazards
  /\ Set(s, "client", "done") /\ Say(submits[s].draft, "failed")
  /\ UNCHANGED <<setting, formVars, quoteCall, watch, quoted, consumed>>

\* The server refused or failed, or its answer did not come in time: it works on.
ErrorArrives(s) ==
  /\ submits[s].client = "posting"
  /\ submits[s].server = "refused" \/ "timeout" \in Hazards
  /\ Set(s, "client", "done")
  /\ Say(submits[s].draft, IF setting.linked THEN "on-chain" ELSE "failed")
  /\ UNCHANGED <<setting, formVars, quoteCall, watch, quoted, consumed>>

-----------------------------------------------------------------------------
(* What becomes of it *)

Decide(s) ==
  /\ submits[s].chain = "mempool"
  /\ \E fate \in {"ok", "reverted"} :
       /\ fate = "reverted" => "revert" \in Hazards
       /\ Set(s, "chain", fate)
  /\ UNCHANGED <<setting, formVars, quoteCall, watch, quoted, consumed, told>>

\* The waiter or the reconciler writes the result, over a record marked failed
\* too if it holds the hash.
SettleRecord(s) ==
  /\ \/ submits[s].record = "pending"
     \/ submits[s].record = "failed" /\ submits[s].server = "refused"
  /\ submits[s].chain \in {"ok", "reverted"}
  /\ Set(s, "record", IF submits[s].chain = "ok" THEN "success" ELSE "failed")
  /\ UNCHANGED <<setting, formVars, quoteCall, watch, quoted, consumed, told>>

\* Mutant of PollEnds: "pending" counts as a success, as elsewhere on the page.
PollEndsPending ==
  /\ watch # 0 /\ watch' = 0
  /\ IF submits[watch].record \in {"success", "pending"}
     THEN /\ Say(submits[watch].draft, "paid") /\ open' = FALSE /\ ResetForm
     ELSE Say(submits[watch].draft, "failed") /\ UNCHANGED formVars
  /\ UNCHANGED <<setting, quoteCall, submits, quoted, consumed>>

\* The form that is open by now is closed and cleared with a success.
PollEnds ==
  /\ watch # 0 /\ watch' = 0
  /\ \/ /\ submits[watch].record = "success"
        /\ Say(submits[watch].draft, "paid") /\ open' = FALSE /\ ResetForm
     \/ /\ submits[watch].record = "failed"
        /\ Say(submits[watch].draft, "failed") /\ UNCHANGED formVars
  /\ UNCHANGED <<setting, quoteCall, submits, quoted, consumed>>

\* A minute has passed or a request failed: the page says no more of it.
PollGivesUp ==
  /\ "longPoll" \in Hazards /\ watch # 0 /\ watch' = 0
  /\ submits[watch].record = "pending"
  /\ UNCHANGED <<setting, formVars, quoteCall, submits, quoted, consumed,
                 told>>

-----------------------------------------------------------------------------
User == \/ OpenMethod \/ CloseMethod \/ AskQuote \/ AskCode \/ Submit
        \/ \E d \in Drafts : Type(d)

Progress(s) ==
  \/ WalletSigns(s) \/ WalletRefuses(s)
  \/ ServerAccepts(s) \/ ServerRefuses(s) \/ ServerFails(s)
  \/ AnswerArrives(s) \/ ErrorArrives(s) \/ Decide(s) \/ SettleRecord(s)

Poll == PollEnds \/ PollGivesUp

PayNext ==
  \/ User \/ QuoteArrives \/ QuoteFails \/ Poll
  \/ \E s \in Submissions : Progress(s)

PaySpec == PayInit /\ [][PayNext]_payVars

\* The user decides in the wallet, calls are answered or time out, the chain
\* decides, the poll runs on its timer.  Nothing makes the user act.
FairPaySpec ==
  /\ PaySpec /\ WF_payVars(Poll)
  /\ \A s \in 1 .. MaxSubmits : WF_payVars(s \in Submissions /\ Progress(s))

-----------------------------------------------------------------------------
Submission(quotes) ==
  [draft  : Drafts, quote : 1 .. quotes,
   chain  : {"none", "mempool", "ok", "reverted"},
   record : {"none", "pending", "success", "failed"},
   client : {"signing", "posting", "done"},
   server : {"none", "posted", "accepted", "refused"}]

(* Every variable stays in its range, every submission is of a draft and a    *)
(* quote that exist.                                                          *)
PayTypeOK ==
  /\ setting \in Settings
  /\ open \in BOOLEAN /\ step \in {"details", "verify"}
  /\ draft \in Drafts \cup {Nothing} /\ quoteCall \in Drafts \cup {Nothing}
  /\ quoted \in Seq(Drafts) /\ Len(quoted) <= MaxQuotes
  /\ quote \in 0 .. Len(quoted) /\ consumed \subseteq 1 .. Len(quoted)
  /\ codeAsked \in BOOLEAN /\ watch \in 0 .. Len(submits)
  /\ submits \in Seq(Submission(Len(quoted)))
  /\ told \in [Drafts -> {"nothing", "failed", "pending", "on-chain", "paid"}]

Moving(s, d) ==
  submits[s].draft = d /\ submits[s].chain \in {"mempool", "ok"}

\* A browser that signs knows what it has broadcast; one that leaves it to the
\* server knows it from an answer.
Informed == setting.linked \/ Hazards \cap {"timeout", "fault"} = {}

(* A user who reads the page pays each draft once, whatever is pressed twice, *)
(* closed and opened again or answered into another form: with a linked       *)
(* wallet through any refusal, fault and lost answer, with a custodial one as *)
(* long as no answer is lost and the server does not fail after it has        *)
(* broadcast.                                                                 *)
PaidOnceUnlessLost ==
  Informed =>
    \A d \in Drafts, s, u \in Submissions :
      Moving(s, d) /\ Moving(u, d) => s = u

(* A user who is told that a draft was paid has paid it, whichever of several *)
(* submissions of several forms the poll was for.                             *)
ToldPaidIsPaid ==
  \A d \in Drafts : told[d] = "paid" =>
    \E s \in Submissions : submits[s].draft = d /\ submits[s].chain = "ok"

(* The outcome of the latest payment reaches its user, closed form or not.    *)
LatestIsTold ==
  \A s \in 1 .. MaxSubmits :
    /\ Hazards \cap {"timeout", "longPoll"} = {}
    /\ Len(submits) = s /\ submits[s].server = "accepted"
    ~> Len(submits) # s \/ told[submits[s].draft] \in {"paid", "failed"}

=============================================================================
