----------------------------- MODULE SignInProofs -----------------------------
(* Proofs about SignIn, for any number of people, phones, calls, codes and    *)
(* faults.                                                                    *)
EXTENDS SignIn, TLAPS

(* Which page makes a call.                                                   *)
WizardKinds == {"send", "verify", "register"}
FormKinds == {"options", "find", "login", "start", "code", "resetCode",
              "resend", "resetResend", "reset"}
HomeKinds == {"me", "poll", "logout"}

Someone == People \cup {None}
Tokens == [who : Someone, version : Nat]

\* A password or a reset is asked for somebody.
Calls ==
  {c \in [kind : WizardKinds \cup FormKinds \cup HomeKinds, who : Someone,
          about : Someone \cup Phones, n : Nat, sent : Tokens,
          state : {"out", "ok", "refused", "failed"}, live : BOOLEAN] :
     c.kind \in {"login", "start"} => c.who \in People}

WizardSteps ==
  {"account", "password", "phone", "phoneCode", "profile", "kyc"}
CodeStates == {"none", "live", "past"}
Numbers == Phones \cup {None}

Wizards ==
  [step : WizardSteps, email : Someone, sent : BOOLEAN, verified : BOOLEAN,
   code : CodeStates, phone : Numbers, expected : Numbers,
   phoneVerified : BOOLEAN, phoneCode : CodeStates, loading : BOOLEAN]

Forms ==
  [step : {"who", "channel", "code", "password"}, typed : Someone,
   submitted : Someone, pending : Tokens, reset : Someone, loading : BOOLEAN]

Pages == {"landing", "login", "register", "forgot", "home"}

TypeOK ==
  /\ scenario \in Scenarios
  /\ page \in Pages /\ leaving \in {"no", "home", "login"}
  /\ token \in Tokens /\ shown \in Someone
  /\ reg \in Wizards /\ form \in Forms /\ calls \subseteq Calls
  /\ users \in [People -> [exists : BOOLEAN, version : Nat, code : BOOLEAN,
                           reset : BOOLEAN]]
  /\ regCodes \in [People -> [held : Nat, issued : Nat]]
  /\ confirmed \in [emails : SUBSET Someone, phones : SUBSET Numbers]
  /\ registered \subseteq [email : Someone, phone : Someone \cup Phones]
  /\ acts \subseteq [who : Someone, named : Someone \cup Phones]
  /\ used \in [pages : Nat, faults : Nat]

(* The calls the page on the screen has made.                                 *)
Live(kinds) == {c \in calls : c.live /\ c.kind \in kinds}

(* One call of a form at a time, and while it is under way the form keeps the *)
(* person it was submitted for, however the user goes back and forth.         *)
FormKeepsWho ==
  /\ \A c \in Live(FormKinds) :
       form.loading /\ \A d \in Live(FormKinds) : d = c
  /\ form.step \in {"code", "password"} /\ form.pending # NoToken
       => form.pending.who = form.submitted
  /\ form.step = "password" => form.reset = form.submitted
  /\ \A c \in Live({"login", "start", "code", "resetCode", "reset"}) :
       c.who = form.submitted
  /\ Live({"code", "resetCode"}) # {} /\ form.pending # NoToken
       => form.pending.who = form.submitted
  /\ \A c \in Live({"reset"}) : c.about = form.submitted

FormInv == FormKeepsWho /\ ActsOnTheSubmitted

(* Behind the phone steps the wizard's number is confirmed or none.           *)
PhoneInv ==
  /\ reg.step \in {"profile", "kyc"} =>
       /\ reg.phone \in confirmed.phones \cup {None}
       /\ reg.phoneVerified \/ reg.expected = None
  /\ reg.step = "phoneCode" /\ ~reg.phoneVerified /\ reg.phoneCode = "live"
       => reg.expected = reg.phone
  /\ \A c \in calls : c.kind = "register" =>
       c.about \in confirmed.phones \cup {None}
  /\ \A r \in registered : r.phone \in confirmed.phones \cup {None}

(* A user without haste makes one call of the wizard at a time, and behind    *)
(* the first step the email address is confirmed.                             *)
EmailInv ==
  ~Hasty =>
    /\ \A c \in Live(WizardKinds) :
         reg.loading /\ \A d \in Live(WizardKinds) : d = c
    /\ reg.step # "account" \/ reg.verified => reg.email \in confirmed.emails
    /\ \A c \in calls : c.kind = "verify" /\ c.state = "ok" =>
         c.who \in confirmed.emails
    /\ \A c \in Live({"send"}) : reg.step = "account" /\ ~reg.verified
    /\ \A c \in Live({"verify"}) : reg.sent /\ c.who = reg.email
    /\ \A c \in calls : c.kind = "register" => c.who \in confirmed.emails
    /\ \A r \in registered : r.email \in confirmed.emails

(* A user without haste leaves a page when its calls are answered, so that    *)
(* nothing but background calls outlives it.                                  *)
PagesLeaveNothing ==
  /\ leaving # "no" => page \in {"login", "register", "forgot"}
  /\ \A c \in calls : ~c.live => c.kind \in {"me", "poll"}
  /\ \A c \in Live(WizardKinds) : page = "register" /\ leaving = "no"
  /\ \A c \in Live(FormKinds) : page \in {"login", "forgot"} /\ leaving = "no"
  /\ \A c \in Live({"logout"}) : page \in {"home", "landing"}
  /\ \A c, d \in Live({"logout"}) : c = d

(* The page asked for its user with the token it has, and shows that user.    *)
UserIsTheTokens ==
  /\ \A c \in Live({"me"}) : page = "home" /\ token \in {c.sent, NoToken}
  /\ \A c, d \in Live({"me"}) : c = d
  /\ CalmPageShowsItsAccount

PageInv == ~Hasty => PagesLeaveNothing /\ UserIsTheTokens

(* The wizard registers somebody.                                             *)
SomebodyInv ==
  /\ reg.email = None => /\ ~reg.sent /\ ~reg.verified /\ reg.step = "account"
                         /\ Live(WizardKinds) = {}
  /\ \A c \in calls : c.kind \in WizardKinds => c.who # None

(* A token was issued for an account, whose version only grows.               *)
Known(us, t) ==
  t = NoToken \/ (/\ t.who \in People /\ us[t.who].exists
                  /\ t.version <= us[t.who].version)

Outdated(us, t) == t.who \in People /\ t.version < us[t.who].version

(* What a call says of a token is so; a refusal of the load of the user says  *)
(* that its token is outdated, that of another background call need not.      *)
Vouched(us, c) ==
  /\ Known(us, c.sent)
  /\ c.kind \in {"me", "poll"} => c.sent # NoToken
  /\ c.kind = "me" /\ c.state = "refused" => Outdated(us, c.sent)
  /\ c.kind \in {"login", "start"} /\ c.state = "ok" =>
       Known(us, [who |-> c.who, version |-> c.n])
  /\ c.kind = "register" /\ c.state = "ok" =>
       Known(us, [who |-> c.who, version |-> 0])

TokenInv ==
  /\ Known(users, token) /\ Known(users, form.pending)
  /\ \A c \in calls : Vouched(users, c)

(* A user without haste has no token on the public pages.                     *)
PublicInv ==
  ~Hasty =>
    /\ page # "home" /\ leaving = "no" => token = NoToken
    /\ leaving = "login" => page = "forgot"
    /\ Live({"reset"}) # {} => page = "forgot"

-----------------------------------------------------------------------------
(* Types *)

LEMMA NoTokenType == NoToken \in Tokens
  BY DEF NoToken, Tokens, Someone

LEMMA NewWizardType == NewWizard \in Wizards
  BY DEF NewWizard, Wizards, Someone, WizardSteps, CodeStates, Numbers

LEMMA NewFormType == NewForm \in Forms
  BY NoTokenType DEF NewForm, Forms, Someone

LEMMA CallType ==
  ASSUME NEW kind \in WizardKinds \cup FormKinds \cup HomeKinds,
         NEW who \in Someone, NEW about \in Someone \cup Phones,
         NEW n \in Nat, NEW sent \in Tokens,
         kind \in {"login", "start"} => who \in People
  PROVE  Call(kind, who, about, n, sent) \in Calls
  BY DEF Call, Calls

LEMMA AbandonedType ==
  ASSUME NEW cs \in SUBSET Calls PROVE Abandoned(cs) \subseteq Calls
  BY DEF Abandoned, Calls

LEMMA RejectedType ==
  ASSUME TypeOK, NEW t \in Tokens PROVE Rejected(t) \in Tokens
  BY NoTokenType DEF Rejected, TypeOK

LEMMA TokenAfterType ==
  ASSUME TypeOK, NEW c \in calls PROVE TokenAfter(c) \in Tokens
<1>1. c.who \in Someone /\ c.sent \in Tokens
  BY DEF TypeOK, Calls
<1>2. [who |-> c.who, version |-> 0] \in Tokens
  BY <1>1 DEF Tokens
<1> QED
  BY <1>1, <1>2, NoTokenType, RejectedType DEF TokenAfter, TypeOK

LEMMA AnswerType ==
  ASSUME TypeOK, NEW c, NEW kind, Answer(c, kind)
  PROVE  c \in calls /\ c \in Calls /\ calls' \subseteq Calls
           /\ token' \in Tokens
  BY TokenAfterType DEF Answer, TypeOK

LEMMA ChangedType ==
  ASSUME TypeOK, NEW c \in calls, NEW d \in Calls,
         calls' = (calls \ {c}) \cup {d}
  PROVE  calls' \subseteq Calls
  BY DEF TypeOK

LEMMA ReplyType ==
  ASSUME TypeOK, NEW c \in calls,
         NEW state \in {"out", "ok", "refused", "failed"}, Reply(c, state)
  PROVE  calls' \subseteq Calls
<1>1. [c EXCEPT !.state = state] \in Calls
  BY DEF TypeOK, Calls
<1> QED
  BY <1>1, ChangedType DEF Reply

LEMMA MountType ==
  ASSUME TypeOK, NEW to \in Pages, NEW t \in Tokens, Mount(to, t)
  PROVE  /\ page' \in Pages /\ token' \in Tokens /\ shown' \in Someone
         /\ reg' = NewWizard /\ form' = NewForm
  BY NoTokenType DEF Mount, Pages, TypeOK, Someone

LEMMA LoadsType ==
  ASSUME TypeOK, token' \in Tokens, calls' = Loads(calls)
  PROVE  calls' \subseteq Calls
<1>1. Call("me", None, None, 0, token') \in Calls
  BY CallType DEF HomeKinds, Someone
<1> QED
  BY <1>1, AbandonedType DEF Loads, TypeOK

LEMMA IssueType ==
  ASSUME TypeOK, NEW c \in Calls, Issue(c) PROVE calls' \subseteq Calls
  BY DEF Issue, TypeOK

LEMMA TypeInit == Init => TypeOK
<1>1. ASSUME Init PROVE [p \in People |->
                [exists |-> p \in scenario.exists, version |-> 0,
                 code |-> FALSE, reset |-> FALSE]]
         \in [People -> [exists : BOOLEAN, version : Nat, code : BOOLEAN,
                         reset : BOOLEAN]]
  OBVIOUS
<1>2. ASSUME Init PROVE page \in Pages
  BY <1>2, SignInAssumption DEF Init, Scenario, Pages
<1> QED
  BY <1>1, <1>2, NoTokenType, NewWizardType, NewFormType
  DEF Init, TypeOK, Someone

LEMMA UsedType ==
  ASSUME TypeOK, NEW counter \in {"pages", "faults"}, Use(counter)
  PROVE  used' \in [pages : Nat, faults : Nat]
  BY DEF Use, TypeOK

LEMMA PagesType ==
  ASSUME TypeOK,
         \/ \E to \in DOMAIN Links : OpenPage(to)
         \/ MoveOn
         \/ \E c \in calls : StrayAnswer(c) \/ CallFails(c)
  PROVE  TypeOK'
<1>1. ASSUME NEW to \in DOMAIN Links, OpenPage(to) PROVE TypeOK'
  <2>1. to \in Pages
    BY DEF Links, Pages
  <2>2. token \in Tokens
    BY DEF TypeOK
  <2>3. Mount(to, token) /\ calls' = Loads(calls) /\ Use("pages")
    BY <1>1 DEF OpenPage
  <2> QED
    BY <1>1, <2>1, <2>2, <2>3, MountType, LoadsType, UsedType, NewWizardType,
       NewFormType DEF OpenPage, TypeOK, server, history
<1>2. CASE MoveOn
  <2>1. leaving \in Pages
    BY <1>2 DEF MoveOn, Pages, TypeOK
  <2>2. token \in Tokens
    BY DEF TypeOK
  <2>3. Mount(leaving, token) /\ calls' = Loads(calls)
    BY <1>2 DEF MoveOn
  <2> QED
    BY <1>2, <2>1, <2>2, <2>3, MountType, LoadsType, NewWizardType,
       NewFormType DEF MoveOn, TypeOK, server, history
<1>3. ASSUME NEW c \in calls, StrayAnswer(c) PROVE TypeOK'
  <2>1. /\ c \in calls /\ calls' = calls \ {c} /\ token' = TokenAfter(c)
        /\ leaving' \in {"home", leaving}
        /\ UNCHANGED <<scenario, page, shown, reg, form, server, history, used>>
    BY <1>3 DEF StrayAnswer
  <2>2. token' \in Tokens
    BY <2>1, TokenAfterType
  <2>3. leaving' \in {"no", "home", "login"} /\ calls' \subseteq Calls
    BY <2>1 DEF TypeOK
  <2>4. /\ UNCHANGED <<scenario, page, shown, reg, form, users, regCodes>>
        /\ UNCHANGED <<confirmed, registered, acts, used>>
    BY <2>1 DEF server, history
  <2> QED
    BY <2>2, <2>3, <2>4, SMTT(20) DEF TypeOK
<1>4. ASSUME NEW c \in calls, CallFails(c) PROVE TypeOK'
  <2>1. [c EXCEPT !.state = "failed"] \in Calls
    <3>1. c \in Calls
      BY DEF TypeOK
    <3> QED
      BY <3>1 DEF Calls
  <2>2. calls' \subseteq Calls
    BY <1>4, <2>1, ChangedType DEF CallFails
  <2> QED
    BY <1>4, <2>2, UsedType DEF CallFails, TypeOK, server, history
<1> QED
  BY <1>1, <1>2, <1>3, <1>4

(* An action of the wizard that changes reg, and calls perhaps.               *)
LEMMA WizardStepType ==
  ASSUME TypeOK, reg' \in Wizards, calls' \subseteq Calls, UNCHANGED regOnly
  PROVE  TypeOK'
  BY DEF TypeOK, regOnly, server, history

LEMMA WizardType ==
  ASSUME TypeOK, Wizard PROVE TypeOK'
<1> reg \in Wizards /\ calls \subseteq Calls /\ token \in Tokens
  BY DEF TypeOK
<1> /\ "none" \in CodeStates /\ "live" \in CodeStates /\ "past" \in CodeStates
    /\ \A step \in {"account", "password", "phone", "phoneCode", "profile",
                    "kyc"} : step \in WizardSteps
  BY DEF CodeStates, WizardSteps
<1> None \in Numbers /\ Phones \subseteq Numbers
      /\ People \subseteq Someone /\ Someone \subseteq Someone \cup Numbers
  BY DEF Numbers, Someone
<1>1. ASSUME NEW p \in People, TypeEmail(p) PROVE TypeOK'
  <2>1. reg' \in Wizards
    BY <1>1 DEF TypeEmail, Wizards
  <2> QED
    BY <1>1, <2>1, WizardStepType DEF TypeEmail
<1>2. ASSUME NEW n \in Phones, TypePhone(n) PROVE TypeOK'
  <2>1. reg' \in Wizards
    BY <1>2 DEF TypePhone, Wizards
  <2> QED
    BY <1>2, <2>1, WizardStepType DEF TypePhone
<1>3. ASSUME NEW n \in Nat, VerifyRegisterCode(n) PROVE TypeOK'
  <2>1. reg' \in Wizards
    BY <1>3 DEF VerifyRegisterCode, Wizards
  <2>2. Call("verify", reg.email, None, n, token) \in Calls
    BY CallType DEF WizardKinds, Wizards, Someone, Numbers
  <2>3. calls' \subseteq Calls
    BY <1>3, <2>2, IssueType DEF VerifyRegisterCode
  <2> QED
    BY <1>3, <2>1, <2>3, WizardStepType DEF VerifyRegisterCode
<1>4. CASE SendRegisterCode
  <2>1. reg' \in Wizards
    BY <1>4 DEF SendRegisterCode, Wizards
  <2>2. Call("send", reg.email, None, 0, token) \in Calls
    BY CallType DEF WizardKinds, Wizards, Someone, Numbers
  <2>3. calls' \subseteq Calls
    BY <1>4, <2>2, IssueType DEF SendRegisterCode
  <2> QED
    BY <1>4, <2>1, <2>3, WizardStepType DEF SendRegisterCode
<1>5. CASE Register
  <2>1. reg' \in Wizards
    BY <1>5 DEF Register, Wizards
  <2>2. Call("register", reg.email, reg.phone, 0, token) \in Calls
    BY CallType DEF WizardKinds, Wizards, Someone, Numbers
  <2>3. calls' \subseteq Calls
    BY <1>5, <2>2, IssueType DEF Register
  <2> QED
    BY <1>5, <2>1, <2>3, WizardStepType DEF Register
<1>6. CASE CodeExpires \/ Continue \/ SendPhoneCode \/ PhoneCodeExpires
             \/ SkipPhone \/ RegBack
  <2>1. reg' \in Wizards
    <3>1. CASE CodeExpires \/ PhoneCodeExpires
      BY <3>1 DEF CodeExpires, PhoneCodeExpires, Wizards
    <3>5. CASE SendPhoneCode
      BY <3>5 DEF SendPhoneCode, Wizards
    <3>2. CASE Continue
      BY <3>2 DEF Continue, Wizards
    <3>3. CASE SkipPhone
      BY <3>3 DEF SkipPhone, NoPhoneCode, Wizards
    <3>4. CASE RegBack
      BY <3>4 DEF RegBack, RegBackTo, Wizards
    <3> QED
      BY <1>6, <3>1, <3>2, <3>3, <3>4, <3>5
  <2> QED
    BY <1>6, <2>1, WizardStepType DEF CodeExpires, Continue, SendPhoneCode,
      PhoneCodeExpires, SkipPhone, RegBack
<1>7. CASE EnterPhoneCode
  <2>1. reg' \in Wizards
    <3>1. CASE reg.phoneCode = "live"
      <4>1. reg' = [reg EXCEPT !.phoneVerified = TRUE, !.step = "profile"]
        BY <1>7, <3>1 DEF EnterPhoneCode
      <4> QED
        BY <4>1 DEF Wizards
    <3>2. CASE reg.phoneCode # "live"
      <4>1. reg' = NoPhoneCode(reg)
        BY <1>7, <3>2 DEF EnterPhoneCode
      <4> QED
        BY <4>1 DEF NoPhoneCode, Wizards
    <3> QED
      BY <3>1, <3>2
  <2>2. confirmed' \in [emails : SUBSET Someone,
                       phones : SUBSET Numbers]
    <3>1. reg.expected \in Numbers
      BY DEF Wizards
    <3>2. confirmed' = confirmed \/
            confirmed' = [confirmed EXCEPT
                            !.phones = confirmed.phones \cup {reg.expected}]
      BY <1>7 DEF EnterPhoneCode
    <3>3. confirmed \in [emails : SUBSET Someone,
                        phones : SUBSET Numbers]
      BY DEF TypeOK
    <3>4. confirmed.phones \cup {reg.expected} \in SUBSET Numbers
      BY <3>1, <3>3
    <3> QED
      BY <3>2, <3>3, <3>4
  <2> QED
    BY <1>7, <2>1, <2>2 DEF EnterPhoneCode, TypeOK, server
<1>8. ASSUME NEW c \in calls, CodeSent(c) \/ CodeVerified(c) \/ Registered(c)
      PROVE  TypeOK'
  <2>1. c \in Calls /\ calls' \subseteq Calls /\ token' \in Tokens
    BY <1>8, AnswerType DEF CodeSent, CodeVerified, Registered
  <2>2. c.who \in Someone
    BY <2>1 DEF Calls
  <2>3. reg' \in Wizards
    <3>1. CASE CodeSent(c)
      <4>1. \/ reg' = [reg EXCEPT !.email = c.who, !.sent = TRUE,
                             !.verified = FALSE, !.code = "live",
                             !.loading = FALSE]
            \/ reg' = [reg EXCEPT !.loading = FALSE]
        BY <3>1 DEF CodeSent
      <4> QED
        BY <2>2, <4>1 DEF Wizards
    <3>2. CASE CodeVerified(c) \/ Registered(c)
      <4>1. \/ reg' = [reg EXCEPT !.verified = TRUE, !.step = "password",
                             !.loading = FALSE]
            \/ reg' = [reg EXCEPT !.loading = FALSE]
        BY <3>2 DEF CodeVerified, Registered
      <4> QED
        BY <4>1 DEF Wizards
    <3> QED
      BY <1>8, <3>1, <3>2
  <2> QED
    BY <1>8, <2>1, <2>3 DEF CodeSent, CodeVerified, Registered, TypeOK, server,
      history
<1>9. \A p \in People : \A n \in 1 .. regCodes[p].issued : n \in Nat
  OBVIOUS
<1> QED
  BY <1>1, <1>2, <1>3, <1>4, <1>5, <1>6, <1>7, <1>8, <1>9 DEF Wizard

(* An action of a form that changes form, and calls perhaps.                  *)
LEMMA FormStepType ==
  ASSUME TypeOK, form' \in Forms, calls' \subseteq Calls, UNCHANGED formOnly
  PROVE  TypeOK'
  BY DEF TypeOK, formOnly, server, history

LEMMA AskType ==
  ASSUME TypeOK, NEW c \in Calls, NEW f \in Forms, Ask(c, f)
  PROVE  TypeOK'
<1>1. calls' \subseteq Calls
  BY IssueType DEF Ask
<1> QED
  BY <1>1, FormStepType DEF Ask

LEMMA ActType ==
  ASSUME TypeOK, NEW who \in Someone, NEW named \in Someone \cup Phones,
         Act(who, named)
  PROVE  acts' \subseteq [who : Someone, named : Someone \cup Phones]
  BY DEF Act, TypeOK

LEMMA FormType ==
  ASSUME TypeOK, Form PROVE TypeOK'
<1> form \in Forms /\ calls \subseteq Calls /\ token \in Tokens
  BY DEF TypeOK
<1> form.typed \in Someone /\ form.submitted \in Someone
      /\ form.pending \in Tokens /\ form.pending.who \in Someone
      /\ form.reset \in Someone /\ None \in Someone
  BY DEF Forms, Tokens, Someone
<1>1. Loading \in Forms /\ Naming \in Forms
  BY DEF Loading, Naming, Forms
<1>2. ASSUME NEW p \in People, TypeIdentifier(p) PROVE TypeOK'
  <2>1. form' \in Forms
    BY <1>2 DEF TypeIdentifier, Forms, Someone
  <2> QED
    BY <1>2, <2>1, FormStepType DEF TypeIdentifier
<1>3. ASSUME NEW kind \in FormKinds, NEW who \in Someone,
             NEW sent \in Tokens, who # None
      PROVE  Call(kind, who, None, 0, sent) \in Calls
  BY <1>3, CallType, 0 \in Nat DEF Someone
<1>4. CASE SubmitIdentifier \/ SubmitChannel
  <2>1. CASE SubmitIdentifier
    BY <2>1, <1>1, <1>3, AskType DEF SubmitIdentifier, FormKinds
  <2>2. CASE SubmitChannel
    BY <2>2, <1>1, <1>3, AskType DEF SubmitChannel, FormKinds
  <2> QED
    BY <1>4, <2>1, <2>2
<1>5. CASE SubmitCode \/ ResendCode
  <2>0. ASSUME NEW kind \in {"code", "resetCode", "resend", "resetResend"},
               NEW sent \in Tokens
        PROVE  Call(kind, form.pending.who, None, 0, sent) \in Calls
    BY CallType, 0 \in Nat DEF FormKinds
  <2>1. CASE SubmitCode
    BY <2>0, <2>1, <1>1, AskType DEF SubmitCode
  <2>2. CASE ResendCode
    BY <2>0, <2>2, <1>1, AskType DEF ResendCode
  <2> QED
    BY <1>5, <2>1, <2>2
<1>6. CASE SubmitNewPassword
  <2>1. Call("reset", form.reset, form.submitted, 0, token) \in Calls
    BY CallType, 0 \in Nat DEF FormKinds
  <2> QED
    BY <1>6, <1>1, <2>1, AskType DEF SubmitNewPassword
<1>7. CASE FormBack
  <2>1. form' \in Forms
    BY <1>7, NoTokenType DEF FormBack, Forms
  <2> QED
    BY <1>7, <2>1, FormStepType DEF FormBack
<1>8. ASSUME NEW c \in calls,
             \/ IdentifierTaken(c) \/ ChannelTaken(c) \/ CodeTaken(c)
             \/ ResetCodeTaken(c) \/ ResendTaken(c) \/ ResetTaken(c)
      PROVE  TypeOK'
  <2>1. c \in Calls /\ calls' \subseteq Calls /\ token' \in Tokens
    BY <1>8, AnswerType DEF IdentifierTaken, ChannelTaken, CodeTaken,
      ResetCodeTaken, ResendTaken, ResetTaken
  <2>2. ASSUME NEW f \in Forms, NEW g \in Forms, Taken(c, f, g)
        PROVE  form' \in Forms
    BY <2>2 DEF Taken, Forms
  <2>3. [who |-> c.who, version |-> c.n] \in Tokens /\ c.who \in Someone
    BY <2>1 DEF Calls, Tokens
  <2>4. /\ [form EXCEPT !.step = "channel", !.pending = NoToken,
                       !.reset = None] \in Forms
        /\ [form EXCEPT !.step = "code",
                       !.pending = [who |-> c.who, version |-> c.n]] \in Forms
        /\ [form EXCEPT !.step = "who"] \in Forms
        /\ [form EXCEPT !.step = "password", !.reset = c.who] \in Forms
    BY <2>3, NoTokenType DEF Forms
  <2>5. form' \in Forms
    BY <1>8, <2>2, <2>4 DEF IdentifierTaken, ChannelTaken, CodeTaken,
      ResetCodeTaken, ResendTaken, ResetTaken
  <2>6. acts' \subseteq [who : Someone, named : Someone \cup Phones]
    <3>1. CASE CodeTaken(c)
      BY <3>1, <2>3, ActType DEF CodeTaken, TypeOK
    <3>2. CASE ResetTaken(c)
      <4>1. CASE c.state = "ok"
        <5>1. c.kind = "reset" /\ Act(c.who, c.about)
          BY <3>2, <4>1 DEF ResetTaken, Answer
        <5>2. c.about \in Someone \cup Phones
          BY <2>1 DEF Calls
        <5> QED
          BY <5>1, <5>2, <2>3, ActType
      <4> QED
        BY <3>2, <4>1 DEF ResetTaken, TypeOK
    <3> QED
      BY <1>8, <3>1, <3>2 DEF IdentifierTaken, ChannelTaken, ResetCodeTaken,
        ResendTaken, TypeOK
  <2>7. leaving' \in {"no", "home", "login"}
    BY <1>8 DEF IdentifierTaken, ChannelTaken, CodeTaken, ResetCodeTaken,
      ResendTaken, ResetTaken, TypeOK
  <2>8. UNCHANGED <<scenario, page, shown, reg, server, used, confirmed,
                    registered>>
    BY <1>8 DEF IdentifierTaken, ChannelTaken, CodeTaken, ResetCodeTaken,
      ResendTaken, ResetTaken, Taken
  <2> QED
    BY <2>1, <2>5, <2>6, <2>7, <2>8 DEF TypeOK, server
<1> QED
  BY <1>2, <1>4, <1>5, <1>6, <1>7, <1>8 DEF Form

LEMMA HomeType ==
  ASSUME TypeOK, Home PROVE TypeOK'
<1> token \in Tokens /\ calls \subseteq Calls
  BY DEF TypeOK
<1>1. CASE Poll \/ Logout
  <2>1. /\ Call("poll", None, None, 0, token) \in Calls
        /\ Call("logout", None, None, 0, token) \in Calls
    BY CallType, 0 \in Nat DEF HomeKinds, Someone
  <2>2. calls' \subseteq Calls
    BY <1>1, <2>1, IssueType DEF Poll, Logout
  <2> QED
    BY <1>1, <2>2 DEF Poll, Logout, homeOnly, TypeOK, server, history
<1>2. ASSUME NEW c \in calls, MeTaken(c) PROVE TypeOK'
  <2>1. c.sent.who \in Someone
    BY DEF Calls, Tokens
  <2> QED
    BY <1>2, <2>1, NoTokenType DEF MeTaken, homeOnly, TypeOK, Pages, Someone,
      server, history
<1>3. ASSUME NEW c \in calls, PollTaken(c) PROVE TypeOK'
  BY <1>3, AnswerType DEF PollTaken, homeOnly, TypeOK, server, history
<1>4. ASSUME NEW c \in calls, LoggedOut(c) PROVE TypeOK'
  <2>1. Mount("landing", NoToken) /\ calls' \subseteq Calls
    BY <1>4, AbandonedType DEF LoggedOut
  <2> QED
    BY <1>4, <2>1, MountType, NoTokenType, NewWizardType, NewFormType
    DEF LoggedOut, TypeOK, Pages, server, history
<1> QED
  BY <1>1, <1>2, <1>3, <1>4 DEF Home

Accounts == [exists : BOOLEAN, version : Nat, code : BOOLEAN, reset : BOOLEAN]

(* Writing fields of one account, if it is one.                               *)
LEMMA AccountType ==
  ASSUME TypeOK, NEW p, NEW u, p \in People => u \in Accounts
  PROVE  [users EXCEPT ![p] = u] \in [People -> Accounts]
  BY DEF TypeOK, Accounts

LEMMA ServeType ==
  ASSUME TypeOK, NEW c \in calls, Serve(c) PROVE TypeOK'
<1> c \in Calls /\ c.who \in Someone
  BY DEF TypeOK, Calls
<1> DEFINE Kept == UNCHANGED serverOnly
           Users == [People -> Accounts]
           At(u) == [users EXCEPT ![c.who] = u]
<1>1. ASSUME NEW state \in {"ok", "refused", "failed"}, Reply(c, state)
      PROVE  calls' \subseteq Calls
  BY <1>1, ReplyType
<1>2. ASSUME NEW cond, NEW otherwise \in {"refused", "failed"},
             ReplyIf(c, cond, otherwise)
      PROVE  calls' \subseteq Calls
  BY <1>1, <1>2 DEF ReplyIf
<1>3. ASSUME calls' \subseteq Calls, users' \in Users, Kept,
             regCodes' \in [People -> [held : Nat, issued : Nat]],
             confirmed' \in [emails : SUBSET Someone, phones : SUBSET Numbers],
             registered' \subseteq
               [email : Someone, phone : Someone \cup Phones]
      PROVE  TypeOK'
  BY <1>3 DEF TypeOK, serverOnly, Accounts
<1>4. /\ users \in Users /\ regCodes \in [People -> [held : Nat, issued : Nat]]
      /\ confirmed \in [emails : SUBSET Someone, phones : SUBSET Numbers]
      /\ registered \subseteq [email : Someone, phone : Someone \cup Phones]
      /\ \A q \in People : users[q] \in Accounts
  BY DEF TypeOK, Accounts
<1>5. CASE ServeSend(c)
  <2>1. calls' \subseteq Calls
    BY <1>5, <1>2 DEF ServeSend
  <2>2. regCodes' \in [People -> [held : Nat, issued : Nat]]
    BY <1>4, <1>5 DEF ServeSend
  <2> QED
    BY <1>3, <1>4, <1>5, <2>1, <2>2 DEF ServeSend
<1>6. CASE ServeVerify(c)
  <2>1. calls' \subseteq Calls
    BY <1>6, <1>2 DEF ServeVerify
  <2>2. regCodes' \in [People -> [held : Nat, issued : Nat]]
    BY <1>4, <1>6 DEF ServeVerify
  <2>3. confirmed.emails \cup {c.who} \in SUBSET Someone
    BY <1>4
  <2>4. confirmed' = confirmed \/ confirmed' =
          [confirmed EXCEPT !.emails = confirmed.emails \cup {c.who}]
    BY <1>6 DEF ServeVerify
  <2>5. confirmed' \in [emails : SUBSET Someone,
                        phones : SUBSET Numbers]
    BY <1>4, <2>3, <2>4
  <2> QED
    BY <1>3, <1>4, <1>6, <2>1, <2>2, <2>5 DEF ServeVerify
<1>7. CASE ServeRegister(c)
  <2>1. calls' \subseteq Calls
    BY <1>7, <1>2 DEF ServeRegister
  <2>2. users' \in Users
    <3>1. c.who \in People => [users[c.who] EXCEPT !.exists = TRUE] \in Accounts
      BY <1>4 DEF Accounts
    <3>2. users' = users \/ users' = At([users[c.who] EXCEPT !.exists = TRUE])
      BY <1>7 DEF ServeRegister
    <3> QED
      BY <1>4, <3>1, <3>2, AccountType
  <2>3. [email |-> c.who, phone |-> c.about]
          \in [email : Someone, phone : Someone \cup Phones]
    BY DEF Calls
  <2>4. registered' \subseteq [email : Someone, phone : Someone \cup Phones]
    BY <1>4, <1>7, <2>3 DEF ServeRegister
  <2> QED
    BY <1>3, <1>4, <1>7, <2>1, <2>2, <2>4 DEF ServeRegister
<1>8. CASE ServeIdentifier(c)
  <2>1. calls' \subseteq Calls
    BY <1>8, <1>1 DEF ServeIdentifier
  <2> QED
    BY <1>3, <1>4, <1>8, <2>1 DEF ServeIdentifier
<1>9. CASE ServeChannel(c)
  <2>0. c.who \in People
    BY <1>9 DEF ServeChannel, Out, Calls
  <2>1. calls' \subseteq Calls
    <3>1. CASE users[c.who].exists /\ calls' = (calls \ {c}) \cup
                 {[c EXCEPT !.state = "ok", !.n = users[c.who].version]}
      <4>1. [c EXCEPT !.state = "ok", !.n = users[c.who].version] \in Calls
        BY <1>9, <2>0, <1>4 DEF Calls, Accounts
      <4> QED
        BY <3>1, <4>1, ChangedType
    <3> QED
      BY <1>9, <1>1, <3>1 DEF ServeChannel
  <2>2. users' \in Users
    <3>1. c.who \in People => [users[c.who] EXCEPT !.code = TRUE] \in Accounts
      BY <1>4 DEF Accounts
    <3>2. users' = users \/ users' = At([users[c.who] EXCEPT !.code = TRUE])
      BY <1>9 DEF ServeChannel
    <3> QED
      BY <1>4, <3>1, <3>2, AccountType
  <2> QED
    BY <1>3, <1>4, <1>9, <2>1, <2>2 DEF ServeChannel
<1>10. CASE ServeResend(c)
  <2>1. calls' \subseteq Calls
    BY <1>10, <1>1 DEF ServeResend
  <2>2. users' \in Users
    <3>1. c.who \in People => [users[c.who] EXCEPT !.code = TRUE] \in Accounts
      BY <1>4 DEF Accounts
    <3>2. users' = users \/ users' = At([users[c.who] EXCEPT !.code = TRUE])
      BY <1>10 DEF ServeResend
    <3> QED
      BY <1>4, <3>1, <3>2, AccountType
  <2> QED
    BY <1>3, <1>4, <1>10, <2>1, <2>2 DEF ServeResend
<1>11. CASE ServeCode(c)
  <2>1. calls' \subseteq Calls
    BY <1>11, <1>1 DEF ServeCode
  <2>2. users' \in Users
    <3> DEFINE r == users[c.who].reset \/ c.kind = "resetCode"
    <3>1. c.who \in People =>
            [users[c.who] EXCEPT !.code = FALSE, !.reset = r] \in Accounts
      <4>1. r \in BOOLEAN
        OBVIOUS
      <4> HIDE DEF r
      <4> QED
        BY <1>4, <4>1 DEF Accounts
    <3>2. users' = users \/
            users' = At([users[c.who] EXCEPT !.code = FALSE, !.reset = r])
      BY <1>11 DEF ServeCode
    <3> QED
      BY <1>4, <3>1, <3>2, AccountType
  <2> QED
    BY <1>3, <1>4, <1>11, <2>1, <2>2 DEF ServeCode
<1>12. CASE ServeReset(c)
  <2>1. calls' \subseteq Calls
    BY <1>12, <1>1 DEF ServeReset
  <2>2. users' \in Users
    <3> DEFINE u == [users[c.who] EXCEPT !.reset = FALSE, !.code = FALSE,
                                         !.version = @ + 1]
    <3>1. c.who \in People => u \in Accounts
      <4>1. c.who \in People => users[c.who].version + 1 \in Nat
        BY <1>4 DEF Accounts
      <4> QED
        BY <1>4, <4>1 DEF Accounts
    <3>2. users' = users \/ users' = At(u)
      BY <1>12 DEF ServeReset
    <3> QED
      BY <1>4, <3>1, <3>2, AccountType
  <2> QED
    BY <1>3, <1>4, <1>12, <2>1, <2>2 DEF ServeReset
<1>13. CASE ServeSession(c)
  <2>1. calls' \subseteq Calls
    BY <1>13, <1>2 DEF ServeSession
  <2>2. users' \in Users
    <3> DEFINE p == c.sent.who
               u == [users[p] EXCEPT !.version = @ + 1]
    <3>1. p \in People => u \in Accounts
      <4>1. p \in People => users[p].version + 1 \in Nat
        BY <1>4 DEF Accounts
      <4> QED
        BY <1>4, <4>1 DEF Accounts
    <3>2. users' = users \/ users' = [users EXCEPT ![p] = u]
      BY <1>13 DEF ServeSession
    <3> QED
      BY <1>4, <3>1, <3>2, AccountType
  <2> QED
    BY <1>3, <1>4, <1>13, <2>1, <2>2 DEF ServeSession
<1>14. CASE ServeForbidden(c)
  <2>1. Reply(c, "refused")
    BY <1>14 DEF ServeForbidden
  <2>2. calls' \subseteq Calls
    BY <1>1, <2>1
  <2>3. UNCHANGED <<serverOnly, users, regCodes, confirmed, registered>>
    BY <1>14 DEF ServeForbidden
  <2> QED
    BY <1>3, <1>4, <2>2, <2>3
<1> QED
  BY <1>5, <1>6, <1>7, <1>8, <1>9, <1>10, <1>11, <1>12, <1>13, <1>14 DEF Serve

LEMMA TypeNext == TypeOK /\ [Next]_vars => TypeOK'
<1> SUFFICES ASSUME TypeOK, [Next]_vars PROVE TypeOK'
  OBVIOUS
<1>1. ASSUME NEW p \in People, LoseRegisterCode(p) PROVE TypeOK'
  <2>1. regCodes' \in [People -> [held : Nat, issued : Nat]]
    BY <1>1 DEF LoseRegisterCode, TypeOK
  <2> QED
    BY <1>1, <2>1 DEF LoseRegisterCode, serverOnly, TypeOK
<1>2. ASSUME NEW p \in People, EndSessions(p) PROVE TypeOK'
  <2>1. users' \in [People -> [exists : BOOLEAN, version : Nat,
                               code : BOOLEAN, reset : BOOLEAN]]
    BY <1>2 DEF EndSessions, TypeOK
  <2> QED
    BY <1>2, <2>1 DEF EndSessions, serverOnly, TypeOK
<1>3. CASE UNCHANGED vars
  BY <1>3 DEF vars, TypeOK
<1> QED
  BY <1>1, <1>2, <1>3, PagesType, WizardType, FormType, HomeType, ServeType
  DEF Next

(* Every variable of the tab and of the server has its type.                  *)
THEOREM TypeCorrect == Spec => []TypeOK
  BY TypeInit, TypeNext, PTL DEF Spec

-----------------------------------------------------------------------------
(* What steps do to the calls                                                 *)

Same(c, d) == /\ d.kind = c.kind /\ d.who = c.who /\ d.about = c.about
              /\ d.sent = c.sent /\ d.live = c.live

(* A call is taken, or its state changes.                                     *)
AnswersOnly ==
  \/ calls' \subseteq calls
  \/ \E c \in calls : \E d \in Calls :
       Same(c, d) /\ calls' = (calls \ {c}) \cup {d}

(* A page of the tab, or nothing that it shows, is replaced.                  *)
Moves ==
  \/ \E to \in DOMAIN Links : OpenPage(to)
  \/ MoveOn
  \/ \E c \in calls : LoggedOut(c)

Background ==
  \/ \E c \in calls : Serve(c) \/ StrayAnswer(c) \/ CallFails(c)
                      \/ MeTaken(c) \/ PollTaken(c)
  \/ \E p \in People : LoseRegisterCode(p) \/ EndSessions(p)
  \/ UNCHANGED vars

LEMMA Steps ==
  ASSUME [Next]_vars
  PROVE  Moves \/ Background \/ Wizard \/ Form \/ Poll \/ Logout
  BY DEF Next, Home, Moves, Background

LEMMA ScenarioStays == [Next]_vars => scenario' = scenario
<1> SUFFICES ASSUME [Next]_vars PROVE scenario' = scenario
  OBVIOUS
<1>1. CASE Moves \/ Poll \/ Logout
  BY <1>1 DEF Moves, OpenPage, MoveOn, LoggedOut, Poll, Logout, homeOnly
<1>2. CASE Background
  BY <1>2 DEF Background, Serve, StrayAnswer, CallFails, MeTaken, PollTaken,
    LoseRegisterCode, EndSessions, ServeSend, ServeVerify, ServeRegister,
    ServeIdentifier, ServeChannel, ServeResend, ServeCode, ServeReset,
    ServeSession, ServeForbidden, serverOnly, homeOnly, vars
<1>3. CASE Wizard
  BY <1>3 DEF Wizard, TypeEmail, TypePhone, VerifyRegisterCode,
    SendRegisterCode, CodeExpires, Continue, SendPhoneCode, PhoneCodeExpires,
    EnterPhoneCode, SkipPhone, RegBack, Register, CodeSent, CodeVerified,
    Registered, regOnly
<1>4. CASE Form
  BY <1>4 DEF Form, TypeIdentifier, SubmitIdentifier, SubmitChannel, SubmitCode,
    ResendCode, SubmitNewPassword, FormBack, IdentifierTaken, ChannelTaken,
    CodeTaken, ResetCodeTaken, ResendTaken, ResetTaken, Ask, Taken, formOnly
<1> QED
  BY <1>1, <1>2, <1>3, <1>4, Steps

LEMMA ReplyAnswers ==
  ASSUME TypeOK, NEW c \in calls,
         NEW state \in {"out", "ok", "refused", "failed"}, Reply(c, state)
  PROVE  AnswersOnly
<1>1. [c EXCEPT !.state = state] \in Calls /\ Same(c, [c EXCEPT !.state = state])
  BY DEF TypeOK, Calls, Same
<1> QED
  BY <1>1 DEF Reply, AnswersOnly

LEMMA BackgroundAnswers ==
  ASSUME TypeOK, Background
  PROVE  AnswersOnly /\ UNCHANGED <<reg, form, acts>>
<1>1. ASSUME NEW c \in calls, StrayAnswer(c) \/ MeTaken(c) \/ PollTaken(c)
      PROVE  AnswersOnly /\ UNCHANGED <<reg, form, acts>>
  BY <1>1 DEF StrayAnswer, MeTaken, PollTaken, Answer, AnswersOnly, homeOnly,
    history
<1>2. ASSUME NEW c \in calls, CallFails(c)
      PROVE  AnswersOnly /\ UNCHANGED <<reg, form, acts>>
  <2>1. Reply(c, "failed")
    BY <1>2 DEF CallFails, Reply
  <2> QED
    BY <1>2, <2>1, ReplyAnswers DEF CallFails, history
<1>3. ASSUME NEW c \in calls, Serve(c)
      PROVE  AnswersOnly /\ UNCHANGED <<reg, form, acts>>
  <2>1. UNCHANGED serverOnly
    BY <1>3 DEF Serve, ServeSend, ServeVerify, ServeRegister, ServeIdentifier,
      ServeChannel, ServeResend, ServeCode, ServeReset, ServeSession,
      ServeForbidden
  <2>2. CASE \E state \in {"ok", "refused", "failed"} : Reply(c, state)
    BY <2>1, <2>2, ReplyAnswers DEF serverOnly
  <2>3. CASE ServeChannel(c)
    <3>1. CASE users[c.who].exists /\ calls' = (calls \ {c}) \cup
                 {[c EXCEPT !.state = "ok", !.n = users[c.who].version]}
      <4>1. c \in Calls /\ c.who \in People
        BY <2>3 DEF ServeChannel, Out, Calls, TypeOK
      <4>2. users[c.who].version \in Nat
        BY <4>1 DEF TypeOK
      <4>3. [c EXCEPT !.state = "ok", !.n = users[c.who].version] \in Calls
        BY <4>1, <4>2 DEF Calls
      <4>4. Same(c, [c EXCEPT !.state = "ok", !.n = users[c.who].version])
        BY <4>1 DEF Same, Calls
      <4> QED
        BY <2>1, <3>1, <4>3, <4>4 DEF AnswersOnly, serverOnly
    <3> QED
      BY <2>2, <2>3, <3>1 DEF ServeChannel
  <2> QED
    BY <1>3, <2>2, <2>3 DEF Serve, ServeSend, ServeVerify, ServeRegister,
      ServeIdentifier, ServeResend, ServeCode, ServeReset, ServeSession,
      ServeForbidden,
      ReplyIf
<1>4. ASSUME NEW p \in People, LoseRegisterCode(p) \/ EndSessions(p)
      PROVE  AnswersOnly /\ UNCHANGED <<reg, form, acts>>
  BY <1>4 DEF LoseRegisterCode, EndSessions, serverOnly, AnswersOnly
<1>5. CASE UNCHANGED vars
  BY <1>5 DEF vars, AnswersOnly
<1> QED
  BY <1>1, <1>2, <1>3, <1>4, <1>5 DEF Background

(* A page that is opened starts anew and has asked for the user at most.      *)
LEMMA MovesClear ==
  ASSUME TypeOK, Moves
  PROVE  /\ reg' = NewWizard /\ form' = NewForm
         /\ UNCHANGED <<users, regCodes, confirmed, registered, acts>>
         /\ \A d \in calls' :
              \/ d = Call("me", None, None, 0, token') /\ page' = "home"
              \/ ~d.live /\ \E c \in calls : d = [c EXCEPT !.live = FALSE]
<1>1. ASSUME NEW d \in Abandoned(calls)
      PROVE  ~d.live /\ \E c \in calls : d = [c EXCEPT !.live = FALSE]
  BY DEF Abandoned, TypeOK, Calls
<1>2. ASSUME NEW c \in calls
      PROVE  Abandoned(calls \ {c}) \subseteq Abandoned(calls)
  BY DEF Abandoned
<1> QED
  BY <1>1, <1>2 DEF Moves, OpenPage, MoveOn, LoggedOut, Mount, Loads, server,
    history

(* What the steps of one page leave to the others.                            *)
LEMMA WizardKeeps ==
  ASSUME TypeOK, Wizard
  PROVE  /\ UNCHANGED <<form, acts, registered>>
         /\ \A d \in calls' : d \in calls \/ d.kind \in WizardKinds
<1>1. CASE \E c \in calls : CodeSent(c) \/ CodeVerified(c) \/ Registered(c)
  BY <1>1 DEF CodeSent, CodeVerified, Registered, Answer, history
<1>2. CASE \/ SendRegisterCode \/ Register
           \/ \E n \in Nat : VerifyRegisterCode(n)
  BY <1>2 DEF SendRegisterCode, Register, VerifyRegisterCode, Issue, Call,
    WizardKinds, regOnly, history
<1>3. CASE \/ \E p \in People : TypeEmail(p)
           \/ \E n \in Phones : TypePhone(n)
           \/ CodeExpires \/ Continue \/ SendPhoneCode \/ PhoneCodeExpires
           \/ EnterPhoneCode \/ SkipPhone \/ RegBack
  BY <1>3 DEF TypeEmail, TypePhone, CodeExpires, Continue, SendPhoneCode,
    PhoneCodeExpires, EnterPhoneCode, SkipPhone, RegBack, regOnly, history
<1>4. \A p \in People : \A n \in 1 .. regCodes[p].issued : n \in Nat
  OBVIOUS
<1> QED
  BY <1>1, <1>2, <1>3, <1>4 DEF Wizard

LEMMA FormKeeps ==
  ASSUME TypeOK, Form
  PROVE  /\ UNCHANGED <<reg, confirmed, registered>>
         /\ \A d \in calls' : d \in calls \/ d.kind \in FormKinds
<1>1. CASE \E p \in People : TypeIdentifier(p)
  BY <1>1 DEF TypeIdentifier, formOnly, history
<1>2. CASE FormBack
  BY <1>2 DEF FormBack, formOnly, history
<1>3. CASE SubmitIdentifier \/ SubmitChannel \/ SubmitCode \/ ResendCode
             \/ SubmitNewPassword
  <2>1. PICK c, f : Ask(c, f) /\ c.kind \in FormKinds
    BY <1>3 DEF SubmitIdentifier, SubmitChannel, SubmitCode, ResendCode,
      SubmitNewPassword, Call, FormKinds
  <2> QED
    BY <2>1 DEF Ask, Issue, formOnly, history
<1>4. CASE \E c \in calls :
             \/ IdentifierTaken(c) \/ ChannelTaken(c) \/ CodeTaken(c)
             \/ ResetCodeTaken(c) \/ ResendTaken(c) \/ ResetTaken(c)
  BY <1>4 DEF IdentifierTaken, ChannelTaken, CodeTaken, ResetCodeTaken,
    ResendTaken, ResetTaken, Answer, Taken
<1> QED
  BY <1>1, <1>2, <1>3, <1>4 DEF Form

LEMMA HomeKeeps ==
  ASSUME TypeOK, Poll \/ Logout
  PROVE  /\ UNCHANGED <<reg, form, confirmed, registered, acts>>
         /\ \A d \in calls' : d \in calls \/ d.kind \in {"poll", "logout"}
  BY DEF Poll, Logout, Issue, Call, homeOnly, history

-----------------------------------------------------------------------------
(* The forms act on the person submitted                                      *)

LEMMA FormInit == Init => FormInv
  BY DEF Init, FormInv, FormKeepsWho, ActsOnTheSubmitted, Live, NewForm

LEMMA FormAnswers ==
  ASSUME TypeOK, FormInv, AnswersOnly, UNCHANGED <<form, acts>>
  PROVE  FormInv'
<1>1. CASE calls' \subseteq calls
  BY <1>1 DEF FormInv, FormKeepsWho, ActsOnTheSubmitted, Live
<1>2. ASSUME NEW c \in calls, NEW d \in Calls, Same(c, d),
             calls' = (calls \ {c}) \cup {d}
      PROVE  FormInv'
  BY <1>2 DEF FormInv, FormKeepsWho, ActsOnTheSubmitted, Live, Same
<1> QED
  BY <1>1, <1>2 DEF AnswersOnly

LEMMA FormIgnores ==
  ASSUME TypeOK, FormInv, UNCHANGED <<form, acts>>,
         \A d \in calls' : d \in calls \/ d.kind \in WizardKinds \cup HomeKinds
  PROVE  FormInv'
<1>1. /\ \A d \in Live(FormKinds)' : d \in Live(FormKinds)
      /\ \A d \in Live({"login", "start", "code", "resetCode", "reset"})' :
           d \in Live({"login", "start", "code", "resetCode", "reset"})
      /\ \A d \in Live({"code", "resetCode"})' : d \in Live({"code", "resetCode"})
      /\ \A d \in Live({"reset"})' : d \in Live({"reset"})
  BY DEF Live, WizardKinds, HomeKinds, FormKinds
<1> QED
  BY <1>1 DEF FormInv, FormKeepsWho, ActsOnTheSubmitted

LEMMA AskKeeps ==
  ASSUME TypeOK, FormInv, NEW c, NEW f, Ask(c, f), c.kind \in FormKinds,
         f.loading,
         f.step \in {"code", "password"} \/ c.kind \in {"code", "resetCode"}
           => f.pending = NoToken \/ f.pending.who = f.submitted,
         f.step = "password" => f.reset = f.submitted,
         c.kind \in {"login", "start", "code", "resetCode", "reset"}
           => c.who = f.submitted,
         c.kind = "reset" => c.about = f.submitted
  PROVE  FormInv'
<1>1. /\ calls' = calls \cup {c} /\ form' = f /\ UNCHANGED acts
      /\ Live(FormKinds) = {}
  BY DEF Ask, Issue, Free, FormInv, FormKeepsWho, formOnly, history
<1>2. \A d \in calls' : d.live /\ d.kind \in FormKinds => d = c
  BY <1>1 DEF Live
<1>3. ActsOnTheSubmitted'
  BY <1>1 DEF FormInv, ActsOnTheSubmitted
<1> QED
  BY <1>1, <1>2, <1>3 DEF FormInv, FormKeepsWho, Live, FormKinds

LEMMA FormSubmits ==
  ASSUME TypeOK, FormInv,
         SubmitIdentifier \/ SubmitChannel \/ SubmitCode \/ ResendCode
           \/ SubmitNewPassword
  PROVE  FormInv'
<1> form \in Forms
  BY DEF TypeOK
<1> FormKeepsWho
  BY DEF FormInv
<1>1. Loading.loading /\ Naming.loading /\ Loading.step = form.step
        /\ Naming.step = form.step /\ Naming.submitted = form.typed
        /\ Loading.submitted = form.submitted /\ Loading.reset = form.reset
        /\ Loading.pending = form.pending
  BY DEF Loading, Naming, Forms
<1>2. CASE SubmitIdentifier
  <2>1. PICK k \in {"options", "find"} :
          Ask(Call(k, form.typed, None, 0, token), Naming)
    BY <1>2 DEF SubmitIdentifier
  <2> QED
    BY <1>1, <1>2, <2>1, AskKeeps DEF SubmitIdentifier, Call, FormKinds
<1>3. CASE SubmitChannel
  <2>1. PICK k \in {"login", "start"} :
          Ask(Call(k, form.typed, None, 0, token), Naming)
    BY <1>3 DEF SubmitChannel
  <2> QED
    BY <1>1, <1>3, <2>1, AskKeeps DEF SubmitChannel, Call, FormKinds
<1>4. CASE SubmitCode \/ ResendCode
  <2>1. PICK k \in {"code", "resetCode", "resend", "resetResend"},
             t \in {token, form.pending} :
          Ask(Call(k, form.pending.who, None, 0, t), Loading)
    BY <1>4 DEF SubmitCode, ResendCode
  <2>2. form.step = "code" /\ form.pending.who = form.submitted
    BY <1>4 DEF SubmitCode, ResendCode, FormKeepsWho
  <2> QED
    BY <1>1, <2>1, <2>2, AskKeeps DEF Call, FormKinds
<1>5. CASE SubmitNewPassword
  <2>1. Ask(Call("reset", form.reset, form.submitted, 0, token), Loading)
    BY <1>5 DEF SubmitNewPassword
  <2>2. form.step = "password" /\ form.reset = form.submitted
    BY <1>5 DEF SubmitNewPassword, FormKeepsWho
  <2>3. form.pending = NoToken \/ form.pending.who = form.submitted
    BY <2>2 DEF FormKeepsWho
  <2> QED
    BY <1>1, <2>1, <2>2, <2>3, AskKeeps DEF Call, FormKinds
<1> QED
  BY <1>2, <1>3, <1>4, <1>5

LEMMA FormNext == TypeOK /\ FormInv /\ [Next]_vars => FormInv'
<1> SUFFICES ASSUME TypeOK, FormInv, [Next]_vars PROVE FormInv'
  OBVIOUS
<1> form \in Forms
  BY DEF TypeOK
<1>1. CASE Moves
  <2>1. \A d \in calls' : d.live => d.kind = "me"
    BY <1>1, MovesClear DEF Call
  <2>2. form'.step = "who" /\ UNCHANGED acts
    BY <1>1, MovesClear DEF NewForm
  <2> QED
    BY <2>1, <2>2 DEF FormInv, FormKeepsWho, ActsOnTheSubmitted, Live, FormKinds
<1>2. CASE Background
  BY <1>2, BackgroundAnswers, FormAnswers
<1>3. CASE Wizard \/ Poll \/ Logout
  BY <1>3, WizardKeeps, HomeKeeps, FormIgnores DEF HomeKinds
<1>4. CASE Form
  <2>1. ASSUME NEW p \in People, TypeIdentifier(p) PROVE FormInv'
    BY <2>1 DEF TypeIdentifier, formOnly, history, FormInv, FormKeepsWho,
      ActsOnTheSubmitted, Live, Forms
  <2>2. CASE FormBack
    BY <2>2 DEF FormBack, formOnly, history, FormInv, FormKeepsWho,
      ActsOnTheSubmitted, Live, Forms
  <2>3. ASSUME NEW c \in calls,
               \/ IdentifierTaken(c) \/ ChannelTaken(c) \/ CodeTaken(c)
               \/ ResetCodeTaken(c) \/ ResendTaken(c) \/ ResetTaken(c)
        PROVE  FormInv'
    <3>1. c \in Live(FormKinds) /\ calls' = calls \ {c}
      BY <2>3 DEF IdentifierTaken, ChannelTaken, CodeTaken, ResetCodeTaken,
        ResendTaken, ResetTaken, Answer, Live, FormKinds
    <3>2. \A d \in calls' : d.live => d.kind \notin FormKinds
      BY <3>1 DEF Live, FormInv, FormKeepsWho
    <3>3. c.kind \in {"login", "start", "code", "resetCode", "reset"}
            => c.who = form.submitted
      BY <3>1 DEF Live, FormInv, FormKeepsWho
    <3>4. c.kind \in {"code", "resetCode"} =>
            form.pending = NoToken \/ form.pending.who = form.submitted
      BY <3>1 DEF Live, FormInv, FormKeepsWho
    <3>5. c.kind = "reset" => c.about = form.submitted
      BY <3>1 DEF Live, FormInv, FormKeepsWho
    <3>6. form'.submitted = form.submitted
      BY <2>3 DEF IdentifierTaken, ChannelTaken, CodeTaken, ResetCodeTaken,
        ResendTaken, ResetTaken, Taken, Forms
    <3>7. form'.step \in {"code", "password"} /\ form'.pending # NoToken
            => form'.pending.who = form'.submitted
      <4>1. CASE IdentifierTaken(c)
        BY <4>1 DEF IdentifierTaken, Taken, Forms, FormInv, FormKeepsWho
      <4>2. CASE ChannelTaken(c)
        BY <3>3, <4>2 DEF ChannelTaken, Answer, Taken, Forms, FormInv,
          FormKeepsWho
      <4>3. CASE CodeTaken(c) \/ ResendTaken(c) \/ ResetTaken(c)
        BY <4>3 DEF CodeTaken, ResendTaken, ResetTaken, Taken, Forms, FormInv,
          FormKeepsWho
      <4>4. CASE ResetCodeTaken(c)
        BY <3>4, <4>4 DEF ResetCodeTaken, Answer, Taken, Forms, FormInv,
          FormKeepsWho
      <4> QED
        BY <2>3, <4>1, <4>2, <4>3, <4>4
    <3>8. form'.step = "password" => form'.reset = form'.submitted
      <4>1. CASE IdentifierTaken(c) \/ ChannelTaken(c)
        BY <4>1 DEF IdentifierTaken, ChannelTaken, Taken, Forms, FormInv,
          FormKeepsWho
      <4>2. CASE CodeTaken(c) \/ ResendTaken(c) \/ ResetTaken(c)
        BY <4>2 DEF CodeTaken, ResendTaken, ResetTaken, Taken, Forms, FormInv,
          FormKeepsWho
      <4>3. CASE ResetCodeTaken(c)
        BY <3>3, <4>3 DEF ResetCodeTaken, Answer, Taken, Forms, FormInv,
          FormKeepsWho
      <4> QED
        BY <2>3, <4>1, <4>2, <4>3
    <3>9. ActsOnTheSubmitted'
      <4>1. CASE CodeTaken(c)
        BY <3>3, <4>1 DEF CodeTaken, Answer, Act, FormInv, ActsOnTheSubmitted
      <4>2. CASE ResetTaken(c)
        BY <3>3, <3>5, <4>2 DEF ResetTaken, Answer, Act, FormInv,
          ActsOnTheSubmitted
      <4>3. CASE UNCHANGED acts
        BY <4>3 DEF FormInv, ActsOnTheSubmitted
      <4> QED
        BY <2>3, <4>1, <4>2, <4>3 DEF IdentifierTaken, ChannelTaken,
          ResetCodeTaken, ResendTaken
    <3> QED
      BY <3>2, <3>7, <3>8, <3>9 DEF FormInv, FormKeepsWho, Live, FormKinds
  <2> QED
    BY <1>4, <2>1, <2>2, <2>3, FormSubmits DEF Form
<1> QED
  BY <1>1, <1>2, <1>3, <1>4, Steps

(* Whoever goes back and forth, a page signs in, or sets the password of, the *)
(* person last submitted on it.                                               *)
THEOREM ActsOnTheSubmittedHolds == Spec => []ActsOnTheSubmitted
<1>1. Init => TypeOK /\ FormInv
  BY TypeInit, FormInit
<1>2. (TypeOK /\ FormInv) /\ [Next]_vars => (TypeOK /\ FormInv)'
  BY TypeNext, FormNext
<1>3. FormInv => ActsOnTheSubmitted
  BY DEF FormInv
<1> QED
  BY <1>1, <1>2, <1>3, PTL DEF Spec

-----------------------------------------------------------------------------
(* What accounts are created with                                             *)

\* A code is confirmed, and an account created, by the call that asks for it.
LEMMA BackgroundServes ==
  ASSUME TypeOK, Background
  PROVE  /\ confirmed'.phones = confirmed.phones
         /\ confirmed.emails \subseteq confirmed'.emails
         /\ \A r \in registered' :
              \/ r \in registered
              \/ \E c \in calls : /\ c.kind = "register"
                                 /\ r = [email |-> c.who, phone |-> c.about]
         /\ \A d \in calls' :
              \/ d \in calls
              \/ \E c \in calls :
                   /\ Same(c, d)
                   /\ d.kind = "verify" /\ d.state = "ok"
                        => d.who \in confirmed'.emails
<1>1. ASSUME NEW c \in calls, StrayAnswer(c) \/ MeTaken(c) \/ PollTaken(c)
      PROVE  calls' \subseteq calls /\ UNCHANGED <<confirmed, registered>>
  BY <1>1 DEF StrayAnswer, MeTaken, PollTaken, Answer, homeOnly, history
<1>2. ASSUME NEW c \in calls, NEW state, calls' =
               (calls \ {c}) \cup {[c EXCEPT !.state = state]}
      PROVE  \A d \in calls' : d \in calls \/ (Same(c, d) /\ d.state = state)
  BY <1>2 DEF Same, TypeOK, Calls
<1>3. ASSUME NEW c \in calls, CallFails(c)
      PROVE  /\ UNCHANGED <<confirmed, registered>>
             /\ \A d \in calls' :
                  d \in calls \/ (Same(c, d) /\ d.state = "failed")
  BY <1>2, <1>3 DEF CallFails, history
<1>4. ASSUME NEW c \in calls, ServeVerify(c)
      PROVE  /\ UNCHANGED registered
             /\ confirmed'.phones = confirmed.phones
             /\ confirmed.emails \subseteq confirmed'.emails
             /\ \A d \in calls' :
                  \/ d \in calls
                  \/ /\ Same(c, d)
                     /\ d.state = "ok" => d.who \in confirmed'.emails
  <2>1. CASE regCodes[c.who].held = c.n
    <3> DEFINE d == [c EXCEPT !.state = "ok"]
    <3>1. calls' = (calls \ {c}) \cup {d}
      BY <1>4, <2>1 DEF ServeVerify, ReplyIf, Reply
    <3>2. Same(c, d)
      BY DEF Same, TypeOK, Calls
    <3>3. registered' = registered
            /\ confirmed' = [confirmed EXCEPT !.emails = @ \cup {c.who}]
      BY <1>4, <2>1 DEF ServeVerify
    <3>4. /\ confirmed'.phones = confirmed.phones
          /\ confirmed'.emails = confirmed.emails \cup {c.who}
      BY <3>3 DEF TypeOK
    <3> HIDE DEF d
    <3> QED
      BY <3>1, <3>2, <3>3, <3>4 DEF Same
  <2>2. CASE regCodes[c.who].held # c.n
    BY <1>2, <1>4, <2>2 DEF ServeVerify, ReplyIf, Reply
  <2> QED
    BY <2>1, <2>2
<1>5. ASSUME NEW c \in calls, Serve(c), ~ServeVerify(c)
      PROVE  /\ UNCHANGED confirmed
             /\ registered' \subseteq registered \cup
                  (IF c.kind = "register"
                   THEN {[email |-> c.who, phone |-> c.about]} ELSE {})
             /\ \A d \in calls' :
                  d \in calls \/ (Same(c, d) /\ d.kind # "verify")
  <2>1. c.kind # "verify" /\ c \in Calls
    BY <1>5 DEF Serve, Out, ServeSend, ServeRegister, ServeIdentifier,
      ServeChannel, ServeResend, ServeCode, ServeReset, ServeSession,
      ServeForbidden, TypeOK
  <2>2. UNCHANGED confirmed /\ (registered' = registered \/ ServeRegister(c))
    BY <1>5 DEF Serve, ServeSend, ServeRegister, ServeIdentifier,
      ServeChannel, ServeResend, ServeCode, ServeReset, ServeSession,
      ServeForbidden
  <2>3. ServeRegister(c) => c.kind = "register" /\ registered' \subseteq
          registered \cup {[email |-> c.who, phone |-> c.about]}
    BY DEF ServeRegister, Out
  <2>4. AnswersOnly /\ \A d \in calls' : d \in calls \/ Same(c, d)
    <3>1. CASE ServeChannel(c)
      <4>1. PICK d : calls' = (calls \ {c}) \cup {d} /\ Same(c, d)
        <5> DEFINE e == [c EXCEPT !.state = "ok",
                                  !.n = users[c.who].version]
        <5>1. ASSUME NEW state PROVE Same(c, [c EXCEPT !.state = state])
          BY <2>1 DEF Same, Calls
        <5>2. Same(c, e)
          BY <2>1 DEF Same, Calls
        <5>3. calls' = (calls \ {c}) \cup {e} \/ \E state : Reply(c, state)
          BY <3>1 DEF ServeChannel
        <5> HIDE DEF e
        <5> QED
          BY <5>1, <5>2, <5>3 DEF Reply
      <4> QED
        BY <1>5, <4>1, BackgroundAnswers DEF Background
    <3>2. CASE \E state \in {"ok", "refused", "failed"} : Reply(c, state)
      BY <1>2, <1>5, <3>2, BackgroundAnswers DEF Reply, Background
    <3> QED
      BY <1>5, <3>1, <3>2 DEF Serve, ServeSend, ServeRegister,
        ServeIdentifier, ServeResend, ServeCode, ServeReset, ServeSession,
        ServeForbidden,
        ReplyIf
  <2> QED
    BY <2>1, <2>2, <2>3, <2>4 DEF Same
<1>6. ASSUME NEW p \in People, LoseRegisterCode(p) \/ EndSessions(p)
      PROVE  UNCHANGED <<calls, confirmed, registered>>
  BY <1>6 DEF LoseRegisterCode, EndSessions
<1>7. CASE UNCHANGED vars
  BY <1>7 DEF vars
<1>8. ASSUME NEW c \in calls, Serve(c), ServeVerify(c) PROVE c.kind = "verify"
  BY <1>8 DEF ServeVerify, Out
<1> QED
  BY <1>1, <1>3, <1>4, <1>5, <1>6, <1>7 DEF Background

LEMMA PhoneInit == Init => PhoneInv
  BY DEF Init, PhoneInv, NewWizard

LEMMA PhoneNext == TypeOK /\ PhoneInv /\ [Next]_vars => PhoneInv'
<1> SUFFICES ASSUME TypeOK, PhoneInv, [Next]_vars PROVE PhoneInv'
  OBVIOUS
<1> reg \in Wizards /\ calls \subseteq Calls
  BY DEF TypeOK
<1>1. CASE Moves
  BY <1>1, MovesClear DEF PhoneInv, NewWizard, Call, Calls
<1>2. CASE Background
  <2>1. reg' = reg
    BY <1>2, BackgroundAnswers
  <2> QED
    BY <1>2, <2>1, BackgroundServes DEF PhoneInv, Same
<1>3. CASE Form
  BY <1>3, FormKeeps DEF PhoneInv, FormKinds
<1>4. CASE Poll \/ Logout
  BY <1>4, HomeKeeps DEF PhoneInv
<1>5. CASE Wizard
  <2>1. UNCHANGED registered
    BY <1>5, WizardKeeps
  <2>2. ASSUME NEW d \in calls', d.kind = "register"
        PROVE  d \in calls \/ (d.about = reg.phone /\ reg.step = "kyc")
    <3>1. CASE \E c \in calls : CodeSent(c) \/ CodeVerified(c) \/ Registered(c)
      BY <2>2, <3>1 DEF CodeSent, CodeVerified, Registered, Answer
    <3>2. CASE \/ SendRegisterCode \/ Register
               \/ \E n \in Nat : VerifyRegisterCode(n)
      BY <2>2, <3>2 DEF SendRegisterCode, Register, VerifyRegisterCode, Issue,
        Call
    <3>3. CASE \/ \E p \in People : TypeEmail(p)
               \/ \E n \in Phones : TypePhone(n)
               \/ CodeExpires \/ Continue \/ SendPhoneCode
               \/ PhoneCodeExpires \/ EnterPhoneCode \/ SkipPhone \/ RegBack
      BY <2>2, <3>3 DEF TypeEmail, TypePhone, CodeExpires, Continue,
        SendPhoneCode, PhoneCodeExpires, EnterPhoneCode, SkipPhone, RegBack
    <3>4. \A p \in People : \A n \in 1 .. regCodes[p].issued : n \in Nat
      OBVIOUS
    <3> QED
      BY <1>5, <3>1, <3>2, <3>3, <3>4 DEF Wizard
  <2>3. confirmed.phones \subseteq confirmed'.phones
    <3>1. CASE EnterPhoneCode
      BY <3>1 DEF EnterPhoneCode, TypeOK
    <3>2. CASE UNCHANGED confirmed
      BY <3>2
    <3> QED
      BY <1>5, <3>1, <3>2 DEF Wizard, TypeEmail, TypePhone,
        VerifyRegisterCode, SendRegisterCode, CodeExpires, Continue,
        SendPhoneCode, PhoneCodeExpires, SkipPhone, RegBack, Register,
        CodeSent, CodeVerified, Registered, regOnly, history
  <2>4. /\ reg'.step \in {"profile", "kyc"} =>
              /\ reg'.phone \in confirmed'.phones \cup {None}
              /\ reg'.phoneVerified \/ reg'.expected = None
        /\ reg'.step = "phoneCode" /\ ~reg'.phoneVerified
              /\ reg'.phoneCode = "live" => reg'.expected = reg'.phone
    <3>1. CASE \/ \E p \in People : TypeEmail(p)
               \/ \E n \in Phones : TypePhone(n)
               \/ SendRegisterCode \/ Register
               \/ \E n \in Nat : VerifyRegisterCode(n)
               \/ CodeExpires \/ PhoneCodeExpires
      BY <2>3, <3>1 DEF PhoneInv, Wizards, TypeEmail, TypePhone,
        SendRegisterCode, Register, VerifyRegisterCode, CodeExpires,
        PhoneCodeExpires
    <3>2. CASE SendPhoneCode
      BY <3>2 DEF Wizards, SendPhoneCode
    <3>7. CASE SkipPhone
      <4>1. reg'.step = "profile" /\ reg'.phone = None /\ reg'.expected = None
        BY <3>7 DEF SkipPhone, NoPhoneCode, Wizards
      <4> QED
        BY <4>1
    <3>3. CASE Continue
      BY <2>3, <3>3 DEF PhoneInv, Wizards, Continue
    <3>4. CASE EnterPhoneCode
      <4>1. CASE reg.phoneCode = "live"
        <5>1. reg'.step = "profile" /\ reg'.phoneVerified
                /\ reg'.phone = reg.phone /\ reg.phone = reg.expected
          BY <3>4, <4>1 DEF PhoneInv, Wizards, EnterPhoneCode
        <5>2. reg.expected \in confirmed'.phones
          BY <3>4, <4>1 DEF EnterPhoneCode, TypeOK
        <5> QED
          BY <5>1, <5>2
      <4>2. CASE reg.phoneCode # "live"
        BY <3>4, <4>2 DEF Wizards, EnterPhoneCode, NoPhoneCode
      <4> QED
        BY <4>1, <4>2
    <3>5. CASE RegBack
      <4>1. /\ reg'.phone = reg.phone /\ reg'.expected = reg.expected
            /\ reg'.phoneVerified = reg.phoneVerified
            /\ reg'.phoneCode = reg.phoneCode
        BY <3>5 DEF Wizards, RegBack
      <4>2. reg'.step = RegBackTo /\ reg.step # "account"
        BY <3>5 DEF Wizards, RegBack
      <4>3. reg.step \in WizardSteps
        BY DEF Wizards
      <4>4. \/ reg'.step \in {"account", "password", "phone"}
            \/ /\ reg.step = "profile" /\ reg'.step = "phoneCode"
               /\ reg.phoneVerified \/ reg.expected # None
            \/ reg.step = "kyc" /\ reg'.step = "profile"
        BY <4>2, <4>3 DEF RegBackTo, WizardSteps
      <4> QED
        BY <2>3, <4>1, <4>4 DEF PhoneInv
    <3>6. CASE \E c \in calls : CodeSent(c) \/ CodeVerified(c) \/ Registered(c)
      <4>1. /\ reg'.phone = reg.phone /\ reg'.expected = reg.expected
            /\ reg'.phoneVerified = reg.phoneVerified
            /\ reg'.phoneCode = reg.phoneCode
        BY <3>6 DEF Wizards, CodeSent, CodeVerified, Registered
      <4>2. reg'.step \in {reg.step, "password"}
        BY <3>6 DEF Wizards, CodeSent, CodeVerified, Registered
      <4> QED
        BY <2>3, <4>1, <4>2 DEF PhoneInv
    <3>8. \A p \in People : \A n \in 1 .. regCodes[p].issued : n \in Nat
      OBVIOUS
    <3> QED
      BY <1>5, <3>1, <3>2, <3>3, <3>4, <3>5, <3>6, <3>7, <3>8 DEF Wizard
  <2> QED
    BY <2>1, <2>2, <2>3, <2>4 DEF PhoneInv
<1> QED
  BY <1>1, <1>2, <1>3, <1>4, <1>5, Steps

LEMMA EmailInit == Init => EmailInv
  BY DEF Init, EmailInv, NewWizard, Live, WizardKinds

LEMMA EmailNext == TypeOK /\ EmailInv /\ [Next]_vars => EmailInv'
<1> SUFFICES ASSUME TypeOK, EmailInv, [Next]_vars, ~Hasty PROVE EmailInv'
  BY ScenarioStays DEF EmailInv, Hasty
<1> reg \in Wizards /\ calls \subseteq Calls
  BY DEF TypeOK
<1>1. CASE Moves
  <2>1. \A d \in calls' : d.live => d.kind = "me"
    BY <1>1, MovesClear DEF Call
  <2>2. \A d \in calls' : d.kind = "me" \/ \E c \in calls :
          c.kind = d.kind /\ c.who = d.who /\ c.state = d.state
    BY <1>1, MovesClear DEF Call, Calls
  <2> QED
    BY <1>1, <2>1, <2>2, MovesClear DEF EmailInv, NewWizard, Live, WizardKinds
<1>2. CASE Background
  <2>1. reg' = reg
    BY <1>2, BackgroundAnswers
  <2>2. \A d \in Live(WizardKinds)' : \E c \in Live(WizardKinds) : Same(c, d)
    BY <1>2, BackgroundServes DEF Live, Same
  <2>3. \A d, e \in Live(WizardKinds)' : d = e
    <3>1. CASE calls' \subseteq calls
      BY <3>1 DEF Live, EmailInv
    <3>2. ASSUME NEW c \in calls, NEW d \in Calls, Same(c, d),
                 calls' = (calls \ {c}) \cup {d}
          PROVE  \A a, b \in Live(WizardKinds)' : a = b
      BY <3>2 DEF Live, EmailInv, Same
    <3> QED
      BY <1>2, <3>1, <3>2, BackgroundAnswers DEF AnswersOnly
  <2>4. \A c \in calls' : c.kind = "verify" /\ c.state = "ok" =>
          c.who \in confirmed'.emails
    BY <1>2, BackgroundServes DEF EmailInv
  <2>5. \A c \in calls' : c.kind = "register" => c.who \in confirmed'.emails
    BY <1>2, BackgroundServes DEF EmailInv, Same
  <2>6. \A r \in registered' : r.email \in confirmed'.emails
    BY <1>2, BackgroundServes DEF EmailInv
  <2>7. confirmed.emails \subseteq confirmed'.emails
    BY <1>2, BackgroundServes
  <2>8. \A k \in WizardKinds :
          \A d \in Live({k})' : \E c \in Live({k}) : c.who = d.who
    BY <2>2 DEF Live, Same
  <2>9. \A d \in Live({"send"})' : Live({"send"}) # {}
    BY <2>8 DEF WizardKinds
  <2>10. \A d \in Live({"verify"})' : \E c \in Live({"verify"}) : c.who = d.who
    BY <2>8 DEF WizardKinds
  <2> QED
    BY <2>1, <2>2, <2>3, <2>4, <2>5, <2>6, <2>7, <2>9, <2>10 DEF EmailInv
<1>3. CASE Form \/ Poll \/ Logout
  <2>1. \A d \in calls' : d \in calls \/ d.kind \notin WizardKinds
    BY <1>3, FormKeeps, HomeKeeps DEF FormKinds, WizardKinds
  <2>2. UNCHANGED <<reg, confirmed, registered>>
    BY <1>3, FormKeeps, HomeKeeps
  <2> QED
    BY <2>1, <2>2 DEF EmailInv, Live, WizardKinds
<1>4. CASE Wizard
  <2>1. ASSUME NEW c \in calls, CodeSent(c) \/ CodeVerified(c) \/ Registered(c)
        PROVE  EmailInv'
    <3>1. /\ c \in Live(WizardKinds) /\ calls' = calls \ {c}
          /\ UNCHANGED <<confirmed, registered>>
      BY <2>1 DEF CodeSent, CodeVerified, Registered, Answer, Live,
        WizardKinds, history
    <3>2. \A d \in calls' : d.live => d.kind \notin WizardKinds
      BY <3>1 DEF Live, EmailInv
    <3>3. reg'.step # "account" \/ reg'.verified =>
            reg'.email \in confirmed.emails
      <4>1. CASE CodeSent(c)
        <5>1. reg.step = "account" /\ ~reg.verified
          BY <3>1, <4>1 DEF CodeSent, Answer, Live, EmailInv
        <5> QED
          BY <4>1, <5>1 DEF CodeSent, Wizards
      <4>2. CASE CodeVerified(c)
        <5>1. c.who = reg.email
          BY <3>1, <4>2 DEF CodeVerified, Answer, Live, EmailInv
        <5>2. c.state = "ok" => c.who \in confirmed.emails
          BY <3>1, <4>2 DEF CodeVerified, Answer, Live, EmailInv
        <5> QED
          BY <4>2, <5>1, <5>2 DEF CodeVerified, Wizards, EmailInv
      <4>3. CASE Registered(c)
        BY <4>3 DEF Registered, Wizards, EmailInv
      <4> QED
        BY <2>1, <4>1, <4>2, <4>3
    <3> QED
      BY <3>1, <3>2, <3>3 DEF EmailInv, Live, WizardKinds
  <2>2. ASSUME NEW c,
               calls' = calls \cup {c}, c.kind \in WizardKinds, ~reg.loading,
               reg' = [reg EXCEPT !.loading = TRUE], UNCHANGED confirmed,
               c.state = "out", c.who = reg.email,
               c.kind = "send" => reg.step = "account" /\ ~reg.verified,
               c.kind = "verify" => reg.sent,
               c.kind = "register" => reg.step = "kyc"
        PROVE  EmailInv'
    <3>1. \A d \in calls' : d.live /\ d.kind \in WizardKinds => d = c
      BY <2>2 DEF Live, EmailInv
    <3>2. /\ reg'.loading /\ reg'.step = reg.step /\ reg'.email = reg.email
          /\ reg'.verified = reg.verified /\ reg'.sent = reg.sent
      BY <2>2 DEF Wizards
    <3>3. UNCHANGED registered
      BY <1>4, WizardKeeps
    <3> QED
      BY <2>2, <3>1, <3>2, <3>3 DEF EmailInv, Live, WizardKinds
  <2>3. CASE SendRegisterCode \/ Register
    BY <2>2, <2>3 DEF SendRegisterCode, Register, Issue, Call, WizardKinds,
      regOnly, history
  <2>4. ASSUME NEW n \in Nat, VerifyRegisterCode(n) PROVE EmailInv'
    <3>1. CASE reg.code = "live"
      <4> DEFINE c == Call("verify", reg.email, None, n, token)
      <4>1. /\ calls' = calls \cup {c} /\ ~reg.loading /\ reg.sent
            /\ reg' = [reg EXCEPT !.loading = TRUE] /\ UNCHANGED confirmed
        BY <2>4, <3>1 DEF VerifyRegisterCode, Issue, regOnly, history
      <4>2. c.kind = "verify" /\ c.state = "out" /\ c.who = reg.email
        BY DEF Call
      <4> HIDE DEF c
      <4> QED
        BY <2>2, <4>1, <4>2 DEF WizardKinds
    <3>2. CASE reg.code # "live"
      <4>1. /\ UNCHANGED <<calls, confirmed, registered>> /\ ~reg.loading
            /\ reg'.step = reg.step /\ reg'.email = reg.email
            /\ reg'.verified = reg.verified
        BY <2>4, <3>2 DEF VerifyRegisterCode, regOnly, history, Wizards
      <4>2. \A d \in calls : d.live => d.kind \notin WizardKinds
        BY <4>1 DEF EmailInv, Live
      <4> QED
        BY <4>1, <4>2 DEF EmailInv, Live, WizardKinds
    <3> QED
      BY <3>1, <3>2
  <2>5. ASSUME UNCHANGED <<calls, registered>>,
               confirmed'.emails = confirmed.emails,
               /\ reg'.loading = reg.loading /\ reg'.sent = reg.sent
               /\ reg'.email = reg.email /\ reg'.verified = reg.verified,
               reg'.step = reg.step \/ reg.step # "account" \/ reg.verified
        PROVE  EmailInv'
    <3>1. \A c \in Live({"send"})' : reg'.step = "account" /\ ~reg'.verified
      BY <2>5 DEF EmailInv, Live
    <3>2. reg'.step # "account" \/ reg'.verified =>
            reg'.email \in confirmed'.emails
      BY <2>5 DEF EmailInv
    <3> QED
      BY <2>5, <3>1, <3>2 DEF EmailInv, Live
  <2>6. ASSUME NEW p \in People, TypeEmail(p) PROVE EmailInv'
    BY <2>6 DEF TypeEmail, regOnly, history, Wizards, EmailInv, Live
  <2>7. ASSUME NEW n \in Phones, TypePhone(n) PROVE EmailInv'
    BY <2>5, <2>7 DEF TypePhone, regOnly, history, Wizards
  <2>8. CASE CodeExpires \/ PhoneCodeExpires \/ SendPhoneCode
    BY <2>5, <2>8 DEF CodeExpires, PhoneCodeExpires, SendPhoneCode, regOnly,
      history, Wizards
  <2>9. CASE Continue \/ RegBack
    BY <2>5, <2>9 DEF Continue, RegBack, regOnly, history, Wizards
  <2>10. CASE SkipPhone
    BY <2>5, <2>10 DEF SkipPhone, NoPhoneCode, regOnly, history, Wizards
  <2>11. CASE EnterPhoneCode
    <3>1. UNCHANGED <<calls, registered>> /\ confirmed'.emails = confirmed.emails
      BY <2>11 DEF EnterPhoneCode, TypeOK
    <3>2. /\ reg'.loading = reg.loading /\ reg'.sent = reg.sent
          /\ reg'.email = reg.email /\ reg'.verified = reg.verified
          /\ reg.step = "phoneCode"
      BY <2>11 DEF EnterPhoneCode, NoPhoneCode, Wizards
    <3> QED
      BY <2>5, <3>1, <3>2
  <2>12. \A p \in People : \A n \in 1 .. regCodes[p].issued : n \in Nat
    OBVIOUS
  <2> QED
    BY <1>4, <2>1, <2>3, <2>4, <2>6, <2>7, <2>8, <2>9, <2>10, <2>11, <2>12
    DEF Wizard
<1> QED
  BY <1>1, <1>2, <1>3, <1>4, Steps

(* An account is created with a number whose code was entered, or none; and,  *)
(* for a user without haste, with an email address whose code was entered.    *)
THEOREM RegisteredWasConfirmedHolds == Spec => []RegisteredWasConfirmed
<1>1. Init => TypeOK /\ PhoneInv /\ EmailInv
  BY TypeInit, PhoneInit, EmailInit
<1>2. (TypeOK /\ PhoneInv /\ EmailInv) /\ [Next]_vars
        => (TypeOK /\ PhoneInv /\ EmailInv)'
  BY TypeNext, PhoneNext, EmailNext
<1>3. PhoneInv /\ EmailInv => RegisteredWasConfirmed
  BY DEF PhoneInv, EmailInv, RegisteredWasConfirmed
<1> QED
  BY <1>1, <1>2, <1>3, PTL DEF Spec

-----------------------------------------------------------------------------
(* The page shows the user whose token it uses                                *)

LEMMA PageInit == Init => PageInv
  BY DEF Init, PageInv, PagesLeaveNothing, UserIsTheTokens,
    CalmPageShowsItsAccount, Live

\* A refused call clears the token or leaves it alone.
LEMMA TokenAfterCall ==
  ASSUME NEW c, c.kind \notin {"code", "register"}
  PROVE  TokenAfter(c) \in {token, NoToken}
  BY DEF TokenAfter, Rejected

LEMMA PageStays ==
  ASSUME TypeOK, PageInv, ~Hasty, ~Hasty', UNCHANGED <<page, leaving, shown>>,
         token' \in {token, NoToken}, AnswersOnly
  PROVE  PageInv'
<1>1. CASE calls' \subseteq calls
  BY <1>1 DEF PageInv, PagesLeaveNothing, UserIsTheTokens,
    CalmPageShowsItsAccount, Live
<1>2. ASSUME NEW c \in calls, NEW d \in Calls, Same(c, d),
             calls' = (calls \ {c}) \cup {d}
      PROVE  PageInv'
  <2>1. PagesLeaveNothing'
    BY <1>2 DEF PageInv, PagesLeaveNothing, Live, Same
  <2>2. UserIsTheTokens'
    BY <1>2 DEF PageInv, UserIsTheTokens, CalmPageShowsItsAccount, Live, Same
  <2> QED
    BY <2>1, <2>2 DEF PageInv
<1> QED
  BY <1>1, <1>2 DEF AnswersOnly

LEMMA PageAsks ==
  ASSUME TypeOK, PageInv, ~Hasty, ~Hasty',
         UNCHANGED <<page, leaving, shown, token>>, NEW c,
         calls' = calls \cup {c}, c.live, c.kind # "me",
         c.kind \in WizardKinds => page = "register" /\ leaving = "no",
         c.kind \in FormKinds =>
           page \in {"login", "forgot"} /\ leaving = "no",
         c.kind = "logout" =>
           page = "home" /\ \A d \in calls : d.kind # "logout"
  PROVE  PageInv'
<1>1. PagesLeaveNothing'
  BY DEF PageInv, PagesLeaveNothing, Live
<1>2. UserIsTheTokens'
  BY DEF PageInv, UserIsTheTokens, CalmPageShowsItsAccount, Live
<1> QED
  BY <1>1, <1>2 DEF PageInv

LEMMA PageNext ==
  TypeOK /\ FormInv /\ EmailInv /\ PageInv /\ [Next]_vars => PageInv'
<1> SUFFICES ASSUME TypeOK, FormKeepsWho, EmailInv, PageInv, [Next]_vars, ~Hasty
             PROVE  PageInv'
  BY ScenarioStays DEF PageInv, FormInv, Hasty
<1> calls \subseteq Calls
  BY DEF TypeOK
<1>h. scenario' = scenario
  BY ScenarioStays
<1>1. CASE Moves
  <2>1. leaving' = "no"
    <3>1. ASSUME NEW to \in DOMAIN Links, OpenPage(to) PROVE leaving' = "no"
      BY <3>1 DEF OpenPage, Settled
    <3>2. ASSUME NEW c \in calls, LoggedOut(c) PROVE leaving' = "no"
      <4>1. c \in Live({"logout"})
        BY <3>2 DEF LoggedOut, PageInv, PagesLeaveNothing, Live
      <4> QED
        BY <3>2, <4>1 DEF LoggedOut, PageInv, PagesLeaveNothing
    <3> QED
      BY <1>1, <3>1, <3>2 DEF Moves, MoveOn
  <2>2. \A d \in calls' : ~d.live => d.kind \in {"me", "poll"}
    <3>1. CASE \E to \in DOMAIN Links : OpenPage(to)
      <4>1. \A d \in Abandoned(calls) : \E c \in calls :
              d = [c EXCEPT !.live = FALSE]
        BY DEF Abandoned
      <4>2. \A c \in calls : c.kind \in {"me", "poll"}
        BY <3>1 DEF PageInv, PagesLeaveNothing, OpenPage, Settled
      <4> QED
        BY <3>1, <4>1, <4>2 DEF OpenPage, Loads, Call, Calls
    <3>2. CASE MoveOn
      <4>1. \A d \in Abandoned(calls) : \E c \in calls :
              d = [c EXCEPT !.live = FALSE]
        BY DEF Abandoned
      <4>2. leaving # "no"
        BY <3>2 DEF MoveOn
      <4>3. \A c \in calls : c.kind \in {"me", "poll"}
        BY <4>2 DEF PageInv, PagesLeaveNothing, Live, Calls, HomeKinds
      <4> QED
        BY <3>2, <4>1, <4>3 DEF MoveOn, Loads, Call, Calls
    <3>3. ASSUME NEW c \in calls, LoggedOut(c)
          PROVE  \A d \in calls' : d.kind \in {"me", "poll"}
      <4>1. \A d \in Abandoned(calls \ {c}) : \E e \in calls \ {c} :
              d = [e EXCEPT !.live = FALSE]
        BY DEF Abandoned
      <4>2. c \in Live({"logout"}) /\ page \in {"home", "landing"}
        BY <3>3 DEF LoggedOut, PageInv, PagesLeaveNothing, Live
      <4>3. \A e \in calls \ {c} : e.kind \in {"me", "poll"}
        BY <4>2 DEF PageInv, PagesLeaveNothing, Live, Calls, HomeKinds
      <4> QED
        BY <3>3, <4>1, <4>3 DEF LoggedOut, Calls
    <3> QED
      BY <1>1, <3>1, <3>2, <3>3 DEF Moves
  <2>3. \A d \in calls' : d.live =>
          d = Call("me", None, None, 0, token') /\ page' = "home"
    BY <1>1, MovesClear
  <2>4. page' = "home" /\ shown' # None /\ token' # NoToken
          => page = "home" /\ shown' = shown /\ token' = token
    <3>1. ASSUME NEW to, Mount(to, token), page' = "home", shown' # None
          PROVE  page = "home" /\ shown' = shown /\ token' = token
      BY <3>1 DEF Mount
    <3>2. ASSUME NEW c \in calls, LoggedOut(c) PROVE page' # "home"
      BY <3>2 DEF LoggedOut, Mount
    <3> QED
      BY <1>1, <3>1, <3>2 DEF Moves, OpenPage, MoveOn
  <2> QED
    <3>1. \A d \in calls' : d.live =>
            d.kind = "me" /\ d.sent = token' /\ page' = "home"
      BY <2>3 DEF Call
    <3>2. PagesLeaveNothing'
      BY <2>1, <2>2, <3>1 DEF PagesLeaveNothing, Live, WizardKinds, FormKinds
    <3>3. UserIsTheTokens'
      <4>1. \A c, d \in Live({"me"})' : c = d
        BY <2>3 DEF Live
      <4>2. CalmPageShowsItsAccount'
        BY <2>4 DEF PageInv, UserIsTheTokens, CalmPageShowsItsAccount
      <4> QED
        BY <3>1, <4>1, <4>2 DEF UserIsTheTokens, Live
    <3> QED
      BY <3>2, <3>3 DEF PageInv
<1>2. CASE Background
  <2>1. ASSUME NEW c \in calls, MeTaken(c) PROVE PageInv'
    <3>1. /\ c \in Live({"me"}) /\ calls' = calls \ {c} /\ leaving' = leaving
          /\ page = "home" /\ token \in {c.sent, NoToken} /\ leaving = "no"
      BY <2>1 DEF MeTaken, Live, homeOnly, PageInv, UserIsTheTokens,
        PagesLeaveNothing
    <3>2. /\ page' \in {"home", "landing"} /\ token' \in {token, NoToken}
          /\ page' = "home" /\ shown' # None /\ token' # NoToken
               => shown' = token'.who
      BY <2>1, <3>1 DEF MeTaken
    <3>3. Live({"me"})' = {}
      BY <3>1 DEF Live, PageInv, UserIsTheTokens
    <3>4. PagesLeaveNothing'
      BY <3>1, <3>2 DEF PageInv, PagesLeaveNothing, Live
    <3>5. UserIsTheTokens'
      BY <3>2, <3>3 DEF UserIsTheTokens, CalmPageShowsItsAccount
    <3> QED
      BY <3>4, <3>5 DEF PageInv
  <2>2. ASSUME NEW c \in calls, StrayAnswer(c) PROVE PageInv'
    <3>1. c.kind \in {"me", "poll"}
      BY <2>2 DEF StrayAnswer, PageInv, PagesLeaveNothing
    <3>2. token' \in {token, NoToken}
      BY <2>2, <3>1, TokenAfterCall DEF StrayAnswer
    <3>3. UNCHANGED <<page, leaving, shown>>
      BY <2>2, <3>1 DEF StrayAnswer
    <3> QED
      BY <1>2, <1>h, <3>2, <3>3, BackgroundAnswers, PageStays DEF Hasty
  <2>3. ASSUME NEW c \in calls, PollTaken(c) PROVE PageInv'
    <3>1. UNCHANGED <<page, leaving, shown>> /\ token' \in {token, NoToken}
      BY <2>3, TokenAfterCall DEF PollTaken, Answer, homeOnly
    <3> QED
      BY <1>2, <1>h, <3>1, BackgroundAnswers, PageStays DEF Hasty
  <2>4. CASE UNCHANGED <<page, leaving, token, shown>>
    BY <1>2, <1>h, <2>4, BackgroundAnswers, PageStays DEF Hasty
  <2>5. ASSUME NEW c \in calls, Serve(c)
        PROVE  UNCHANGED <<page, leaving, token, shown>>
    BY <2>5 DEF Serve, ServeSend, ServeVerify, ServeRegister,
      ServeIdentifier, ServeChannel, ServeResend, ServeCode, ServeReset,
      ServeSession, ServeForbidden, serverOnly
  <2>6. ASSUME \/ \E c \in calls : CallFails(c)
               \/ \E p \in People : LoseRegisterCode(p) \/ EndSessions(p)
               \/ UNCHANGED vars
        PROVE  UNCHANGED <<page, leaving, token, shown>>
    BY <2>6 DEF CallFails, LoseRegisterCode, EndSessions, serverOnly, vars
  <2> QED
    BY <1>2, <2>1, <2>2, <2>3, <2>4, <2>5, <2>6 DEF Background
<1>3. CASE Wizard
  <2>1. ASSUME NEW c \in calls, CodeSent(c) \/ CodeVerified(c) PROVE PageInv'
    <3>1. /\ UNCHANGED <<page, leaving, shown>> /\ calls' \subseteq calls
          /\ token' \in {token, NoToken}
      BY <2>1, TokenAfterCall DEF CodeSent, CodeVerified, Answer
    <3> QED
      BY <1>h, <3>1, PageStays DEF Hasty, AnswersOnly
  <2>2. ASSUME NEW c \in calls, Registered(c) PROVE PageInv'
    <3>1. /\ c \in Live(WizardKinds) /\ calls' = calls \ {c}
          /\ page' = page
      BY <2>2 DEF Registered, Answer, Live, WizardKinds
    <3>2. page = "register"
      BY <3>1 DEF PageInv, PagesLeaveNothing
    <3>3. Live(WizardKinds)' = {}
      BY <3>1 DEF Live, EmailInv
    <3>4. PagesLeaveNothing'
      BY <3>1, <3>2, <3>3 DEF PageInv, PagesLeaveNothing, Live
    <3>5. UserIsTheTokens'
      BY <3>1, <3>2 DEF PageInv, UserIsTheTokens, CalmPageShowsItsAccount, Live
    <3> QED
      BY <3>4, <3>5 DEF PageInv
  <2>3. CASE ~\E c \in calls : CodeSent(c) \/ CodeVerified(c) \/ Registered(c)
    <3>1. UNCHANGED <<page, leaving, token, shown>>
      BY <1>3, <2>3 DEF Wizard, TypeEmail, TypePhone, VerifyRegisterCode,
        SendRegisterCode, CodeExpires, Continue, SendPhoneCode,
        PhoneCodeExpires, EnterPhoneCode, SkipPhone, RegBack, Register, regOnly
    <3>2. CASE calls' = calls
      BY <1>h, <3>1, <3>2, PageStays DEF Hasty, AnswersOnly
    <3>3. CASE calls' # calls
      <4>1. PICK c : calls' = calls \cup {c} /\ c.live
                       /\ c.kind \in WizardKinds /\ Clicks("register")
        <5>1. \/ SendRegisterCode \/ Register
              \/ \E n \in Nat : VerifyRegisterCode(n)
          <6>1. \A p \in People : \A n \in 1 .. regCodes[p].issued : n \in Nat
            OBVIOUS
          <6> QED
            BY <1>3, <2>3, <3>3, <6>1 DEF Wizard, TypeEmail, TypePhone,
              CodeExpires, Continue, SendPhoneCode, PhoneCodeExpires,
              EnterPhoneCode, SkipPhone, RegBack
        <5>2. PICK kind \in WizardKinds, about \in {None, reg.phone},
                   n \in Nat : Issue(Call(kind, reg.email, about, n, token))
                                 /\ Clicks("register")
          BY <3>3, <5>1 DEF SendRegisterCode, Register, VerifyRegisterCode,
            WizardKinds
        <5> DEFINE d == Call(kind, reg.email, about, n, token)
        <5>3. calls' = calls \cup {d} /\ d.live /\ d.kind = kind
          BY <5>2 DEF Issue, Call
        <5> HIDE DEF d
        <5> QED
          BY <5>2, <5>3
      <4> QED
        BY <1>h, <3>1, <4>1, PageAsks DEF Hasty, Clicks, WizardKinds, FormKinds
    <3> QED
      BY <3>2, <3>3
  <2> QED
    BY <2>1, <2>2, <2>3
<1>4. CASE Form
  <2>1. ASSUME NEW c \in calls,
               \/ IdentifierTaken(c) \/ ChannelTaken(c) \/ CodeTaken(c)
               \/ ResetCodeTaken(c) \/ ResendTaken(c) \/ ResetTaken(c)
        PROVE  PageInv'
    <3>1. /\ c \in Live(FormKinds) /\ calls' = calls \ {c}
          /\ UNCHANGED <<page, shown>>
      BY <2>1 DEF IdentifierTaken, ChannelTaken, CodeTaken, ResetCodeTaken,
        ResendTaken, ResetTaken, Answer, Taken, Live, FormKinds
    <3>2. page \in {"login", "forgot"}
      BY <3>1 DEF PageInv, PagesLeaveNothing
    <3>3. Live(FormKinds)' = {}
      BY <3>1 DEF Live, FormKeepsWho
    <3>4. PagesLeaveNothing'
      BY <3>1, <3>2, <3>3 DEF PageInv, PagesLeaveNothing, Live
    <3>5. UserIsTheTokens'
      BY <3>1, <3>2 DEF PageInv, UserIsTheTokens, CalmPageShowsItsAccount, Live
    <3> QED
      BY <3>4, <3>5 DEF PageInv
  <2>2. CASE \/ \E p \in People : TypeIdentifier(p)
             \/ FormBack
    <3>1. UNCHANGED <<page, leaving, token, shown, calls>>
      BY <2>2 DEF TypeIdentifier, FormBack, formOnly
    <3> QED
      BY <1>h, <3>1, PageStays DEF Hasty, AnswersOnly
  <2>3. CASE SubmitIdentifier \/ SubmitChannel \/ SubmitCode \/ ResendCode
               \/ SubmitNewPassword
    <3>1. PICK c, f : Ask(c, f) /\ c.kind \in FormKinds /\ c.live
      BY <2>3 DEF SubmitIdentifier, SubmitChannel, SubmitCode, ResendCode,
        SubmitNewPassword, Call, FormKinds
    <3>2. /\ calls' = calls \cup {c} /\ UNCHANGED <<page, leaving, token, shown>>
          /\ page \in {"login", "forgot"} /\ leaving = "no"
      BY <3>1 DEF Ask, Issue, OnForm, Clicks, formOnly
    <3> QED
      BY <1>h, <3>1, <3>2, PageAsks DEF Hasty, FormKinds, WizardKinds
  <2> QED
    BY <1>4, <2>1, <2>2, <2>3 DEF Form
<1>5. CASE Poll \/ Logout
  <2>1. PICK c : /\ calls' = calls \cup {c} /\ c.live
                 /\ c.kind \in {"poll", "logout"} /\ page = "home"
                 /\ c.kind = "logout" => \A d \in calls : d.kind # "logout"
                 /\ UNCHANGED <<page, leaving, token, shown>>
    <3>1. CASE Poll
      <4> DEFINE c == Call("poll", None, None, 0, token)
      <4>1. /\ calls' = calls \cup {c} /\ page = "home"
            /\ UNCHANGED <<page, leaving, token, shown>>
        BY <3>1 DEF Poll, Issue, homeOnly
      <4>2. c.live /\ c.kind = "poll"
        BY DEF Call
      <4> HIDE DEF c
      <4> QED
        BY <4>1, <4>2
    <3>2. CASE Logout
      <4> DEFINE c == Call("logout", None, None, 0, token)
      <4>1. /\ calls' = calls \cup {c} /\ page = "home"
            /\ UNCHANGED <<page, leaving, token, shown>>
            /\ \A d \in calls : d.kind # "logout"
        BY <3>2 DEF Logout, Issue, homeOnly
      <4>2. c.live /\ c.kind = "logout"
        BY DEF Call
      <4> HIDE DEF c
      <4> QED
        BY <4>1, <4>2
    <3> QED
      BY <1>5, <3>1, <3>2
  <2> QED
    BY <1>h, <2>1, PageAsks DEF Hasty, FormKinds, WizardKinds
<1> QED
  BY <1>1, <1>2, <1>3, <1>4, <1>5, Steps

(* For a user without haste, the pages show the user whose token they use.    *)
THEOREM CalmPageShowsItsAccountHolds == Spec => []CalmPageShowsItsAccount
<1>1. Init => TypeOK /\ FormInv /\ EmailInv /\ PageInv
  BY TypeInit, FormInit, EmailInit, PageInit
<1>2. (TypeOK /\ FormInv /\ EmailInv /\ PageInv) /\ [Next]_vars
        => (TypeOK /\ FormInv /\ EmailInv /\ PageInv)'
  BY TypeNext, FormNext, EmailNext, PageNext
<1>3. PageInv => CalmPageShowsItsAccount
  BY DEF PageInv, UserIsTheTokens, CalmPageShowsItsAccount
<1> QED
  BY <1>1, <1>2, <1>3, PTL DEF Spec

-----------------------------------------------------------------------------
(* A fresh session survives old answers                                       *)

\* Accounts stay, and their sessions' versions grow.
Grow == \A p \in People : /\ users[p].exists => users'[p].exists
                          /\ users[p].version <= users'[p].version

LEMMA UsersGrow == TypeOK /\ [Next]_vars => Grow
<1> SUFFICES ASSUME TypeOK, [Next]_vars PROVE Grow
  OBVIOUS
<1> DEFINE Users == [People -> [exists : BOOLEAN, version : Nat,
                               code : BOOLEAN, reset : BOOLEAN]]
<1>1. users \in Users
  BY DEF TypeOK
<1>2. CASE users' = users
  BY <1>1, <1>2 DEF Grow
<1>3. ASSUME NEW q, NEW u, users' = [users EXCEPT ![q] = u],
             q \in People => /\ users[q].exists => u.exists
                            /\ users[q].version <= u.version
      PROVE  Grow
  BY <1>1, <1>3 DEF Grow
<1>4. \A q \in People : /\ users[q].version \in Nat
                       /\ users[q].version <= users[q].version + 1
                       /\ users[q] \in [exists : BOOLEAN, version : Nat,
                                        code : BOOLEAN, reset : BOOLEAN]
  BY <1>1
<1>5. ASSUME NEW c \in calls, ServeRegister(c) PROVE Grow
  <2> DEFINE u == [users[c.who] EXCEPT !.exists = TRUE]
  <2>1. users' = users \/ users' = [users EXCEPT ![c.who] = u]
    BY <1>5 DEF ServeRegister
  <2>2. c.who \in People => /\ users[c.who].exists => u.exists
                           /\ users[c.who].version <= u.version
    BY <1>4
  <2> HIDE DEF u
  <2> QED
    BY <1>2, <1>3, <2>1, <2>2
<1>6. ASSUME NEW c \in calls, ServeChannel(c) \/ ServeResend(c) PROVE Grow
  <2> DEFINE u == [users[c.who] EXCEPT !.code = TRUE]
  <2>1. users' = users \/ users' = [users EXCEPT ![c.who] = u]
    BY <1>6 DEF ServeChannel, ServeResend
  <2>2. c.who \in People => /\ users[c.who].exists => u.exists
                           /\ users[c.who].version <= u.version
    BY <1>4
  <2> HIDE DEF u
  <2> QED
    BY <1>2, <1>3, <2>1, <2>2
<1>7. ASSUME NEW c \in calls, ServeCode(c) PROVE Grow
  <2> DEFINE u == [users[c.who] EXCEPT
                   !.code = FALSE, !.reset = @ \/ c.kind = "resetCode"]
  <2>1. users' = users \/ users' = [users EXCEPT ![c.who] = u]
    BY <1>7 DEF ServeCode
  <2>2. c.who \in People => /\ users[c.who].exists => u.exists
                           /\ users[c.who].version <= u.version
    BY <1>4
  <2> HIDE DEF u
  <2> QED
    BY <1>2, <1>3, <2>1, <2>2
<1>8. ASSUME NEW c \in calls, ServeReset(c) PROVE Grow
  <2> DEFINE u == [users[c.who] EXCEPT !.reset = FALSE, !.code = FALSE,
                                       !.version = @ + 1]
  <2>1. users' = users \/ users' = [users EXCEPT ![c.who] = u]
    BY <1>8 DEF ServeReset
  <2>2. c.who \in People => /\ users[c.who].exists => u.exists
                           /\ users[c.who].version <= u.version
    BY <1>4
  <2> HIDE DEF u
  <2> QED
    BY <1>2, <1>3, <2>1, <2>2
<1>9. ASSUME NEW c \in calls, ServeSession(c) PROVE Grow
  <2> DEFINE u == [users[c.sent.who] EXCEPT !.version = @ + 1]
  <2>1. users' = users \/ users' = [users EXCEPT ![c.sent.who] = u]
    BY <1>9 DEF ServeSession
  <2>2. c.sent.who \in People => /\ users[c.sent.who].exists => u.exists
                           /\ users[c.sent.who].version <= u.version
    BY <1>4
  <2> HIDE DEF u
  <2> QED
    BY <1>2, <1>3, <2>1, <2>2
<1>10. ASSUME NEW s \in People, EndSessions(s) PROVE Grow
  BY <1>1, <1>10 DEF EndSessions, Grow
<1>11. ASSUME \/ Moves \/ Wizard \/ Form \/ Poll \/ Logout
              \/ \E c \in calls : \/ StrayAnswer(c) \/ CallFails(c)
                                  \/ MeTaken(c) \/ PollTaken(c)
              \/ \E p \in People : LoseRegisterCode(p)
              \/ UNCHANGED vars
       PROVE  users' = users
  <2>1. CASE Moves
    BY <2>1, MovesClear
  <2>2. CASE Wizard
    BY <2>2 DEF Wizard, TypeEmail, TypePhone, VerifyRegisterCode,
      SendRegisterCode, CodeExpires, Continue, SendPhoneCode, PhoneCodeExpires,
      EnterPhoneCode, SkipPhone, RegBack, Register, CodeSent, CodeVerified,
      Registered, regOnly, server
  <2>3. CASE Form
    BY <2>3 DEF Form, TypeIdentifier, SubmitIdentifier, SubmitChannel,
      SubmitCode, ResendCode, SubmitNewPassword, FormBack, IdentifierTaken,
      ChannelTaken, CodeTaken, ResetCodeTaken, ResendTaken, ResetTaken, Ask,
      Taken, formOnly, server
  <2>4. CASE ~Moves /\ ~Wizard /\ ~Form
    BY <1>11, <2>4 DEF Poll, Logout, StrayAnswer, CallFails, MeTaken, PollTaken,
      LoseRegisterCode, homeOnly, server, vars
  <2> QED
    BY <2>1, <2>2, <2>3, <2>4
<1>12. ASSUME NEW c \in calls,
              \/ ServeSend(c) \/ ServeVerify(c) \/ ServeIdentifier(c)
              \/ ServeForbidden(c)
       PROVE  users' = users
  BY <1>12 DEF ServeSend, ServeVerify, ServeIdentifier, ServeForbidden
<1> QED
  BY <1>2, <1>5, <1>6, <1>7, <1>8, <1>9, <1>10, <1>11, <1>12, Steps
  DEF Background, Serve

LEMMA KnownStays ==
  ASSUME TypeOK, [Next]_vars, NEW t \in Tokens
  PROVE  /\ Known(users, t) => Known(users', t)
         /\ Outdated(users, t) => Outdated(users', t)
<1>1. \A p \in People :
        users[p].version \in Nat /\ users'[p].version \in Nat
  BY TypeNext DEF TypeOK
<1>2. t.version \in Nat
  BY DEF Tokens
<1> QED
  BY <1>1, <1>2, UsersGrow DEF Grow, Known, Outdated

LEMMA SomebodyInit == Init => SomebodyInv
  BY DEF Init, SomebodyInv, NewWizard, Live

LEMMA SomebodyNext == TypeOK /\ SomebodyInv /\ [Next]_vars => SomebodyInv'
<1> SUFFICES ASSUME TypeOK, SomebodyInv, [Next]_vars PROVE SomebodyInv'
  OBVIOUS
<1> reg \in Wizards /\ calls \subseteq Calls
  BY DEF TypeOK
<1>1. CASE Moves
  BY <1>1, MovesClear DEF SomebodyInv, NewWizard, Live, Call, Calls, WizardKinds
<1>2. CASE Background
  <2>1. reg' = reg
    BY <1>2, BackgroundAnswers
  <2>2. \A d \in calls' : \E c \in calls : Same(c, d)
    BY <1>2, BackgroundServes DEF Same
  <2> QED
    BY <2>1, <2>2 DEF SomebodyInv, Live, Same
<1>3. CASE Form \/ Poll \/ Logout
  <2>1. \A d \in calls' : d \in calls \/ d.kind \notin WizardKinds
    BY <1>3, FormKeeps, HomeKeeps DEF FormKinds, WizardKinds
  <2>2. reg' = reg
    BY <1>3, FormKeeps, HomeKeeps
  <2> QED
    BY <2>1, <2>2 DEF SomebodyInv, Live
<1>4. CASE Wizard
  <2>1. ASSUME NEW c \in calls, CodeSent(c) \/ CodeVerified(c) \/ Registered(c)
        PROVE  SomebodyInv'
    <3>1. c \in Live(WizardKinds) /\ calls' = calls \ {c} /\ c.who # None
      BY <2>1 DEF CodeSent, CodeVerified, Registered, Answer, Live,
        WizardKinds, SomebodyInv
    <3>2. reg'.email # None
      BY <2>1, <3>1 DEF CodeSent, CodeVerified, Registered, SomebodyInv, Wizards
    <3> QED
      BY <3>1, <3>2 DEF SomebodyInv
  <2>2. ASSUME reg.email # None, reg'.email = reg.email,
               \A d \in calls' : d \in calls \/ d.who = reg.email
        PROVE  SomebodyInv'
    BY <2>2 DEF SomebodyInv
  <2>3. CASE SendRegisterCode \/ Register
    BY <2>2, <2>3 DEF SendRegisterCode, Register, Issue, Call, SomebodyInv,
      Wizards
  <2>4. ASSUME NEW n \in Nat, VerifyRegisterCode(n) PROVE SomebodyInv'
    <3>1. reg.email # None /\ reg'.email = reg.email
      BY <2>4 DEF VerifyRegisterCode, SomebodyInv, Wizards
    <3> QED
      BY <2>2, <2>4, <3>1 DEF VerifyRegisterCode, Issue, Call
  <2>5. ASSUME NEW p \in People, TypeEmail(p) PROVE SomebodyInv'
    <3>1. reg'.email # None /\ calls' = calls
      BY <2>5, SignInAssumption DEF TypeEmail, Wizards
    <3> QED
      BY <3>1 DEF SomebodyInv
  <2>6. CASE CodeExpires \/ PhoneCodeExpires
    BY <2>6 DEF CodeExpires, PhoneCodeExpires, SomebodyInv, Wizards, Live
  <2>7. ASSUME NEW n \in Phones, TypePhone(n) PROVE SomebodyInv'
    BY <2>2, <2>7 DEF TypePhone, SomebodyInv, Wizards
  <2>8. CASE Continue \/ SendPhoneCode \/ RegBack
    BY <2>2, <2>8 DEF Continue, SendPhoneCode, RegBack, SomebodyInv, Wizards
  <2>9. CASE EnterPhoneCode \/ SkipPhone
    BY <2>2, <2>9 DEF EnterPhoneCode, SkipPhone, NoPhoneCode, SomebodyInv,
      Wizards
  <2>10. \A p \in People : \A n \in 1 .. regCodes[p].issued : n \in Nat
    OBVIOUS
  <2> QED
    BY <1>4, <2>1, <2>3, <2>4, <2>5, <2>6, <2>7, <2>8, <2>9, <2>10 DEF Wizard
<1> QED
  BY <1>1, <1>2, <1>3, <1>4, Steps

LEMMA VouchedStays ==
  ASSUME TypeOK, [Next]_vars, NEW c \in Calls, Vouched(users, c)
  PROVE  Vouched(users', c)
<1>1. c.sent \in Tokens /\ c.n \in Nat
  BY DEF Calls
<1>2. c.kind \in {"login", "start"} => c.who \in Someone
  BY DEF Calls
<1>3. \A n \in Nat : [who |-> c.who, version |-> n] \in Tokens
  BY DEF Tokens, Calls
<1> QED
  BY <1>1, <1>2, <1>3, KnownStays DEF Vouched

LEMMA OutVouched ==
  ASSUME NEW c, NEW us, Known(us, c.sent), c.state = "out",
         c.kind \in {"me", "poll"} => c.sent # NoToken
  PROVE  Vouched(us, c)
  BY DEF Vouched

\* The token a call leaves behind is one that was issued.
LEMMA KnownAfterCall ==
  ASSUME TypeOK, TokenInv, [Next]_vars, NEW c \in calls
  PROVE  Known(users', TokenAfter(c))
<1>1. Known(users, TokenAfter(c))
  BY DEF TokenAfter, Rejected, TokenInv, Vouched, Known
<1> QED
  BY <1>1, TokenAfterType, KnownStays

LEMMA TokenInit == Init => TokenInv
  BY DEF Init, TokenInv, Known, NewForm

LEMMA TokenNext ==
  TypeOK /\ SomebodyInv /\ TokenInv /\ [Next]_vars => TokenInv'
<1> SUFFICES ASSUME TypeOK, SomebodyInv, TokenInv, [Next]_vars PROVE TokenInv'
  OBVIOUS
<1> calls \subseteq Calls /\ token \in Tokens /\ form \in Forms
      /\ form.pending \in Tokens
  BY DEF TypeOK, Forms
<1>a. \A c \in calls : Vouched(users', c) /\ Known(users', TokenAfter(c))
  BY VouchedStays, KnownAfterCall DEF TokenInv
<1>b. Known(users', token) /\ Known(users', form.pending)
        /\ Known(users', NoToken)
  BY KnownStays DEF TokenInv, Known
<1>1. CASE Moves
  <2>1. token' \in {token, NoToken} /\ (page' = "home" => token' # NoToken)
    BY <1>1 DEF Moves, OpenPage, MoveOn, LoggedOut, Mount
  <2>2. form'.pending = NoToken
    BY <1>1, MovesClear DEF NewForm
  <2>3. ASSUME NEW d \in calls' PROVE Vouched(users', d)
    <3>1. CASE d = Call("me", None, None, 0, token') /\ page' = "home"
      BY <1>b, <2>1, <3>1, OutVouched DEF Call
    <3>2. ASSUME NEW c \in calls, d = [c EXCEPT !.live = FALSE]
          PROVE  Vouched(users', d)
      BY <1>a, <3>2 DEF Vouched, Calls
    <3> QED
      BY <1>1, <3>1, <3>2, MovesClear
  <2> QED
    BY <1>b, <2>1, <2>2, <2>3 DEF TokenInv
<1>2. CASE Background
  <2>1. form' = form
    BY <1>2, BackgroundAnswers
  <2>2. ASSUME NEW c \in calls, StrayAnswer(c) \/ PollTaken(c) \/ MeTaken(c)
        PROVE  TokenInv'
    <3>1. token' \in {token, NoToken, TokenAfter(c)} /\ calls' \subseteq calls
      BY <2>2 DEF StrayAnswer, PollTaken, MeTaken, Answer
    <3> QED
      BY <1>a, <1>b, <2>1, <3>1 DEF TokenInv
  <2>3. ASSUME NEW c \in calls, NEW d \in Calls, Vouched(users', d),
               calls' = (calls \ {c}) \cup {d}, token' = token
        PROVE  TokenInv'
    BY <1>a, <1>b, <2>1, <2>3 DEF TokenInv
  <2>4. ASSUME NEW c \in calls, CallFails(c) PROVE TokenInv'
    <3>1. [c EXCEPT !.state = "failed"] \in Calls
            /\ Vouched(users', [c EXCEPT !.state = "failed"])
      BY <1>a DEF Vouched, Calls
    <3> QED
      BY <2>3, <2>4, <3>1 DEF CallFails
  <2>5. ASSUME NEW c \in calls, Serve(c) PROVE TokenInv'
    <3>1. token' = token
      BY <2>5 DEF Serve, ServeSend, ServeVerify, ServeRegister,
        ServeIdentifier, ServeChannel, ServeResend, ServeCode, ServeReset,
        ServeSession, ServeForbidden, serverOnly
    <3>2. ASSUME NEW state \in {"ok", "refused", "failed"}, Reply(c, state),
                 state = "ok" => c.kind \notin {"login", "start", "register"},
                 state = "refused" => c.kind # "me"
          PROVE  TokenInv'
      <4>1. [c EXCEPT !.state = state] \in Calls
              /\ Vouched(users', [c EXCEPT !.state = state])
        BY <1>a, <3>2 DEF Vouched, Calls
      <4> QED
        BY <2>3, <3>1, <3>2, <4>1 DEF Reply
    <3>3. CASE ServeRegister(c)
      <4>1. CASE users[c.who].exists = TRUE
        <5>1. Reply(c, "failed")
          BY <3>3, <4>1 DEF ServeRegister, ReplyIf
        <5> QED
          BY <3>2, <5>1
      <4>2. CASE users[c.who].exists # TRUE
        <5> DEFINE d == [c EXCEPT !.state = "ok"]
        <5>1. c.who \in People /\ c.kind = "register"
          BY <3>3 DEF ServeRegister, Out, SomebodyInv, WizardKinds, Calls,
            Someone
        <5>2. users[c.who].exists = FALSE /\ users[c.who].version \in Nat
          BY <4>2, <5>1 DEF TypeOK
        <5>3. /\ users' = [users EXCEPT ![c.who].exists = TRUE]
              /\ calls' = (calls \ {c}) \cup {d}
          BY <3>3, <5>2 DEF ServeRegister, ReplyIf, Reply
        <5>4. Known(users', [who |-> c.who, version |-> 0])
          BY <5>1, <5>2, <5>3 DEF Known, TypeOK
        <5>5. d \in Calls /\ d.sent = c.sent /\ d.kind = c.kind /\ d.who = c.who
                /\ d.state = "ok"
          BY DEF Calls
        <5>6. Vouched(users', d)
          BY <1>a, <5>1, <5>4, <5>5 DEF Vouched
        <5> HIDE DEF d
        <5> QED
          BY <2>3, <3>1, <5>3, <5>5, <5>6
      <4> QED
        BY <4>1, <4>2
    <3>4. CASE ServeChannel(c)
      <4>1. c.who \in People /\ c.kind \in {"login", "start"}
        BY <3>4 DEF ServeChannel, Out, Calls
      <4>2. CASE Reply(c, IF c.kind = "login" THEN "refused" ELSE "failed")
        BY <3>2, <4>1, <4>2
      <4>3. CASE /\ users[c.who].exists
                 /\ calls' = (calls \ {c}) \cup
                       {[c EXCEPT !.state = "ok", !.n = users[c.who].version]}
        <5> DEFINE d == [c EXCEPT !.state = "ok", !.n = users[c.who].version]
        <5>1. users[c.who].version \in Nat
          BY <4>1 DEF TypeOK
        <5>2. d \in Calls /\ d.sent = c.sent /\ d.kind = c.kind /\ d.who = c.who
                /\ d.n = users[c.who].version /\ d.state = "ok"
          BY <4>1, <5>1 DEF Calls
        <5>3. Known(users, [who |-> c.who, version |-> users[c.who].version])
          BY <4>1, <4>3, <5>1 DEF Known
        <5>4. Known(users', [who |-> c.who, version |-> users[c.who].version])
          BY <4>1, <5>1, <5>3, KnownStays DEF Tokens, Someone
        <5>5. Vouched(users', d)
          BY <1>a, <4>1, <5>2, <5>4 DEF Vouched
        <5>6. calls' = (calls \ {c}) \cup {d}
          BY <4>3
        <5> HIDE DEF d
        <5> QED
          BY <2>3, <3>1, <5>2, <5>5, <5>6
      <4> QED
        BY <3>4, <4>2, <4>3 DEF ServeChannel
    <3>5. CASE ServeSession(c)
      <4>1. c.kind \in {"me", "poll", "logout"}
        BY <3>5 DEF ServeSession, Out
      <4>2. CASE Alive(c.sent) \/ c.kind = "logout"
        <5>1. Reply(c, "ok") \/ (Reply(c, "refused") /\ c.kind = "logout")
          BY <3>5, <4>2 DEF ServeSession, ReplyIf
        <5> QED
          BY <3>2, <4>1, <5>1
      <4>3. CASE ~Alive(c.sent) /\ c.kind # "logout"
        <5> DEFINE d == [c EXCEPT !.state = "refused"]
        <5>1. calls' = (calls \ {c}) \cup {d}
          BY <3>5, <4>3 DEF ServeSession, ReplyIf, Reply
        <5>2. d \in Calls /\ d.sent = c.sent /\ d.kind = c.kind
                /\ d.state = "refused"
          BY DEF Calls
        <5>3. Outdated(users, c.sent)
          <6>1. Known(users, c.sent) /\ c.sent # NoToken
            BY <4>1, <4>3 DEF TokenInv, Vouched
          <6>2. c.sent \in Tokens /\ c.sent.who \in People
            BY <6>1 DEF Known, Calls
          <6>3. users[c.sent.who].version \in Nat /\ c.sent.version \in Nat
            BY <6>2 DEF TypeOK, Tokens
          <6>4. c.sent = [who |-> c.sent.who, version |-> c.sent.version]
            BY <6>2 DEF Tokens
          <6> QED
            BY <4>3, <6>1, <6>2, <6>3, <6>4 DEF Known, Outdated, Alive, TokenOf
        <5>4. Outdated(users', c.sent)
          BY <5>3, KnownStays DEF Calls
        <5>5. Vouched(users', d)
          BY <1>a, <4>1, <5>2, <5>4 DEF Vouched
        <5> HIDE DEF d
        <5> QED
          BY <2>3, <3>1, <5>1, <5>2, <5>5
      <4> QED
        BY <4>2, <4>3
    <3>6. CASE \/ ServeSend(c) \/ ServeVerify(c) \/ ServeIdentifier(c)
               \/ ServeResend(c) \/ ServeCode(c) \/ ServeReset(c)
               \/ ServeForbidden(c)
      <4>1. c.kind \notin {"login", "start", "register", "me"}
        BY <3>6 DEF ServeSend, ServeVerify, ServeIdentifier, ServeResend,
          ServeCode, ServeReset, ServeForbidden, Out
      <4>2. \E state \in {"ok", "refused", "failed"} : Reply(c, state)
        BY <3>6 DEF ServeSend, ServeVerify, ServeIdentifier, ServeResend,
          ServeCode, ServeReset, ServeForbidden, ReplyIf
      <4> QED
        BY <3>2, <4>1, <4>2
    <3> QED
      BY <2>5, <3>3, <3>4, <3>5, <3>6 DEF Serve
  <2>6. CASE \/ \E p \in People : LoseRegisterCode(p) \/ EndSessions(p)
             \/ UNCHANGED vars
    <3>1. token' = token /\ calls' = calls
      BY <2>6 DEF LoseRegisterCode, EndSessions, serverOnly, vars
    <3> QED
      BY <1>a, <1>b, <2>1, <3>1 DEF TokenInv
  <2> QED
    BY <1>2, <2>2, <2>4, <2>5, <2>6 DEF Background
<1>3. CASE Wizard
  <2>1. form' = form
    BY <1>3, WizardKeeps
  <2>2. ASSUME NEW c \in calls, CodeSent(c) \/ CodeVerified(c) \/ Registered(c)
        PROVE  TokenInv'
    <3>1. token' = TokenAfter(c) /\ calls' \subseteq calls
      BY <2>2 DEF CodeSent, CodeVerified, Registered, Answer
    <3> QED
      BY <1>a, <1>b, <2>1, <3>1 DEF TokenInv
  <2>3. ASSUME token' = token, \A d \in calls' : d \in calls \/
                 (d.state = "out" /\ d.sent = token /\ d.kind \in WizardKinds)
        PROVE  TokenInv'
    <3>1. \A d \in calls' : Vouched(users', d)
      BY <1>a, <1>b, <2>3, OutVouched DEF WizardKinds
    <3> QED
      BY <1>b, <2>1, <2>3, <3>1 DEF TokenInv
  <2>4. CASE \/ SendRegisterCode \/ Register
             \/ \E n \in Nat : VerifyRegisterCode(n)
    BY <2>3, <2>4 DEF SendRegisterCode, Register, VerifyRegisterCode, Issue,
      Call, WizardKinds, regOnly
  <2>5. CASE \/ \E p \in People : TypeEmail(p)
             \/ \E n \in Phones : TypePhone(n)
             \/ CodeExpires \/ Continue \/ SendPhoneCode
             \/ PhoneCodeExpires \/ EnterPhoneCode \/ SkipPhone \/ RegBack
    BY <2>3, <2>5 DEF TypeEmail, TypePhone, CodeExpires, Continue,
      SendPhoneCode, PhoneCodeExpires, EnterPhoneCode, SkipPhone, RegBack,
      regOnly
  <2>6. \A p \in People : \A n \in 1 .. regCodes[p].issued : n \in Nat
    OBVIOUS
  <2> QED
    BY <1>3, <2>2, <2>4, <2>5, <2>6 DEF Wizard
<1>4. CASE Form
  <2>1. ASSUME NEW c \in calls,
               \/ IdentifierTaken(c) \/ ChannelTaken(c) \/ CodeTaken(c)
               \/ ResetCodeTaken(c) \/ ResendTaken(c) \/ ResetTaken(c)
        PROVE  TokenInv'
    <3>1. token' = TokenAfter(c) /\ calls' \subseteq calls
      BY <2>1 DEF IdentifierTaken, ChannelTaken, CodeTaken, ResetCodeTaken,
        ResendTaken, ResetTaken, Answer
    <3>2. Known(users', form'.pending)
      <4>1. CASE IdentifierTaken(c)
        <5>1. form'.pending \in {form.pending, NoToken}
          BY <4>1 DEF IdentifierTaken, Taken, Forms
        <5> QED
          BY <1>b, <5>1
      <4>2. CASE ChannelTaken(c)
        <5>1. c.kind \in {"login", "start"}
          BY <4>2 DEF ChannelTaken, Answer
        <5>2. c.state = "ok" => form'.pending = [who |-> c.who, version |-> c.n]
          BY <4>2 DEF ChannelTaken, Taken, Forms
        <5>3. c.state # "ok" => form'.pending = form.pending
          BY <4>2 DEF ChannelTaken, Taken, Forms
        <5> QED
          BY <1>a, <1>b, <5>1, <5>2, <5>3 DEF Vouched
      <4>3. CASE \/ CodeTaken(c) \/ ResetCodeTaken(c) \/ ResendTaken(c)
                 \/ ResetTaken(c)
        <5>1. form'.pending = form.pending
          BY <4>3 DEF CodeTaken, ResetCodeTaken, ResendTaken, ResetTaken, Taken,
            Forms
        <5> QED
          BY <1>b, <5>1
      <4> QED
        BY <2>1, <4>1, <4>2, <4>3
    <3> QED
      BY <1>a, <3>1, <3>2 DEF TokenInv
  <2>2. CASE FormBack \/ \E p \in People : TypeIdentifier(p)
    <3>1. /\ UNCHANGED <<token, calls>>
          /\ form'.pending \in {form.pending, NoToken}
      BY <2>2 DEF FormBack, TypeIdentifier, formOnly, Forms
    <3> QED
      BY <1>a, <1>b, <3>1 DEF TokenInv
  <2>3. ASSUME NEW c, NEW f, Ask(c, f), c.sent \in {token, form.pending},
               f.pending = form.pending, c.state = "out", c.kind \in FormKinds
        PROVE  TokenInv'
    <3>1. Vouched(users', c)
      BY <1>b, <2>3, OutVouched DEF FormKinds
    <3>2. calls' = calls \cup {c} /\ token' = token /\ form' = f
      BY <2>3 DEF Ask, Issue, formOnly
    <3> QED
      BY <1>a, <1>b, <2>3, <3>1, <3>2 DEF TokenInv
  <2>4. CASE SubmitIdentifier \/ SubmitChannel \/ SubmitCode \/ ResendCode
               \/ SubmitNewPassword
    <3>1. Loading.pending = form.pending /\ Naming.pending = form.pending
      BY DEF Loading, Naming, Forms
    <3>2. PICK kind \in FormKinds, sent \in {token, form.pending},
               who \in {form.typed, form.pending.who, form.reset},
               about \in {None, form.submitted}, f \in {Loading, Naming} :
            Ask(Call(kind, who, about, 0, sent), f)
      BY <2>4 DEF SubmitIdentifier, SubmitChannel, SubmitCode, ResendCode,
        SubmitNewPassword, FormKinds
    <3> DEFINE c == Call(kind, who, about, 0, sent)
    <3>3. c.sent = sent /\ c.state = "out" /\ c.kind = kind
      BY DEF Call
    <3>4. Ask(c, f)
      BY <3>2
    <3> HIDE DEF c
    <3> QED
      BY <2>3, <3>1, <3>3, <3>4
  <2> QED
    BY <1>4, <2>1, <2>2, <2>4 DEF Form
<1>5. CASE Poll \/ Logout
  <2>1. UNCHANGED <<form, token>>
    BY <1>5 DEF Poll, Logout, homeOnly
  <2>2. PICK kind \in {"poll", "logout"} : /\ token # NoToken
          /\ calls' = calls \cup {Call(kind, None, None, 0, token)}
    BY <1>5 DEF Poll, Logout, Issue
  <2>3. Vouched(users', Call(kind, None, None, 0, token))
    BY <1>b, <2>2, OutVouched DEF Call
  <2> QED
    BY <1>a, <1>b, <2>1, <2>2, <2>3 DEF TokenInv
<1> QED
  BY <1>1, <1>2, <1>3, <1>4, <1>5, Steps

LEMMA TokenAfterPage ==
  ASSUME NEW c, c.state = "ok" => c.kind \notin {"code", "register"}
  PROVE  TokenAfter(c) \in {token, NoToken}
  BY DEF TokenAfter, Rejected

LEMMA PublicInit == Init => PublicInv
  BY DEF Init, PublicInv, Live

LEMMA PublicNext ==
  TypeOK /\ PageInv /\ PublicInv /\ [Next]_vars => PublicInv'
<1> SUFFICES ASSUME TypeOK, PageInv, PublicInv, [Next]_vars, ~Hasty
             PROVE  PublicInv'
  BY ScenarioStays DEF PublicInv, Hasty
<1> calls \subseteq Calls
  BY DEF TypeOK
<1>a. \A d \in calls : d.live /\ d.kind = "reset" => page = "forgot"
  BY DEF PublicInv, Live
<1>b. ASSUME UNCHANGED <<page, leaving>>, token' \in {token, NoToken},
             \A d \in calls' : d.live /\ d.kind = "reset" => page = "forgot"
      PROVE  PublicInv'
  BY <1>b DEF PublicInv, Live
<1>1. CASE Moves
  <2>1. Live({"reset"})' = {}
    BY <1>1, MovesClear DEF Live, Call
  <2>2. ASSUME NEW to \in DOMAIN Links, OpenPage(to) PROVE PublicInv'
    <3>1. leaving' = "no" /\ leaving = "no" /\ Mount(to, token)
            /\ (page = "home" => to = "home")
      BY <2>2 DEF OpenPage, Settled, Links
    <3>2. page' # "home" => token' = NoToken
      BY <3>1 DEF Mount, PublicInv
    <3> QED
      BY <2>1, <3>1, <3>2 DEF PublicInv
  <2>3. CASE MoveOn
    <3>1. leaving' = "no" /\ leaving \in {"home", "login"}
      BY <2>3 DEF MoveOn, TypeOK
    <3>2. page' # "home" => token' = NoToken
      BY <2>3, <3>1 DEF MoveOn, Mount
    <3> QED
      BY <2>1, <3>1, <3>2 DEF PublicInv
  <2>4. ASSUME NEW c \in calls, LoggedOut(c) PROVE PublicInv'
    <3>1. c \in Live({"logout"})
      BY <2>4 DEF LoggedOut, PageInv, PagesLeaveNothing, Live
    <3>2. leaving' = leaving /\ leaving = "no" /\ token' = NoToken
      BY <2>4, <3>1 DEF LoggedOut, Mount, PageInv, PagesLeaveNothing
    <3> QED
      BY <2>1, <3>2 DEF PublicInv
  <2> QED
    BY <1>1, <2>2, <2>3, <2>4 DEF Moves
<1>2. CASE Background
  <2>1. \A d \in calls' : d.live /\ d.kind = "reset" => page = "forgot"
    BY <1>2, <1>a, BackgroundServes DEF Same
  <2>2. ASSUME NEW c \in calls, MeTaken(c) PROVE PublicInv'
    <3>1. page = "home" /\ leaving = "no" /\ leaving' = "no"
      BY <2>2 DEF MeTaken, homeOnly, Live, PageInv, UserIsTheTokens,
        PagesLeaveNothing
    <3>2. page' # "home" => token' = NoToken
      BY <2>2, <3>1 DEF MeTaken
    <3>3. Live({"reset"})' = {}
      BY <2>1, <3>1 DEF Live
    <3> QED
      BY <3>1, <3>2, <3>3 DEF PublicInv
  <2>3. ASSUME NEW c \in calls, StrayAnswer(c) \/ PollTaken(c) PROVE PublicInv'
    <3>1. c.kind \in {"me", "poll"}
      BY <2>3 DEF StrayAnswer, PollTaken, Answer, PageInv, PagesLeaveNothing
    <3>2. UNCHANGED <<page, leaving>> /\ token' \in {token, NoToken}
      BY <2>3, <3>1, TokenAfterCall DEF StrayAnswer, PollTaken, Answer, homeOnly
    <3> QED
      BY <1>b, <2>1, <3>2
  <2>4. ASSUME NEW c \in calls, Serve(c) PROVE UNCHANGED <<page, leaving, token>>
    BY <2>4 DEF Serve, ServeSend, ServeVerify, ServeRegister,
      ServeIdentifier, ServeChannel, ServeResend, ServeCode, ServeReset,
      ServeSession, ServeForbidden, serverOnly
  <2>5. ASSUME \/ \E c \in calls : CallFails(c)
               \/ \E p \in People : LoseRegisterCode(p) \/ EndSessions(p)
               \/ UNCHANGED vars
        PROVE  UNCHANGED <<page, leaving, token>>
    BY <2>5 DEF CallFails, LoseRegisterCode, EndSessions, serverOnly, vars
  <2> QED
    BY <1>2, <1>b, <2>1, <2>2, <2>3, <2>4, <2>5 DEF Background
<1>3. CASE Wizard
  <2>1. \A d \in calls' : d.live /\ d.kind = "reset" => page = "forgot"
    BY <1>3, <1>a, WizardKeeps DEF WizardKinds
  <2>2. ASSUME NEW c \in calls, CodeSent(c) \/ CodeVerified(c) PROVE PublicInv'
    <3>1. UNCHANGED <<page, leaving>> /\ token' \in {token, NoToken}
      BY <2>2, TokenAfterCall DEF CodeSent, CodeVerified, Answer
    <3> QED
      BY <1>b, <2>1, <3>1
  <2>3. ASSUME NEW c \in calls, Registered(c) PROVE PublicInv'
    <3>1. page' = page /\ token' = TokenAfter(c)
      BY <2>3 DEF Registered, Answer
    <3>2. CASE c.state = "ok"
      BY <2>1, <2>3, <3>1, <3>2 DEF Registered, PublicInv, Live
    <3>3. CASE c.state # "ok"
      BY <1>b, <2>1, <2>3, <3>1, <3>3, TokenAfterPage DEF Registered
    <3> QED
      BY <3>2, <3>3
  <2>4. CASE ~\E c \in calls : CodeSent(c) \/ CodeVerified(c) \/ Registered(c)
    <3>1. UNCHANGED <<page, leaving, token>>
      BY <1>3, <2>4 DEF Wizard, TypeEmail, TypePhone, VerifyRegisterCode,
        SendRegisterCode, CodeExpires, Continue, SendPhoneCode,
        PhoneCodeExpires, EnterPhoneCode, SkipPhone, RegBack, Register, regOnly
    <3> QED
      BY <1>b, <2>1, <3>1
  <2> QED
    BY <2>2, <2>3, <2>4
<1>4. CASE Form
  <2>1. ASSUME NEW c \in calls,
               \/ IdentifierTaken(c) \/ ChannelTaken(c) \/ CodeTaken(c)
               \/ ResetCodeTaken(c) \/ ResendTaken(c) \/ ResetTaken(c)
        PROVE  PublicInv'
    <3>1. /\ c.live /\ calls' = calls \ {c} /\ page' = page
          /\ token' = TokenAfter(c) /\ c.kind # "register"
      BY <2>1 DEF IdentifierTaken, ChannelTaken, CodeTaken, ResetCodeTaken,
        ResendTaken, ResetTaken, Answer, Taken
    <3>2. \A d \in calls' : d.live /\ d.kind = "reset" => page = "forgot"
      BY <1>a, <3>1
    <3>3. CASE leaving' = leaving /\ (c.kind = "code" => c.state # "ok")
      BY <1>b, <3>1, <3>2, <3>3, TokenAfterPage
    <3>4. CASE CodeTaken(c) /\ c.state = "ok"
      BY <3>1, <3>2, <3>4 DEF CodeTaken, PublicInv, Live
    <3>5. CASE ResetTaken(c) /\ c.state = "ok"
      <4>1. page = "forgot" /\ leaving' = "login"
        BY <1>a, <3>1, <3>5 DEF ResetTaken, Answer
      <4> QED
        BY <3>1, <4>1 DEF PublicInv
    <3>6. c.kind = "code" => CodeTaken(c)
      BY <2>1 DEF IdentifierTaken, ChannelTaken, ResetCodeTaken, ResendTaken,
        ResetTaken, Answer
    <3> QED
      BY <2>1, <3>3, <3>4, <3>5, <3>6 DEF IdentifierTaken, ChannelTaken,
        CodeTaken, ResetCodeTaken, ResendTaken, ResetTaken
  <2>2. CASE FormBack \/ \E p \in People : TypeIdentifier(p)
    BY <1>a, <1>b, <2>2 DEF FormBack, TypeIdentifier, formOnly
  <2>3. CASE SubmitIdentifier \/ SubmitChannel \/ SubmitCode \/ ResendCode
               \/ SubmitNewPassword
    <3>1. UNCHANGED <<page, leaving, token>>
      BY <2>3 DEF SubmitIdentifier, SubmitChannel, SubmitCode, ResendCode,
        SubmitNewPassword, Ask, formOnly
    <3>2. ASSUME NEW d \in calls', d.kind = "reset"
          PROVE  d \in calls \/ page = "forgot"
      BY <2>3, <3>2 DEF SubmitIdentifier, SubmitChannel, SubmitCode, ResendCode,
        SubmitNewPassword, Ask, Issue, Call
    <3> QED
      BY <1>a, <1>b, <3>1, <3>2
  <2> QED
    BY <1>4, <2>1, <2>2, <2>3 DEF Form
<1>5. CASE Poll \/ Logout
  <2>1. UNCHANGED <<page, leaving, token>>
    BY <1>5 DEF Poll, Logout, homeOnly
  <2>2. \A d \in calls' : d.kind = "reset" => d \in calls
    BY <1>5, HomeKeeps
  <2> QED
    BY <1>a, <1>b, <2>1, <2>2
<1> QED
  BY <1>1, <1>2, <1>3, <1>4, <1>5, Steps

(* What the answer to a call of a user without haste does to the token.       *)
Survives ==
  \/ page' \in {"login", "register"} /\ page' # page
  \/ \E c \in calls : c.kind = "logout"
  \/ \E c \in calls \ calls' : c.kind = "poll" /\ c.state = "refused"
                               /\ c.sent = token

LEMMA FreshStays ==
  ASSUME TypeOK, PageInv, TokenInv, PublicInv, [Next]_vars, ~Hasty,
         Alive(token), token' = NoToken
  PROVE  Survives
<1>a. token # NoToken /\ token \in Tokens
  BY DEF Alive, TypeOK
<1>b. ~Outdated(users, token)
  <2>1. token.who \in People
    BY <1>a DEF TokenInv, Known
  <2>2. token.version = users[token.who].version
    BY DEF Alive, TokenOf
  <2>3. token.version \in Nat
    BY <1>a DEF Tokens
  <2> QED
    BY <2>2, <2>3 DEF Outdated
<1>c. page = "home" \/ leaving # "no"
  BY <1>a DEF PublicInv
<1>1. CASE Moves
  <2>1. ASSUME NEW to \in DOMAIN Links, OpenPage(to) PROVE Survives
    <3>1. Mount(to, token) /\ page = "home" /\ to = "home"
      BY <1>c, <2>1 DEF OpenPage, Settled, Links
    <3> QED
      BY <1>a, <3>1 DEF Mount
  <2>2. CASE MoveOn
    <3>1. Mount(leaving, token) /\ leaving \in {"home", "login"}
      BY <2>2 DEF MoveOn, TypeOK
    <3>2. leaving = "login" => page = "forgot"
      BY DEF PublicInv
    <3> QED
      BY <1>a, <3>1, <3>2 DEF Mount, Survives
  <2>3. ASSUME NEW c \in calls, LoggedOut(c) PROVE Survives
    BY <2>3 DEF LoggedOut, Survives
  <2> QED
    BY <1>1, <2>1, <2>2, <2>3 DEF Moves
<1>2. CASE Background
  <2>1. PICK c \in calls : StrayAnswer(c) \/ PollTaken(c) \/ MeTaken(c)
    <3>1. ASSUME NEW c \in calls, Serve(c) PROVE token' = token
      BY <3>1 DEF Serve, ServeSend, ServeVerify, ServeRegister,
        ServeIdentifier, ServeChannel, ServeResend, ServeCode, ServeReset,
        ServeSession, ServeForbidden, serverOnly
    <3>2. ASSUME \/ \E c \in calls : CallFails(c)
                 \/ \E p \in People : LoseRegisterCode(p) \/ EndSessions(p)
                 \/ UNCHANGED vars
          PROVE  token' = token
      BY <3>2 DEF CallFails, LoseRegisterCode, EndSessions, serverOnly, vars
    <3> QED
      BY <1>2, <1>a, <3>1, <3>2 DEF Background
  <2>2. c.kind \in {"me", "poll"}
    BY <2>1 DEF StrayAnswer, PollTaken, MeTaken, Answer, PageInv,
      PagesLeaveNothing
  <2>3. c.state = "refused"
    BY <1>a, <2>1, <2>2 DEF StrayAnswer, PollTaken, MeTaken, Answer, TokenAfter
  <2>4. c.sent # NoToken /\ (c.kind = "me" => Outdated(users, c.sent))
    BY <2>2, <2>3 DEF TokenInv, Vouched
  <2>5. c.sent = token
    <3>1. CASE MeTaken(c)
      BY <1>a, <3>1 DEF MeTaken, Live, PageInv, UserIsTheTokens
    <3>2. CASE StrayAnswer(c) \/ PollTaken(c)
      BY <1>a, <2>2, <2>4, <3>2 DEF StrayAnswer, PollTaken, Answer, TokenAfter,
        Rejected
    <3> QED
      BY <2>1, <3>1, <3>2
  <2>6. c \in calls \ calls'
    BY <2>1 DEF StrayAnswer, PollTaken, MeTaken, Answer
  <2>7. c.kind = "poll"
    BY <1>b, <2>2, <2>4, <2>5
  <2> QED
    BY <2>3, <2>5, <2>6, <2>7 DEF Survives
<1>3. CASE Wizard
  <2>1. ASSUME NEW c \in calls, CodeSent(c) \/ CodeVerified(c) \/ Registered(c)
        PROVE  FALSE
    <3>1. c \in Live(WizardKinds)
      BY <2>1 DEF CodeSent, CodeVerified, Registered, Answer, Live, WizardKinds
    <3> QED
      BY <1>c, <3>1 DEF PageInv, PagesLeaveNothing
  <2>2. CASE ~\E c \in calls : CodeSent(c) \/ CodeVerified(c) \/ Registered(c)
    BY <1>3, <1>a, <2>2 DEF Wizard, TypeEmail, TypePhone, VerifyRegisterCode,
      SendRegisterCode, CodeExpires, Continue, SendPhoneCode,
      PhoneCodeExpires, EnterPhoneCode, SkipPhone, RegBack, Register, regOnly
  <2> QED
    BY <2>1, <2>2
<1>4. CASE Form
  <2>1. ASSUME NEW c \in calls,
               \/ IdentifierTaken(c) \/ ChannelTaken(c) \/ CodeTaken(c)
               \/ ResetCodeTaken(c) \/ ResendTaken(c) \/ ResetTaken(c)
        PROVE  FALSE
    <3>1. c \in Live(FormKinds)
      BY <2>1 DEF IdentifierTaken, ChannelTaken, CodeTaken, ResetCodeTaken,
        ResendTaken, ResetTaken, Answer, Live, FormKinds
    <3> QED
      BY <1>c, <3>1 DEF PageInv, PagesLeaveNothing
  <2>2. CASE \/ FormBack \/ \E p \in People : TypeIdentifier(p)
             \/ SubmitIdentifier \/ SubmitChannel \/ SubmitCode
             \/ ResendCode \/ SubmitNewPassword
    BY <1>a, <2>2 DEF FormBack, TypeIdentifier, SubmitIdentifier,
      SubmitChannel, SubmitCode, ResendCode, SubmitNewPassword, Ask, formOnly
  <2> QED
    BY <1>4, <2>1, <2>2 DEF Form
<1>5. CASE Poll \/ Logout
  BY <1>5, <1>a DEF Poll, Logout
<1> QED
  BY <1>1, <1>2, <1>3, <1>4, <1>5, Steps

(* For a user without haste, a session that the server still honours is taken *)
(* away by no answer but the one of a route that forbids a call made with it. *)
THEOREM CalmFreshSignInSurvivesHolds == Spec => CalmFreshSignInSurvives
<1> DEFINE Inv == /\ TypeOK /\ FormInv /\ EmailInv /\ PageInv /\ SomebodyInv
                  /\ TokenInv /\ PublicInv
<1>1. Init => Inv
  BY TypeInit, FormInit, EmailInit, PageInit, SomebodyInit, TokenInit,
    PublicInit
<1>2. Inv /\ [Next]_vars => Inv'
  BY TypeNext, FormNext, EmailNext, PageNext, SomebodyNext, TokenNext,
    PublicNext
<1>3. Inv /\ [Next]_vars =>
        [(~Hasty /\ Alive(token) /\ token' = NoToken) =>
           \/ page' \in {"login", "register"} /\ page' # page
           \/ \E c \in calls : c.kind = "logout"
           \/ \E c \in calls \ calls' : c.kind = "poll" /\ c.state = "refused"
                                        /\ c.sent = token]_vars
  BY FreshStays DEF Survives
<1> QED
  BY <1>1, <1>2, <1>3, PTL DEF Spec, CalmFreshSignInSurvives

=============================================================================
