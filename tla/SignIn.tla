------------------------------- MODULE SignIn -------------------------------
(* One browser tab and the routes behind its public pages: the registration   *)
(* wizard, the login and the forgotten password page, the pages behind        *)
(* ProtectedRoute, and the session token they share in localStorage.  Calls   *)
(* outlive the page that made them.  A person is an email address, a username *)
(* and an account in one; codes and lockout in detail are module Account's.   *)
EXTENDS Naturals, FiniteSets

CONSTANTS
  People,
  Phones,       \* full numbers, country code included
  None,         \* no person, no phone number
  Scenarios

Scenario == [
  start   : {"landing", "login", "register", "forgot"},  \* the page opened first
  exists  : SUBSET People,  \* accounts at the start
  hasty   : BOOLEAN,       \* whether the user waits for no answer
  calls   : Nat,            \* bound: calls under way
  pages   : Nat,            \* bound: pages opened by a click
  codes   : Nat,            \* bound: registration codes sent to a person
  ends    : Nat,            \* bound: how often a person's sessions end
  faults  : Nat]            \* bound: calls without an answer

ASSUME SignInAssumption ==
  /\ None \notin People \cup Phones
  /\ \A s \in Scenarios : s \in Scenario

VARIABLES
  scenario,    \* chosen at the start, never changed
  page,        \* the page on the screen
  leaving,     \* where the page goes when its success message has been shown
  token,       \* localStorage "token": whose it is, and its sessionVersion
  shown,       \* the user the navigation bar shows (me)
  reg,         \* the registration wizard
  form,        \* the login page or the forgotten password page
  calls,       \* calls without an answer, and answers not yet taken
  users,       \* User documents
  regCodes,    \* registerCodes, and how many were sent
  confirmed,   \* history: who entered the code sent to them
  registered,  \* history: what accounts were created with
  acts,        \* history: sign-ins and resets, and who the user had named
  used         \* the bounds' counters

vars == <<scenario, page, leaving, token, shown, reg, form, calls, users,
          regCodes, confirmed, registered, acts, used>>

NoToken == [who |-> None, version |-> 0]
TokenOf(p) == [who |-> p, version |-> users[p].version]

\* protect: the account exists and the session version is the current one
Alive(t) == t # NoToken /\ users[t.who].exists /\ t = TokenOf(t.who)

Hasty == scenario.hasty

NewWizard ==
  [step |-> "account", email |-> None, sent |-> FALSE, verified |-> FALSE,
   code |-> "none", phone |-> None, expected |-> None, phoneVerified |-> FALSE,
   phoneCode |-> "none", loading |-> FALSE]

NewForm ==
  [step |-> "who", typed |-> None, submitted |-> None, pending |-> NoToken,
   reset |-> None, loading |-> FALSE]

Use(counter) == used' = [used EXCEPT ![counter] = @ + 1]

server == <<users, regCodes>>
history == <<confirmed, registered, acts>>

Init ==
  /\ scenario \in Scenarios
  /\ page = scenario.start /\ leaving = "no" /\ token = NoToken /\ shown = None
  /\ reg = NewWizard /\ form = NewForm /\ calls = {}
  /\ users = [p \in People |->
                [exists |-> p \in scenario.exists, version |-> 0,
                 code |-> FALSE, reset |-> FALSE]]
  /\ regCodes = [p \in People |-> [held |-> 0, issued |-> 0]]
  /\ confirmed = [emails |-> {}, phones |-> {}]
  /\ registered = {} /\ acts = {}
  /\ used = [pages |-> 0, faults |-> 0]

-----------------------------------------------------------------------------
(* Calls.  sent is the token a call carries: its own or the stored one.       *)

\* about is a phone number or a person, n a code or a session version.
Call(kind, who, about, n, sent) ==
  [kind |-> kind, who |-> who, about |-> about, n |-> n, sent |-> sent,
   state |-> "out", live |-> TRUE]

Issue(c) == Cardinality(calls) < scenario.calls /\ calls' = calls \cup {c}

\* The page that made the calls is unmounted.
Abandoned(cs) == {[c EXCEPT !.live = FALSE] : c \in cs}

\* Mutant of Rejected: whatever token is stored is cleared.
RejectedAny(t) == NoToken

\* clearAuthToken(finalToken); a call without a token clears any.
Rejected(t) == IF t \in {NoToken, token} THEN NoToken ELSE token

TokenAfter(c) ==
  CASE c.kind \in {"code", "register"} /\ c.state = "ok" ->
         IF c.kind = "code" THEN c.sent ELSE [who |-> c.who, version |-> 0]
    [] c.kind = "logout" -> NoToken
    [] c.state = "refused" -> Rejected(c.sent)
    [] OTHER -> token

\* A page takes the answer of one of its calls.
Answer(c, kind) ==
  /\ c \in calls /\ c.live /\ c.kind = kind /\ c.state # "out"
  /\ calls' = calls \ {c} /\ token' = TokenAfter(c)

-----------------------------------------------------------------------------
(* Pages *)

\* Without haste a page is left when its calls are answered and its message
\* has been shown; what it loads in the background never keeps the user.
Settled ==
  \/ Hasty
  \/ leaving = "no" /\ \A c \in calls : c.live => c.kind \in {"me", "poll"}

\* A page is mounted: Login and Register clear the token, Landing leads home
\* when there is one, ProtectedRoute back when there is none.
Mount(to, t) ==
  LET p == CASE to = "landing" /\ t # NoToken -> "home"
             [] to = "home" /\ t = NoToken -> "landing"
             [] OTHER -> to
  IN  /\ page' = p /\ reg' = NewWizard /\ form' = NewForm
      /\ token' = IF p \in {"login", "register"} THEN NoToken ELSE t
      /\ shown' = IF page = "home" /\ p = "home" THEN shown ELSE None

\* What the mounted page loads: Navbar and Dashboard ask for the user.
Loads(cs) ==
  Abandoned(cs) \cup
    (IF page' = "home" THEN {Call("me", None, None, 0, token')} ELSE {})

Links == [landing  |-> {"login", "register"},
          login    |-> {"landing", "forgot", "register"},
          register |-> {"landing", "login"},
          forgot   |-> {"login"},
          home     |-> {"home"}]

OpenPage(to) ==
  /\ to \in Links[page] /\ Settled
  /\ to = "landing" => reg.step = "account" /\ form.step = "who"
  /\ used.pages < scenario.pages /\ Use("pages")
  /\ Mount(to, token) /\ calls' = Loads(calls)
  /\ UNCHANGED <<scenario, leaving, server, history>>

\* The success message was shown for two seconds.
MoveOn ==
  /\ leaving # "no" /\ leaving' = "no"
  /\ Mount(leaving, token) /\ calls' = Loads(calls)
  /\ UNCHANGED <<scenario, server, history, used>>

Clicks(p) == page = p /\ (leaving = "no" \/ Hasty)

\* An answer to a page that is gone.
StrayAnswer(c) ==
  /\ c \in calls /\ ~c.live /\ c.kind # "logout" /\ c.state # "out"
  /\ calls' = calls \ {c} /\ token' = TokenAfter(c)
  /\ leaving' = IF c.kind \in {"code", "register"} /\ c.state = "ok"
                THEN "home" ELSE leaving
  /\ UNCHANGED <<scenario, page, shown, reg, form, server, history, used>>

CallFails(c) ==
  /\ c \in calls /\ c.state # "failed"
  /\ used.faults < scenario.faults /\ Use("faults")
  /\ calls' = (calls \ {c}) \cup {[c EXCEPT !.state = "failed"]}
  /\ UNCHANGED <<scenario, page, leaving, token, shown, reg, form, server,
                 history>>

-----------------------------------------------------------------------------
(* The registration wizard *)

regOnly == <<scenario, page, leaving, token, shown, form, server, history,
             used>>

TypeEmail(p) ==
  /\ Clicks("register") /\ reg.step = "account" /\ ~reg.sent /\ ~reg.verified
  /\ reg' = [reg EXCEPT !.email = p, !.code = "none"]
  /\ UNCHANGED <<regOnly, calls>>

\* The first code asks for a free button; another one only for patience.
SendRegisterCode ==
  /\ Clicks("register") /\ reg.step = "account" /\ reg.email # None
  /\ ~reg.verified /\ (~reg.loading \/ (reg.sent /\ Hasty))
  /\ regCodes[reg.email].issued < scenario.codes
  /\ Issue(Call("send", reg.email, None, 0, token))
  /\ reg' = [reg EXCEPT !.loading = TRUE]
  /\ UNCHANGED regOnly

CodeSent(c) ==
  /\ Answer(c, "send")
  /\ reg' = IF c.state = "ok"
            THEN [reg EXCEPT !.email = c.who, !.sent = TRUE, !.verified = FALSE,
                             !.code = "live", !.loading = FALSE]
            ELSE [reg EXCEPT !.loading = FALSE]
  /\ UNCHANGED <<scenario, page, leaving, shown, form, server, history, used>>

\* The code the page waits for expires, whether or not a call is under way.
CodeExpires ==
  /\ page = "register" /\ reg.code = "live"
  /\ reg' = [reg EXCEPT !.code = "past"]
  /\ UNCHANGED <<regOnly, calls>>

VerifyRegisterCode(n) ==
  /\ Clicks("register") /\ reg.step = "account" /\ reg.sent /\ ~reg.verified
  /\ ~reg.loading
  /\ IF reg.code = "live"
     THEN /\ Issue(Call("verify", reg.email, None, n, token))
          /\ reg' = [reg EXCEPT !.loading = TRUE]
     ELSE /\ reg' = [reg EXCEPT !.sent = FALSE, !.code = "none"]
          /\ UNCHANGED calls
  /\ UNCHANGED regOnly

CodeVerified(c) ==
  /\ Answer(c, "verify")
  /\ reg' = IF c.state = "ok"
            THEN [reg EXCEPT !.verified = TRUE, !.step = "password",
                             !.loading = FALSE]
            ELSE [reg EXCEPT !.loading = FALSE]
  /\ UNCHANGED <<scenario, page, leaving, shown, form, server, history, used>>

\* The forms without a call: verified email, password and profile.
Continue ==
  /\ Clicks("register") /\ ~reg.loading
  /\ \E s \in {<<"account", "password">>, <<"password", "phone">>,
               <<"profile", "kyc">>} :
       /\ reg.step = s[1] /\ (s[1] = "account" => reg.verified)
       /\ reg' = [reg EXCEPT !.step = s[2]]
  /\ UNCHANGED <<regOnly, calls>>

TypePhone(n) ==
  /\ Clicks("register") /\ reg.step = "phone"
  /\ reg' = [reg EXCEPT !.phone = n]
  /\ UNCHANGED <<regOnly, calls>>

\* The page makes the code itself; the call that logs it changes nothing.
SendPhoneCode ==
  /\ Clicks("register") /\ reg.step = "phone" /\ reg.phone # None
  /\ ~reg.loading
  /\ reg' = [reg EXCEPT !.expected = reg.phone, !.phoneVerified = FALSE,
                        !.phoneCode = "live", !.step = "phoneCode"]
  /\ UNCHANGED <<regOnly, calls>>

PhoneCodeExpires ==
  /\ page = "register" /\ reg.phoneCode = "live"
  /\ reg' = [reg EXCEPT !.phoneCode = "past"]
  /\ UNCHANGED <<regOnly, calls>>

NoPhoneCode(r) ==
  [r EXCEPT !.expected = None, !.phoneVerified = FALSE, !.phoneCode = "none"]

\* A wrong code changes nothing.
EnterPhoneCode ==
  /\ Clicks("register") /\ reg.step = "phoneCode" /\ ~reg.phoneVerified
  /\ ~reg.loading
  /\ IF reg.phoneCode = "live"
     THEN /\ reg' = [reg EXCEPT !.phoneVerified = TRUE, !.step = "profile"]
          /\ confirmed' = [confirmed EXCEPT !.phones = @ \cup {reg.expected}]
     ELSE reg' = NoPhoneCode(reg) /\ UNCHANGED confirmed
  /\ UNCHANGED <<scenario, page, leaving, token, shown, form, calls, server,
                 registered, acts, used>>

\* Mutant of SkipPhone: the number stays in the form.
SkipPhoneKeeps ==
  /\ Clicks("register") /\ reg.step \in {"phone", "phoneCode"}
  /\ reg' = [NoPhoneCode(reg) EXCEPT !.step = "profile"]
  /\ UNCHANGED <<regOnly, calls>>

SkipPhone ==
  /\ Clicks("register") /\ reg.step \in {"phone", "phoneCode"}
  /\ reg' = [NoPhoneCode(reg) EXCEPT !.phone = None, !.step = "profile"]
  /\ UNCHANGED <<regOnly, calls>>

RegBackTo ==
  CASE reg.step = "password" -> "account"
    [] reg.step = "phone" -> "password"
    [] reg.step = "phoneCode" -> "phone"
    [] reg.step = "profile" ->
         IF reg.phoneVerified \/ reg.expected # None THEN "phoneCode"
         ELSE "phone"
    [] OTHER -> "profile"

RegBack ==
  /\ Clicks("register") /\ reg.step # "account"
  /\ reg' = [reg EXCEPT !.step = RegBackTo]
  /\ UNCHANGED <<regOnly, calls>>

Register ==
  /\ Clicks("register") /\ reg.step = "kyc" /\ ~reg.loading
  /\ Issue(Call("register", reg.email, reg.phone, 0, token))
  /\ reg' = [reg EXCEPT !.loading = TRUE]
  /\ UNCHANGED regOnly

\* The token is stored, the message shown, and the dashboard opened.
Registered(c) ==
  /\ Answer(c, "register")
  /\ reg' = [reg EXCEPT !.loading = FALSE]
  /\ leaving' = IF c.state = "ok" THEN "home" ELSE leaving
  /\ UNCHANGED <<scenario, page, shown, form, server, history, used>>

-----------------------------------------------------------------------------
(* The login page and the forgotten password page                             *)

formOnly == <<scenario, page, leaving, token, shown, reg, server, history,
              used>>
OnForm == Clicks("login") \/ Clicks("forgot")

TypeIdentifier(p) ==
  /\ OnForm /\ form.step = "who"
  /\ form' = [form EXCEPT !.typed = p]
  /\ UNCHANGED <<formOnly, calls>>

\* Mutant of Free: the buttons work while a call is under way.
AlwaysFree == TRUE

\* Every button that sends a call is disabled by loading.
Free == ~form.loading

Ask(c, f) == OnForm /\ Free /\ Issue(c) /\ form' = f /\ UNCHANGED formOnly

Loading == [form EXCEPT !.loading = TRUE]
Naming == [Loading EXCEPT !.submitted = form.typed]

\* submitCredentials, submitIdentifier
SubmitIdentifier ==
  /\ form.step = "who" /\ form.typed # None
  /\ Ask(Call(IF page = "login" THEN "options" ELSE "find", form.typed, None,
              0, token), Naming)

\* submitVerificationChannel, submitChannel
SubmitChannel ==
  /\ form.step = "channel" /\ form.typed # None
  /\ Ask(Call(IF page = "login" THEN "login" ELSE "start", form.typed, None,
              0, token), Naming)

SubmitCode ==
  /\ form.step = "code" /\ form.pending # NoToken
  /\ IF page = "login"
     THEN Ask(Call("code", form.pending.who, None, 0, form.pending), Loading)
     ELSE Ask(Call("resetCode", form.pending.who, None, 0, token), Loading)

ResendCode ==
  /\ form.step = "code" /\ form.pending # NoToken
  /\ IF page = "login"
     THEN Ask(Call("resend", form.pending.who, None, 0, form.pending), Loading)
     ELSE Ask(Call("resetResend", form.pending.who, None, 0, token), Loading)

SubmitNewPassword ==
  /\ page = "forgot" /\ form.step = "password" /\ form.reset # None
  /\ Ask(Call("reset", form.reset, form.submitted, 0, token), Loading)

\* The last step back leaves the page: to the landing page, or to the login.
FormBack ==
  /\ OnForm /\ form.step # "who"
  /\ form' = CASE form.step = "channel" /\ page = "login" ->
                    [form EXCEPT !.step = "who", !.pending = NoToken]
               [] form.step = "channel" -> [form EXCEPT !.step = "who"]
               [] form.step = "code" -> [form EXCEPT !.step = "channel"]
               [] OTHER -> [form EXCEPT !.step = "code"]
  /\ UNCHANGED <<formOnly, calls>>

Taken(c, onOk, onRefusal) ==
  /\ form' = [(IF c.state = "ok" THEN onOk ELSE onRefusal) EXCEPT
                !.loading = FALSE]
  /\ UNCHANGED <<scenario, page, shown, reg, server, used, confirmed,
                 registered>>

\* The identifier was found: what was kept of another one is dropped.
IdentifierTaken(c) ==
  /\ Answer(c, "options") \/ Answer(c, "find")
  /\ Taken(c, [form EXCEPT !.step = "channel", !.pending = NoToken,
                           !.reset = None], form)
  /\ UNCHANGED <<leaving, acts>>

ChannelTaken(c) ==
  /\ Answer(c, "login") \/ Answer(c, "start")
  /\ Taken(c, [form EXCEPT !.step = "code",
                           !.pending = [who |-> c.who, version |-> c.n]],
              IF c.kind = "login" THEN [form EXCEPT !.step = "who"] ELSE form)
  /\ UNCHANGED <<leaving, acts>>

Act(who, named) == acts' = acts \cup {[who |-> who, named |-> named]}

CodeTaken(c) ==
  /\ Answer(c, "code") /\ Taken(c, form, form)
  /\ IF c.state = "ok"
     THEN leaving' = "home" /\ Act(c.who, form.submitted)
     ELSE UNCHANGED <<leaving, acts>>

ResetCodeTaken(c) ==
  /\ Answer(c, "resetCode")
  /\ Taken(c, [form EXCEPT !.step = "password", !.reset = c.who], form)
  /\ UNCHANGED <<leaving, acts>>

ResendTaken(c) ==
  /\ Answer(c, "resend") \/ Answer(c, "resetResend")
  /\ Taken(c, form, form) /\ UNCHANGED <<leaving, acts>>

ResetTaken(c) ==
  /\ Answer(c, "reset") /\ Taken(c, form, form)
  /\ IF c.state = "ok"
     THEN leaving' = "login" /\ Act(c.who, c.about)
     ELSE UNCHANGED <<leaving, acts>>

-----------------------------------------------------------------------------
(* Behind ProtectedRoute *)

homeOnly == <<scenario, leaving, reg, form, server, history, used>>

\* Mutant of MeTaken: the user an earlier page asked for is taken, too.
MeTakenLate(c) ==
  /\ c \in calls /\ c.kind = "me" /\ c.state # "out" /\ page = "home"
  /\ c.live \/ c.state = "ok"
  /\ calls' = calls \ {c}
  /\ IF c.state = "refused"
     THEN page' = "landing" /\ token' = NoToken /\ shown' = None
     ELSE page' = page /\ token' = token
          /\ shown' = IF c.state = "ok" THEN c.sent.who ELSE None
  /\ UNCHANGED homeOnly

\* Dashboard clears the session of a refused load, whosever it is by now.
MeTaken(c) ==
  /\ c \in calls /\ c.live /\ c.kind = "me" /\ c.state # "out"
  /\ calls' = calls \ {c}
  /\ IF c.state = "refused"
     THEN page' = "landing" /\ token' = NoToken /\ shown' = None
     ELSE page' = page /\ token' = token
          /\ shown' = IF c.state = "ok" THEN c.sent.who ELSE None
  /\ UNCHANGED homeOnly

\* The unread loop; every other background call is like it.
Poll ==
  /\ page = "home" /\ shown # None /\ token # NoToken
  /\ \A c \in calls : ~(c.live /\ c.kind = "poll")
  /\ Issue(Call("poll", None, None, 0, token))
  /\ UNCHANGED <<page, token, shown, homeOnly>>

PollTaken(c) ==
  Answer(c, "poll") /\ UNCHANGED <<page, shown, homeOnly>>

\* handleLogout waits for the server, but not for its consent.
Logout ==
  /\ page = "home" /\ token # NoToken
  /\ \A c \in calls : c.kind # "logout"
  /\ Issue(Call("logout", None, None, 0, token))
  /\ UNCHANGED <<page, token, shown, homeOnly>>

\* Whatever page is shown by now, the token goes and the landing page opens.
LoggedOut(c) ==
  /\ c \in calls /\ c.kind = "logout" /\ c.state # "out"
  /\ Mount("landing", NoToken) /\ calls' = Abandoned(calls \ {c})
  /\ UNCHANGED <<scenario, leaving, server, history, used>>

-----------------------------------------------------------------------------
(* The server *)

serverOnly == <<scenario, page, leaving, token, shown, reg, form, acts, used>>

Out(c, kinds) == c \in calls /\ c.state = "out" /\ c.kind \in kinds
Reply(c, state) ==
  calls' = (calls \ {c}) \cup {[c EXCEPT !.state = state]}
ReplyIf(c, cond, otherwise) == Reply(c, IF cond THEN "ok" ELSE otherwise)

MayEnd(p) == users[p].version < scenario.ends

\* sendRegisterCode: a later code replaces an earlier one.
ServeSend(c) ==
  /\ Out(c, {"send"}) /\ ReplyIf(c, ~users[c.who].exists, "failed")
  /\ LET n == regCodes[c.who].issued + 1 IN
     IF users[c.who].exists THEN UNCHANGED regCodes
     ELSE regCodes' = [regCodes EXCEPT ![c.who] = [held |-> n, issued |-> n]]
  /\ UNCHANGED <<serverOnly, users, confirmed, registered>>

\* verifyRegisterCode: a code is good for one confirmation.
ServeVerify(c) ==
  LET right == regCodes[c.who].held = c.n IN
  /\ Out(c, {"verify"}) /\ ReplyIf(c, right, "failed")
  /\ IF right
     THEN /\ regCodes' = [regCodes EXCEPT ![c.who].held = 0]
          /\ confirmed' = [confirmed EXCEPT !.emails = @ \cup {c.who}]
     ELSE UNCHANGED <<regCodes, confirmed>>
  /\ UNCHANGED <<serverOnly, users, registered>>

\* The code expires, or the process that holds it restarts.
LoseRegisterCode(p) ==
  /\ regCodes[p].held # 0
  /\ regCodes' = [regCodes EXCEPT ![p].held = 0]
  /\ UNCHANGED <<serverOnly, calls, users, confirmed, registered>>

ServeRegister(c) ==
  /\ Out(c, {"register"}) /\ ReplyIf(c, ~users[c.who].exists, "failed")
  /\ IF users[c.who].exists THEN UNCHANGED <<users, registered>>
     ELSE /\ users' = [users EXCEPT ![c.who].exists = TRUE]
          /\ registered' = registered \cup {[email |-> c.who, phone |-> c.about]}
  /\ UNCHANGED <<serverOnly, regCodes, confirmed>>

\* loginOptions and forgotPasswordOptions; a wrong password is a refusal.
ServeIdentifier(c) ==
  /\ Out(c, {"options", "find"})
  /\ \/ users[c.who].exists /\ Reply(c, "ok")
     \/ c.kind = "find" /\ ~users[c.who].exists /\ Reply(c, "failed")
     \/ c.kind = "options" /\ Reply(c, "refused")
  /\ UNCHANGED <<serverOnly, users, regCodes, confirmed, registered>>

\* login and forgotPasswordStart: a code is stored and a token answered.
ServeChannel(c) ==
  /\ Out(c, {"login", "start"})
  /\ \/ /\ users[c.who].exists
        /\ users' = [users EXCEPT ![c.who].code = TRUE]
        /\ calls' = (calls \ {c}) \cup
                      {[c EXCEPT !.state = "ok",
                                 !.n = users[c.who].version]}
     \/ /\ Reply(c, IF c.kind = "login" THEN "refused" ELSE "failed")
        /\ UNCHANGED users
  /\ UNCHANGED <<serverOnly, regCodes, confirmed, registered>>

ServeResend(c) ==
  /\ Out(c, {"resend", "resetResend"})
  /\ IF c.kind = "resend" => Alive(c.sent)
     THEN Reply(c, "ok") /\ users' = [users EXCEPT ![c.who].code = TRUE]
     ELSE Reply(c, "refused") /\ UNCHANGED users
  /\ UNCHANGED <<serverOnly, regCodes, confirmed, registered>>

\* verifyCode and forgotPasswordVerify; the user may mistype the code.
ServeCode(c) ==
  /\ Out(c, {"code", "resetCode"})
  /\ IF c.kind = "code" /\ ~Alive(c.sent)
     THEN Reply(c, "refused") /\ UNCHANGED users
     ELSE \/ /\ users[c.who].code /\ Reply(c, "ok")
             /\ users' = [users EXCEPT ![c.who].code = FALSE,
                            ![c.who].reset = @ \/ c.kind = "resetCode"]
          \/ Reply(c, "failed") /\ UNCHANGED users
  /\ UNCHANGED <<serverOnly, regCodes, confirmed, registered>>

\* forgotPasswordReset
ServeReset(c) ==
  /\ Out(c, {"reset"}) /\ MayEnd(c.who)
  /\ IF users[c.who].reset
     THEN Reply(c, "ok") /\ users' = [users EXCEPT ![c.who].reset = FALSE,
                               ![c.who].code = FALSE, ![c.who].version = @ + 1]
     ELSE Reply(c, "refused") /\ UNCHANGED users
  /\ UNCHANGED <<serverOnly, regCodes, confirmed, registered>>

\* protect before any route of a signed-in user, logout included
ServeSession(c) ==
  /\ Out(c, {"me", "poll", "logout"}) /\ ReplyIf(c, Alive(c.sent), "refused")
  /\ IF Alive(c.sent) /\ c.kind = "logout"
     THEN MayEnd(c.sent.who) /\ users' = [users EXCEPT ![c.sent.who].version = @ + 1]
     ELSE UNCHANGED users
  /\ UNCHANGED <<serverOnly, regCodes, confirmed, registered>>

\* A route behind protect answers 403 to a live session: not an admin, or not
\* the thread's own.
ServeForbidden(c) ==
  /\ Out(c, {"poll"}) /\ Alive(c.sent) /\ Reply(c, "refused")
  /\ UNCHANGED <<serverOnly, users, regCodes, confirmed, registered>>

\* A logout, a reset or a new password on another device.
EndSessions(p) ==
  /\ users[p].exists /\ MayEnd(p)
  /\ users' = [users EXCEPT ![p].version = @ + 1]
  /\ UNCHANGED <<serverOnly, calls, regCodes, confirmed, registered>>

-----------------------------------------------------------------------------
Wizard ==
  \/ \E p \in People : TypeEmail(p)
  \/ \E n \in Phones : TypePhone(n)
  \/ \E p \in People : \E n \in 1 .. regCodes[p].issued :
       p = reg.email /\ VerifyRegisterCode(n)
  \/ SendRegisterCode \/ CodeExpires \/ Continue \/ SendPhoneCode
  \/ PhoneCodeExpires \/ EnterPhoneCode \/ SkipPhone \/ RegBack \/ Register
  \/ \E c \in calls : CodeSent(c) \/ CodeVerified(c) \/ Registered(c)

Form ==
  \/ \E p \in People : TypeIdentifier(p)
  \/ SubmitIdentifier \/ SubmitChannel \/ SubmitCode \/ ResendCode
  \/ SubmitNewPassword \/ FormBack
  \/ \E c \in calls :
       \/ IdentifierTaken(c) \/ ChannelTaken(c) \/ CodeTaken(c)
       \/ ResetCodeTaken(c) \/ ResendTaken(c) \/ ResetTaken(c)

Home ==
  \/ Poll \/ Logout
  \/ \E c \in calls : MeTaken(c) \/ PollTaken(c) \/ LoggedOut(c)

Serve(c) ==
  \/ ServeSend(c) \/ ServeVerify(c) \/ ServeRegister(c) \/ ServeIdentifier(c)
  \/ ServeChannel(c) \/ ServeResend(c) \/ ServeCode(c) \/ ServeReset(c)
  \/ ServeSession(c) \/ ServeForbidden(c)

Next ==
  \/ \E to \in DOMAIN Links : OpenPage(to)
  \/ MoveOn \/ Wizard \/ Form \/ Home
  \/ \E c \in calls : Serve(c) \/ StrayAnswer(c) \/ CallFails(c)
  \/ \E p \in People : LoseRegisterCode(p) \/ EndSessions(p)

Spec == Init /\ [][Next]_vars

-----------------------------------------------------------------------------
(* Properties *)

(* Whatever way the user goes back and forth through the wizard and whenever  *)
(* codes expire, an account is created with no phone number or with one whose *)
(* code was entered; and, unless the user asks for a code before the answer   *)
(* to the last click, for an email address whose code was entered.            *)
RegisteredWasConfirmed ==
  \A r \in registered :
    /\ r.phone \in confirmed.phones \cup {None}
    /\ ~Hasty => r.email \in confirmed.emails

(* However the user goes back while a call is under way, a page signs in, or  *)
(* sets the password of, the person last submitted on it.                     *)
ActsOnTheSubmitted == \A a \in acts : a.who = a.named

(* For a user without haste, a session the server still honours leaves the    *)
(* browser by a logout, by a visit to the login or registration page, or by a *)
(* route that forbids a call made with that very token: never by the load of  *)
(* the user, nor by the answer to a call made with an older token or none.    *)
CalmFreshSignInSurvives ==
  [][(~Hasty /\ Alive(token) /\ token' = NoToken) =>
       \/ page' \in {"login", "register"} /\ page' # page
       \/ \E c \in calls : c.kind = "logout"
       \/ \E c \in calls \ calls' : c.kind = "poll" /\ c.state = "refused"
                                    /\ c.sent = token]_vars

(* For a user without haste, the pages show the user whose token they use.    *)
CalmPageShowsItsAccount ==
  (~Hasty /\ page = "home" /\ shown # None /\ token # NoToken) =>
    shown = token.who

=============================================================================
