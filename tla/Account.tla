------------------------------- MODULE Account -------------------------------
(* One registered account (a User document) and the HTTP requests that read   *)
(* and write it: sign-in with its lockout and its code, the session check of  *)
(* every authenticated route, password reset, password change, closing, and   *)
(* the administrator's switch.  Every handler reads a document, awaits (bcrypt*)
(* or the database) and later saves the fields it changed: two handlers can   *)
(* overlap on the same account.                                               *)
EXTENDS Naturals, FiniteSets

CONSTANTS
  Requests,    \* bound: the HTTP requests of one run
  First,       \* the password chosen at registration, and "no code"
  Limit,       \* FAILED_LOGIN_LIMIT
  Scenarios    \* which routes are called, one at a time or overlapping

PasswordKinds == {"options", "login"}
SessionKinds  == {"verify", "resend", "logout", "change", "close"}
ResetKinds    == {"start", "resendReset", "verifyReset"}
AdminKinds    == {"disable", "enable"}
Kinds == PasswordKinds \cup SessionKinds \cup ResetKinds \cup {"reset"}
           \cup AdminKinds

ASSUME RequestsAssumption == First \notin Requests
ASSUME LimitAssumption == Limit \in Nat \ {0}
ASSUME ScenariosAssumption ==
  \A s \in Scenarios : s \in [kinds : SUBSET Kinds, serial : BOOLEAN]

VARIABLES
  scenario,   \* chosen at the start, never changed
  db,         \* the stored document
  late,       \* codes and reset tokens whose expiry date has passed
  pc, kind,   \* where each request stands, and its route
  doc,        \* the document each request holds in memory
  answered,   \* requests that succeeded: their code or token is known
  tokens,     \* session tokens: their version and the password behind them
  accepted,   \* how many requests accepted each code or reset token
  failures    \* wrong passwords since the last right one

vars == <<scenario, db, late, pc, kind, doc, answered, tokens, accepted,
          failures>>

Serial == scenario.serial
Secrets == Requests \cup {First}   \* a password or code, by who made it

Document == [version : Nat, attempts : Nat,
             lock : {"none", "active", "past"},
             code : Secrets, reset : Secrets, password : Secrets,
             disabled : BOOLEAN]

\* What register stores; its answer carries a token of version 0.
Registered == [version |-> 0, attempts |-> 0, lock |-> "none", code |-> First,
               reset |-> First, password |-> First, disabled |-> FALSE]

Init ==
  /\ scenario \in Scenarios
  /\ db = Registered
  /\ late = {} /\ answered = {}
  /\ pc = [r \in Requests |-> "idle"]
  /\ kind = [r \in Requests |-> "login"]
  /\ doc = [r \in Requests |-> Registered]
  /\ tokens = {[version |-> 0, password |-> First]}
  /\ accepted = [r \in Requests |-> 0]
  /\ failures = 0

Goto(r, p) == pc' = [pc EXCEPT ![r] = p]
Running == {r \in Requests : pc[r] \notin {"idle", "done"}}

\* Mutant of Saved: the whole document is written back.
SavedWhole(r, new) == new

\* Mongoose's save(): the paths assigned a value that differs from the one in
\* memory are written, the others keep what other requests stored.
Saved(r, new) ==
  [f \in DOMAIN db |-> IF new[f] # doc[r][f] THEN new[f] ELSE db[f]]

Save(r, new) == db' = Saved(r, new) /\ doc' = [doc EXCEPT ![r] = new]

Respond(r) == Goto(r, "done") /\ answered' = answered \cup {r}
Refuse(r) == Goto(r, "done") /\ UNCHANGED answered

Locked(d) == d.lock = "active"
NoCode(d) == [d EXCEPT !.code = First]

-----------------------------------------------------------------------------
(* How a request finds its account *)

Begin(r, k) ==
  /\ pc[r] = "idle" /\ k \in scenario.kinds
  /\ Serial => Running = {}
  /\ kind' = [kind EXCEPT ![r] = k]

Load(r) == doc' = [doc EXCEPT ![r] = db] /\ Goto(r, "read")

\* login and loginOptions
FindByIdentifier(r, k) ==
  /\ Begin(r, k)
  /\ IF db.disabled \/ Locked(db) THEN Goto(r, "done") /\ UNCHANGED doc
     ELSE Load(r)
  /\ UNCHANGED <<scenario, db, late, answered, tokens, accepted, failures>>

\* protect: a token counts while its version is the stored one.
Authenticate(r, k) ==
  /\ Begin(r, k) /\ ~db.disabled
  /\ \E t \in tokens : t.version = db.version
  /\ doc' = [doc EXCEPT ![r] = db]
  /\ Goto(r, IF k \in {"change", "close"} THEN "authed" ELSE "read")
  /\ UNCHANGED <<scenario, db, late, answered, tokens, accepted, failures>>

\* requireCurrentPassword reads the account a second time.
LoadAgain(r) ==
  /\ pc[r] = "authed"
  /\ \/ Load(r) /\ UNCHANGED answered
     \/ Refuse(r) /\ UNCHANGED doc
  /\ UNCHANGED <<scenario, db, late, kind, tokens, accepted, failures>>

\* forgotPasswordStart, -Resend and -Verify; the last two bring the challenge
\* token that the first one gave.
FindForReset(r, k) ==
  /\ Begin(r, k)
  /\ k = "start" \/ \E q \in answered : kind[q] = "start"
  /\ IF db.disabled THEN Goto(r, "done") /\ UNCHANGED doc ELSE Load(r)
  /\ UNCHANGED <<scenario, db, late, answered, tokens, accepted, failures>>

\* forgotPasswordReset with the reset token of an answered verification
FindByResetToken(r) ==
  /\ Begin(r, "reset") /\ db.reset \in answered
  /\ Load(r)
  /\ UNCHANGED <<scenario, db, late, answered, tokens, accepted, failures>>

\* PATCH /api/admin/users/:id/disable
FindForAdmin(r, k) ==
  /\ Begin(r, k) /\ Load(r)
  /\ UNCHANGED <<scenario, db, late, answered, tokens, accepted, failures>>

Arrive(r) ==
  \/ \E k \in PasswordKinds : FindByIdentifier(r, k)
  \/ \E k \in SessionKinds : Authenticate(r, k)
  \/ \E k \in ResetKinds : FindForReset(r, k)
  \/ \E k \in AdminKinds : FindForAdmin(r, k)
  \/ FindByResetToken(r) \/ LoadAgain(r)

-----------------------------------------------------------------------------
(* Passwords and the lockout *)

\* Mutant of FailedLogin: the account is locked one failure too late.
FailedLoginOffByOne(d) ==
  [d EXCEPT !.attempts = @ + 1,
            !.lock = IF d.attempts >= Limit THEN "active" ELSE @]

\* recordFailedLogin
FailedLogin(d) ==
  [d EXCEPT !.attempts = @ + 1,
            !.lock = IF d.attempts + 1 >= Limit THEN "active" ELSE @]

\* clearFailedLoginState
ClearedLogin(d) == [d EXCEPT !.attempts = 0, !.lock = "none"]

WrongPassword(r) ==
  /\ pc[r] = "read" /\ kind[r] \in PasswordKinds
  /\ Save(r, FailedLogin(doc[r]))
  /\ failures' = failures + 1
  /\ Refuse(r)
  /\ UNCHANGED <<scenario, late, kind, tokens, accepted>>

RightPassword(r) ==
  /\ pc[r] = "read" /\ kind[r] \in PasswordKinds
  /\ Save(r, ClearedLogin(doc[r]))
  /\ failures' = 0
  /\ IF kind[r] = "options" THEN Respond(r)
     ELSE Goto(r, "cleared") /\ UNCHANGED answered
  /\ UNCHANGED <<scenario, late, kind, tokens, accepted>>

\* The lockout time passes.
LockPasses ==
  /\ Locked(db) /\ db' = [db EXCEPT !.lock = "past"]
  /\ failures' = 0
  /\ UNCHANGED <<scenario, late, pc, kind, doc, answered, tokens, accepted>>

-----------------------------------------------------------------------------
(* Codes *)

\* setLoginCode and save; the code of r is named r.  login signs its token
\* from the document in memory.  Delivery can fail on a missing phone number.
SendCode(r) ==
  /\ \/ pc[r] = "cleared"
     \/ pc[r] = "read" /\ kind[r] \in {"resend", "start", "resendReset"}
  /\ Save(r, [doc[r] EXCEPT !.code = r])
  /\ \/ /\ Respond(r)
        /\ tokens' = IF kind[r] = "login"
                     THEN tokens \cup {[version |-> doc[r].version,
                                        password |-> doc[r].password]}
                     ELSE tokens
     \/ /\ kind[r] \in {"login", "resend"}
        /\ Goto(r, "undelivered") /\ UNCHANGED <<answered, tokens>>
  /\ UNCHANGED <<scenario, late, kind, accepted, failures>>

TakeBackCode(r) ==
  /\ pc[r] = "undelivered"
  /\ Save(r, NoCode(doc[r]))
  /\ Refuse(r)
  /\ UNCHANGED <<scenario, late, kind, tokens, accepted, failures>>

Accept(s) == accepted' = [accepted EXCEPT ![s] = @ + 1]

\* Mutant of AfterCode: an accepted code is left in the document.
AfterCodeKept(r) == IF kind[r] = "verifyReset"
                    THEN [doc[r] EXCEPT !.reset = r] ELSE doc[r]

\* What an accepted code leaves: forgotPasswordVerify makes a reset token.
AfterCode(r) == IF kind[r] = "verifyReset"
                THEN [NoCode(doc[r]) EXCEPT !.reset = r] ELSE NoCode(doc[r])

\* verifyCode and forgotPasswordVerify: no code, an expired code, a wrong one,
\* or the right one of a delivered message
CheckCode(r) ==
  /\ pc[r] = "read" /\ kind[r] \in {"verify", "verifyReset"}
  /\ \/ doc[r].code = First /\ Refuse(r) /\ UNCHANGED <<db, doc, accepted>>
     \/ /\ doc[r].code \in late
        /\ Save(r, NoCode(doc[r])) /\ Refuse(r) /\ UNCHANGED accepted
     \/ /\ doc[r].code \in Requests \ late
        /\ Refuse(r) /\ UNCHANGED <<db, doc, accepted>>
     \/ /\ doc[r].code \in answered \ late
        /\ Save(r, AfterCode(r)) /\ Accept(doc[r].code) /\ Respond(r)
  /\ UNCHANGED <<scenario, late, kind, tokens, failures>>

\* A code or a reset token becomes too old.
SecretExpires ==
  /\ \E s \in {db.code, db.reset} \ (late \cup {First}) :
       late' = late \cup {s}
  /\ UNCHANGED <<scenario, db, pc, kind, doc, answered, tokens, accepted,
                 failures>>

-----------------------------------------------------------------------------
(* Writers of the password, the session version and the switch *)

\* Mutant of NextVersion: the sessions are left alone.
SameVersion(d) == d.version

\* Mutant of NextVersion: the counter wraps.
WrappedVersion(d) == (d.version + 1) % 2

\* incrementSessionVersion
NextVersion(d) == d.version + 1

\* forgotPasswordReset; it writes the lockout fields unread.
ResetPassword(r) ==
  /\ pc[r] = "read" /\ kind[r] = "reset"
  /\ LET unset == [doc[r] EXCEPT !.reset = First]
         new == [NoCode(unset) EXCEPT !.password = r, !.attempts = 0,
                   !.lock = "none", !.version = NextVersion(doc[r])]
     IN \/ /\ doc[r].reset \in late
           /\ Save(r, unset) /\ Refuse(r) /\ UNCHANGED <<accepted, failures>>
        \/ /\ doc[r].reset \notin late
           /\ Refuse(r) /\ UNCHANGED <<db, doc, accepted, failures>>
        \/ /\ doc[r].reset \notin late /\ ~doc[r].disabled
           /\ db' = [Saved(r, new) EXCEPT !.attempts = 0, !.lock = "none"]
           /\ doc' = [doc EXCEPT ![r] = new]
           /\ Accept(doc[r].reset) /\ failures' = 0 /\ Respond(r)
  /\ UNCHANGED <<scenario, late, kind, tokens>>

Logout(r) ==
  /\ pc[r] = "read" /\ kind[r] = "logout"
  /\ Save(r, [doc[r] EXCEPT !.version = NextVersion(doc[r])])
  /\ Respond(r)
  /\ UNCHANGED <<scenario, late, kind, tokens, accepted, failures>>

\* POST /me/change-password
ChangePassword(r) ==
  /\ pc[r] = "read" /\ kind[r] = "change"
  /\ Save(r, [doc[r] EXCEPT !.password = r,
                            !.version = NextVersion(doc[r])])
  /\ Respond(r)
  /\ UNCHANGED <<scenario, late, kind, tokens, accepted, failures>>

\* POST /me/deactivate and DELETE /me
CloseAccount(r) ==
  /\ pc[r] = "read" /\ kind[r] = "close"
  /\ Save(r, [doc[r] EXCEPT !.disabled = TRUE,
                            !.version = NextVersion(doc[r])])
  /\ Respond(r)
  /\ UNCHANGED <<scenario, late, kind, tokens, accepted, failures>>

\* The administrator's switch
SetDisabled(r) ==
  /\ pc[r] = "read" /\ kind[r] \in AdminKinds
  /\ Save(r, IF kind[r] = "enable" THEN [doc[r] EXCEPT !.disabled = FALSE]
             ELSE IF doc[r].disabled THEN doc[r]
             ELSE [doc[r] EXCEPT !.disabled = TRUE,
                                 !.version = NextVersion(doc[r])])
  /\ Respond(r)
  /\ UNCHANGED <<scenario, late, kind, tokens, accepted, failures>>

Act(r) ==
  \/ WrongPassword(r) \/ RightPassword(r) \/ SendCode(r) \/ TakeBackCode(r)
  \/ CheckCode(r) \/ ResetPassword(r) \/ Logout(r) \/ ChangePassword(r)
  \/ CloseAccount(r) \/ SetDisabled(r)

Next == LockPasses \/ SecretExpires \/ \E r \in Requests : Arrive(r) \/ Act(r)

Spec == Init /\ [][Next]_vars

-----------------------------------------------------------------------------
(* Every variable stays in its range. *)
TypeOK ==
  /\ scenario \in Scenarios
  /\ db \in Document /\ doc \in [Requests -> Document]
  /\ late \subseteq Requests /\ answered \subseteq Requests
  /\ pc \in [Requests -> {"idle", "authed", "read", "cleared", "undelivered",
                          "done"}]
  /\ kind \in [Requests -> Kinds]
  /\ \A t \in tokens : t.version \in Nat /\ t.password \in Secrets
  /\ accepted \in [Requests -> Nat] /\ failures \in Nat

(* Whatever overlaps, a password that was replaced is never the account's     *)
(* password again, although sign-ins, logouts and the switch save documents   *)
(* that they read before it was replaced.                                     *)
ReplacedPasswordStaysReplaced ==
  [][db'.password # db.password => db'.password \notin answered \cup {First}]_vars

(* When requests do not overlap, every session the server accepts was opened  *)
(* with the password of now: changing or resetting it ended the others.       *)
SerialSessionsKnowThePassword ==
  Serial /\ ~db.disabled =>
    \A t \in tokens : t.version = db.version => t.password = db.password

(* When requests do not overlap, a session that was ended is never accepted   *)
(* again, whatever sequence of logouts, resets and switches follows.          *)
SerialEndedSessionsStayEnded ==
  [][Serial => \A t \in tokens :
       t.version # db.version => t.version # db'.version]_vars

(* When requests do not overlap, a delivered code and a reset token are       *)
(* accepted at most once.                                                     *)
SerialSecretsAreUsedOnce == Serial => \A r \in Requests : accepted[r] <= 1

(* When requests do not overlap, the account is locked as soon as Limit wrong *)
(* passwords follow each other without a right one or a reset.                *)
SerialLockout == Serial /\ failures >= Limit => Locked(db)

=============================================================================
