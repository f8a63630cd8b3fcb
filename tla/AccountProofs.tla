----------------------------- MODULE AccountProofs -----------------------------
(* Proofs about Account, for any number of requests and any lockout limit.    *)
EXTENDS Account, TLAPS

USE RequestsAssumption, LimitAssumption

Fields == {"version", "attempts", "lock", "code", "reset", "password",
           "disabled"}

LEMMA DocumentFields ==
  ASSUME NEW d \in Document
  PROVE  /\ DOMAIN d = Fields
         /\ d.version \in Nat /\ d.attempts \in Nat
         /\ d.lock \in {"none", "active", "past"}
         /\ d.code \in Secrets /\ d.reset \in Secrets /\ d.password \in Secrets
         /\ d.disabled \in BOOLEAN
  BY DEF Document, Fields

\* save() writes a document of the same shape, field by field.
LEMMA SavedFields ==
  ASSUME db \in Document, NEW r \in Requests, doc[r] \in Document,
         NEW new \in Document
  PROVE  /\ Saved(r, new) \in Document
         /\ \A f \in Fields : Saved(r, new)[f] =
              IF new[f] # doc[r][f] THEN new[f] ELSE db[f]
<1> DEFINE s == Saved(r, new)
<1>1. DOMAIN db = Fields
  BY DocumentFields
<1>2. /\ s = [f \in Fields |-> s[f]]
      /\ \A f \in Fields : s[f] = IF new[f] # doc[r][f] THEN new[f] ELSE db[f]
  BY <1>1 DEF Saved
<1>3. \A f \in Fields : s[f] \in {new[f], db[f]}
  BY <1>2
<1> HIDE DEF s
<1>4. /\ s.version \in Nat /\ s.attempts \in Nat
      /\ s.lock \in {"none", "active", "past"}
      /\ s.code \in Secrets /\ s.reset \in Secrets /\ s.password \in Secrets
  BY <1>3, DocumentFields DEF Fields
<1>5. s.disabled \in BOOLEAN
  BY <1>3, DocumentFields, Zenon DEF Fields
<1>6. s \in Document
  BY <1>2, <1>4, <1>5 DEF Document, Fields
<1> QED
  BY <1>2, <1>6 DEF s

-----------------------------------------------------------------------------
(* The documents that the handlers save *)

LEMMA FailedLoginType ==
  ASSUME NEW d \in Document
  PROVE  /\ FailedLogin(d) \in Document
         /\ FailedLogin(d).attempts = d.attempts + 1
         /\ d.attempts + 1 >= Limit => FailedLogin(d).lock = "active"
         /\ \A f \in Fields \ {"attempts", "lock"} : FailedLogin(d)[f] = d[f]
<1>1. d.attempts + 1 \in Nat /\ d.lock \in {"none", "active", "past"}
  BY DocumentFields
<1>2. PICK l \in {"none", "active", "past"} :
        /\ FailedLogin(d) = [d EXCEPT !.attempts = d.attempts + 1, !.lock = l]
        /\ d.attempts + 1 >= Limit => l = "active"
  BY <1>1 DEF FailedLogin
<1> QED
  BY <1>1, <1>2 DEF Document, Fields

LEMMA ClearedLoginType ==
  ASSUME NEW d \in Document
  PROVE  /\ ClearedLogin(d) \in Document
         /\ ClearedLogin(d).attempts = 0 /\ ClearedLogin(d).lock = "none"
         /\ \A f \in Fields \ {"attempts", "lock"} : ClearedLogin(d)[f] = d[f]
  BY DEF ClearedLogin, Document, Fields

LEMMA CodeType ==
  ASSUME NEW d \in Document, NEW c \in Secrets
  PROVE  /\ [d EXCEPT !.code = c] \in Document
         /\ [d EXCEPT !.code = c].code = c
         /\ \A f \in Fields \ {"code"} : [d EXCEPT !.code = c][f] = d[f]
  BY DEF Document, Fields

LEMMA NoCodeType ==
  ASSUME NEW d \in Document
  PROVE  /\ NoCode(d) \in Document /\ NoCode(d).code = First
         /\ \A f \in Fields \ {"code"} : NoCode(d)[f] = d[f]
  BY CodeType DEF NoCode, Secrets

LEMMA ResetFieldType ==
  ASSUME NEW d \in Document, NEW s \in Secrets
  PROVE  /\ [d EXCEPT !.reset = s] \in Document
         /\ [d EXCEPT !.reset = s].reset = s
         /\ \A f \in Fields \ {"reset"} : [d EXCEPT !.reset = s][f] = d[f]
  BY DEF Document, Fields

LEMMA AfterCodeType ==
  ASSUME NEW r \in Requests, doc[r] \in Document
  PROVE  /\ AfterCode(r) \in Document /\ AfterCode(r).code = First
         /\ AfterCode(r).reset \in {doc[r].reset, r}
         /\ kind[r] # "verifyReset" => AfterCode(r).reset = doc[r].reset
         /\ \A f \in Fields \ {"code", "reset"} : AfterCode(r)[f] = doc[r][f]
  BY NoCodeType, ResetFieldType DEF AfterCode, Secrets, Fields

\* The document of a reset, in the model's LET.
Reset(r) ==
  [NoCode([doc[r] EXCEPT !.reset = First]) EXCEPT !.password = r, !.attempts = 0,
     !.lock = "none", !.version = NextVersion(doc[r])]

LEMMA ResetType ==
  ASSUME NEW r \in Requests, doc[r] \in Document
  PROVE  /\ Reset(r) \in Document
         /\ Reset(r).code = First /\ Reset(r).reset = First
         /\ Reset(r).password = r
         /\ Reset(r).version = doc[r].version + 1
         /\ Reset(r).attempts = 0 /\ Reset(r).lock = "none"
         /\ Reset(r).disabled = doc[r].disabled
<1> DEFINE d == NoCode([doc[r] EXCEPT !.reset = First])
<1>1. /\ d \in Document /\ d.code = First /\ d.reset = First
      /\ d.disabled = doc[r].disabled
  <2> DEFINE u == [doc[r] EXCEPT !.reset = First]
  <2>1. /\ u \in Document /\ u.reset = First
        /\ u.disabled = doc[r].disabled
    BY ResetFieldType DEF Secrets, Fields
  <2> HIDE DEF u
  <2>2. /\ NoCode(u) \in Document /\ NoCode(u).code = First
        /\ NoCode(u).reset = First /\ NoCode(u).disabled = u.disabled
    BY <2>1, NoCodeType DEF Fields
  <2> QED
    BY <2>1, <2>2 DEF u
<1>2. doc[r].version \in Nat
  BY DocumentFields
<1> HIDE DEF d
<1>3. Reset(r) = [d EXCEPT !.password = r, !.attempts = 0, !.lock = "none",
                           !.version = doc[r].version + 1]
  BY DEF Reset, d, NextVersion
<1>4. doc[r].version + 1 \in Nat /\ r \in Secrets
  BY <1>2 DEF Secrets
<1> DEFINE v == doc[r].version + 1
<1> HIDE DEF v
<1>5. Reset(r) = [d EXCEPT !.password = r, !.attempts = 0, !.lock = "none",
                           !.version = v]
      /\ v \in Nat
  BY <1>3, <1>4 DEF v
<1>6. /\ Reset(r) \in Document /\ Reset(r).code = First
      /\ Reset(r).reset = First /\ Reset(r).password = r
      /\ Reset(r).version = v /\ Reset(r).attempts = 0
      /\ Reset(r).lock = "none"
  <2>1. [d EXCEPT !.password = r, !.attempts = 0, !.lock = "none"] \in Document
    BY <1>1, <1>4 DEF Document
  <2>2. Reset(r) \in Document
    <3> DEFINE e == [d EXCEPT !.password = r, !.attempts = 0, !.lock = "none"]
    <3>1. Reset(r) = [e EXCEPT !.version = v]
      BY <1>5
    <3>2. e \in Document
      BY <2>1
    <3> HIDE DEF e
    <3> QED
      BY <1>5, <3>1, <3>2 DEF Document
  <2>3. DOMAIN d = Fields
    BY <1>1, DocumentFields
  <2>4. /\ Reset(r).code = d.code /\ Reset(r).reset = d.reset
        /\ Reset(r).password = r /\ Reset(r).version = v
    BY <1>5, <2>3 DEF Fields
  <2>5. Reset(r).attempts = 0 /\ Reset(r).lock = "none"
    BY <1>5, <2>3 DEF Fields
  <2> QED
    BY <1>1, <2>2, <2>4, <2>5
<1>7. Reset(r).disabled = d.disabled
  BY <1>1, <1>5 DEF Document
<1> QED
  BY <1>1, <1>6, <1>7 DEF v

\* What logout, change-password, close and disable save.
LEMMA EndedType ==
  ASSUME NEW r \in Requests, doc[r] \in Document
  PROVE  /\ [doc[r] EXCEPT !.version = NextVersion(doc[r])] \in Document
         /\ [doc[r] EXCEPT !.password = r,
                           !.version = NextVersion(doc[r])] \in Document
         /\ [doc[r] EXCEPT !.disabled = TRUE,
                           !.version = NextVersion(doc[r])] \in Document
         /\ [doc[r] EXCEPT !.disabled = FALSE] \in Document
<1>1. doc[r].version + 1 \in Nat /\ r \in Secrets
  BY DocumentFields DEF Secrets
<1>2. \A v \in Nat, b \in BOOLEAN :
        /\ [doc[r] EXCEPT !.version = v] \in Document
        /\ [doc[r] EXCEPT !.password = r, !.version = v] \in Document
        /\ [doc[r] EXCEPT !.disabled = b, !.version = v] \in Document
        /\ [doc[r] EXCEPT !.disabled = b] \in Document
  BY <1>1 DEF Document
<1> QED
  BY <1>1, <1>2 DEF NextVersion

-----------------------------------------------------------------------------
(* Types, and what an answered request can no longer do *)

AnsweredIsDone == \A q \in answered : pc[q] = "done"

Typed == TypeOK /\ AnsweredIsDone

LEMMA TypedInit == Init => Typed
  BY DEF Init, Typed, TypeOK, AnsweredIsDone, Registered, Document, Secrets,
    Kinds, PasswordKinds

\* A step of r that saves new and goes on.
LEMMA SaveType ==
  ASSUME Typed, NEW r \in Requests, NEW new \in Document, Save(r, new)
  PROVE  /\ db' \in Document /\ db' = Saved(r, new)
         /\ doc' \in [Requests -> Document] /\ doc'[r] = new
  BY SavedFields DEF Save, Typed, TypeOK

Steps == {"idle", "authed", "read", "cleared", "undelivered", "done"}

LEMMA MoveType ==
  ASSUME Typed, NEW r \in Requests, pc[r] # "done",
         \/ Respond(r) \/ Refuse(r)
         \/ UNCHANGED answered /\ \E p \in Steps : Goto(r, p)
  PROVE  /\ pc' \in [Requests -> Steps] /\ answered' \subseteq Requests
         /\ AnsweredIsDone'
  BY DEF Typed, TypeOK, AnsweredIsDone, Respond, Refuse, Goto, Steps

LEMMA ArriveType ==
  ASSUME Typed, NEW r \in Requests, Arrive(r)
  PROVE  Typed'
<1> USE DEF Typed, TypeOK
<1>1. ASSUME NEW k \in Kinds, Begin(r, k)
      PROVE  pc[r] # "done" /\ kind' \in [Requests -> Kinds]
  BY <1>1 DEF Begin
<1>2. ASSUME doc' = [doc EXCEPT ![r] = db] \/ doc' = doc
      PROVE  doc' \in [Requests -> Document]
  BY <1>2
<1>3. ASSUME NEW k \in PasswordKinds, FindByIdentifier(r, k) PROVE Typed'
  <2>1. k \in Kinds
    BY DEF Kinds
  <2>2. \E p \in Steps : Goto(r, p)
    BY <1>3 DEF FindByIdentifier, Load, Steps
  <2>3. doc' \in [Requests -> Document]
    BY <1>2, <1>3 DEF FindByIdentifier, Load
  <2> QED
    BY <1>1, <1>3, <2>1, <2>2, <2>3, MoveType DEF FindByIdentifier, Steps
<1>4. ASSUME NEW k \in SessionKinds, Authenticate(r, k) PROVE Typed'
  <2>1. k \in Kinds
    BY DEF Kinds
  <2>2. \E p \in Steps : Goto(r, p)
    BY <1>4 DEF Authenticate, Steps
  <2> QED
    BY <1>1, <1>2, <1>4, <2>1, <2>2, MoveType DEF Authenticate, Steps
<1>5. ASSUME NEW k \in ResetKinds, FindForReset(r, k) PROVE Typed'
  <2>1. k \in Kinds
    BY DEF Kinds
  <2>2. \E p \in Steps : Goto(r, p)
    BY <1>5 DEF FindForReset, Load, Steps
  <2>3. doc' \in [Requests -> Document]
    BY <1>2, <1>5 DEF FindForReset, Load
  <2> QED
    BY <1>1, <1>5, <2>1, <2>2, <2>3, MoveType DEF FindForReset, Steps
<1>6. ASSUME NEW k \in AdminKinds, FindForAdmin(r, k) PROVE Typed'
  <2>1. k \in Kinds
    BY DEF Kinds
  <2>2. \E p \in Steps : Goto(r, p)
    BY <1>6 DEF FindForAdmin, Load, Steps
  <2> QED
    BY <1>1, <1>2, <1>6, <2>1, <2>2, MoveType DEF FindForAdmin, Load, Steps
<1>7. CASE FindByResetToken(r)
  <2>1. "reset" \in Kinds
    BY DEF Kinds
  <2>2. \E p \in Steps : Goto(r, p)
    BY <1>7 DEF FindByResetToken, Load, Steps
  <2> QED
    BY <1>1, <1>2, <1>7, <2>1, <2>2, MoveType DEF FindByResetToken, Load, Steps
<1>8. CASE LoadAgain(r)
  <2>1. \/ Refuse(r)
        \/ UNCHANGED answered /\ \E p \in Steps : Goto(r, p)
    BY <1>8 DEF LoadAgain, Load, Steps
  <2>2. doc' \in [Requests -> Document]
    BY <1>2, <1>8 DEF LoadAgain, Load
  <2> QED
    BY <1>8, <2>1, <2>2, MoveType DEF LoadAgain, Steps
<1> QED
  BY <1>3, <1>4, <1>5, <1>6, <1>7, <1>8 DEF Arrive

\* A handler saves a document once, and may leave the stored one alone.
LEMMA ActType ==
  ASSUME Typed, NEW r \in Requests, Act(r)
  PROVE  Typed'
<1> USE DEF Typed, TypeOK
<1>0. doc[r] \in Document
  OBVIOUS
<1>1. CASE WrongPassword(r)
  BY <1>0, <1>1, FailedLoginType, SaveType, MoveType DEF WrongPassword, Steps
<1>2. CASE RightPassword(r)
  <2>1. \/ Respond(r)
        \/ UNCHANGED answered /\ \E p \in Steps : Goto(r, p)
    BY <1>2 DEF RightPassword, Steps
  <2> QED
    BY <1>0, <1>2, <2>1, ClearedLoginType, SaveType, MoveType
    DEF RightPassword, Steps
<1>3. CASE SendCode(r)
  <2>1. \/ Respond(r)
        \/ UNCHANGED answered /\ \E p \in Steps : Goto(r, p)
    BY <1>3 DEF SendCode, Steps
  <2>2. [doc[r] EXCEPT !.code = r] \in Document
    BY <1>0, CodeType DEF Secrets
  <2>3. \A t \in tokens' : t.version \in Nat /\ t.password \in Secrets
    BY <1>0, <1>3, DocumentFields DEF SendCode
  <2>4. pc[r] # "done" /\ Save(r, [doc[r] EXCEPT !.code = r])
        /\ UNCHANGED <<scenario, late, kind, accepted, failures>>
    BY <1>3 DEF SendCode
  <2>5. db' \in Document /\ doc' \in [Requests -> Document]
    BY <2>2, <2>4, SaveType
  <2> QED
    BY <2>1, <2>3, <2>4, <2>5, MoveType DEF Steps
<1>4. CASE TakeBackCode(r)
  BY <1>0, <1>4, NoCodeType, SaveType, MoveType DEF TakeBackCode, Steps
<1>5. CASE CheckCode(r)
  <2>1. Respond(r) \/ Refuse(r)
    BY <1>5 DEF CheckCode
  <2>2. db' \in Document /\ doc' \in [Requests -> Document]
    BY <1>0, <1>5, NoCodeType, AfterCodeType, SaveType DEF CheckCode
  <2>3. accepted' \in [Requests -> Nat]
    BY <1>5 DEF CheckCode, Accept
  <2> QED
    BY <1>5, <2>1, <2>2, <2>3, MoveType DEF CheckCode, Steps
<1>6. CASE ResetPassword(r)
  <2>1. Respond(r) \/ Refuse(r)
    BY <1>6 DEF ResetPassword
  <2>2. db' \in Document /\ doc' \in [Requests -> Document]
    <3>1. CASE UNCHANGED <<db, doc>>
      BY <3>1
    <3>2. CASE Save(r, [doc[r] EXCEPT !.reset = First])
      BY <1>0, <3>2, ResetFieldType, SaveType DEF Secrets
    <3>3. CASE /\ db' = [Saved(r, Reset(r)) EXCEPT !.attempts = 0,
                                                   !.lock = "none"]
               /\ doc' = [doc EXCEPT ![r] = Reset(r)]
      <4>1. Reset(r) \in Document /\ Saved(r, Reset(r)) \in Document
        BY <1>0, ResetType, SavedFields
      <4> QED
        BY <3>3, <4>1 DEF Document
    <3> QED
      BY <1>6, <3>1, <3>2, <3>3 DEF ResetPassword, Reset
  <2>3. accepted' \in [Requests -> Nat] /\ failures' \in Nat
    BY <1>6 DEF ResetPassword, Accept
  <2> QED
    BY <1>6, <2>1, <2>2, <2>3, MoveType DEF ResetPassword, Steps
<1>7. CASE Logout(r)
  BY <1>0, <1>7, EndedType, SaveType, MoveType DEF Logout, Steps
<1>8. CASE ChangePassword(r)
  BY <1>0, <1>8, EndedType, SaveType, MoveType DEF ChangePassword, Steps
<1>9. CASE CloseAccount(r)
  BY <1>0, <1>9, EndedType, SaveType, MoveType DEF CloseAccount, Steps
<1>10. CASE SetDisabled(r)
  <2>1. PICK new \in Document : Save(r, new)
    BY <1>0, <1>10, EndedType DEF SetDisabled
  <2> QED
    BY <1>10, <2>1, SaveType, MoveType DEF SetDisabled, Steps
<1> QED
  BY <1>1, <1>2, <1>3, <1>4, <1>5, <1>6, <1>7, <1>8, <1>9, <1>10 DEF Act

LEMMA ClockType ==
  ASSUME Typed, LockPasses \/ SecretExpires
  PROVE  Typed'
<1> USE DEF Typed, TypeOK, AnsweredIsDone
<1>1. CASE LockPasses
  BY <1>1 DEF LockPasses, Document
<1>2. CASE SecretExpires
  BY <1>2, DocumentFields DEF SecretExpires, Secrets
<1> QED
  BY <1>1, <1>2

LEMMA TypedNext == Typed /\ [Next]_vars => Typed'
<1> SUFFICES ASSUME Typed, [Next]_vars PROVE Typed'
  OBVIOUS
<1>1. CASE UNCHANGED vars
  BY <1>1 DEF vars, Typed, TypeOK, AnsweredIsDone
<1> QED
  BY <1>1, ArriveType, ActType, ClockType DEF Next

(* Every variable of Account stays in its range, however requests overlap.    *)
THEOREM TypeCorrect == Spec => []TypeOK
<1>1. Typed => TypeOK
  BY DEF Typed
<1> QED
  BY <1>1, TypedInit, TypedNext, PTL DEF Spec

-----------------------------------------------------------------------------
(* Passwords, whatever overlaps *)

\* The only password a request can write is its own.
LEMMA PasswordWritten ==
  ASSUME Typed, [Next]_vars
  PROVE  \/ db'.password = db.password
         \/ \E r \in Requests : pc[r] # "done" /\ db'.password = r
<1> DEFINE Goal == \/ db'.password = db.password
                   \/ \E r \in Requests : pc[r] # "done" /\ db'.password = r
<1> USE DEF Typed, TypeOK
<1>1. ASSUME NEW r \in Requests, NEW new \in Document, Save(r, new),
             new.password = doc[r].password
      PROVE  Goal
  BY <1>1, SavedFields DEF Save, Fields
<1>2. ASSUME NEW r \in Requests, Act(r) PROVE Goal
  <2>0. doc[r] \in Document /\ DOMAIN doc[r] = Fields
    BY DocumentFields
  <2>1. CASE WrongPassword(r)
    BY <1>1, <2>0, <2>1, FailedLoginType DEF WrongPassword, Fields
  <2>2. CASE RightPassword(r)
    BY <1>1, <2>0, <2>2, ClearedLoginType DEF RightPassword, Fields
  <2>3. CASE SendCode(r)
    <3>1. /\ [doc[r] EXCEPT !.code = r] \in Document
          /\ [doc[r] EXCEPT !.code = r].password = doc[r].password
      BY <2>0, CodeType DEF Secrets, Fields
    <3>2. Save(r, [doc[r] EXCEPT !.code = r])
      BY <2>3 DEF SendCode
    <3> QED
      BY <1>1, <3>1, <3>2
  <2>4. CASE TakeBackCode(r)
    BY <1>1, <2>0, <2>4, NoCodeType DEF TakeBackCode, Fields
  <2>5. CASE CheckCode(r)
    BY <1>1, <2>0, <2>5, NoCodeType, AfterCodeType DEF CheckCode, Fields
  <2>6. CASE ResetPassword(r)
    <3>1. CASE UNCHANGED db
      BY <3>1
    <3>2. CASE Save(r, [doc[r] EXCEPT !.reset = First])
      <4>1. /\ [doc[r] EXCEPT !.reset = First] \in Document
            /\ [doc[r] EXCEPT !.reset = First].password = doc[r].password
        BY <2>0, ResetFieldType DEF Secrets, Fields
      <4> QED
        BY <1>1, <3>2, <4>1
    <3>3. CASE db' = [Saved(r, Reset(r)) EXCEPT !.attempts = 0,
                                               !.lock = "none"]
      <4>1. Saved(r, Reset(r)) \in Document
            /\ Saved(r, Reset(r)).password \in {r, db.password}
        BY <2>0, ResetType, SavedFields DEF Fields
      <4>2. db'.password = Saved(r, Reset(r)).password
        BY <3>3, <4>1, DocumentFields DEF Fields
      <4> QED
        BY <2>6, <4>1, <4>2 DEF ResetPassword
    <3> QED
      BY <2>6, <3>1, <3>2, <3>3 DEF ResetPassword, Reset
  <2>7. CASE Logout(r)
    BY <1>1, <2>0, <2>7, EndedType DEF Logout, Fields
  <2>8. CASE ChangePassword(r)
    <3> DEFINE new == [doc[r] EXCEPT !.password = r,
                                     !.version = NextVersion(doc[r])]
    <3>1. new \in Document /\ new.password = r
      BY <2>0, EndedType DEF Fields
    <3>2. db' = Saved(r, new)
      BY <2>8 DEF ChangePassword, Save
    <3> HIDE DEF new
    <3>3. db'.password \in {r, db.password}
      BY <2>0, <3>1, <3>2, SavedFields DEF Fields
    <3> QED
      BY <2>8, <3>3 DEF ChangePassword
  <2>9. CASE CloseAccount(r)
    BY <1>1, <2>0, <2>9, EndedType DEF CloseAccount, Fields
  <2>10. CASE SetDisabled(r)
    <3>1. PICK new \in Document : /\ Save(r, new)
                                  /\ new.password = doc[r].password
      <4> DEFINE off == [doc[r] EXCEPT !.disabled = TRUE,
                                       !.version = NextVersion(doc[r])]
                 on  == [doc[r] EXCEPT !.disabled = FALSE]
      <4>1. /\ off \in Document /\ off.password = doc[r].password
            /\ on \in Document /\ on.password = doc[r].password
        BY <2>0, EndedType DEF Fields
      <4>2. \E new \in {on, off, doc[r]} : Save(r, new)
        BY <2>10 DEF SetDisabled
      <4> HIDE DEF on, off
      <4> QED
        BY <2>0, <4>1, <4>2
    <3> QED
      BY <1>1, <3>1
  <2> QED
    BY <1>2, <2>1, <2>2, <2>3, <2>4, <2>5, <2>6, <2>7, <2>8, <2>9, <2>10 DEF Act
<1>3. ASSUME NEW r \in Requests, Arrive(r) PROVE Goal
  BY <1>3 DEF Arrive, FindByIdentifier, Authenticate, FindForReset,
    FindForAdmin, FindByResetToken, LoadAgain
<1>4. CASE LockPasses
  BY <1>4, DocumentFields DEF LockPasses, Fields
<1>5. CASE SecretExpires \/ UNCHANGED vars
  BY <1>5 DEF SecretExpires, vars
<1> QED
  BY <1>2, <1>3, <1>4, <1>5 DEF Next

(* Whatever overlaps, a password that was replaced is never the account's     *)
(* again: save() writes the paths a handler assigned, not what it had read.   *)
THEOREM ReplacedPasswordStaysReplacedHolds ==
  Spec => ReplacedPasswordStaysReplaced
<1>1. ASSUME Typed, [Next]_vars, db'.password # db.password
      PROVE  db'.password \notin answered \cup {First}
  <2>1. PICK r \in Requests : pc[r] # "done" /\ db'.password = r
    BY <1>1, PasswordWritten
  <2> QED
    BY <1>1, <2>1 DEF Typed, AnsweredIsDone
<1>2. Typed /\ [Next]_vars =>
        [db'.password # db.password
           => db'.password \notin answered \cup {First}]_vars
  BY <1>1
<1> QED
  BY <1>2, TypedInit, TypedNext, PTL DEF Spec, ReplacedPasswordStaysReplaced

-----------------------------------------------------------------------------
(* Requests that do not overlap *)

OneRunning == \A q, r \in Running : q = r

\* What a running request holds in memory is what is stored; the lockout may
\* have passed meanwhile, though not while a password is being compared.
Agrees(r) == \A f \in Fields \ {"lock"} : doc[r][f] = db[f]
LockKnown == \A r \in Requests :
  /\ pc[r] = "authed" => kind[r] \notin PasswordKinds
  /\ pc[r] = "read" /\ kind[r] \in PasswordKinds
       => doc[r].lock = db.lock /\ db.lock # "active"
Memory == OneRunning /\ LockKnown /\ \A r \in Running : Agrees(r)

\* The strengthening of SerialSessionsKnowThePassword
TokensKnow == \A t \in tokens :
  /\ t.version <= db.version
  /\ t.version = db.version => t.password = db.password

\* The strengthening of SerialSecretsAreUsedOnce: an accepted secret is gone.
SecretsAreFresh ==
  /\ \A s \in Requests :
       /\ accepted[s] <= 1
       /\ accepted[s] > 0 => pc[s] = "done" /\ s \notin {db.code, db.reset}
       /\ s = db.code => pc[s] \in {"done", "undelivered"}
       /\ s = db.reset => pc[s] = "done"
  /\ db.code # First => db.code # db.reset

\* The strengthening of SerialLockout
FailuresCounted ==
  /\ failures <= db.attempts
  /\ failures > 0 /\ db.attempts >= Limit => db.lock = "active"

SerialInv ==
  Serial => Memory /\ TokensKnow /\ SecretsAreFresh /\ FailuresCounted

LEMMA SerialInit == Init => SerialInv
  BY DEF Init, SerialInv, Memory, OneRunning, LockKnown, Agrees, TokensKnow,
    SecretsAreFresh, FailuresCounted, Running, Registered, Fields

LEMMA ScenarioStays == [Next]_vars => scenario' = scenario
  BY DEF Next, vars, Arrive, Act, FindByIdentifier, Authenticate, FindForReset,
    FindForAdmin, FindByResetToken, LoadAgain, WrongPassword, RightPassword,
    SendCode, TakeBackCode, CheckCode, ResetPassword, Logout, ChangePassword,
    CloseAccount, SetDisabled, LockPasses, SecretExpires

\* A request that stores every field of new, the lockout aside, and goes on.
Stores(r, new) ==
  /\ \A f \in Fields \ {"lock"} : db'[f] = new[f]
  /\ doc' = [doc EXCEPT ![r] = new]

LEMMA StoresStep ==
  ASSUME Typed, Memory, NEW r \in Requests, NEW new \in Document,
         pc[r] \in {"read", "cleared", "undelivered"}, Stores(r, new),
         NEW p \in {"cleared", "undelivered", "done"}, Goto(r, p),
         UNCHANGED kind
  PROVE  Memory'
<1> USE DEF Typed, TypeOK, Memory, Goto
<1>1. /\ r \in Running /\ pc'[r] = p
      /\ \A q \in Requests \ {r} : pc'[q] = pc[q]
  BY DEF Running
<1>2. \A q \in Running' : q = r
  BY <1>1 DEF OneRunning, Running
<1>3. OneRunning'
  BY <1>2 DEF OneRunning
<1>4. LockKnown'
  BY <1>1, <1>2 DEF LockKnown, Running
<1>5. \A q \in Running' : Agrees(q)'
  BY <1>2 DEF Stores, Agrees
<1> QED
  BY <1>3, <1>4, <1>5

\* In memory and in the database the same: save() stores what is in memory.
LEMMA SaveStores ==
  ASSUME Typed, Memory, NEW r \in Running, NEW new \in Document, Save(r, new)
  PROVE  /\ Stores(r, new)
         /\ db'.lock = IF new.lock # doc[r].lock THEN new.lock ELSE db.lock
<1>1. \A f \in Fields : db'[f] = IF new[f] # doc[r][f] THEN new[f] ELSE db[f]
  BY SavedFields DEF Save, Running, Typed, TypeOK
<1>2. \A f \in Fields \ {"lock"} : doc[r][f] = db[f]
  BY DEF Memory, Agrees
<1> QED
  BY <1>1, <1>2 DEF Stores, Save, Fields

\* Documents that are left alone count as stored.
LEMMA KeepStores ==
  ASSUME Typed, Memory, NEW r \in Running, UNCHANGED <<db, doc>>
  PROVE  Stores(r, doc[r]) /\ doc[r] \in Document
  BY DEF Stores, Memory, Agrees, Running, Typed, TypeOK

LEMMA SerialArrive ==
  ASSUME Typed, Serial, Memory, TokensKnow, SecretsAreFresh, FailuresCounted,
         NEW r \in Requests, Arrive(r)
  PROVE  (Memory /\ TokensKnow /\ SecretsAreFresh /\ FailuresCounted)'
<1> USE DEF Typed, TypeOK
<1>1. UNCHANGED <<db, accepted, tokens, failures>> /\ pc[r] \in {"idle", "authed"}
  BY DEF Arrive, FindByIdentifier, Authenticate, FindForReset, FindForAdmin,
    FindByResetToken, LoadAgain, Begin
<1>2. PICK p \in {"authed", "read", "done"} : pc' = [pc EXCEPT ![r] = p]
  BY DEF Arrive, FindByIdentifier, Authenticate, FindForReset, FindForAdmin,
    FindByResetToken, LoadAgain, Load, Goto, Refuse
<1>3. p # "done" => doc' = [doc EXCEPT ![r] = db]
  BY <1>2 DEF Arrive, FindByIdentifier, Authenticate, FindForReset,
    FindForAdmin, FindByResetToken, LoadAgain, Load, Goto, Refuse
<1>4. p = "read" /\ kind'[r] \in PasswordKinds => db.lock # "active"
  <2> SUFFICES ASSUME p = "read", kind'[r] \in PasswordKinds
               PROVE  db.lock # "active"
    OBVIOUS
  <2>1. ASSUME NEW k \in Kinds, Begin(r, k) PROVE kind'[r] = k
    BY <2>1 DEF Begin
  <2>2. ~FindByResetToken(r)
    BY <2>1 DEF FindByResetToken, Kinds, PasswordKinds
  <2>3. \A k \in SessionKinds : ~Authenticate(r, k)
    BY <2>1 DEF Authenticate, Kinds, PasswordKinds, SessionKinds
  <2>4. \A k \in ResetKinds : ~FindForReset(r, k)
    BY <2>1 DEF FindForReset, Kinds, PasswordKinds, ResetKinds
  <2>5. \A k \in AdminKinds : ~FindForAdmin(r, k)
    BY <2>1 DEF FindForAdmin, Kinds, PasswordKinds, AdminKinds
  <2>6. CASE LoadAgain(r)
    BY <2>6 DEF LoadAgain, Memory, LockKnown
  <2>7. ASSUME NEW k \in PasswordKinds, FindByIdentifier(r, k)
        PROVE  db.lock # "active"
    BY <1>2, <2>7 DEF FindByIdentifier, Locked, Goto
  <2> QED
    BY <2>2, <2>3, <2>4, <2>5, <2>6, <2>7 DEF Arrive
<1>5. p = "authed" => kind'[r] \notin PasswordKinds
  BY <1>2 DEF Arrive, FindByIdentifier, Authenticate, FindForReset,
    FindForAdmin, FindByResetToken, LoadAgain, Load, Goto, Refuse, Begin, Kinds,
    PasswordKinds, SessionKinds
<1>6. \A q \in Running' : q = r
  BY <1>1, <1>2 DEF Memory, OneRunning, Running, Arrive, FindByIdentifier,
    Authenticate, FindForReset, FindForAdmin, FindByResetToken, LoadAgain, Begin
<1>7. Memory'
  <2>1. r \in Running' => doc'[r] = db
    BY <1>2, <1>3 DEF Running
  <2>2. \A q \in Running' : Agrees(q)'
    BY <1>1, <1>6, <2>1 DEF Agrees
  <2>3. LockKnown'
    BY <1>1, <1>2, <1>3, <1>4, <1>5, <1>6 DEF LockKnown, Running
  <2> QED
    BY <1>6, <2>2, <2>3 DEF Memory, OneRunning
<1>8. SecretsAreFresh'
  BY <1>1, <1>2 DEF SecretsAreFresh
<1> QED
  BY <1>1, <1>7, <1>8 DEF TokensKnow, FailuresCounted

\* What ends sessions for good
VersionGrows == db'.version \in {db.version, db.version + 1}

\* The parts of the invariant that a stored document can disturb.
LEMMA LockoutKept ==
  ASSUME FailuresCounted, failures' = failures,
         db'.attempts = db.attempts, db'.lock = db.lock
  PROVE  FailuresCounted'
  BY DEF FailuresCounted

LEMMA TokensKept ==
  ASSUME Typed, TokensKnow, tokens' = tokens,
         \/ db'.version = db.version /\ db'.password = db.password
         \/ db'.version = db.version + 1
  PROVE  TokensKnow' /\ VersionGrows
<1>1. db.version \in Nat /\ \A t \in tokens : t.version \in Nat
  BY DocumentFields DEF Typed, TypeOK
<1> QED
  BY <1>1 DEF TokensKnow, VersionGrows

\* No secret is accepted and none is made.
LEMMA SecretsKept ==
  ASSUME Typed, SecretsAreFresh, NEW r \in Requests,
         NEW p \in {"cleared", "undelivered", "done"}, Goto(r, p),
         pc[r] \in {"read", "cleared", "undelivered"},
         p = "undelivered" => pc[r] # "done", UNCHANGED accepted,
         db'.code \in {db.code, First}, db'.reset \in {db.reset, First},
         p = "cleared" => pc[r] # "undelivered"
  PROVE  SecretsAreFresh'
<1>1. First \notin Requests
  OBVIOUS
<1>2. \A s \in Requests : pc'[s] = IF s = r THEN p ELSE pc[s]
  BY DEF Goto, Typed, TypeOK
<1> QED
  BY <1>1, <1>2 DEF SecretsAreFresh

LEMMA SerialAct ==
  ASSUME Typed, Serial, Memory, TokensKnow, SecretsAreFresh, FailuresCounted,
         NEW r \in Requests, Act(r)
  PROVE  /\ (Memory /\ TokensKnow /\ SecretsAreFresh /\ FailuresCounted)'
         /\ VersionGrows
<1> DEFINE Goal ==
      /\ (Memory /\ TokensKnow /\ SecretsAreFresh /\ FailuresCounted)'
      /\ VersionGrows
<1>0. /\ pc[r] \in {"read", "cleared", "undelivered"} /\ r \in Running
      /\ doc[r] \in Document /\ db \in Document
      /\ \A f \in Fields \ {"lock"} : doc[r][f] = db[f]
  BY DEF Act, WrongPassword, RightPassword, SendCode, TakeBackCode, CheckCode,
    ResetPassword, Logout, ChangePassword, CloseAccount, SetDisabled, Running,
    Typed, TypeOK, Memory, Agrees
<1>1. /\ db.version \in Nat /\ db.attempts \in Nat
      /\ db.code \in Secrets /\ db.reset \in Secrets
  BY <1>0, DocumentFields
<1>2. CASE WrongPassword(r)
  <2>1. /\ FailedLogin(doc[r]) \in Document /\ Goto(r, "done")
        /\ Save(r, FailedLogin(doc[r])) /\ failures' = failures + 1
        /\ doc[r].lock = db.lock /\ db.lock # "active"
        /\ UNCHANGED <<kind, tokens, accepted>>
    BY <1>0, <1>2, FailedLoginType
    DEF WrongPassword, Refuse, Memory, LockKnown
  <2>2. Stores(r, FailedLogin(doc[r])) /\ Memory'
    BY <1>0, <2>1, SaveStores, StoresStep
  <2>3. /\ db'.attempts = db.attempts + 1
        /\ db'.version = db.version /\ db'.password = db.password
        /\ db'.code = db.code /\ db'.reset = db.reset
    BY <1>0, <2>2, FailedLoginType DEF Stores, Fields
  <2>4. db.attempts + 1 >= Limit => db'.lock = "active"
    BY <1>0, <2>1, SaveStores, FailedLoginType DEF Fields
  <2>5. FailuresCounted'
    BY <1>1, <2>1, <2>3, <2>4 DEF FailuresCounted, Typed, TypeOK
  <2> QED
    BY <1>0, <2>1, <2>2, <2>3, <2>5, TokensKept, SecretsKept
<1>3. CASE RightPassword(r)
  <2>1. PICK p \in {"done", "cleared"} : Goto(r, p)
    BY <1>3 DEF RightPassword, Respond
  <2>2. /\ ClearedLogin(doc[r]) \in Document /\ failures' = 0
        /\ Save(r, ClearedLogin(doc[r])) /\ pc[r] = "read"
        /\ UNCHANGED <<kind, tokens, accepted>>
    BY <1>0, <1>3, ClearedLoginType DEF RightPassword
  <2>3. Stores(r, ClearedLogin(doc[r])) /\ Memory'
    BY <1>0, <2>1, <2>2, SaveStores, StoresStep
  <2>4. /\ db'.attempts = 0
        /\ db'.version = db.version /\ db'.password = db.password
        /\ db'.code = db.code /\ db'.reset = db.reset
    BY <1>0, <2>3, ClearedLoginType DEF Stores, Fields
  <2>5. FailuresCounted'
    BY <2>2, <2>4 DEF FailuresCounted
  <2> QED
    BY <1>0, <2>1, <2>2, <2>3, <2>4, <2>5, TokensKept, SecretsKept
<1>4. CASE SendCode(r)
  <2> DEFINE new == [doc[r] EXCEPT !.code = r]
  <2>1. /\ new \in Document /\ new.code = r
        /\ \A f \in Fields \ {"code"} : new[f] = doc[r][f]
    BY <1>0, CodeType DEF Secrets
  <2>2. PICK p \in {"done", "undelivered"} : Goto(r, p)
    BY <1>4 DEF SendCode, Respond
  <2>3. /\ Save(r, new) /\ UNCHANGED <<kind, accepted, failures>>
        /\ pc[r] \in {"read", "cleared"}
    BY <1>4 DEF SendCode
  <2>4. tokens' \subseteq tokens \cup {[version |-> doc[r].version,
                                        password |-> doc[r].password]}
    BY <1>4 DEF SendCode
  <2> HIDE DEF new
  <2>5. Stores(r, new) /\ Memory' /\ db'.lock = db.lock
    BY <1>0, <2>1, <2>2, <2>3, SaveStores, StoresStep DEF Fields
  <2>6. /\ db'.code = r /\ db'.reset = db.reset
        /\ db'.version = db.version /\ db'.password = db.password
        /\ db'.attempts = db.attempts
        /\ doc[r].version = db.version /\ doc[r].password = db.password
    BY <1>0, <2>1, <2>5 DEF Stores, Fields
  <2>7. TokensKnow'
    BY <1>1, <2>4, <2>6 DEF TokensKnow
  <2>8. SecretsAreFresh'
    <3>1. pc' = [pc EXCEPT ![r] = p]
      BY <2>2 DEF Goto
    <3> QED
      BY <2>3, <2>6, <3>1 DEF SecretsAreFresh, Typed, TypeOK
  <2> QED
    BY <2>3, <2>5, <2>6, <2>7, <2>8, LockoutKept DEF VersionGrows
<1>5. CASE TakeBackCode(r)
  <2>1. /\ NoCode(doc[r]) \in Document /\ Save(r, NoCode(doc[r]))
        /\ Goto(r, "done")
        /\ UNCHANGED <<kind, tokens, accepted, failures>>
    BY <1>0, <1>5, NoCodeType DEF TakeBackCode, Refuse
  <2>2. Stores(r, NoCode(doc[r])) /\ Memory' /\ db'.lock = db.lock
    BY <1>0, <2>1, NoCodeType, SaveStores, StoresStep DEF Fields
  <2>3. /\ db'.code = First /\ db'.reset = db.reset
        /\ db'.version = db.version /\ db'.password = db.password
        /\ db'.attempts = db.attempts
    BY <1>0, <2>2, NoCodeType DEF Stores, Fields
  <2> QED
    BY <1>0, <2>1, <2>2, <2>3, TokensKept, SecretsKept, LockoutKept
<1>6. CASE CheckCode(r)
  <2>1. /\ Goto(r, "done") /\ pc[r] = "read"
        /\ UNCHANGED <<kind, tokens, failures>>
    BY <1>6 DEF CheckCode, Respond, Refuse
  <2>2. CASE UNCHANGED <<db, doc, accepted>>
    BY <1>0, <2>1, <2>2, KeepStores, StoresStep, TokensKept, SecretsKept,
       LockoutKept
  <2>3. CASE Save(r, NoCode(doc[r])) /\ UNCHANGED accepted
    <3>1. Stores(r, NoCode(doc[r])) /\ Memory' /\ db'.lock = db.lock
      BY <1>0, <2>1, <2>3, NoCodeType, SaveStores, StoresStep DEF Fields
    <3>2. /\ db'.code = First /\ db'.reset = db.reset
          /\ db'.version = db.version /\ db'.password = db.password
          /\ db'.attempts = db.attempts
      BY <1>0, <3>1, NoCodeType DEF Stores, Fields
    <3> QED
      BY <1>0, <2>1, <2>3, <3>1, <3>2, TokensKept, SecretsKept, LockoutKept
  <2>4. CASE /\ doc[r].code \in answered \ late
             /\ Save(r, AfterCode(r)) /\ Accept(doc[r].code)
    <3>1. Stores(r, AfterCode(r)) /\ Memory' /\ db'.lock = db.lock
      BY <1>0, <2>1, <2>4, AfterCodeType, SaveStores, StoresStep DEF Fields
    <3>2. /\ db'.code = First /\ db'.reset \in {db.reset, r}
          /\ db'.version = db.version /\ db'.password = db.password
          /\ db'.attempts = db.attempts
      BY <1>0, <3>1, AfterCodeType DEF Stores, Fields
    <3>3. /\ doc[r].code = db.code /\ db.code \in Requests
          /\ accepted' = [accepted EXCEPT ![db.code] = @ + 1]
          /\ pc[db.code] = "done"
      BY <1>0, <2>4 DEF Accept, Typed, TypeOK, AnsweredIsDone, Fields
    <3>4. SecretsAreFresh'
      <4>1. pc' = [pc EXCEPT ![r] = "done"]
        BY <2>1 DEF Goto
      <4>2. db.code # First /\ db.code # r
        BY <2>1, <3>3
      <4>3. \A s \in Requests \ {db.code} : accepted'[s] = accepted[s]
        BY <3>3 DEF Typed, TypeOK
      <4>4. accepted[db.code] = 0 /\ accepted'[db.code] = 1
        BY <3>3 DEF SecretsAreFresh, Typed, TypeOK
      <4> QED
        BY <2>1, <3>2, <3>3, <4>1, <4>2, <4>3, <4>4
        DEF SecretsAreFresh, Typed, TypeOK
    <3> QED
      BY <2>1, <3>1, <3>2, <3>4, TokensKept, LockoutKept
  <2> QED
    BY <1>6, <2>2, <2>3, <2>4 DEF CheckCode
<1>7. CASE ResetPassword(r)
  <2>1. /\ Goto(r, "done") /\ pc[r] = "read"
        /\ UNCHANGED <<kind, tokens>>
    BY <1>7 DEF ResetPassword, Respond, Refuse
  <2>2. CASE UNCHANGED <<db, doc, accepted, failures>>
    BY <1>0, <2>1, <2>2, KeepStores, StoresStep, TokensKept, SecretsKept,
       LockoutKept
  <2>3. CASE Save(r, [doc[r] EXCEPT !.reset = First])
             /\ UNCHANGED <<accepted, failures>>
    <3> DEFINE new == [doc[r] EXCEPT !.reset = First]
    <3>1. /\ new \in Document /\ new.reset = First /\ Save(r, new)
          /\ \A f \in Fields \ {"reset"} : new[f] = doc[r][f]
      BY <1>0, <2>3, ResetFieldType DEF Secrets
    <3> HIDE DEF new
    <3>2. Stores(r, new) /\ Memory' /\ db'.lock = db.lock
      BY <1>0, <2>1, <3>1, SaveStores, StoresStep DEF Fields
    <3>3. /\ db'.code = db.code /\ db'.reset = First
          /\ db'.version = db.version /\ db'.password = db.password
          /\ db'.attempts = db.attempts
      BY <1>0, <3>1, <3>2 DEF Stores, Fields
    <3> QED
      BY <1>0, <2>1, <2>3, <3>2, <3>3, TokensKept, SecretsKept, LockoutKept
  <2>4. CASE /\ db' = [Saved(r, Reset(r)) EXCEPT !.attempts = 0,
                                                 !.lock = "none"]
             /\ doc' = [doc EXCEPT ![r] = Reset(r)]
             /\ Accept(doc[r].reset) /\ failures' = 0
    <3>1. /\ Saved(r, Reset(r)) \in Document /\ Reset(r) \in Document
          /\ \A f \in Fields \ {"lock"} : Saved(r, Reset(r))[f] = Reset(r)[f]
      BY <1>0, ResetType, SavedFields DEF Fields
    <3> DEFINE stored == Saved(r, Reset(r))
    <3>a. DOMAIN stored = Fields /\ Reset(r).attempts = 0
      BY <1>0, <3>1, ResetType, DocumentFields
    <3> HIDE DEF stored
    <3>b. /\ db'.attempts = 0
          /\ \A f \in Fields \ {"lock", "attempts"} : db'[f] = stored[f]
      BY <2>4, <3>a DEF stored, Fields
    <3>2. \A f \in Fields \ {"lock"} : db'[f] = Reset(r)[f]
      BY <3>1, <3>a, <3>b DEF stored
    <3> USE DEF stored
    <3>3. Stores(r, Reset(r)) /\ Memory'
      BY <1>0, <2>1, <2>4, <3>1, <3>2, StoresStep DEF Stores
    <3>4. /\ db'.code = First /\ db'.reset = First
          /\ db'.version = db.version + 1 /\ db'.attempts = 0
      BY <1>0, <3>2, ResetType DEF Fields
    <3>5. doc[r].reset = db.reset
      BY <1>0 DEF Fields
    <3>6. SecretsAreFresh'
      <4>1. pc' = [pc EXCEPT ![r] = "done"]
        BY <2>1 DEF Goto
      <4>2. \A s \in Requests : accepted'[s] =
              IF s = db.reset THEN accepted[s] + 1 ELSE accepted[s]
        BY <2>4, <3>5 DEF Accept, Typed, TypeOK
      <4>3. \A s \in Requests : s = db.reset
                                   => accepted[s] = 0 /\ pc[s] = "done"
        BY DEF SecretsAreFresh, Typed, TypeOK
      <4> QED
        BY <3>4, <4>1, <4>2, <4>3 DEF SecretsAreFresh, Typed, TypeOK
    <3>7. FailuresCounted'
      BY <2>4, <3>4 DEF FailuresCounted
    <3> QED
      BY <2>1, <3>3, <3>4, <3>6, <3>7, TokensKept
  <2> QED
    BY <1>7, <2>2, <2>3, <2>4 DEF ResetPassword, Reset
<1>8. ASSUME Goto(r, "done"), pc[r] = "read",
             UNCHANGED <<kind, tokens, accepted, failures>>,
             NEW new \in Document, Save(r, new),
             \A f \in {"attempts", "lock", "code", "reset"} :
               new[f] = doc[r][f],
             \/ new.version = doc[r].version /\ new.password = doc[r].password
             \/ new.version = doc[r].version + 1
      PROVE  Goal
  <2>1. Stores(r, new) /\ Memory' /\ db'.lock = db.lock
    BY <1>0, <1>8, SaveStores, StoresStep
  <2>2. /\ db'.code = db.code /\ db'.reset = db.reset
        /\ db'.attempts = db.attempts
    BY <1>0, <1>8, <2>1 DEF Stores, Fields
  <2>3. \/ db'.version = db.version /\ db'.password = db.password
        \/ db'.version = db.version + 1
    BY <1>0, <1>8, <2>1 DEF Stores, Fields
  <2> QED
    BY <1>0, <1>8, <2>1, <2>2, <2>3, TokensKept, SecretsKept, LockoutKept
<1>9. CASE Logout(r) \/ ChangePassword(r) \/ CloseAccount(r) \/ SetDisabled(r)
  <2>1. /\ Goto(r, "done") /\ pc[r] = "read"
        /\ UNCHANGED <<kind, tokens, accepted, failures>>
    BY <1>9 DEF Logout, ChangePassword, CloseAccount, SetDisabled, Respond
  <2>2. DOMAIN doc[r] = Fields
    BY <1>0, DocumentFields
  <2>3. PICK new \in {[doc[r] EXCEPT !.version = NextVersion(doc[r])],
                      [doc[r] EXCEPT !.password = r,
                                     !.version = NextVersion(doc[r])],
                      [doc[r] EXCEPT !.disabled = TRUE,
                                     !.version = NextVersion(doc[r])],
                      [doc[r] EXCEPT !.disabled = FALSE], doc[r]} :
          Save(r, new)
    BY <1>9 DEF Logout, ChangePassword, CloseAccount, SetDisabled
  <2>4. new \in Document
    BY <1>0, <2>3, EndedType
  <2>5. \A f \in {"attempts", "lock", "code", "reset"} : new[f] = doc[r][f]
    BY <2>2, <2>3 DEF Fields
  <2>6. \/ new.version = doc[r].version /\ new.password = doc[r].password
        \/ new.version = doc[r].version + 1
    BY <2>2, <2>3 DEF Fields, NextVersion
  <2> QED
    BY <1>8, <2>1, <2>3, <2>4, <2>5, <2>6
<1> QED
  BY <1>2, <1>3, <1>4, <1>5, <1>6, <1>7, <1>9 DEF Act

LEMMA SerialClock ==
  ASSUME Typed, Memory, TokensKnow, SecretsAreFresh, FailuresCounted,
         LockPasses \/ SecretExpires
  PROVE  (Memory /\ TokensKnow /\ SecretsAreFresh /\ FailuresCounted)'
<1>1. CASE SecretExpires
  BY <1>1 DEF SecretExpires, Memory, OneRunning, LockKnown, Agrees, Running,
    TokensKnow, SecretsAreFresh, FailuresCounted
<1>2. CASE LockPasses
  <2>1. /\ db.lock = "active" /\ failures' = 0
        /\ \A f \in Fields \ {"lock"} : db'[f] = db[f]
        /\ UNCHANGED <<pc, kind, doc, tokens, accepted>>
    BY <1>2, DocumentFields DEF LockPasses, Locked, Fields, Typed, TypeOK
  <2>2. /\ db'.version = db.version /\ db'.password = db.password
        /\ db'.code = db.code /\ db'.reset = db.reset
        /\ db'.attempts = db.attempts /\ db.attempts \in Nat
    BY <2>1, DocumentFields DEF Fields, Typed, TypeOK
  <2>3. Memory'
    BY <2>1 DEF Memory, OneRunning, LockKnown, Agrees, Running
  <2>4. TokensKnow' /\ SecretsAreFresh' /\ FailuresCounted'
    BY <2>1, <2>2 DEF TokensKnow, SecretsAreFresh, FailuresCounted
  <2> QED
    BY <2>3, <2>4
<1> QED
  BY <1>1, <1>2

LEMMA SerialNext == Typed /\ SerialInv /\ [Next]_vars => SerialInv'
<1> SUFFICES ASSUME Typed, SerialInv, [Next]_vars, Serial'
             PROVE  (Memory /\ TokensKnow /\ SecretsAreFresh
                       /\ FailuresCounted)'
  BY DEF SerialInv
<1>1. Serial /\ Memory /\ TokensKnow /\ SecretsAreFresh /\ FailuresCounted
  BY ScenarioStays DEF SerialInv, Serial
<1>2. CASE UNCHANGED vars
  BY <1>1, <1>2 DEF vars, Memory, OneRunning, LockKnown, Agrees, Running,
    TokensKnow, SecretsAreFresh, FailuresCounted
<1> QED
  BY <1>1, <1>2, SerialArrive, SerialAct, SerialClock DEF Next

LEMMA SerialAlways == Spec => [](Typed /\ SerialInv)
  BY TypedInit, TypedNext, SerialInit, SerialNext, PTL DEF Spec

(* When requests do not overlap, every session the server accepts was opened  *)
(* with the password of now (incrementSessionVersion and protect).            *)
THEOREM SerialSessionsKnowThePasswordHolds ==
  Spec => []SerialSessionsKnowThePassword
<1>1. SerialInv => SerialSessionsKnowThePassword
  BY DEF SerialInv, TokensKnow, SerialSessionsKnowThePassword
<1> QED
  BY <1>1, SerialAlways, PTL

(* When requests do not overlap, the session version only grows, so no token  *)
(* that has lost its session comes back (incrementSessionVersion, protect).   *)
THEOREM SerialEndedSessionsStayEndedHolds ==
  Spec => SerialEndedSessionsStayEnded
<1> DEFINE A == Serial => \A t \in tokens :
                  t.version # db.version => t.version # db'.version
<1>1. ASSUME Typed, SerialInv, Next, Serial,
             NEW t \in tokens, t.version # db.version
      PROVE  t.version # db'.version
  <2>1. Memory /\ TokensKnow /\ SecretsAreFresh /\ FailuresCounted
    BY <1>1 DEF SerialInv
  <2>2. VersionGrows
    <3>1. CASE \E r \in Requests : Arrive(r)
      BY <3>1 DEF VersionGrows, Arrive, FindByIdentifier, Authenticate,
        FindForReset, FindForAdmin, FindByResetToken, LoadAgain
    <3>2. CASE \E r \in Requests : Act(r)
      BY <1>1, <2>1, <3>2, SerialAct
    <3>3. CASE LockPasses \/ SecretExpires
      BY <1>1, <3>3, DocumentFields
      DEF VersionGrows, LockPasses, SecretExpires, Typed, TypeOK, Fields
    <3> QED
      BY <1>1, <3>1, <3>2, <3>3 DEF Next
  <2>3. t.version < db.version /\ t.version \in Nat /\ db.version \in Nat
    BY <1>1, <2>1, DocumentFields DEF TokensKnow, Typed, TypeOK
  <2> QED
    BY <2>2, <2>3 DEF VersionGrows
<1>2. Typed /\ SerialInv /\ [Next]_vars => [A]_vars
  BY <1>1
<1> QED
  BY <1>2, SerialAlways, PTL DEF Spec, SerialEndedSessionsStayEnded

(* When requests do not overlap, a code and a reset token are accepted once.  *)
THEOREM SerialSecretsAreUsedOnceHolds == Spec => []SerialSecretsAreUsedOnce
<1>1. SerialInv => SerialSecretsAreUsedOnce
  BY DEF SerialInv, SecretsAreFresh, SerialSecretsAreUsedOnce
<1> QED
  BY <1>1, SerialAlways, PTL

(* When requests do not overlap, Limit wrong passwords in a row lock the      *)
(* account, for every limit and whatever is called between them.              *)
THEOREM SerialLockoutHolds == Spec => []SerialLockout
<1>1. Typed /\ SerialInv => SerialLockout
  <2> SUFFICES ASSUME Typed, SerialInv, Serial, failures >= Limit
               PROVE  db.lock = "active"
    BY DEF SerialLockout, Locked
  <2>1. failures \in Nat /\ db.attempts \in Nat
    BY DocumentFields DEF Typed, TypeOK
  <2> QED
    BY <2>1 DEF SerialInv, FailuresCounted
<1> QED
  BY <1>1, SerialAlways, PTL

=============================================================================
