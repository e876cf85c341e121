------------------------------ MODULE Accounts ------------------------------
(***************************************************************************)
(* Developers sign up by creating an organization, log in to it and reset  *)
(* their password.  Every request is a sequence of single queries without a *)
(* transaction, several are served at once, and any query may fail.  A user *)
(* may exist before: signing in on a platform creates one without password. *)
(* A request names what it brings: the uuid of a user or an organization,  *)
(* a password and a reset token.                                           *)
(***************************************************************************)
EXTENDS Naturals

CONSTANTS
  Requests, Emails,
  MaxFailures,  \* bound: how often a query of a sign-up may fail
  None

ASSUME MaxFailuresAssumption == MaxFailures \in Nat
ASSUME NoneAssumption        == None \notin Requests /\ Requests \cap Emails = {}

VARIABLES
  users,     \* the rows of users, by email
  orgs,      \* the owners of organizations, by uuid
  at,        \* where each request is
  email,     \* the email it is for
  found,     \* the uuid of the user that it found or inserted
  shown,     \* the reset token it presents
  stale,     \* history: that token was replaced or out of date when it came
  beside,    \* history: the sign-ups that were served while it was
  failures

requestVars == <<at, email, found, shown, stale, beside>>
vars == <<users, orgs, requestVars, failures>>

-----------------------------------------------------------------------------
SigningUp == {"new", "known", "password", "org", "insert"}
SignedUp  == {"created", "existing", "conflict"}
Others    == {"reset", "change", "change org", "login"}
Settled   == SignedUp \cup {"sent", "changed", "logged in", "failed"}

\* A user whose row a sign-in on a platform inserted has the email for a uuid here.
Uuids == Requests \cup Emails

\* Sign-ups for an email that are being served.
Serving(e) == {t \in Requests : at[t] \in SigningUp /\ email[t] = e}

\* Mutant: the query compares the uuid of the organization.
OrgsOfUuid(u) == {o \in DOMAIN orgs : o = u}

OrgsOf(u) == {o \in DOMAIN orgs : orgs[o] = u}

Init ==
  /\ users = << >>
  /\ orgs = << >>
  /\ at = [r \in Requests |-> "idle"]
  /\ email = [r \in Requests |-> None]
  /\ found = [r \in Requests |-> None]
  /\ shown = [r \in Requests |-> None]
  /\ stale = [r \in Requests |-> FALSE]
  /\ beside = [r \in Requests |-> {}]
  /\ failures = 0

MoveTo(r, label) == at' = [at EXCEPT ![r] = label]

InsertUser(e, row) == users' = [x \in DOMAIN users \cup {e} |-> IF x = e THEN row ELSE users[x]]

\* The queries that select a user's row by uuid; there is none for a uuid that was
\* not inserted.
UpdateUserPassword(r) ==
  users' = [x \in DOMAIN users |->
              IF users[x].uuid = found[r] THEN [users[x] EXCEPT !.password = r] ELSE users[x]]

\* Mutant: the token is the user's uuid.
SaveUserResetTokenSwapped(r) ==
  users' = [x \in DOMAIN users |->
              IF users[x].uuid = found[r] THEN [users[x] EXCEPT !.token = found[r], !.valid = TRUE]
              ELSE users[x]]

SaveUserResetToken(r) ==
  users' = [x \in DOMAIN users |->
              IF users[x].uuid = found[r] THEN [users[x] EXCEPT !.token = r, !.valid = TRUE]
              ELSE users[x]]

-----------------------------------------------------------------------------
(* CreateOrg.                                                               *)

\* The request, or a retry of one that failed: FindUserByEmail.
FindUserByEmail(r) ==
  \E e \in Emails :
    /\ at[r] = "idle" \/ (at[r] = "retry" /\ email[r] = e)
    /\ email' = [email EXCEPT ![r] = e]
    /\ IF e \in DOMAIN users
       THEN MoveTo(r, "known") /\ found' = [found EXCEPT ![r] = users[e].uuid]
       ELSE MoveTo(r, "new") /\ found' = [found EXCEPT ![r] = None]
    /\ beside' = [t \in Requests |-> beside[t] \cup (IF t = r THEN Serving(e)
                                                     ELSE IF t \in Serving(e) THEN {r} ELSE {})]
    /\ UNCHANGED <<users, orgs, shown, stale, failures>>

\* CreateNewOrgUser; on a conflict nothing is inserted and the new uuid is nobody's,
\* which goes unnoticed.
CreateNewOrgUser(r) ==
  /\ at[r] = "new"
  /\ \/ /\ email[r] \notin DOMAIN users
        /\ InsertUser(email[r], [uuid |-> r, password |-> r, token |-> None, valid |-> FALSE])
     \/ email[r] \in DOMAIN users /\ UNCHANGED users
  /\ found' = [found EXCEPT ![r] = r]
  /\ MoveTo(r, "org")
  /\ UNCHANGED <<orgs, email, shown, stale, beside, failures>>

\* Mutant: that a user has no organization counts as an error of the query.
FetchOrgStrict(r) ==
  /\ at[r] = "known"
  /\ MoveTo(r, IF OrgsOf(found[r]) = {} THEN "retry" ELSE "conflict")
  /\ UNCHANGED <<users, orgs, email, found, shown, stale, beside, failures>>

\* Mutant: the organization is created for a user who exists as for a new one.
FetchOrgOnly(r) ==
  /\ at[r] = "known"
  /\ MoveTo(r, IF OrgsOf(found[r]) = {} THEN "org" ELSE "conflict")
  /\ UNCHANGED <<users, orgs, email, found, shown, stale, beside, failures>>

\* A user who exists may have an organization.
FetchOrg(r) ==
  /\ at[r] = "known"
  /\ MoveTo(r, IF OrgsOf(found[r]) = {} THEN "password" ELSE "conflict")
  /\ UNCHANGED <<users, orgs, email, found, shown, stale, beside, failures>>

SetPassword(r) ==
  /\ at[r] = "password"
  /\ UpdateUserPassword(r)
  /\ MoveTo(r, "org")
  /\ UNCHANGED <<orgs, email, found, shown, stale, beside, failures>>

\* An organization that turned up meanwhile is the answer.
FetchOrgAgain(r) ==
  /\ at[r] = "org"
  /\ MoveTo(r, IF OrgsOf(found[r]) = {} THEN "insert" ELSE "existing")
  /\ UNCHANGED <<users, orgs, email, found, shown, stale, beside, failures>>

\* Mutant: the owner is not a foreign key.
CreateOrgUnchecked(r) ==
  /\ at[r] = "insert"
  /\ orgs' = [o \in DOMAIN orgs \cup {r} |-> IF o = r THEN found[r] ELSE orgs[o]]
  /\ MoveTo(r, "created")
  /\ UNCHANGED <<users, email, found, shown, stale, beside, failures>>

\* CreateNewOrg is refused for an owner who is nobody.  The login token is signed
\* next, so that the request can fail with the organization created; the welcome
\* email cannot make it fail.
CreateOrg(r) ==
  /\ at[r] = "insert"
  /\ IF \E e \in DOMAIN users : users[e].uuid = found[r]
     THEN /\ orgs' = [o \in DOMAIN orgs \cup {r} |-> IF o = r THEN found[r] ELSE orgs[o]]
          /\ \/ MoveTo(r, "created") /\ UNCHANGED failures
             \/ failures < MaxFailures /\ failures' = failures + 1 /\ MoveTo(r, "retry")
     ELSE MoveTo(r, "retry") /\ UNCHANGED <<orgs, failures>>
  /\ UNCHANGED <<users, email, found, shown, stale, beside>>

\* A query fails; the client tries again.
FailSignUp(r) ==
  /\ at[r] \in SigningUp /\ failures < MaxFailures
  /\ failures' = failures + 1
  /\ MoveTo(r, "retry")
  /\ UNCHANGED <<users, orgs, email, found, shown, stale, beside>>

-----------------------------------------------------------------------------
(* Logging in and resetting a password.                                     *)

\* LoginUserToOrg: the password is compared; a user without one is an error.
LoginUserToOrg(r) ==
  /\ at[r] = "idle"
  /\ \E e \in DOMAIN users :
       /\ email' = [email EXCEPT ![r] = e]
       /\ users[e].password # None
       /\ found' = [found EXCEPT ![r] = users[e].uuid]
  /\ MoveTo(r, "login")
  /\ UNCHANGED <<users, orgs, shown, stale, beside, failures>>

\* FetchOrg, for LoginUserToOrg and ChangePassword: a user without an organization
\* gets an error, after the password was changed.
AnswerOrg(r) ==
  /\ at[r] \in {"login", "change org"}
  /\ MoveTo(r, IF OrgsOf(found[r]) = {} THEN "failed"
               ELSE IF at[r] = "login" THEN "logged in" ELSE "changed")
  /\ UNCHANGED <<users, orgs, email, found, shown, stale, beside, failures>>

\* ResetPassword (POST) finds the user.
ResetPassword(r) ==
  /\ at[r] = "idle"
  /\ \E e \in DOMAIN users : /\ email' = [email EXCEPT ![r] = e]
                             /\ found' = [found EXCEPT ![r] = users[e].uuid]
  /\ MoveTo(r, "reset")
  /\ UNCHANGED <<users, orgs, shown, stale, beside, failures>>

\* The token is saved, then the task of the email is enqueued, which may fail.
SendToken(r) ==
  /\ at[r] = "reset"
  /\ SaveUserResetToken(r)
  /\ MoveTo(r, "sent") \/ MoveTo(r, "failed")
  /\ UNCHANGED <<orgs, email, found, shown, stale, beside, failures>>

\* A token's 15 minutes are over.
Expire(e) ==
  /\ users[e].valid
  /\ users' = [users EXCEPT ![e].valid = FALSE]
  /\ UNCHANGED <<orgs, requestVars, failures>>

\* Mutant: the time of expiry is not compared.
FindUserByResetTokenExpired(t) ==
  {e \in DOMAIN users : users[e].token = t /\ users[e].password # None}

\* The query selects every column, and fails to scan a password that is NULL.
FindUserByResetToken(t) ==
  {e \in DOMAIN users : users[e].token = t /\ users[e].valid /\ users[e].password # None}

\* ChangePassword: any token that was mailed may be presented.  It is not cleared.
ChangePassword(r) ==
  /\ at[r] = "idle"
  /\ \E t \in {s \in Requests : at[s] = "sent"} :
       /\ shown' = [shown EXCEPT ![r] = t]
       /\ \E e \in FindUserByResetToken(t) :
            /\ email' = [email EXCEPT ![r] = e]
            /\ found' = [found EXCEPT ![r] = users[e].uuid]
       /\ stale' = [stale EXCEPT ![r] = \A e \in DOMAIN users :
                                           users[e].token = t => ~users[e].valid]
  /\ MoveTo(r, "change")
  /\ UNCHANGED <<users, orgs, beside, failures>>

ChangeUserPassword(r) ==
  /\ at[r] = "change"
  /\ UpdateUserPassword(r)
  /\ MoveTo(r, "change org")
  /\ UNCHANGED <<orgs, email, found, shown, stale, beside, failures>>

\* Any of their queries may fail; what was written stays.
Fail(r) ==
  /\ at[r] \in Others
  /\ MoveTo(r, "failed")
  /\ UNCHANGED <<users, orgs, email, found, shown, stale, beside, failures>>

-----------------------------------------------------------------------------
\* A sign-in on a platform inserts the user if there is none.
CreateUser(e) ==
  /\ e \notin DOMAIN users
  /\ InsertUser(e, [uuid |-> e, password |-> None, token |-> None, valid |-> FALSE])
  /\ UNCHANGED <<orgs, requestVars, failures>>

\* Its owner deletes an organization.
DeleteOrg(o) ==
  /\ orgs' = [x \in DOMAIN orgs \ {o} |-> orgs[x]]
  /\ UNCHANGED <<users, requestVars, failures>>

SignUp(r) == \/ CreateNewOrgUser(r) \/ FetchOrg(r) \/ SetPassword(r)
             \/ FetchOrgAgain(r) \/ CreateOrg(r)

Next == \/ \E r \in Requests : \/ FindUserByEmail(r) \/ SignUp(r) \/ FailSignUp(r)
                               \/ LoginUserToOrg(r) \/ AnswerOrg(r)
                               \/ ResetPassword(r) \/ SendToken(r)
                               \/ ChangePassword(r) \/ ChangeUserPassword(r) \/ Fail(r)
        \/ \E e \in Emails : CreateUser(e)
        \/ \E e \in DOMAIN users : Expire(e)
        \/ \E o \in DOMAIN orgs : DeleteOrg(o)

Spec == Init /\ [][Next]_vars

\* A handler goes on until it answers, and a client whose sign-up failed tries again.
Fairness == \A r \in Requests :
              WF_vars(SignUp(r) \/ (at[r] = "retry" /\ FindUserByEmail(r)))

FairSpec == Spec /\ Fairness

-----------------------------------------------------------------------------
(* Properties.                                                              *)

\* The type of the state.
TypeOK ==
  /\ DOMAIN users \subseteq Emails
  /\ users \in [DOMAIN users -> [uuid : Uuids, password : Requests \cup {None},
                                 token : Requests \cup {None}, valid : BOOLEAN]]
  /\ DOMAIN orgs \subseteq Requests
  /\ orgs \in [DOMAIN orgs -> Uuids]
  /\ at \in [Requests -> {"idle", "retry"} \cup SigningUp \cup Others \cup Settled]
  /\ email \in [Requests -> Emails \cup {None}]
  /\ found \in [Requests -> Uuids \cup {None}]
  /\ shown \in [Requests -> Requests \cup {None}]
  /\ stale \in [Requests -> BOOLEAN]
  /\ beside \in [Requests -> SUBSET Requests]
  /\ failures \in 0 .. MaxFailures

\* An organization belongs to the user of the email that it was created for, and to
\* nobody else, although the uuid of its owner may come from an insert that did
\* nothing.
OrgsOfTheirUsers ==
  \A o \in DOMAIN orgs :
    email[o] \in DOMAIN users /\ users[email[o]].uuid = orgs[o]

\* A user has two organizations only if the sign-ups that created them were served
\* at the same time.
TwoOrgsOnlyByOverlap ==
  \A i, j \in DOMAIN orgs :
    i # j /\ orgs[i] = orgs[j] => i \in beside[j] \/ j \in beside[i]

\* Whoever is answered with a new organization can log in to it with the password of
\* that request, also a user who had none or another, if no other sign-up for the
\* email was served beside it; only a password reset may come between.
CreatedCanLogIn ==
  [][\A r \in Requests :
       at[r] = "insert" /\ at'[r] = "created" /\ beside[r] = {} =>
         LET password == users'[email[r]].password
         IN  password # None /\ (password = r \/ shown[password] # None)]_vars

\* A password is changed by a reset only with a token that had been saved for the
\* same user and was, when the request came, the last one saved and not expired.
ResetsUseLastToken ==
  \A c \in Requests : at[c] \in {"change org", "changed"} =>
    ~stale[c] /\ email[c] = email[shown[c]]

\* A sign-up that is tried again after failures is answered in the end: what a failed
\* attempt left behind does not stand in its way.
SignUpsSettle ==
  \A r \in Requests : at[r] \in SigningUp \cup {"retry"} ~> at[r] \in SignedUp

-----------------------------------------------------------------------------
(* The inductive invariant.                                                 *)

\* A request has come, for an email; it is for no other from then on.
Began(r, e) == at[r] # "idle" /\ email[r] = e

\* The uuid that a request has found or inserted is that of its email's user.
Own(r) == email[r] \in DOMAIN users /\ users[email[r]].uuid = found[r]

\* A uuid and a reset token in a user's row come from requests for that user.
UsersOwn ==
  \A e \in DOMAIN users :
    /\ users[e].uuid \in Requests => Began(users[e].uuid, e)
    /\ users[e].uuid \in Emails => users[e].uuid = e
    /\ users[e].token # None => Began(users[e].token, e)

\* What a request holds where it is; only the insert of a user may have done nothing.
Holding ==
  \A r \in Requests :
    /\ at[r] # "idle" => email[r] \in Emails
    /\ at[r] = "new" => \A e \in DOMAIN users : users[e].uuid # r
    /\ at[r] \in {"known", "password", "reset", "change"} => Own(r)
    /\ at[r] \in {"org", "insert"} => Own(r) \/ found[r] = r
    /\ at[r] \in {"change", "change org", "changed"} =>
         shown[r] \in Requests /\ Began(shown[r], email[r]) /\ ~stale[r]

\* Sign-ups for one email know of each other, and who is about to insert an
\* organization knows of those whose organizations it did not see.
Overlapping ==
  \A r \in Requests :
    /\ at[r] \in SigningUp => Serving(email[r]) \ {r} \subseteq beside[r]
    /\ at[r] = "insert" => OrgsOf(found[r]) \ {r} \subseteq beside[r]

\* The password that the user of a sign-up has, unless another is served beside it.
OwnPassword(r) ==
  LET password == users[email[r]].password
  IN  password # None /\ (password = r \/ shown[password] # None)

PasswordsSet ==
  \A r \in Requests :
    at[r] \in {"org", "insert"} /\ beside[r] = {} /\ Own(r) => OwnPassword(r)

OrgsBegan == \A o \in DOMAIN orgs : at[o] # "idle"

IInv == /\ TypeOK /\ UsersOwn /\ Holding /\ Overlapping /\ PasswordsSet
        /\ OrgsBegan /\ OrgsOfTheirUsers /\ TwoOrgsOnlyByOverlap

-----------------------------------------------------------------------------
(* What comments in the code say of it.                                     *)

\* db.go says of FetchOrg: orgs are limited to 1 for now, for each user.
OneOrgForEachUser == \A i, j \in DOMAIN orgs : orgs[i] = orgs[j] => i = j
=============================================================================
