--------------------------- MODULE AccountsProofs ---------------------------
(***************************************************************************)
(* What TLAPS proves of Accounts for any number of requests, emails and    *)
(* failures.                                                                *)
(***************************************************************************)
EXTENDS Accounts, TLAPS

USE DEF requestVars

-----------------------------------------------------------------------------
(* The type.                                                                *)

UserType == [uuid : Uuids, password : Requests \cup {None},
             token : Requests \cup {None}, valid : BOOLEAN]
Places   == {"idle", "retry"} \cup SigningUp \cup Others \cup Settled

\* A step of a request.
Step(r) == \/ FindUserByEmail(r) \/ SignUp(r) \/ FailSignUp(r) \/ LoginUserToOrg(r)
           \/ AnswerOrg(r) \/ ResetPassword(r) \/ SendToken(r) \/ ChangePassword(r)
           \/ ChangeUserPassword(r) \/ Fail(r)

\* Moving on keeps the type of the place.
LEMMA Moving ==
  ASSUME TypeOK, NEW r \in Requests, NEW label \in Places, MoveTo(r, label)
  PROVE  at' \in [Requests -> Places] /\ at'[r] = label
         /\ \A q \in Requests \ {r} : at'[q] = at[q]
BY DEF TypeOK, MoveTo, Places

\* The rows that the queries write are rows.
LEMMA WrittenUsers ==
  ASSUME TypeOK, NEW r \in Requests
  PROVE  /\ UpdateUserPassword(r) => users' \in [DOMAIN users -> UserType]
         /\ SaveUserResetToken(r) => users' \in [DOMAIN users -> UserType]
         /\ \A e \in Emails : \A row \in UserType :
              InsertUser(e, row) => users' \in [DOMAIN users \cup {e} -> UserType]
<1>1. users \in [DOMAIN users -> UserType]
  BY DEF TypeOK, UserType
<1>2. \A row \in UserType : /\ [row EXCEPT !.password = r] \in UserType
                           /\ [row EXCEPT !.token = r, !.valid = TRUE] \in UserType
  BY DEF UserType
<1>3. UpdateUserPassword(r) => users' \in [DOMAIN users -> UserType]
  BY <1>1, <1>2 DEF UpdateUserPassword
<1>4. SaveUserResetToken(r) => users' \in [DOMAIN users -> UserType]
  BY <1>1, <1>2 DEF SaveUserResetToken
<1>5. \A e \in Emails : \A row \in UserType :
        InsertUser(e, row) => users' \in [DOMAIN users \cup {e} -> UserType]
  BY <1>1 DEF InsertUser
<1> QED
  BY <1>3, <1>4, <1>5

LEMMA InitType == Init => TypeOK
BY MaxFailuresAssumption DEF Init, TypeOK

\* Every step keeps it.
LEMMA NextType == TypeOK /\ Holding /\ [Next]_vars => TypeOK'
<1> SUFFICES ASSUME TypeOK, Holding, [Next]_vars PROVE TypeOK'
  OBVIOUS
<1>0. /\ users \in [DOMAIN users -> UserType] /\ DOMAIN users \subseteq Emails
      /\ at \in [Requests -> Places]
  BY DEF TypeOK, UserType, Places
<1> DEFINE UsersType == users' \in [DOMAIN users' -> UserType] /\ DOMAIN users' \subseteq Emails
           OrgsType  == orgs' \in [DOMAIN orgs' -> Uuids] /\ DOMAIN orgs' \subseteq Requests
           AtType    == at' \in [Requests -> Places]
           RestType  == /\ email' \in [Requests -> Emails \cup {None}]
                        /\ found' \in [Requests -> Uuids \cup {None}]
                        /\ shown' \in [Requests -> Requests \cup {None}]
                        /\ stale' \in [Requests -> BOOLEAN]
                        /\ beside' \in [Requests -> SUBSET Requests]
                        /\ failures' \in 0 .. MaxFailures
<1>a. UNCHANGED users => UsersType
  BY <1>0
<1>b. UNCHANGED orgs => OrgsType
  BY DEF TypeOK
<1>c. UNCHANGED <<email, found, shown, stale, beside, failures>> => RestType
  BY DEF TypeOK
<1>d. UsersType /\ OrgsType /\ AtType /\ RestType => TypeOK'
  BY DEF TypeOK, UserType, Places
<1>e. \A r \in Requests : \A label \in Places : MoveTo(r, label) => AtType
  BY Moving
<1>f. failures < MaxFailures => failures + 1 \in 0 .. MaxFailures
  BY MaxFailuresAssumption DEF TypeOK
<1>g. \A e \in DOMAIN users : e \in Emails /\ users[e].uuid \in Uuids
  BY <1>0 DEF UserType
<1>1. ASSUME NEW r \in Requests, Step(r) PROVE TypeOK'
  <2>1. CASE FindUserByEmail(r)
    <3>1. PICK e \in Emails :
            /\ email' = [email EXCEPT ![r] = e]
            /\ \/ MoveTo(r, "known") /\ found' = [found EXCEPT ![r] = users[e].uuid]
                  /\ e \in DOMAIN users
               \/ MoveTo(r, "new") /\ found' = [found EXCEPT ![r] = None]
            /\ beside' = [t \in Requests |-> beside[t] \cup (IF t = r THEN Serving(e)
                                       ELSE IF t \in Serving(e) THEN {r} ELSE {})]
            /\ UNCHANGED <<users, orgs, shown, stale, failures>>
      BY <2>1 DEF FindUserByEmail
    <3>2. AtType
      BY <1>e, <3>1 DEF Places, SigningUp
    <3>3. beside' \in [Requests -> SUBSET Requests]
      BY <3>1 DEF TypeOK, Serving
    <3>4. RestType
      BY <1>g, <3>1, <3>3 DEF TypeOK
    <3> QED
      BY <1>a, <1>b, <1>d, <3>1, <3>2, <3>4
  <2>2. CASE CreateNewOrgUser(r)
    <3>1. AtType
      BY <1>e, <2>2 DEF CreateNewOrgUser, Places, SigningUp
    <3>2. UsersType
      <4>1. email[r] \in Emails
        BY <2>2 DEF CreateNewOrgUser, Holding
      <4>2. [uuid |-> r, password |-> r, token |-> None, valid |-> FALSE] \in UserType
        BY DEF UserType, Uuids
      <4> QED
        BY <1>0, <1>a, <2>2, <4>1, <4>2, WrittenUsers DEF CreateNewOrgUser
    <3>3. RestType
      BY <2>2 DEF CreateNewOrgUser, TypeOK, Uuids
    <3> QED
      BY <1>b, <1>d, <2>2, <3>1, <3>2, <3>3 DEF CreateNewOrgUser
  <2>3. CASE FetchOrg(r) \/ FetchOrgAgain(r)
    <3>1. AtType
      BY <1>e, <2>3 DEF FetchOrg, FetchOrgAgain, Places, SigningUp, SignedUp, Settled
    <3> QED
      BY <1>a, <1>b, <1>c, <1>d, <2>3, <3>1 DEF FetchOrg, FetchOrgAgain
  <2>4. CASE SetPassword(r) \/ ChangeUserPassword(r)
    <3>1. AtType
      BY <1>e, <2>4 DEF SetPassword, ChangeUserPassword, Places, SigningUp, Others
    <3>2. UsersType
      BY <1>0, <2>4, WrittenUsers DEF SetPassword, ChangeUserPassword
    <3> QED
      BY <1>b, <1>c, <1>d, <2>4, <3>1, <3>2 DEF SetPassword, ChangeUserPassword
  <2>5. CASE CreateOrg(r)
    <3>1. AtType
      BY <1>e, <2>5 DEF CreateOrg, Places, SignedUp, Settled
    <3>2. RestType
      BY <1>f, <2>5 DEF CreateOrg, TypeOK
    <3>3. OrgsType
      BY <1>b, <1>g, <2>5 DEF CreateOrg, TypeOK
    <3> QED
      BY <1>a, <1>d, <2>5, <3>1, <3>2, <3>3 DEF CreateOrg
  <2>6. CASE FailSignUp(r)
    <3>1. AtType
      BY <1>e, <2>6 DEF FailSignUp, Places
    <3>2. RestType
      BY <1>f, <2>6 DEF FailSignUp, TypeOK
    <3> QED
      BY <1>a, <1>b, <1>d, <2>6, <3>1, <3>2 DEF FailSignUp
  <2>7. CASE LoginUserToOrg(r) \/ ResetPassword(r)
    <3>1. AtType
      BY <1>e, <2>7 DEF LoginUserToOrg, ResetPassword, Places, Others
    <3>2. RestType
      BY <1>g, <2>7 DEF LoginUserToOrg, ResetPassword, TypeOK
    <3> QED
      BY <1>a, <1>b, <1>d, <2>7, <3>1, <3>2 DEF LoginUserToOrg, ResetPassword
  <2>8. CASE AnswerOrg(r) \/ Fail(r)
    <3>1. AtType
      BY <1>e, <2>8 DEF AnswerOrg, Fail, Places, Settled
    <3> QED
      BY <1>a, <1>b, <1>c, <1>d, <2>8, <3>1 DEF AnswerOrg, Fail
  <2>9. CASE SendToken(r)
    <3>1. AtType
      BY <1>e, <2>9 DEF SendToken, Places, Settled
    <3>2. UsersType
      BY <1>0, <2>9, WrittenUsers DEF SendToken
    <3> QED
      BY <1>b, <1>c, <1>d, <2>9, <3>1, <3>2 DEF SendToken
  <2>10. CASE ChangePassword(r)
    <3>1. AtType
      BY <1>e, <2>10 DEF ChangePassword, Places, Others
    <3>2. RestType
      BY <1>g, <2>10 DEF ChangePassword, FindUserByResetToken, TypeOK
    <3> QED
      BY <1>a, <1>b, <1>d, <2>10, <3>1, <3>2 DEF ChangePassword
  <2> QED
    BY <1>1, <2>1, <2>2, <2>3, <2>4, <2>5, <2>6, <2>7, <2>8, <2>9, <2>10 DEF Step, SignUp
<1>2. ASSUME NEW e \in Emails, CreateUser(e) PROVE TypeOK'
  <2>1. [uuid |-> e, password |-> None, token |-> None, valid |-> FALSE] \in UserType
    BY <1>2 DEF UserType, Uuids
  <2>2. UsersType
    BY <1>0, <1>2, <2>1 DEF CreateUser, InsertUser
  <2> QED
    BY <1>0, <1>b, <1>c, <1>d, <1>2, <2>2 DEF CreateUser
<1>3. ASSUME NEW e \in DOMAIN users, Expire(e) PROVE TypeOK'
  <2>1. \A row \in UserType : [row EXCEPT !.valid = FALSE] \in UserType
    BY DEF UserType
  <2>2. UsersType
    BY <1>0, <1>3, <2>1 DEF Expire
  <2> QED
    BY <1>0, <1>b, <1>c, <1>d, <1>3, <2>2 DEF Expire
<1>4. ASSUME NEW o \in DOMAIN orgs, DeleteOrg(o) PROVE TypeOK'
  <2>1. OrgsType
    BY <1>4 DEF DeleteOrg, TypeOK
  <2> QED
    BY <1>0, <1>a, <1>c, <1>d, <1>4, <2>1 DEF DeleteOrg
<1>5. CASE UNCHANGED vars
  BY <1>0, <1>a, <1>b, <1>c, <1>d, <1>5 DEF vars
<1> QED
  BY <1>1, <1>2, <1>3, <1>4, <1>5 DEF Next, Step

-----------------------------------------------------------------------------
(* Who changes what.                                                        *)

\* The other requests stay where they are; they only learn of sign-ups beside them.
LEMMA OthersStay ==
  ASSUME TypeOK, NEW r \in Requests, Step(r), NEW q \in Requests \ {r}
  PROVE  /\ at'[q] = at[q] /\ email'[q] = email[q] /\ found'[q] = found[q]
         /\ shown'[q] = shown[q] /\ stale'[q] = stale[q] /\ beside[q] \subseteq beside'[q]
<1> USE DEF TypeOK, MoveTo
<1>1. CASE FindUserByEmail(r)
  BY <1>1 DEF FindUserByEmail
<1>2. CASE SignUp(r) \/ FailSignUp(r)
  BY <1>2 DEF SignUp, CreateNewOrgUser, FetchOrg, SetPassword, FetchOrgAgain, CreateOrg, FailSignUp
<1>3. CASE LoginUserToOrg(r) \/ AnswerOrg(r) \/ ResetPassword(r) \/ SendToken(r)
  BY <1>3 DEF LoginUserToOrg, AnswerOrg, ResetPassword, SendToken
<1>4. CASE ChangePassword(r) \/ ChangeUserPassword(r) \/ Fail(r)
  BY <1>4 DEF ChangePassword, ChangeUserPassword, Fail
<1> QED
  BY <1>1, <1>2, <1>3, <1>4 DEF Step

\* A request that has come stays with its email and its token, and begins to sign up
\* with FindUserByEmail.
LEMMA OwnStep ==
  ASSUME TypeOK, NEW r \in Requests, Step(r)
  PROVE  /\ at'[r] # "idle"
         /\ at[r] # "idle" => email'[r] = email[r] /\ shown'[r] = shown[r]
         /\ shown[r] # None => shown'[r] # None
         /\ beside[r] \subseteq beside'[r]
         /\ at'[r] \in SigningUp => at[r] \in SigningUp \/ FindUserByEmail(r)
<1> USE DEF TypeOK, MoveTo, SigningUp
<1>1. CASE FindUserByEmail(r)
  <2>1. PICK e \in Emails :
          /\ at[r] = "idle" \/ (at[r] = "retry" /\ email[r] = e)
          /\ email' = [email EXCEPT ![r] = e]
          /\ MoveTo(r, "known") \/ MoveTo(r, "new")
          /\ beside' = [t \in Requests |-> beside[t] \cup (IF t = r THEN Serving(e)
                                     ELSE IF t \in Serving(e) THEN {r} ELSE {})]
          /\ shown' = shown
    BY <1>1 DEF FindUserByEmail
  <2>2. at'[r] \in {"known", "new"} /\ email'[r] = e
    BY <2>1
  <2>3. beside[r] \subseteq beside'[r]
    BY <2>1
  <2> QED
    BY <1>1, <2>1, <2>2, <2>3
<1>2. CASE SignUp(r) \/ FailSignUp(r)
  <2>1. CASE CreateOrg(r)
    BY <2>1 DEF CreateOrg
  <2> QED
    BY <1>2, <2>1 DEF SignUp, CreateNewOrgUser, FetchOrg, SetPassword, FetchOrgAgain, FailSignUp
<1>3. CASE LoginUserToOrg(r) \/ AnswerOrg(r) \/ ResetPassword(r) \/ SendToken(r)
  BY <1>3 DEF LoginUserToOrg, AnswerOrg, ResetPassword, SendToken
<1>4. CASE ChangePassword(r)
  BY <1>4, NoneAssumption DEF ChangePassword
<1>5. CASE ChangeUserPassword(r) \/ Fail(r)
  BY <1>5 DEF ChangeUserPassword, Fail
<1> QED
  BY <1>1, <1>2, <1>3, <1>4, <1>5 DEF Step

\* The steps that are nobody's request.
Around == \/ \E e \in Emails : CreateUser(e)
          \/ \E e \in DOMAIN users : Expire(e)
          \/ \E o \in DOMAIN orgs : DeleteOrg(o)
          \/ UNCHANGED vars

LEMMA AroundStays == Around => UNCHANGED requestVars
BY DEF Around, CreateUser, Expire, DeleteOrg, vars

LEMMA Steps == [Next]_vars <=> Around \/ \E r \in Requests : Step(r)
BY DEF Next, Around, Step

\* So a request that has come has come for good.
LEMMA Stays ==
  ASSUME TypeOK, [Next]_vars, NEW r \in Requests
  PROVE  /\ at[r] # "idle" => at'[r] # "idle" /\ email'[r] = email[r] /\ shown'[r] = shown[r]
         /\ shown[r] # None => shown'[r] # None
         /\ beside[r] \subseteq beside'[r]
<1>1. CASE Around
  BY <1>1, AroundStays
<1>2. CASE Step(r)
  BY <1>2, OwnStep
<1>3. CASE \E q \in Requests \ {r} : Step(q)
  BY <1>3, OthersStay
<1> QED
  BY <1>1, <1>2, <1>3, Steps

\* A user's uuid stays, a token and a password come from the request that writes them.
LEMMA UsersStay ==
  ASSUME TypeOK, [Next]_vars, NEW e \in DOMAIN users
  PROVE  /\ e \in DOMAIN users' /\ users'[e].uuid = users[e].uuid
         /\ \/ users'[e].token = users[e].token
            \/ \E q \in Requests : /\ at[q] = "reset" /\ found[q] = users[e].uuid
                                   /\ users'[e].token = q
         /\ \/ users'[e].password = users[e].password
            \/ \E q \in Requests : /\ at[q] \in {"password", "change"}
                                   /\ found[q] = users[e].uuid /\ users'[e].password = q
<1> DEFINE Goal == /\ e \in DOMAIN users' /\ users'[e].uuid = users[e].uuid
                   /\ \/ users'[e].token = users[e].token
                      \/ \E q \in Requests : /\ at[q] = "reset" /\ found[q] = users[e].uuid
                                             /\ users'[e].token = q
                   /\ \/ users'[e].password = users[e].password
                      \/ \E q \in Requests : /\ at[q] \in {"password", "change"}
                                             /\ found[q] = users[e].uuid
                                             /\ users'[e].password = q
<1>0. users \in [DOMAIN users -> UserType]
  BY DEF TypeOK, UserType
<1>1. UNCHANGED users => Goal
  OBVIOUS
<1>2. \A row \in UserType : \A q \in Requests :
        /\ [row EXCEPT !.password = q].uuid = row.uuid
        /\ [row EXCEPT !.password = q].token = row.token
        /\ [row EXCEPT !.password = q].password = q
        /\ [row EXCEPT !.token = q, !.valid = TRUE].uuid = row.uuid
        /\ [row EXCEPT !.token = q, !.valid = TRUE].token = q
        /\ [row EXCEPT !.token = q, !.valid = TRUE].password = row.password
        /\ [row EXCEPT !.valid = FALSE].uuid = row.uuid
        /\ [row EXCEPT !.valid = FALSE].token = row.token
        /\ [row EXCEPT !.valid = FALSE].password = row.password
  BY DEF UserType
<1>3. ASSUME NEW r \in Requests, Step(r) PROVE Goal
  <2>1. CASE CreateNewOrgUser(r)
    BY <1>1, <2>1 DEF CreateNewOrgUser, InsertUser
  <2>2. CASE SetPassword(r) \/ ChangeUserPassword(r)
    <3>1. at[r] \in {"password", "change"} /\ UpdateUserPassword(r)
      BY <2>2 DEF SetPassword, ChangeUserPassword
    <3>2. e \in DOMAIN users' /\ users'[e] = IF users[e].uuid = found[r]
                                             THEN [users[e] EXCEPT !.password = r] ELSE users[e]
      BY <3>1 DEF UpdateUserPassword
    <3> QED
      BY <1>0, <1>2, <3>1, <3>2
  <2>3. CASE SendToken(r)
    <3>1. at[r] = "reset" /\ SaveUserResetToken(r)
      BY <2>3 DEF SendToken
    <3>2. e \in DOMAIN users' /\ users'[e] =
             IF users[e].uuid = found[r] THEN [users[e] EXCEPT !.token = r, !.valid = TRUE]
             ELSE users[e]
      BY <3>1 DEF SaveUserResetToken
    <3> QED
      BY <1>0, <1>2, <3>1, <3>2
  <2>4. \/ UNCHANGED users \/ CreateNewOrgUser(r) \/ SetPassword(r) \/ ChangeUserPassword(r)
        \/ SendToken(r)
    BY <1>3 DEF Step, SignUp, FindUserByEmail, FetchOrg, FetchOrgAgain, CreateOrg, FailSignUp,
       LoginUserToOrg, AnswerOrg, ResetPassword, ChangePassword, Fail
  <2> QED
    BY <1>1, <2>1, <2>2, <2>3, <2>4
<1>4. CASE Around
  <2>1. CASE \E x \in Emails : CreateUser(x)
    BY <2>1 DEF CreateUser, InsertUser
  <2>2. CASE \E x \in DOMAIN users : Expire(x)
    <3>1. PICK x \in DOMAIN users : users' = [users EXCEPT ![x].valid = FALSE]
      BY <2>2 DEF Expire
    <3>2. e \in DOMAIN users'
          /\ users'[e] = IF e = x THEN [users[e] EXCEPT !.valid = FALSE] ELSE users[e]
      BY <1>0, <3>1
    <3> QED
      BY <1>0, <1>2, <3>2
  <2>3. CASE (\E o \in DOMAIN orgs : DeleteOrg(o)) \/ UNCHANGED vars
    BY <1>1, <2>3 DEF DeleteOrg, vars
  <2> QED
    BY <1>4, <2>1, <2>2, <2>3 DEF Around
<1> QED
  BY <1>3, <1>4, Steps

\* A user who is new comes from a sign-in, under a uuid of no request, or from a
\* sign-up, with the password of that.
LEMMA NewUser ==
  ASSUME TypeOK, [Next]_vars, NEW e \in DOMAIN users' \ DOMAIN users
  PROVE  /\ users'[e].token = None
         /\ \/ users'[e].uuid = e
            \/ \E q \in Requests :
                 /\ at[q] = "new" /\ email[q] = e /\ at'[q] = "org" /\ found'[q] = q
                 /\ users'[e].uuid = q /\ users'[e].password = q
<1>1. ASSUME NEW r \in Requests, CreateNewOrgUser(r)
      PROVE  /\ users'[e].token = None
             /\ \E q \in Requests :
                 /\ at[q] = "new" /\ email[q] = e /\ at'[q] = "org" /\ found'[q] = q
                 /\ users'[e].uuid = q /\ users'[e].password = q
  <2>1. /\ at[r] = "new" /\ at'[r] = "org" /\ found'[r] = r
        /\ InsertUser(email[r], [uuid |-> r, password |-> r, token |-> None, valid |-> FALSE])
    BY <1>1 DEF CreateNewOrgUser, MoveTo, TypeOK
  <2>2. email[r] = e
        /\ users'[e] = [uuid |-> r, password |-> r, token |-> None, valid |-> FALSE]
    BY <2>1 DEF InsertUser
  <2> QED
    BY <2>1, <2>2
<1>2. ASSUME NEW x \in Emails, CreateUser(x)
      PROVE  users'[e].token = None /\ users'[e].uuid = e
  BY <1>2 DEF CreateUser, InsertUser
<1>3. DOMAIN users' = DOMAIN users \/ (\E r \in Requests : CreateNewOrgUser(r))
      \/ \E x \in Emails : CreateUser(x)
  BY DEF Next, vars, SignUp, FindUserByEmail, FetchOrg, SetPassword, FetchOrgAgain, CreateOrg,
     FailSignUp, LoginUserToOrg, AnswerOrg, ResetPassword, SendToken, ChangePassword,
     ChangeUserPassword, Fail, Expire, DeleteOrg, UpdateUserPassword, SaveUserResetToken
<1> QED
  BY <1>1, <1>2, <1>3

\* An organization that is new is that of a request at its insert, for a user who is
\* there.
LEMMA OrgsStay ==
  ASSUME TypeOK, [Next]_vars
  PROVE  \/ \A o \in DOMAIN orgs' : o \in DOMAIN orgs /\ orgs'[o] = orgs[o]
         \/ \E r \in Requests :
              /\ at[r] = "insert" /\ \E e \in DOMAIN users : users[e].uuid = found[r]
              /\ r \in DOMAIN orgs' /\ orgs'[r] = found[r]
              /\ \A o \in DOMAIN orgs' \ {r} : o \in DOMAIN orgs /\ orgs'[o] = orgs[o]
<1>1. UNCHANGED orgs \/ (\E r \in Requests : CreateOrg(r)) \/ \E o \in DOMAIN orgs : DeleteOrg(o)
  BY DEF Next, vars, SignUp, FindUserByEmail, CreateNewOrgUser, FetchOrg, SetPassword,
     FetchOrgAgain, FailSignUp, LoginUserToOrg, AnswerOrg, ResetPassword, SendToken,
     ChangePassword, ChangeUserPassword, Fail, Expire, CreateUser
<1>2. CASE \E r \in Requests : CreateOrg(r)
  BY <1>2 DEF CreateOrg
<1>3. CASE \E o \in DOMAIN orgs : DeleteOrg(o)
  BY <1>3 DEF DeleteOrg
<1> QED
  BY <1>1, <1>2, <1>3

-----------------------------------------------------------------------------
(* The other parts of the invariant.                                        *)

\* No two users have the same uuid.
LEMMA UniqueUuids ==
  ASSUME TypeOK, UsersOwn, NEW e \in DOMAIN users, NEW x \in DOMAIN users,
         users[e].uuid = users[x].uuid
  PROVE  e = x
<1>1. users[e].uuid \in Uuids
  BY DEF TypeOK
<1> QED
  BY <1>1 DEF UsersOwn, Began, Uuids

\* The owner that a sign-up inserts an organization for, if there is one, is the user
\* of its email.
LEMMA OwnerFound ==
  ASSUME IInv, NEW r \in Requests, at[r] \in {"org", "insert"},
         NEW e \in DOMAIN users, users[e].uuid = found[r]
  PROVE  email[r] = e /\ Own(r)
<1> USE DEF IInv
<1>1. CASE Own(r)
  BY <1>1, UniqueUuids DEF Own
<1>2. CASE found[r] = r
  BY <1>2 DEF UsersOwn, Began, Own
<1> QED
  BY <1>1, <1>2 DEF Holding

LEMMA NextUsersOwn == IInv /\ [Next]_vars => UsersOwn'
<1> SUFFICES ASSUME IInv, [Next]_vars, NEW e \in DOMAIN users'
             PROVE  /\ users'[e].uuid \in Requests => Began(users[e].uuid, e)'
                    /\ users'[e].uuid \in Emails => users'[e].uuid = e
                    /\ users'[e].token # None => Began(users[e].token, e)'
  BY DEF UsersOwn
<1> USE DEF IInv
<1>1. ASSUME NEW q \in Requests, at[q] # "idle", email[q] = e
      PROVE  at'[q] # "idle" /\ email'[q] = e
  BY <1>1, Stays
<1>2. CASE e \in DOMAIN users
  <2>1. users'[e].uuid = users[e].uuid
    BY <1>2, UsersStay
  <2>2. CASE users'[e].token = users[e].token
    <3>1. users[e].token \in Requests \cup {None}
      BY <1>2 DEF TypeOK
    <3> QED
      BY <1>1, <1>2, <2>1, <2>2, <3>1 DEF UsersOwn, Began
  <2>3. CASE users'[e].token # users[e].token
    <3>1. PICK q \in Requests : /\ at[q] = "reset" /\ found[q] = users[e].uuid
                               /\ users'[e].token = q
      BY <1>2, <2>3, UsersStay
    <3>2. email[q] = e
      BY <1>2, <3>1, UniqueUuids DEF Holding, Own
    <3> QED
      BY <1>1, <1>2, <2>1, <3>1, <3>2 DEF UsersOwn, Began
  <2> QED
    BY <2>2, <2>3
<1>3. CASE e \notin DOMAIN users
  <2>1. users'[e].token = None /\ e \in Emails
    BY <1>3, NewUser, NextType DEF TypeOK
  <2>2. CASE users'[e].uuid = e
    BY <2>1, <2>2, NoneAssumption
  <2>3. CASE \E q \in Requests : at[q] = "new" /\ email[q] = e /\ users'[e].uuid = q
    BY <1>1, <2>1, <2>3, NoneAssumption DEF Began
  <2> QED
    BY <1>3, <2>2, <2>3, NewUser
<1> QED
  BY <1>2, <1>3

\* What Holding says of one request.
Holds(r) ==
  /\ at[r] # "idle" => email[r] \in Emails
  /\ at[r] = "new" => \A e \in DOMAIN users : users[e].uuid # r
  /\ at[r] \in {"known", "password", "reset", "change"} => Own(r)
  /\ at[r] \in {"org", "insert"} => Own(r) \/ found[r] = r
  /\ at[r] \in {"change", "change org", "changed"} =>
       shown[r] \in Requests /\ Began(shown[r], email[r]) /\ ~stale[r]

LEMMA NextHolding == IInv /\ [Next]_vars => Holding'
<1> SUFFICES ASSUME IInv, [Next]_vars PROVE Holding'
  OBVIOUS
<1> USE DEF IInv
<1>1. \A r \in Requests : Holds(r)
  BY DEF Holding, Holds
<1>2. ASSUME NEW r \in Requests, email'[r] = email[r], found'[r] = found[r], Own(r)
      PROVE  Own(r)'
  BY <1>2, UsersStay DEF Own
<1>3. ASSUME NEW r \in Requests, NEW q \in Requests, Began(q, email[r]),
             email'[r] = email[r], shown'[r] = shown[r], shown[r] = q
      PROVE  Began(shown[r], email[r])'
  BY <1>3, Stays DEF Began
<1>4. ASSUME NEW r \in Requests, at'[r] = at[r], email'[r] = email[r], found'[r] = found[r],
             shown'[r] = shown[r], stale'[r] = stale[r]
      PROVE  Holds(r)'
  <2>1. at[r] = "new" => \A e \in DOMAIN users' : users'[e].uuid # r
    <3> SUFFICES ASSUME at[r] = "new", NEW e \in DOMAIN users', users'[e].uuid = r
                 PROVE  FALSE
      OBVIOUS
    <3>1. CASE e \in DOMAIN users
      BY <1>1, <3>1, UsersStay DEF Holds
    <3>2. CASE e \notin DOMAIN users
      <4>1. e \in Emails
        BY NextType DEF TypeOK
      <4> QED
        BY <1>4, <3>2, <4>1, NewUser, NoneAssumption
    <3> QED
      BY <3>1, <3>2
  <2> QED
    BY <1>1, <1>2, <1>3, <1>4, <2>1 DEF Holds
<1>5. ASSUME NEW r \in Requests, Step(r) PROVE Holds(r)'
  <2> USE DEF TypeOK, MoveTo
  <2>0. at[r] # "idle" => email[r] \in Emails
    BY <1>1 DEF Holds
  <2>1. CASE FindUserByEmail(r)
    <3>1. PICK e \in Emails :
            /\ at[r] = "idle" \/ (at[r] = "retry" /\ email[r] = e)
            /\ email' = [email EXCEPT ![r] = e]
            /\ \/ /\ e \in DOMAIN users
                  /\ MoveTo(r, "known") /\ found' = [found EXCEPT ![r] = users[e].uuid]
               \/ e \notin DOMAIN users /\ MoveTo(r, "new")
            /\ UNCHANGED users
      BY <2>1 DEF FindUserByEmail
    <3>2. email'[r] = e
      BY <3>1
    <3>3. CASE e \in DOMAIN users
      BY <3>1, <3>2, <3>3 DEF Holds, Own
    <3>4. CASE e \notin DOMAIN users
      <4>1. \A x \in DOMAIN users : users[x].uuid # r
        BY <3>1, <3>4 DEF UsersOwn, Began
      <4> QED
        BY <3>1, <3>2, <3>4, <4>1 DEF Holds
    <3> QED
      BY <3>3, <3>4
  <2>2. CASE CreateNewOrgUser(r)
    <3>1. at'[r] = "org" /\ found'[r] = r /\ email'[r] = email[r]
      BY <2>2 DEF CreateNewOrgUser
    <3>2. at[r] # "idle"
      BY <2>2 DEF CreateNewOrgUser
    <3> QED
      BY <2>0, <3>1, <3>2 DEF Holds
  <2>3. CASE FetchOrg(r)
    <3>1. at[r] = "known" /\ at'[r] \in {"password", "conflict"} /\ UNCHANGED <<email, found>>
      BY <2>3 DEF FetchOrg
    <3> QED
      BY <1>1, <1>2, <2>0, <3>1 DEF Holds
  <2>4. CASE SetPassword(r)
    <3>1. at[r] = "password" /\ at'[r] = "org" /\ UNCHANGED <<email, found>>
      BY <2>4 DEF SetPassword
    <3> QED
      BY <1>1, <1>2, <2>0, <3>1 DEF Holds
  <2>5. CASE FetchOrgAgain(r)
    <3>1. at[r] = "org" /\ at'[r] \in {"insert", "existing"} /\ UNCHANGED <<email, found>>
      BY <2>5 DEF FetchOrgAgain
    <3> QED
      BY <1>1, <1>2, <2>0, <3>1 DEF Holds
  <2>6. CASE CreateOrg(r) \/ FailSignUp(r) \/ SendToken(r) \/ Fail(r)
    <3>1. /\ at[r] # "idle" /\ at'[r] \in {"created", "retry", "sent", "failed"}
          /\ UNCHANGED email
      BY <2>6 DEF CreateOrg, FailSignUp, SendToken, Fail, SigningUp, Others
    <3> QED
      BY <2>0, <3>1 DEF Holds
  <2>7. CASE LoginUserToOrg(r) \/ ResetPassword(r)
    <3>1. PICK e \in DOMAIN users : email' = [email EXCEPT ![r] = e]
                                   /\ found' = [found EXCEPT ![r] = users[e].uuid]
      BY <2>7 DEF LoginUserToOrg, ResetPassword
    <3>2. at'[r] \in {"login", "reset"} /\ users' = users
      BY <2>7 DEF LoginUserToOrg, ResetPassword
    <3> QED
      BY <3>1, <3>2 DEF Holds, Own
  <2>8. CASE AnswerOrg(r)
    <3>1. /\ at[r] \in {"login", "change org"}
          /\ at'[r] \in {"failed", "logged in"} \/ (at[r] = "change org" /\ at'[r] = "changed")
          /\ UNCHANGED <<email, shown, stale>>
      BY <2>8 DEF AnswerOrg
    <3> QED
      BY <1>1, <1>3, <2>0, <3>1 DEF Holds
  <2>9. CASE ChangePassword(r)
    <3>1. PICK t \in {q \in Requests : at[q] = "sent"} :
            /\ shown' = [shown EXCEPT ![r] = t]
            /\ \E e \in FindUserByResetToken(t) :
                 /\ email' = [email EXCEPT ![r] = e]
                 /\ found' = [found EXCEPT ![r] = users[e].uuid]
            /\ stale' = [stale EXCEPT ![r] = \A e \in DOMAIN users :
                                               users[e].token = t => ~users[e].valid]
      BY <2>9 DEF ChangePassword
    <3>2. PICK e \in FindUserByResetToken(t) :
            /\ email' = [email EXCEPT ![r] = e]
            /\ found' = [found EXCEPT ![r] = users[e].uuid]
      BY <3>1
    <3>3. e \in DOMAIN users /\ users[e].token = t /\ users[e].valid
      BY DEF FindUserByResetToken
    <3>4. at'[r] = "change" /\ users' = users /\ at[r] = "idle"
      BY <2>9 DEF ChangePassword
    <3>5. Began(t, e)
      BY <3>1, <3>3, NoneAssumption DEF UsersOwn
    <3>6. /\ shown'[r] = t /\ t \in Requests /\ email'[r] = e /\ found'[r] = users[e].uuid
          /\ ~stale'[r]
      BY <3>1, <3>2, <3>3
    <3>7. at'[t] # "idle" /\ email'[t] = e
      BY <3>5, <3>6, Stays DEF Began
    <3> QED
      BY <3>3, <3>4, <3>6, <3>7 DEF Holds, Own, Began
  <2>10. CASE ChangeUserPassword(r)
    <3>1. at[r] = "change" /\ at'[r] = "change org" /\ UNCHANGED <<email, shown, stale>>
      BY <2>10 DEF ChangeUserPassword
    <3> QED
      BY <1>1, <1>3, <2>0, <3>1 DEF Holds
  <2> HIDE DEF TypeOK, MoveTo
  <2> QED
    BY <1>5, <2>1, <2>2, <2>3, <2>4, <2>5, <2>6, <2>7, <2>8, <2>9, <2>10 DEF Step, SignUp
<1>6. ASSUME NEW r \in Requests PROVE Holds(r)'
  <2>1. CASE Around
    BY <1>4, <2>1, AroundStays
  <2>2. CASE Step(r)
    BY <1>5, <2>2
  <2>3. CASE \E q \in Requests \ {r} : Step(q)
    BY <1>4, <2>3, OthersStay
  <2> QED
    BY <2>1, <2>2, <2>3, Steps
<1> QED
  BY <1>6 DEF Holding, Holds

\* Sign-ups that are served for one email have learned of each other, because the
\* later one finds the earlier.
LEMMA NextServing ==
  ASSUME IInv, [Next]_vars, NEW r \in Requests, NEW t \in Requests \ {r},
         at'[r] \in SigningUp, at'[t] \in SigningUp, email'[t] = email'[r]
  PROVE  t \in beside'[r]
<1> USE DEF IInv
<1>1. CASE at[r] \in SigningUp /\ at[t] \in SigningUp
  <2>1. email[t] = email[r]
    BY <1>1, Stays DEF SigningUp
  <2>2. t \in beside[r]
    BY <1>1, <2>1 DEF Overlapping, Serving
  <2> QED
    BY <2>2, Stays
<1>2. ASSUME NEW q \in Requests, NEW o \in Requests \ {q}, at[q] \notin SigningUp,
             at'[q] \in SigningUp, at'[o] \in SigningUp, email'[o] = email'[q]
      PROVE  o \in beside'[q] /\ q \in beside'[o]
  <2>1. Step(q)
    BY <1>2, Steps, AroundStays, OthersStay
  <2>2. FindUserByEmail(q)
    BY <1>2, <2>1, OwnStep
  <2>3. at[o] \in SigningUp /\ email[o] = email'[q]
    BY <1>2, <2>1, OthersStay
  <2>4. o \in Serving(email'[q])
    BY <2>3 DEF Serving
  <2>5. PICK e \in Emails :
          /\ email' = [email EXCEPT ![q] = e]
          /\ beside' = [p \in Requests |-> beside[p] \cup (IF p = q THEN Serving(e)
                                     ELSE IF p \in Serving(e) THEN {q} ELSE {})]
    BY <2>2 DEF FindUserByEmail
  <2>6. email'[q] = e
    BY <2>5 DEF TypeOK
  <2> QED
    BY <2>4, <2>5, <2>6
<1> QED
  BY <1>1, <1>2

LEMMA NextOverlapping == IInv /\ [Next]_vars => Overlapping'
<1> SUFFICES ASSUME IInv, [Next]_vars, NEW r \in Requests
             PROVE  /\ at'[r] \in SigningUp => (Serving(email[r]) \ {r} \subseteq beside[r])'
                    /\ at'[r] = "insert" => (OrgsOf(found[r]) \ {r} \subseteq beside[r])'
  BY DEF Overlapping
<1> USE DEF IInv
<1>1. at'[r] \in SigningUp => (Serving(email[r]) \ {r} \subseteq beside[r])'
  BY NextServing DEF Serving
<1>2. ASSUME at'[r] = "insert", NEW o \in DOMAIN orgs' \ {r}, orgs'[o] = found'[r]
      PROVE  o \in beside'[r]
  <2>1. CASE at[r] = "insert" /\ found'[r] = found[r]
    <3>1. CASE o \in DOMAIN orgs /\ orgs'[o] = orgs[o]
      <4>1. o \in beside[r]
        BY <1>2, <2>1, <3>1 DEF Overlapping, OrgsOf
      <4> QED
        BY <4>1, Stays
    <3>2. CASE ~(o \in DOMAIN orgs /\ orgs'[o] = orgs[o])
      <4>1. o \in Requests /\ at[o] = "insert" /\ orgs'[o] = found[o]
            /\ \E e \in DOMAIN users : users[e].uuid = found[o]
        BY <3>2, OrgsStay
      <4>2. email[o] = email[r]
        BY <1>2, <2>1, <4>1, OwnerFound
      <4>3. o \in Serving(email[r]) \ {r}
        BY <1>2, <4>1, <4>2 DEF Serving, SigningUp
      <4>4. o \in beside[r]
        BY <2>1, <4>3 DEF Overlapping, SigningUp
      <4> QED
        BY <4>4, Stays
    <3> QED
      BY <3>1, <3>2
  <2>2. CASE Step(r)
    <3>1. FetchOrgAgain(r)
      BY <1>2, <2>2 DEF Step, SignUp, FindUserByEmail, CreateNewOrgUser, FetchOrg, SetPassword,
         CreateOrg, FailSignUp, LoginUserToOrg, AnswerOrg, ResetPassword, SendToken,
         ChangePassword, ChangeUserPassword, Fail, MoveTo, TypeOK
    <3>2. OrgsOf(found[r]) = {} /\ orgs' = orgs /\ found' = found
      BY <1>2, <3>1 DEF FetchOrgAgain, MoveTo, TypeOK
    <3> QED
      BY <1>2, <3>2 DEF OrgsOf
  <2>3. CASE Around \/ \E q \in Requests \ {r} : Step(q)
    <3>1. at'[r] = at[r] /\ found'[r] = found[r]
      BY <2>3, AroundStays, OthersStay
    <3> QED
      BY <1>2, <2>1, <3>1
  <2> QED
    BY <2>2, <2>3, Steps
<1> QED
  BY <1>1, <1>2 DEF OrgsOf

\* Organizations belong to the users of their emails, and two of a user to sign-ups
\* that overlapped.
LEMMA NextOrgs ==
  IInv /\ [Next]_vars => (OrgsBegan /\ OrgsOfTheirUsers /\ TwoOrgsOnlyByOverlap)'
<1> SUFFICES ASSUME IInv, [Next]_vars
             PROVE  (OrgsBegan /\ OrgsOfTheirUsers /\ TwoOrgsOnlyByOverlap)'
  OBVIOUS
<1> USE DEF IInv
<1>1. DOMAIN orgs \subseteq Requests /\ DOMAIN orgs' \subseteq Requests
  BY NextType DEF TypeOK
<1>2. ASSUME NEW o \in DOMAIN orgs'
      PROVE  /\ at'[o] # "idle" /\ email'[o] \in DOMAIN users'
             /\ users'[email'[o]].uuid = orgs'[o]
  <2>1. /\ at[o] # "idle" /\ email[o] \in DOMAIN users
        /\ users[email[o]].uuid = orgs'[o]
    <3>1. CASE o \in DOMAIN orgs /\ orgs'[o] = orgs[o]
      BY <3>1 DEF OrgsBegan, OrgsOfTheirUsers
    <3>2. CASE ~(o \in DOMAIN orgs /\ orgs'[o] = orgs[o])
      <4>1. o \in Requests /\ at[o] = "insert" /\ orgs'[o] = found[o]
            /\ \E e \in DOMAIN users : users[e].uuid = found[o]
        BY <3>2, OrgsStay
      <4> QED
        BY <4>1, OwnerFound DEF Own
    <3> QED
      BY <3>1, <3>2
  <2> QED
    BY <1>1, <2>1, Stays, UsersStay
<1>3. ASSUME NEW i \in DOMAIN orgs', NEW j \in DOMAIN orgs', i # j, orgs'[i] = orgs'[j]
      PROVE  i \in beside'[j] \/ j \in beside'[i]
  <2>1. CASE /\ i \in DOMAIN orgs /\ orgs'[i] = orgs[i]
             /\ j \in DOMAIN orgs /\ orgs'[j] = orgs[j]
    BY <1>1, <1>3, <2>1, Stays DEF TwoOrgsOnlyByOverlap
  <2>2. ASSUME NEW r \in Requests, NEW o \in DOMAIN orgs \ {r}, at[r] = "insert",
               orgs[o] = found[r]
        PROVE  o \in beside'[r]
    <3>1. o \in beside[r]
      BY <2>2 DEF Overlapping, OrgsOf
    <3> QED
      BY <3>1, Stays
  <2> QED
    BY <1>3, <2>1, <2>2, OrgsStay
<1> QED
  BY <1>2, <1>3 DEF OrgsBegan, OrgsOfTheirUsers, TwoOrgsOnlyByOverlap

\* Nobody else sets the password of a sign-up that nobody is beside, but a reset.
LEMMA NextPasswordsSet == IInv /\ [Next]_vars => PasswordsSet'
<1> SUFFICES ASSUME IInv, [Next]_vars, NEW r \in Requests, at'[r] \in {"org", "insert"},
                    beside'[r] = {}, Own(r)'
             PROVE  OwnPassword(r)'
  BY DEF PasswordsSet
<1> USE DEF IInv
<1>0. beside[r] = {}
  BY Stays
<1>1. ASSUME NEW q \in Requests \ {r}, at[r] \in SigningUp, at[q] \in SigningUp,
             email[q] = email[r]
      PROVE  FALSE
  BY <1>0, <1>1 DEF Overlapping, Serving
<1>2. CASE /\ at[r] \in {"org", "insert"} /\ email'[r] = email[r] /\ found'[r] = found[r]
  <2>1. CASE email[r] \in DOMAIN users
    <3>1. Own(r)
      BY <1>2, <2>1, UsersStay DEF Own
    <3>2. OwnPassword(r)
      BY <1>0, <1>2, <3>1 DEF PasswordsSet
    <3>3. CASE users'[email[r]].password = users[email[r]].password
      <4>1. users[email[r]].password \in Requests \cup {None}
        BY <2>1 DEF TypeOK
      <4> QED
        BY <1>2, <3>2, <3>3, <4>1, Stays DEF OwnPassword
    <3>4. CASE users'[email[r]].password # users[email[r]].password
      <4>1. PICK q \in Requests :
              /\ at[q] \in {"password", "change"} /\ found[q] = users[email[r]].uuid
              /\ users'[email[r]].password = q
        BY <2>1, <3>4, UsersStay
      <4>2. email[q] = email[r]
        BY <2>1, <4>1, UniqueUuids DEF Holding, Own
      <4>3. at[q] = "change"
        BY <1>1, <1>2, <4>1, <4>2 DEF SigningUp
      <4>4. shown'[q] # None
        BY <4>3, Stays, NoneAssumption DEF Holding
      <4> QED
        BY <1>2, <4>1, <4>4, NoneAssumption DEF OwnPassword
    <3> QED
      BY <3>3, <3>4
  <2>2. CASE email[r] \notin DOMAIN users
    <3>1. found[r] = r /\ email[r] \in DOMAIN users' /\ users'[email[r]].uuid = r
      BY <1>2, <2>2 DEF Holding, Own
    <3>2. email[r] \in Emails
      BY <1>2 DEF Holding
    <3>3. PICK q \in Requests : at[q] = "new" /\ email[q] = email[r]
      BY <2>2, <3>1, <3>2, NewUser, NoneAssumption
    <3> QED
      BY <1>1, <1>2, <3>3 DEF SigningUp
  <2> QED
    BY <2>1, <2>2
<1>3. CASE Step(r)
  <2>1. \/ CreateNewOrgUser(r) \/ SetPassword(r) \/ FetchOrgAgain(r)
    BY <1>3 DEF Step, SignUp, FindUserByEmail, FetchOrg, CreateOrg, FailSignUp, LoginUserToOrg,
       AnswerOrg, ResetPassword, SendToken, ChangePassword, ChangeUserPassword, Fail, MoveTo,
       TypeOK
  <2>2. CASE FetchOrgAgain(r)
    <3>1. at[r] = "org" /\ email' = email /\ found' = found
      BY <2>2 DEF FetchOrgAgain
    <3> QED
      BY <1>2, <3>1
  <2>3. CASE SetPassword(r)
    <3>1. at[r] = "password" /\ UpdateUserPassword(r) /\ email' = email
      BY <2>3 DEF SetPassword
    <3>2. email[r] \in DOMAIN users /\ users[email[r]].uuid = found[r]
      BY <3>1 DEF Holding, Own
    <3>3. users'[email[r]].password = r
      BY <3>1, <3>2 DEF UpdateUserPassword, TypeOK
    <3> QED
      BY <3>1, <3>3, NoneAssumption DEF OwnPassword
  <2>4. CASE CreateNewOrgUser(r)
    <3>1. at[r] = "new" /\ email' = email /\ found'[r] = r
      BY <2>4 DEF CreateNewOrgUser, TypeOK
    <3>2. email[r] \notin DOMAIN users
      <4>1. users'[email[r]].uuid = r
        BY <3>1 DEF Own
      <4>2. \A e \in DOMAIN users : users[e].uuid # r
        BY <3>1 DEF Holding
      <4> QED
        BY <4>1, <4>2, UsersStay
    <3>3. InsertUser(email[r], [uuid |-> r, password |-> r, token |-> None, valid |-> FALSE])
      BY <2>4, <3>2 DEF CreateNewOrgUser
    <3>4. users'[email[r]].password = r
      BY <3>2, <3>3 DEF InsertUser
    <3> QED
      BY <3>1, <3>4, NoneAssumption DEF OwnPassword
  <2> QED
    BY <2>1, <2>2, <2>3, <2>4
<1>4. CASE Around \/ \E q \in Requests \ {r} : Step(q)
  <2>1. at'[r] = at[r] /\ email'[r] = email[r] /\ found'[r] = found[r]
    BY <1>4, AroundStays, OthersStay
  <2> QED
    BY <1>2, <2>1
<1> QED
  BY <1>3, <1>4, Steps

-----------------------------------------------------------------------------
(* The invariant.                                                           *)

LEMMA InitIInv == Init => IInv
<1> SUFFICES ASSUME Init PROVE IInv
  OBVIOUS
<1>1. TypeOK
  BY InitType
<1>2. DOMAIN users = {} /\ DOMAIN orgs = {} /\ \A r \in Requests : at[r] = "idle"
  BY DEF Init
<1> QED
  BY <1>1, <1>2 DEF IInv, UsersOwn, Holding, Overlapping, SigningUp, PasswordsSet, OrgsBegan,
     OrgsOfTheirUsers, TwoOrgsOnlyByOverlap

LEMMA NextIInv == IInv /\ [Next]_vars => IInv'
BY NextType, NextUsersOwn, NextHolding, NextOverlapping, NextPasswordsSet, NextOrgs DEF IInv

LEMMA Invariant == Spec => []IInv
BY InitIInv, NextIInv, PTL DEF Spec

\* The state has its type: what the queries write are rows.
THEOREM TypeCorrect == Spec => []TypeOK
<1>1. IInv => TypeOK
  BY DEF IInv
<1> QED
  BY <1>1, Invariant, PTL

\* An organization belongs to the user of the email that it was created for.
THEOREM Orgs_OfTheirUsers == Spec => []OrgsOfTheirUsers
<1>1. IInv => OrgsOfTheirUsers
  BY DEF IInv
<1> QED
  BY <1>1, Invariant, PTL

\* A user has two organizations only if the sign-ups that created them overlapped.
THEOREM TwoOrgs_OnlyByOverlap == Spec => []TwoOrgsOnlyByOverlap
<1>1. IInv => TwoOrgsOnlyByOverlap
  BY DEF IInv
<1> QED
  BY <1>1, Invariant, PTL

\* A reset changes the password of the user that its token was saved for, and the token
\* was the last one and valid when the request came.
THEOREM Resets_UseLastToken == Spec => []ResetsUseLastToken
<1>1. IInv => ResetsUseLastToken
  BY DEF IInv, Holding, Began, ResetsUseLastToken
<1> QED
  BY <1>1, Invariant, PTL

\* Whoever is answered with a new organization can log in to it with the password of
\* that request, unless another sign-up was beside it or the password was reset.
THEOREM Created_CanLogIn == Spec => CreatedCanLogIn
<1>1. IInv /\ [Next]_vars =>
        [\A r \in Requests :
           at[r] = "insert" /\ at'[r] = "created" /\ beside[r] = {} =>
             LET password == users'[email[r]].password
             IN  password # None /\ (password = r \/ shown[password] # None)]_vars
  <2> SUFFICES ASSUME IInv, [Next]_vars, NEW r \in Requests,
                      at[r] = "insert", at'[r] = "created", beside[r] = {}
               PROVE  LET password == users'[email[r]].password
                      IN  password # None /\ (password = r \/ shown[password] # None)
    OBVIOUS
  <2> USE DEF IInv
  <2>1. Step(r)
    BY Steps, AroundStays, OthersStay
  <2>2. CreateOrg(r)
    BY <2>1 DEF Step, SignUp, FindUserByEmail, CreateNewOrgUser, FetchOrg, SetPassword,
       FetchOrgAgain, FailSignUp, LoginUserToOrg, AnswerOrg, ResetPassword, SendToken,
       ChangePassword, ChangeUserPassword, Fail, Others, MoveTo, TypeOK
  <2>3. users' = users /\ \E e \in DOMAIN users : users[e].uuid = found[r]
    BY <2>2 DEF CreateOrg, MoveTo, TypeOK
  <2>4. Own(r)
    BY <2>3, OwnerFound
  <2>5. OwnPassword(r)
    BY <2>4 DEF PasswordsSet
  <2> QED
    BY <2>3, <2>5 DEF OwnPassword
<1> QED
  BY <1>1, Invariant, PTL DEF Spec, CreatedCanLogIn
=============================================================================
