--------------------------- MODULE AppAuthProofs ---------------------------
(***************************************************************************)
(* What TLAPS proves of AppAuth for any number of sign-ins, requests,      *)
(* users and apps, whatever rows from before expires_in there are.         *)
(***************************************************************************)
EXTENDS AppAuth, TLAPS

USE DEF signInVars, requestVars

-----------------------------------------------------------------------------
(* Lemmas about what steps store.                                           *)

\* The domain of the legacy rows is what Granted distinguishes.
LEMMA GrantedTo ==
  ASSUME TypeOK
  PROVE  /\ \A s \in SignIns : Granted(s) = account[s] /\ account[s] \in Accounts
         /\ \A g \in Legacy : Granted(g) = LegacyRows[g] /\ LegacyRows[g] \in Accounts
BY LegacyAssumption DEF TypeOK, Granted

\* What TypeOK says of a row.
RowType == [user : Users, app : Apps, platform : Platforms,
            tokens : Grants, scopes : Grants, refreshed : BOOLEAN,
            expiry : {"none", "ahead", "past"}]

\* A sign-in's row is one of its account.
LEMMA RowOfAccount ==
  ASSUME TypeOK, NEW s \in SignIns
  PROVE  /\ Row(s) \in RowType
         /\ Account(Row(s)) = account[s]
         /\ Row(s).user = account[s].user /\ Row(s).app = account[s].app
         /\ Row(s).platform = account[s].platform
         /\ Row(s).tokens = s /\ Row(s).scopes = s
BY DEF TypeOK, RowType, Row, Account, Accounts, Grants

\* A refresh leaves a row with its account and its scopes, and marks it.
LEMMA RefreshedRow ==
  ASSUME TypeOK, NEW q \in Requests, UpdateOAuthTokens(q)
  PROVE  /\ DOMAIN rows' = DOMAIN rows
         /\ \A id \in DOMAIN rows :
              /\ Account(rows'[id]) = Account(rows[id]) /\ rows'[id].scopes = rows[id].scopes
              /\ rows'[id] = rows[id] \/ rows'[id].refreshed
<1>1. \A row \in RowType :
        LET new == [row EXCEPT !.tokens = fresh[q], !.refreshed = TRUE, !.expiry = "ahead"]
        IN  Account(new) = Account(row) /\ new.scopes = row.scopes /\ new.refreshed
  BY DEF RowType, Account
<1>2. \A id \in DOMAIN rows : rows[id] \in RowType
  BY DEF TypeOK, RowType
<1> QED
  BY <1>1, <1>2 DEF UpdateOAuthTokens

\* No step changes what a sign-in is for, so no grant changes its meaning.
LEMMA AccountsStay ==
  ASSUME [Next]_vars
  PROVE  account' = account /\ \A g : Granted(g)' = Granted(g)
<1>1. account' = account
  BY DEF Next, SignIn, Request, vars, AppAuthRedirect, Fail, HandleAppAuthRedirect,
     HandleAppleMusicRedirect, ReadVerifier, CompleteSpotifyAuth, CompleteTidalAuth,
     CompleteDeezerAuth, CreateUser, CreateOrUpdateUserApp, FetchUserApp, CreateUserApp,
     UpdateUserApp, UpdatePlatformUserNameIdAndToken, UpdateAppleMusicUser, Expire,
     FetchUserInfoByIdentifier, RefreshToken, UpdateOAuthTokens, Answer
<1> QED
  BY <1>1 DEF Granted

-----------------------------------------------------------------------------
(* The type.                                                                *)

\* The state has its type at the start.
LEMMA InitType == Init => TypeOK
<1> SUFFICES ASSUME Init PROVE TypeOK
  OBVIOUS
<1>1. \A g \in Legacy : LegacyRows[g] \in Accounts
  BY LegacyAssumption
<1>2. users \in SUBSET Users
  BY <1>1 DEF Init, Accounts
<1>3. DOMAIN rows = Legacy
  BY DEF Init
<1>4. \A g \in Legacy : rows[g] \in RowType
  BY <1>1 DEF Init, LegacyRow, Accounts, Grants, RowType
<1>5. rows \in [Legacy -> RowType]
  BY <1>4 DEF Init
<1> QED
  BY <1>2, <1>3, <1>5 DEF Init, TypeOK, Grants, RowType

\* Every step keeps it, because a request that stores a refresh has been granted one.
LEMMA NextType == TypeOK /\ Refreshing /\ [Next]_vars => TypeOK'
<1> SUFFICES ASSUME TypeOK, Refreshing, [Next]_vars PROVE TypeOK'
  OBVIOUS
<1> USE DEF TypeOK
<1>0. rows \in [DOMAIN rows -> RowType] /\ DOMAIN rows \subseteq Grants
  BY DEF RowType
<1>1. ASSUME NEW s \in SignIns, AppAuthRedirect(s) PROVE TypeOK'
  BY <1>1 DEF AppAuthRedirect, MoveTo, AuthURL
<1>2. ASSUME NEW s \in SignIns, Fail(s) PROVE TypeOK'
  BY <1>2 DEF Fail, MoveTo
<1>3. ASSUME NEW s \in SignIns, HandleAppAuthRedirect(s) PROVE TypeOK'
  BY <1>3 DEF HandleAppAuthRedirect, MoveTo, Called
<1>4. ASSUME NEW s \in SignIns, HandleAppleMusicRedirect(s) PROVE TypeOK'
  BY <1>4 DEF HandleAppleMusicRedirect, MoveTo, Called
<1>5. ASSUME NEW s \in SignIns, ReadVerifier(s) PROVE TypeOK'
  <2>1. verifier[account[s].app] \in SignIns \cup {None}
    BY DEF Accounts
  <2> QED
    BY <1>5, <2>1 DEF ReadVerifier, MoveTo, Called
<1>6. ASSUME NEW s \in SignIns, CompleteSpotifyAuth(s) PROVE TypeOK'
  BY <1>6 DEF CompleteSpotifyAuth, MoveTo, Called
<1>7. ASSUME NEW s \in SignIns, CompleteTidalAuth(s) PROVE TypeOK'
  BY <1>7 DEF CompleteTidalAuth, MoveTo, Called
<1>8. ASSUME NEW s \in SignIns, CompleteDeezerAuth(s) PROVE TypeOK'
  BY <1>8 DEF CompleteDeezerAuth, MoveTo, Called
<1>9. ASSUME NEW s \in SignIns, CreateUser(s) PROVE TypeOK'
  <2>1. account[s].user \in Users
    BY DEF Accounts
  <2> QED
    BY <1>9, <2>1 DEF CreateUser, MoveTo, Called
<1>10. ASSUME NEW s \in SignIns, FetchUserApp(s) PROVE TypeOK'
  <2>1. mine' \in [SignIns -> Grants \cup {None}]
    BY <1>10 DEF FetchUserApp
  <2>2. beside' \in [SignIns -> SUBSET SignIns]
    BY <1>10 DEF FetchUserApp, Beside
  <2>3. at' \in [SignIns -> {"idle", "away", "refused", "failed", "redirected"} \cup Called]
    BY <1>10 DEF FetchUserApp, MoveTo, Called, Storing
  <2> QED
    BY <1>10, <2>1, <2>2, <2>3 DEF FetchUserApp
<1>11. ASSUME NEW s \in SignIns, CreateUserApp(s) PROVE TypeOK'
  <2>1. Row(s) \in RowType
    BY RowOfAccount
  <2>2. rows' \in [DOMAIN rows' -> RowType] /\ DOMAIN rows' \subseteq Grants
    BY <1>0, <1>11, <2>1 DEF CreateUserApp, Grants
  <2>3. mine' \in [SignIns -> Grants \cup {None}]
    BY <1>11 DEF CreateUserApp, Grants
  <2>4. at' \in [SignIns -> {"idle", "away", "refused", "failed", "redirected"} \cup Called]
    BY <1>11 DEF CreateUserApp, MoveTo, Called, Storing
  <2> QED
    BY <1>11, <2>2, <2>3, <2>4 DEF CreateUserApp, RowType
<1>12. ASSUME NEW s \in SignIns, UpdateUserApp(s) PROVE TypeOK'
  <2>1. Row(s) \in RowType
    BY RowOfAccount
  <2>2. rows' \in [DOMAIN rows' -> RowType] /\ DOMAIN rows' = DOMAIN rows
    BY <1>0, <1>12, <2>1 DEF UpdateUserApp
  <2> QED
    BY <1>12, <2>2 DEF UpdateUserApp, MoveTo, Called, Storing, RowType
<1>13. ASSUME NEW s \in SignIns, UpdatePlatformUserNameIdAndToken(s) PROVE TypeOK'
  <2>1. Row(s) \in RowType
    BY RowOfAccount
  <2>2. ASSUME mine[s] \in DOMAIN rows
        PROVE  [Row(s) EXCEPT !.scopes = rows[mine[s]].scopes] \in RowType
    BY <1>0, <2>1, <2>2 DEF RowType
  <2>3. rows' \in [DOMAIN rows' -> RowType] /\ DOMAIN rows' = DOMAIN rows
    BY <1>0, <1>13, <2>2 DEF UpdatePlatformUserNameIdAndToken
  <2> QED
    BY <1>13, <2>3 DEF UpdatePlatformUserNameIdAndToken, MoveTo, RowType
<1>14. ASSUME NEW s \in SignIns, UpdateAppleMusicUser(s) PROVE TypeOK'
  BY <1>14 DEF UpdateAppleMusicUser, MoveTo
<1>15. ASSUME NEW id \in DOMAIN rows, Expire(id) PROVE TypeOK'
  BY <1>15 DEF Expire
<1>16. ASSUME NEW q \in Requests, NEW app \in Apps, FetchUserInfoByIdentifier(q, app)
       PROVE TypeOK'
  <2>1. \A id \in DOMAIN rows : rows[id].tokens \in Grants
    BY <1>0 DEF RowType
  <2>2. todo' \in [Requests -> SUBSET (Grants \X {1, 2})]
    <3>1. PICK u \in users : todo' = [todo EXCEPT ![q] =
            {rows[id].tokens : id \in {i \in DOMAIN rows :
               /\ Account(rows[i]) = [user |-> u, app |-> app, platform |-> "tidal"]
               /\ rows[i].expiry = "past" /\ <<app, "tidal">> \in Integrated}} \X {1, 2}]
      BY <1>16 DEF FetchUserInfoByIdentifier
    <3> DEFINE read == {rows[id].tokens : id \in {i \in DOMAIN rows :
               /\ Account(rows[i]) = [user |-> u, app |-> app, platform |-> "tidal"]
               /\ rows[i].expiry = "past" /\ <<app, "tidal">> \in Integrated}}
    <3>2. read \subseteq Grants
      BY <2>1
    <3>3. todo' = [todo EXCEPT ![q] = read \X {1, 2}]
      BY <3>1
    <3> HIDE DEF read
    <3> QED
      BY <3>2, <3>3
  <2>3. whose' \in [Requests -> Users]
    BY <1>16 DEF FetchUserInfoByIdentifier
  <2> QED
    BY <1>16, <2>2, <2>3 DEF FetchUserInfoByIdentifier
<1>17. ASSUME NEW q \in Requests, RefreshToken(q) PROVE TypeOK'
  BY <1>17 DEF RefreshToken
<1>18. ASSUME NEW q \in Requests, UpdateOAuthTokens(q) PROVE TypeOK'
  <2>1. fresh[q] \in Grants
    BY <1>18 DEF UpdateOAuthTokens, Refreshing
  <2>2. rows' \in [DOMAIN rows' -> RowType] /\ DOMAIN rows' = DOMAIN rows
    <3>1. \A row \in RowType : [row EXCEPT !.tokens = fresh[q], !.refreshed = TRUE,
                                        !.expiry = "ahead"] \in RowType
      BY <2>1 DEF RowType
    <3> QED
      BY <1>0, <1>18, <3>1 DEF UpdateOAuthTokens
  <2> QED
    BY <1>18, <2>2 DEF UpdateOAuthTokens, RowType
<1>19. ASSUME NEW q \in Requests, Answer(q) PROVE TypeOK'
  BY <1>19 DEF Answer
<1>20. ASSUME UNCHANGED vars PROVE TypeOK'
  BY <1>20 DEF vars
<1> QED
  BY <1>1, <1>2, <1>3, <1>4, <1>5, <1>6, <1>7, <1>8, <1>9, <1>10, <1>11, <1>12, <1>13,
     <1>14, <1>15, <1>16, <1>17, <1>18, <1>19, <1>20
     DEF Next, SignIn, CreateOrUpdateUserApp, Request

-----------------------------------------------------------------------------
(* Verifiers.                                                               *)

\* Every step keeps verifiers under their app, and a sign-in is refused only for one
\* that replaced its own.
LEMMA NextVerified ==
  ASSUME TypeOK, Verified, RefusedOnlyIfOverwritten, [Next]_vars
  PROVE  (Verified /\ RefusedOnlyIfOverwritten)'
<1>0. /\ \A s \in SignIns : account[s].app \in Apps /\ account'[s] = account[s]
      /\ None \notin SignIns
      /\ verifier \in [Apps -> SignIns \cup {None}]
  BY AccountsStay, NoneAssumption DEF TypeOK, Accounts, Grants
<1> USE DEF TypeOK, Verified, RefusedOnlyIfOverwritten
<1>1. ASSUME NEW s \in SignIns, AppAuthRedirect(s)
      PROVE  (Verified /\ RefusedOnlyIfOverwritten)'
  BY <1>0, <1>1 DEF AppAuthRedirect, MoveTo, AuthURL
<1>2. ASSUME NEW s \in SignIns, Fail(s)
      PROVE  (Verified /\ RefusedOnlyIfOverwritten)'
  BY <1>0, <1>2 DEF Fail, MoveTo, Called, Storing
<1>3. ASSUME NEW s \in SignIns, HandleAppAuthRedirect(s)
      PROVE  (Verified /\ RefusedOnlyIfOverwritten)'
  BY <1>0, <1>3 DEF HandleAppAuthRedirect, MoveTo
<1>4. ASSUME NEW s \in SignIns, ReadVerifier(s)
      PROVE  (Verified /\ RefusedOnlyIfOverwritten)'
  BY <1>0, <1>4 DEF ReadVerifier, MoveTo
<1>5. ASSUME NEW s \in SignIns, CompleteTidalAuth(s)
      PROVE  (Verified /\ RefusedOnlyIfOverwritten)'
  BY <1>0, <1>5 DEF CompleteTidalAuth, MoveTo
<1>6. ASSUME NEW s \in SignIns,
             \/ HandleAppleMusicRedirect(s) \/ CompleteSpotifyAuth(s)
             \/ CompleteDeezerAuth(s) \/ CreateUser(s) \/ CreateOrUpdateUserApp(s)
             \/ UpdatePlatformUserNameIdAndToken(s) \/ UpdateAppleMusicUser(s)
      PROVE  (Verified /\ RefusedOnlyIfOverwritten)'
  <2>1. /\ UNCHANGED <<verifier, raw, account>>
        /\ at[s] \in {"away"} \cup Called
        /\ \E l \in {"user", "lookup", "insert", "update", "profile", "redirected", "failed"} :
             at' = [at EXCEPT ![s] = l]
    BY <1>6 DEF HandleAppleMusicRedirect, CompleteSpotifyAuth, CompleteDeezerAuth, CreateUser,
       CreateOrUpdateUserApp, FetchUserApp, CreateUserApp, UpdateUserApp,
       UpdatePlatformUserNameIdAndToken, UpdateAppleMusicUser, MoveTo, Called, Storing
  <2> QED
    BY <1>0, <2>1 DEF Called, Storing
<1>7. ASSUME \/ \E id \in DOMAIN rows : Expire(id)
             \/ \E q \in Requests : Request(q)
             \/ UNCHANGED vars
      PROVE  (Verified /\ RefusedOnlyIfOverwritten)'
  <2>1. UNCHANGED <<verifier, at, account, raw>>
    BY <1>7 DEF Expire, Request, FetchUserInfoByIdentifier, RefreshToken, UpdateOAuthTokens,
       Answer, vars
  <2> QED
    BY <2>1
<1> QED
  BY <1>1, <1>2, <1>3, <1>4, <1>5, <1>6, <1>7 DEF Next, SignIn

-----------------------------------------------------------------------------
(* Rows and grants.                                                         *)

\* The steps that write rows.
LEMMA RowsWritten ==
  ASSUME [Next]_vars
  PROVE  \/ rows' = rows
         \/ \E s \in SignIns : /\ CreateUserApp(s)
                               /\ rows' = [id \in DOMAIN rows \cup {s} |->
                                             IF id = s THEN Row(s) ELSE rows[id]]
         \/ \E s \in SignIns : UpdateUserApp(s)
         \/ \E s \in SignIns : UpdatePlatformUserNameIdAndToken(s)
         \/ \E id \in DOMAIN rows : Expire(id)
         \/ \E q \in Requests : UpdateOAuthTokens(q)
BY DEF Next, SignIn, Request, vars, AppAuthRedirect, Fail, HandleAppAuthRedirect,
   HandleAppleMusicRedirect, ReadVerifier, CompleteSpotifyAuth, CompleteTidalAuth,
   CompleteDeezerAuth, CreateUser, CreateOrUpdateUserApp, FetchUserApp, CreateUserApp,
   UpdateAppleMusicUser, FetchUserInfoByIdentifier, RefreshToken, Answer

\* A sign-in's step leaves the others where they are, and other steps leave all.
LEMMA OthersStay ==
  ASSUME TypeOK, [Next]_vars
  PROVE  \/ UNCHANGED signInVars
         \/ \E s \in SignIns : /\ SignIn(s)
                               /\ \A t \in SignIns \ {s} : at'[t] = at[t] /\ mine'[t] = mine[t]
<1>1. ASSUME NEW s \in SignIns, SignIn(s)
      PROVE  \A t \in SignIns \ {s} : at'[t] = at[t] /\ mine'[t] = mine[t]
  <2>1. /\ \E l : at' = [at EXCEPT ![s] = l]
        /\ mine' = mine \/ \E id : mine' = [mine EXCEPT ![s] = id]
    BY <1>1 DEF SignIn, AppAuthRedirect, Fail, HandleAppAuthRedirect, HandleAppleMusicRedirect,
       ReadVerifier, CompleteSpotifyAuth, CompleteTidalAuth, CompleteDeezerAuth, CreateUser,
       CreateOrUpdateUserApp, FetchUserApp, CreateUserApp, UpdateUserApp,
       UpdatePlatformUserNameIdAndToken, UpdateAppleMusicUser, MoveTo
  <2> QED
    BY <2>1 DEF TypeOK
<1>2. \/ UNCHANGED signInVars \/ \E s \in SignIns : SignIn(s)
  BY DEF Next, Request, vars, Expire, FetchUserInfoByIdentifier, RefreshToken,
     UpdateOAuthTokens, Answer
<1> QED
  BY <1>1, <1>2

\* Every row but a new one keeps its account, and a new one is the sign-in's.
LEMMA RowsKept ==
  ASSUME TypeOK, Placed, [Next]_vars
  PROVE  /\ DOMAIN rows \subseteq DOMAIN rows'
         /\ \A id \in DOMAIN rows : Account(rows'[id]) = Account(rows[id])
         /\ \A id \in DOMAIN rows' \ DOMAIN rows :
              id \in SignIns /\ CreateUserApp(id) /\ Account(rows'[id]) = account[id]
<1>1. CASE rows' = rows
  BY <1>1
<1>2. CASE \E s \in SignIns : /\ CreateUserApp(s)
                              /\ rows' = [id \in DOMAIN rows \cup {s} |->
                                            IF id = s THEN Row(s) ELSE rows[id]]
  BY <1>2, RowOfAccount, GrantedTo DEF Placed
<1>3. CASE \E s \in SignIns : UpdateUserApp(s)
  BY <1>3, RowOfAccount DEF UpdateUserApp, Placed, TypeOK
<1>4. CASE \E s \in SignIns : UpdatePlatformUserNameIdAndToken(s)
  <2>1. PICK s \in SignIns : UpdatePlatformUserNameIdAndToken(s)
    BY <1>4
  <2>2. Account([Row(s) EXCEPT !.scopes = rows[mine[s]].scopes]) = account[s]
    BY RowOfAccount DEF Account, Row
  <2> QED
    BY <2>1, <2>2 DEF UpdatePlatformUserNameIdAndToken, Placed, TypeOK
<1>5. CASE \E id \in DOMAIN rows : Expire(id)
  BY <1>5 DEF Expire, Account, TypeOK
<1>6. CASE \E q \in Requests : UpdateOAuthTokens(q)
  BY <1>6, RefreshedRow
<1> QED
  BY <1>1, <1>2, <1>3, <1>4, <1>5, <1>6, RowsWritten

\* Every step keeps rows with their account, and sign-ins with their row.
LEMMA NextPlaced ==
  ASSUME TypeOK, Placed, [Next]_vars
  PROVE  Placed'
<1>1. \A id \in DOMAIN rows' : (Account(rows[id]) = Granted(id))'
  BY RowsKept, AccountsStay, GrantedTo DEF Placed
<1>2. ASSUME NEW s \in SignIns, at'[s] \in {"update", "profile"}
      PROVE  mine'[s] \in DOMAIN rows' /\ Account(rows'[mine'[s]]) = account'[s]
  <2>1. CASE at[s] \in {"update", "profile"} /\ mine'[s] = mine[s]
    BY <2>1, RowsKept, AccountsStay DEF Placed
  <2>2. CASE FetchUserApp(s)
    BY <1>2, <2>2, AccountsStay, RowsKept DEF FetchUserApp, MoveTo, TypeOK
  <2>3. CASE CreateUserApp(s)
    <3>1. mine'[s] = s /\ s \in DOMAIN rows'
      BY <1>2, <2>3 DEF CreateUserApp, MoveTo, TypeOK
    <3> QED
      BY <1>1, <3>1, GrantedTo, AccountsStay
  <2>4. \/ at[s] \in {"update", "profile"} /\ mine'[s] = mine[s]
        \/ FetchUserApp(s) \/ CreateUserApp(s)
    <3>1. ASSUME SignIn(s), ~FetchUserApp(s), ~CreateUserApp(s)
          PROVE  at[s] \in {"update", "profile"} /\ mine'[s] = mine[s]
      BY <1>2, <3>1 DEF SignIn, AppAuthRedirect, Fail, HandleAppAuthRedirect,
         HandleAppleMusicRedirect, ReadVerifier, CompleteSpotifyAuth, CompleteTidalAuth,
         CompleteDeezerAuth, CreateUser, CreateOrUpdateUserApp, UpdateUserApp,
         UpdatePlatformUserNameIdAndToken, UpdateAppleMusicUser, MoveTo, AuthURL, TypeOK
    <3> QED
      BY <1>2, <3>1, OthersStay
  <2> QED
    BY <2>1, <2>2, <2>3, <2>4
<1> QED
  BY <1>1, <1>2 DEF Placed

\* Every step keeps refreshes with the user they are made for.
LEMMA NextRefreshing ==
  ASSUME TypeOK, Refreshing, TokensOfOwnUser, [Next]_vars
  PROVE  Refreshing'
<1>1. \A g, u : OfTidal(g, u)' <=> OfTidal(g, u)
  BY AccountsStay DEF OfTidal
<1>2. CASE UNCHANGED <<todo, serving, fresh, whose>>
  BY <1>1, <1>2 DEF Refreshing
<1>3. ASSUME NEW q \in Requests, NEW app \in Apps, FetchUserInfoByIdentifier(q, app)
      PROVE  Refreshing'
  <2>1. \A job \in todo'[q] : OfTidal(job[1], whose'[q])
    <3>1. PICK u \in users :
            /\ whose' = [whose EXCEPT ![q] = u]
            /\ todo' = [todo EXCEPT ![q] =
                 {rows[id].tokens : id \in {i \in DOMAIN rows :
                    /\ Account(rows[i]) = [user |-> u, app |-> app, platform |-> "tidal"]
                    /\ rows[i].expiry = "past" /\ <<app, "tidal">> \in Integrated}} \X {1, 2}]
      BY <1>3 DEF FetchUserInfoByIdentifier
    <3>2. \A id \in DOMAIN rows :
            Account(rows[id]) = [user |-> u, app |-> app, platform |-> "tidal"] =>
              OfTidal(rows[id].tokens, u)
      BY DEF TokensOfOwnUser, OfTidal, Account
    <3>3. whose'[q] = u
      BY <3>1 DEF TypeOK
    <3> QED
      BY <3>1, <3>2, <3>3 DEF TypeOK
  <2>2. serving'[q] = "tokens"
    BY <1>3 DEF FetchUserInfoByIdentifier, TypeOK
  <2>3. \A r \in Requests \ {q} : /\ todo'[r] = todo[r] /\ whose'[r] = whose[r]
                                  /\ serving'[r] = serving[r] /\ fresh'[r] = fresh[r]
    BY <1>3 DEF FetchUserInfoByIdentifier, TypeOK
  <2> QED
    BY <1>1, <2>1, <2>2, <2>3 DEF Refreshing
<1>4. ASSUME NEW q \in Requests, RefreshToken(q) PROVE Refreshing'
  <2>1. PICK job \in todo[q] :
          /\ todo' = [todo EXCEPT ![q] = @ \ {job}]
          /\ \/ /\ fresh' = [fresh EXCEPT ![q] = job[1]]
                /\ serving' = [serving EXCEPT ![q] = "refreshed"]
             \/ UNCHANGED <<fresh, serving>>
    BY <1>4 DEF RefreshToken
  <2>2. job[1] \in Grants /\ OfTidal(job[1], whose[q]) /\ whose' = whose
    BY <1>4 DEF RefreshToken, TypeOK, Refreshing
  <2> QED
    BY <1>1, <2>1, <2>2 DEF TypeOK, Refreshing
<1>5. ASSUME NEW q \in Requests, UpdateOAuthTokens(q) PROVE Refreshing'
  BY <1>1, <1>5 DEF UpdateOAuthTokens, TypeOK, Refreshing
<1>6. ASSUME NEW q \in Requests, Answer(q) PROVE Refreshing'
  BY <1>1, <1>6 DEF Answer, TypeOK, Refreshing
<1>7. \/ UNCHANGED <<todo, serving, fresh, whose>>
      \/ \E q \in Requests : Request(q)
  BY DEF Next, SignIn, vars, AppAuthRedirect, Fail, HandleAppAuthRedirect,
     HandleAppleMusicRedirect, ReadVerifier, CompleteSpotifyAuth, CompleteTidalAuth,
     CompleteDeezerAuth, CreateUser, CreateOrUpdateUserApp, FetchUserApp, CreateUserApp,
     UpdateUserApp, UpdatePlatformUserNameIdAndToken, UpdateAppleMusicUser, Expire
<1> QED
  BY <1>2, <1>3, <1>4, <1>5, <1>6, <1>7 DEF Request

\* Every step keeps the tokens of a row with the row's user and platform, and those of
\* the row's app unless they are refreshed.
LEMMA NextTokens ==
  ASSUME TypeOK, Placed, Refreshing, TokensOfOwnUser, ForeignTokensAreRefreshed, [Next]_vars
  PROVE  (TokensOfOwnUser /\ ForeignTokensAreRefreshed)'
<1> DEFINE Own(row) == /\ Granted(row.tokens).user = row.user
                       /\ Granted(row.tokens).platform = row.platform
                       /\ Granted(row.tokens).app # row.app =>
                            row.refreshed /\ row.platform = "tidal"
<1>1. \A id \in DOMAIN rows : Own(rows[id])
  BY DEF TokensOfOwnUser, ForeignTokensAreRefreshed
<1>2. \A s \in SignIns : Own(Row(s)) /\ Own([Row(s) EXCEPT !.scopes = rows[mine[s]].scopes])
  BY GrantedTo, RowOfAccount DEF Row
<1>3. SUFFICES \A id \in DOMAIN rows' : Own(rows'[id])
  BY AccountsStay DEF TokensOfOwnUser, ForeignTokensAreRefreshed
<1> HIDE DEF Own
<1>4. CASE rows' = rows
  BY <1>1, <1>4
<1>5. CASE \E s \in SignIns : /\ CreateUserApp(s)
                              /\ rows' = [id \in DOMAIN rows \cup {s} |->
                                            IF id = s THEN Row(s) ELSE rows[id]]
  BY <1>1, <1>2, <1>5
<1>6. CASE \E s \in SignIns : UpdateUserApp(s)
  BY <1>1, <1>2, <1>6 DEF UpdateUserApp, TypeOK
<1>7. CASE \E s \in SignIns : UpdatePlatformUserNameIdAndToken(s)
  BY <1>1, <1>2, <1>7 DEF UpdatePlatformUserNameIdAndToken, TypeOK
<1>8. ASSUME NEW id \in DOMAIN rows, Expire(id) PROVE \A i \in DOMAIN rows' : Own(rows'[i])
  <2>1. Own([rows[id] EXCEPT !.expiry = "past"])
    BY <1>1 DEF Own, TypeOK
  <2> QED
    BY <1>1, <1>8, <2>1 DEF Expire, TypeOK
<1>9. ASSUME NEW q \in Requests, UpdateOAuthTokens(q)
      PROVE  \A id \in DOMAIN rows' : Own(rows'[id])
  <2>1. OfTidal(fresh[q], whose[q])
    BY <1>9 DEF UpdateOAuthTokens, Refreshing
  <2>2. \A row \in RowType :
          row.user = whose[q] /\ row.platform = "tidal" =>
            Own([row EXCEPT !.tokens = fresh[q], !.refreshed = TRUE, !.expiry = "ahead"])
    BY <2>1 DEF Own, OfTidal, RowType
  <2>3. \A id \in DOMAIN rows : rows[id] \in RowType
    BY DEF TypeOK, RowType
  <2> QED
    BY <1>1, <1>9, <2>2, <2>3 DEF UpdateOAuthTokens
<1> QED
  BY <1>4, <1>5, <1>6, <1>7, <1>8, <1>9, RowsWritten

-----------------------------------------------------------------------------
(* Sign-ins beside each other.                                              *)

\* What was stored beside a sign-in is never forgotten.
LEMMA BesideGrows ==
  ASSUME TypeOK, [Next]_vars
  PROVE  \/ beside' = beside
         \/ \E s \in SignIns : /\ FetchUserApp(s)
                               /\ \A t \in SignIns : beside[t] \subseteq beside'[t]
<1>1. beside' = beside \/ \E s \in SignIns : FetchUserApp(s)
  BY DEF Next, SignIn, Request, vars, AppAuthRedirect, Fail, HandleAppAuthRedirect,
     HandleAppleMusicRedirect, ReadVerifier, CompleteSpotifyAuth, CompleteTidalAuth,
     CompleteDeezerAuth, CreateUser, CreateOrUpdateUserApp, CreateUserApp, UpdateUserApp,
     UpdatePlatformUserNameIdAndToken, UpdateAppleMusicUser, Expire,
     FetchUserInfoByIdentifier, RefreshToken, UpdateOAuthTokens, Answer
<1>2. ASSUME NEW s \in SignIns, FetchUserApp(s)
      PROVE  \A t \in SignIns : beside[t] \subseteq beside'[t]
  BY <1>2 DEF FetchUserApp
<1> QED
  BY <1>1, <1>2

\* A sign-in starts to be stored with the lookup, and goes on with the row it found or
\* inserted until its last update.
LEMMA StoringSteps ==
  ASSUME TypeOK, [Next]_vars, NEW s \in SignIns
  PROVE  /\ at'[s] \in Storing => at[s] \in Storing \/ FetchUserApp(s)
         /\ at'[s] = "insert" => at[s] = "insert" \/ FetchUserApp(s)
         /\ at'[s] = "profile" => \/ at[s] = "profile" /\ mine'[s] = mine[s]
                                  \/ UpdateUserApp(s)
<1>1. CASE at'[s] = at[s] /\ mine'[s] = mine[s]
  BY <1>1
<1>2. CASE FetchUserApp(s)
  BY <1>2 DEF FetchUserApp, MoveTo, TypeOK
<1>3. CASE CreateUserApp(s) \/ UpdateUserApp(s)
  BY <1>3 DEF CreateUserApp, UpdateUserApp, MoveTo, TypeOK, Storing
<1>4. CASE SignIn(s) /\ ~CreateOrUpdateUserApp(s)
  <2>1. at'[s] \notin Storing
    BY <1>4 DEF SignIn, AppAuthRedirect, Fail, HandleAppAuthRedirect,
       HandleAppleMusicRedirect, ReadVerifier, CompleteSpotifyAuth, CompleteTidalAuth,
       CompleteDeezerAuth, CreateUser, UpdatePlatformUserNameIdAndToken,
       UpdateAppleMusicUser, MoveTo, AuthURL, TypeOK, Storing
  <2> QED
    BY <2>1 DEF Storing
<1> QED
  BY <1>1, <1>2, <1>3, <1>4, OthersStay DEF CreateOrUpdateUserApp

\* Every step keeps sign-ins that are stored to one account at the same time aware of
\* each other.
LEMMA NextBeside ==
  ASSUME TypeOK, Overlapping, [Next]_vars
  PROVE  /\ \A s, t \in SignIns : t \in beside'[s] => s \in beside'[t]
         /\ \A s \in SignIns : at'[s] \in Storing => Beside(s)' \subseteq beside'[s]
<1>1. CASE beside' = beside /\ \A s \in SignIns : ~FetchUserApp(s)
  <2>1. \A s \in SignIns : at'[s] \in Storing => at[s] \in Storing
    BY <1>1, StoringSteps
  <2> QED
    BY <1>1, <2>1, AccountsStay DEF Overlapping, Beside
<1>2. ASSUME NEW s \in SignIns, FetchUserApp(s)
      PROVE  /\ \A r, t \in SignIns : t \in beside'[r] => r \in beside'[t]
             /\ \A r \in SignIns : at'[r] \in Storing => Beside(r)' \subseteq beside'[r]
  <2>1. beside' = [t \in SignIns |-> IF t = s THEN beside[s] \cup Beside(s)
                                     ELSE IF t \in Beside(s) THEN beside[t] \cup {s}
                                     ELSE beside[t]]
    BY <1>2 DEF FetchUserApp
  <2>2. \A r, t \in SignIns : t \in beside[r] => r \in beside[t]
    BY DEF Overlapping
  <2>3. Beside(s) \subseteq SignIns \ {s} /\ s \notin Beside(s)
    BY DEF Beside
  <2>4. \A r, t \in SignIns : t \in beside'[r] => r \in beside'[t]
    BY <2>1, <2>2, <2>3
  <2>5. \A t \in SignIns \ {s} : at'[t] = at[t]
    BY <1>2 DEF FetchUserApp, MoveTo, TypeOK
  <2>6. ASSUME NEW r \in SignIns, NEW t \in Beside(r)', at'[r] \in Storing
        PROVE  t \in beside'[r]
    <3>1. t \in SignIns \ {r} /\ at'[t] \in Storing /\ account[t] = account[r]
      BY AccountsStay DEF Beside
    <3>2. CASE r = s
      BY <2>1, <2>5, <3>1, <3>2 DEF Beside
    <3>3. CASE t = s
      <4>1. r \in Beside(s)
        BY <2>5, <2>6, <3>1, <3>3 DEF Beside
      <4> QED
        BY <2>1, <3>1, <3>3, <4>1
    <3>4. CASE r # s /\ t # s
      <4>1. t \in Beside(r) /\ at[r] \in Storing
        BY <2>5, <2>6, <3>1, <3>4 DEF Beside
      <4> QED
        BY <2>1, <3>4, <4>1 DEF Overlapping
    <3> QED
      BY <3>2, <3>3, <3>4
  <2> QED
    BY <2>4, <2>6
<1> QED
  BY <1>1, <1>2, BesideGrows

\* A sign-in that finds no row of its account inserts one; whatever rows the account
\* has by then were inserted beside it.
LEMMA NextInserts ==
  ASSUME TypeOK, Placed, Overlapping, DuplicatesOnlyByOverlap, [Next]_vars
  PROVE  /\ \A s \in SignIns : at'[s] = "insert" =>
              \A id \in DOMAIN rows' : Account(rows'[id]) = account[s] => id \in beside'[s]
         /\ DuplicatesOnlyByOverlap'
<1>0. /\ \A s \in SignIns : beside[s] \subseteq beside'[s] /\ beside'[s] \subseteq SignIns
      /\ \A s, t \in SignIns : t \in beside'[s] => s \in beside'[t]
  BY BesideGrows, NextBeside DEF TypeOK, FetchUserApp, Beside
<1>1. ASSUME NEW s \in SignIns, at'[s] = "insert",
             NEW id \in DOMAIN rows', Account(rows'[id]) = account[s]
      PROVE  id \in beside'[s]
  <2>1. CASE FetchUserApp(s)
    <3>1. rows' = rows /\ \A i \in DOMAIN rows : Account(rows[i]) # account[s]
      BY <1>1, <2>1 DEF FetchUserApp, MoveTo, TypeOK
    <3> QED
      BY <1>1, <3>1
  <2>2. CASE at[s] = "insert"
    <3>1. CASE id \in DOMAIN rows
      BY <1>0, <1>1, <2>2, <3>1, RowsKept DEF Overlapping
    <3>2. CASE id \notin DOMAIN rows
      <4>1. id \in SignIns /\ CreateUserApp(id) /\ account[id] = account[s]
        BY <1>1, <3>2, RowsKept
      <4>2. id # s
        BY <1>1, <4>1 DEF CreateUserApp, MoveTo, TypeOK
      <4>3. id \in Beside(s)
        BY <4>1, <4>2 DEF CreateUserApp, Beside, Storing
      <4> QED
        BY <1>0, <2>2, <4>3 DEF Overlapping, Storing
    <3> QED
      BY <3>1, <3>2
  <2> QED
    BY <1>1, <2>1, <2>2, StoringSteps
<1>2. ASSUME NEW i \in DOMAIN rows', NEW j \in DOMAIN rows', i # j,
             Account(rows'[i]) = Account(rows'[j])
      PROVE  \/ {i, j} \subseteq Legacy
             \/ i \in SignIns /\ j \in SignIns /\ i \in beside'[j]
  <2>1. CASE i \in DOMAIN rows /\ j \in DOMAIN rows
    BY <1>0, <1>2, <2>1, RowsKept DEF DuplicatesOnlyByOverlap
  <2>2. ASSUME NEW s \in DOMAIN rows' \ DOMAIN rows, NEW id \in DOMAIN rows,
               Account(rows'[id]) = Account(rows'[s])
        PROVE  s \in SignIns /\ id \in beside'[s]
    <3>1. s \in SignIns /\ CreateUserApp(s) /\ Account(rows[id]) = account[s]
      BY <2>2, RowsKept
    <3> QED
      BY <1>0, <3>1 DEF CreateUserApp, Overlapping
  <2>3. CASE i \in DOMAIN rows /\ j \notin DOMAIN rows
    BY <1>0, <1>2, <2>2, <2>3
  <2>4. CASE i \notin DOMAIN rows /\ j \in DOMAIN rows
    BY <1>0, <1>2, <2>2, <2>4
  <2>5. i \in DOMAIN rows \/ j \in DOMAIN rows
    <3>1. \A s \in DOMAIN rows' \ DOMAIN rows : DOMAIN rows' \subseteq DOMAIN rows \cup {s}
      BY RowsKept DEF CreateUserApp
    <3> QED
      BY <1>2, <3>1
  <2> QED
    BY <2>1, <2>3, <2>4, <2>5
<1> QED
  BY <1>1, <1>2 DEF DuplicatesOnlyByOverlap

\* The scopes a sign-in finds in its row for the last update are its own, or those of a
\* sign-in beside it; so are those the update leaves.
LEMMA NextScopes ==
  ASSUME TypeOK, Placed, Overlapping, ScopesFitTokens, [Next]_vars
  PROVE  /\ \A s \in SignIns : at'[s] = "profile" =>
              rows'[mine'[s]].scopes \in beside'[s] \cup {s}
         /\ ScopesFitTokens'
<1>0. \A s \in SignIns : beside[s] \subseteq beside'[s]
  BY BesideGrows
<1>1. ASSUME NEW s \in SignIns, at'[s] = "profile"
      PROVE  rows'[mine'[s]].scopes \in beside'[s] \cup {s}
  <2>1. CASE UpdateUserApp(s)
    BY <2>1, RowOfAccount DEF UpdateUserApp, Placed, TypeOK
  <2>2. CASE at[s] = "profile" /\ mine'[s] = mine[s]
    <3>1. /\ mine[s] \in DOMAIN rows /\ Account(rows[mine[s]]) = account[s]
          /\ rows[mine[s]].scopes \in beside'[s] \cup {s}
      BY <1>0, <2>2 DEF Placed, Overlapping
    <3>2. \A t \in SignIns : t # s /\ at[t] \in Storing /\ account[t] = account[s] =>
            t \in beside'[s]
      BY <1>0, <2>2 DEF Overlapping, Beside, Storing
    <3>3. CASE rows' = rows
      BY <2>2, <3>1, <3>3
    <3>4. ASSUME NEW t \in SignIns, CreateUserApp(t),
                 rows' = [id \in DOMAIN rows \cup {t} |-> IF id = t THEN Row(t) ELSE rows[id]]
          PROVE  rows'[mine[s]].scopes \in beside'[s] \cup {s}
      <4>1. mine[s] = t => account[t] = account[s]
        BY <3>1, GrantedTo DEF Placed
      <4> QED
        BY <3>1, <3>2, <3>4, <4>1, RowOfAccount DEF CreateUserApp, Storing
    <3>5. ASSUME NEW t \in SignIns, UpdateUserApp(t)
          PROVE  rows'[mine[s]].scopes \in beside'[s] \cup {s}
      <4>1. mine[t] = mine[s] => account[t] = account[s]
        BY <3>1, <3>5 DEF Placed, UpdateUserApp
      <4> QED
        BY <3>1, <3>2, <3>5, <4>1, RowOfAccount DEF UpdateUserApp, Storing, TypeOK
    <3>6. ASSUME NEW t \in SignIns, UpdatePlatformUserNameIdAndToken(t)
          PROVE  rows'[mine[s]].scopes = rows[mine[s]].scopes
      <4>1. [Row(t) EXCEPT !.scopes = rows[mine[t]].scopes].scopes = rows[mine[t]].scopes
        BY DEF Row
      <4> QED
        BY <3>1, <3>6, <4>1 DEF UpdatePlatformUserNameIdAndToken, TypeOK
    <3>7. ASSUME \/ \E id \in DOMAIN rows : Expire(id)
                 \/ \E q \in Requests : UpdateOAuthTokens(q)
          PROVE  rows'[mine[s]].scopes = rows[mine[s]].scopes
      BY <3>1, <3>7, RefreshedRow DEF Expire, TypeOK
    <3> QED
      BY <2>2, <3>1, <3>3, <3>4, <3>5, <3>6, <3>7, RowsWritten
  <2> QED
    BY <1>1, <2>1, <2>2, StoringSteps
<1> DEFINE Fit(row, kept) == ~row.refreshed /\ row.tokens # row.scopes =>
                               row.tokens \in SignIns /\ row.scopes \in kept[row.tokens]
<1>2. \A id \in DOMAIN rows : Fit(rows[id], beside')
  BY <1>0 DEF ScopesFitTokens
<1>3. SUFFICES \A id \in DOMAIN rows' : Fit(rows'[id], beside')
  BY <1>1 DEF ScopesFitTokens
<1>4. \A s \in SignIns : Fit(Row(s), beside')
  BY RowOfAccount
<1>5. ASSUME NEW s \in SignIns, at[s] = "profile"
      PROVE  Fit([Row(s) EXCEPT !.scopes = rows[mine[s]].scopes], beside')
  BY <1>0, <1>5 DEF Overlapping, Row
<1>6. ASSUME NEW id \in DOMAIN rows, Expire(id) PROVE Fit(rows'[id], beside')
  BY <1>2, <1>6 DEF Expire, TypeOK
<1>7. ASSUME NEW q \in Requests, UpdateOAuthTokens(q), NEW id \in DOMAIN rows
      PROVE  Fit(rows'[id], beside')
  BY <1>2, <1>7, RefreshedRow
<1> HIDE DEF Fit
<1>8. CASE rows' = rows
  BY <1>2, <1>8
<1>9. CASE \E s \in SignIns : /\ CreateUserApp(s)
                              /\ rows' = [id \in DOMAIN rows \cup {s} |->
                                            IF id = s THEN Row(s) ELSE rows[id]]
  BY <1>2, <1>4, <1>9
<1>10. CASE \E s \in SignIns : UpdateUserApp(s)
  BY <1>2, <1>4, <1>10 DEF UpdateUserApp, TypeOK
<1>11. CASE \E s \in SignIns : UpdatePlatformUserNameIdAndToken(s)
  BY <1>2, <1>5, <1>11 DEF UpdatePlatformUserNameIdAndToken, TypeOK
<1>12. CASE \E id \in DOMAIN rows : Expire(id)
  BY <1>2, <1>6, <1>12 DEF Expire, TypeOK
<1>13. CASE \E q \in Requests : UpdateOAuthTokens(q)
  BY <1>7, <1>13 DEF UpdateOAuthTokens
<1> QED
  BY <1>8, <1>9, <1>10, <1>11, <1>12, <1>13, RowsWritten

-----------------------------------------------------------------------------
(* The inductive invariant and its consequences.                            *)

\* The invariant holds at the start.
LEMMA InitIInv == Init => IInv
<1> SUFFICES ASSUME Init PROVE IInv
  OBVIOUS
<1>1. TypeOK
  BY InitType
<1>2. DOMAIN rows = Legacy /\ \A g \in Legacy : rows[g] = LegacyRow(g)
  BY DEF Init
<1>3. \A g \in Legacy : Granted(g) = LegacyRows[g] /\ LegacyRows[g] \in Accounts
  BY <1>1, GrantedTo
<1>4. \A g \in Legacy : Account(rows[g]) = Granted(g)
  BY <1>2, <1>3 DEF Account, LegacyRow, Accounts
<1>5. Placed
  BY <1>2, <1>4 DEF Init, Placed
<1>6. TokensOfOwnUser /\ ForeignTokensAreRefreshed /\ ScopesFitTokens
  BY <1>2, <1>3 DEF TokensOfOwnUser, ForeignTokensAreRefreshed, ScopesFitTokens, LegacyRow
<1>7. Verified /\ RefusedOnlyIfOverwritten /\ Refreshing
  BY DEF Init, Verified, RefusedOnlyIfOverwritten, Refreshing
<1>8. Overlapping
  BY DEF Init, Overlapping, Storing
<1>9. DuplicatesOnlyByOverlap
  BY <1>2 DEF DuplicatesOnlyByOverlap
<1> QED
  BY <1>1, <1>5, <1>6, <1>7, <1>8, <1>9 DEF IInv

\* Every step keeps it.
LEMMA NextIInv == IInv /\ [Next]_vars => IInv'
<1> SUFFICES ASSUME IInv, [Next]_vars PROVE IInv'
  OBVIOUS
<1>1. TypeOK'
  BY NextType DEF IInv
<1>2. (Verified /\ RefusedOnlyIfOverwritten)'
  BY NextVerified DEF IInv
<1>3. Placed' /\ Refreshing'
  BY NextPlaced, NextRefreshing DEF IInv
<1>4. (TokensOfOwnUser /\ ForeignTokensAreRefreshed)'
  BY NextTokens DEF IInv
<1>5. Overlapping' /\ DuplicatesOnlyByOverlap' /\ ScopesFitTokens'
  BY NextBeside, NextInserts, NextScopes, AccountsStay DEF IInv, Overlapping
<1> QED
  BY <1>1, <1>2, <1>3, <1>4, <1>5 DEF IInv

\* It holds in every behaviour.
LEMMA Invariant == Spec => []IInv
BY InitIInv, NextIInv, PTL DEF Spec

\* The state keeps its type in every behaviour.
THEOREM TypeCorrect == Spec => []TypeOK
<1>1. IInv => TypeOK
  BY DEF IInv
<1> QED
  BY <1>1, Invariant, PTL

\* No row ever holds tokens of another user or another platform than its own.
THEOREM Tokens_OfOwnUser == Spec => []TokensOfOwnUser
<1>1. IInv => TokensOfOwnUser
  BY DEF IInv
<1> QED
  BY <1>1, Invariant, PTL

\* Tokens granted to another app come into a row by a refresh on Tidal alone.
THEOREM ForeignTokens_AreRefreshed == Spec => []ForeignTokensAreRefreshed
<1>1. IInv => ForeignTokensAreRefreshed
  BY DEF IInv
<1> QED
  BY <1>1, Invariant, PTL

\* An account gets a second row only by sign-ins that were stored at the same time.
THEOREM Duplicates_OnlyByOverlap == Spec => []DuplicatesOnlyByOverlap
<1>1. IInv => DuplicatesOnlyByOverlap
  BY DEF IInv
<1> QED
  BY <1>1, Invariant, PTL

\* Tokens and scopes of a row part only by a refresh, or by sign-ins that were stored
\* at the same time.
THEOREM Scopes_FitTokens == Spec => []ScopesFitTokens
<1>1. IInv => ScopesFitTokens
  BY DEF IInv
<1> QED
  BY <1>1, Invariant, PTL

\* A verifier is refused only on Tidal and only after a later sign-in to the same app.
THEOREM Refused_OnlyIfOverwritten == Spec => []RefusedOnlyIfOverwritten
<1>1. IInv => RefusedOnlyIfOverwritten
  BY DEF IInv
<1> QED
  BY <1>1, Invariant, PTL
=============================================================================
