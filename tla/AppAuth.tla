------------------------------ MODULE AppAuth ------------------------------
(***************************************************************************)
(* Users connect their accounts on music platforms to a developer's app:   *)
(* /connect sends a user to the platform, /callback comes back with a code *)
(* and stores the tokens in a row of user_apps, one query after another    *)
(* and without a transaction.  Requests to /account refresh Tidal tokens   *)
(* that have expired.  Several sign-ins and requests are served at once.   *)
(* Tokens and scopes are named by the sign-in they were granted to, and a  *)
(* code verifier by the sign-in it was generated for.                      *)
(***************************************************************************)
EXTENDS Naturals

CONSTANTS
  SignIns,      \* sign-ins, each begun by one request to /connect
  Requests,     \* requests to /account that may be served at once
  Users, Apps,
  Integrated,   \* the platforms each app has credentials of, as pairs
  LegacyRows,   \* rows from before expires_in was added, by id
  None

Platforms == {"applemusic", "deezer", "spotify", "tidal"}
Legacy    == DOMAIN LegacyRows
Grants    == SignIns \cup Legacy
Accounts  == [user : Users, app : Apps, platform : Platforms]

ASSUME IntegratedAssumption == Integrated \subseteq Apps \X Platforms
ASSUME LegacyAssumption     == /\ LegacyRows \in [Legacy -> Accounts]
                               /\ Legacy \cap SignIns = {}
ASSUME NoneAssumption       == None \notin Grants

VARIABLES
  verifier,     \* "<app>-verifier-raw" in Redis
  users,        \* the rows of users, by email
  rows,         \* the rows of user_apps, by uuid
  at,           \* where each sign-in is
  account,      \* whose account of which platform it connects to which app
  raw,          \* the verifier its callback read
  mine,         \* the row its callback found or inserted
  beside,       \* history: the sign-ins stored to the same account beside it
  serving,      \* where each request to /account is
  whose,        \* the user it asks for
  todo,         \* the refreshes it has yet to make, with the tokens it read
  fresh         \* the tokens its last refresh brought

signInVars  == <<at, account, raw, mine, beside>>
requestVars == <<serving, whose, todo, fresh>>
vars == <<verifier, users, rows, signInVars, requestVars>>

-----------------------------------------------------------------------------
(* Sign-ins and rows.                                                       *)

\* What a sign-in, or a row's first sign-in, was granted tokens for.
Granted(g) == IF g \in Legacy THEN LegacyRows[g] ELSE account[g]

Account(row) == [user |-> row.user, app |-> row.app, platform |-> row.platform]

\* What a sign-in's callback stores.  Only Spotify's and Tidal's tokens expire.
Row(s) == [user |-> account[s].user, app |-> account[s].app,
           platform |-> account[s].platform,
           tokens |-> s, scopes |-> s, refreshed |-> FALSE,
           expiry |-> IF account[s].platform \in {"spotify", "tidal"} THEN "ahead" ELSE "none"]

LegacyRow(g) == [user |-> LegacyRows[g].user, app |-> LegacyRows[g].app,
                 platform |-> LegacyRows[g].platform,
                 tokens |-> g, scopes |-> g, refreshed |-> FALSE, expiry |-> "none"]

\* Where a sign-in is between its lookup of the row and its answer.
Storing == {"insert", "update", "profile"}
Beside(s) == {t \in SignIns \ {s} : at[t] \in Storing /\ account[t] = account[s]}

\* Where a callback is being served.
Called == {"called", "exchange", "user", "lookup"} \cup Storing

Init ==
  /\ verifier = [a \in Apps |-> None]
  /\ users = {LegacyRows[g].user : g \in Legacy}
  /\ rows = [g \in Legacy |-> LegacyRow(g)]
  /\ at = [s \in SignIns |-> "idle"]
  /\ account \in [SignIns -> Accounts]
  /\ raw = [s \in SignIns |-> None]
  /\ mine = [s \in SignIns |-> None]
  /\ beside = [s \in SignIns |-> {}]
  /\ serving = [q \in Requests |-> "idle"]
  /\ whose \in [Requests -> Users]
  /\ todo = [q \in Requests |-> {}]
  /\ fresh = [q \in Requests |-> None]

MoveTo(s, label) == at' = [at EXCEPT ![s] = label]

-----------------------------------------------------------------------------
(* /connect.                                                                *)

\* What the platform's branch answers: the URL of its sign-in page, or an error if
\* the app has no credentials of it.
AuthURL(s) == IF <<account[s].app, account[s].platform>> \in Integrated
              THEN "away" ELSE "failed"

\* Mutant: the key in Redis leaves the app out.
AppAuthRedirectAnyApp(s) ==
  /\ at[s] = "idle"
  /\ verifier' = [a \in Apps |-> s]
  /\ MoveTo(s, AuthURL(s))
  /\ UNCHANGED <<users, rows, account, raw, mine, beside, requestVars>>

\* AppAuthRedirect: the app is looked up, then the new verifier replaces the app's
\* last one, whatever the platform and before its credentials are looked at.
AppAuthRedirect(s) ==
  /\ at[s] = "idle"
  /\ verifier' = [verifier EXCEPT ![account[s].app] = s]
  /\ MoveTo(s, AuthURL(s))
  /\ UNCHANGED <<users, rows, account, raw, mine, beside, requestVars>>

-----------------------------------------------------------------------------
(* /callback.                                                               *)

\* Any call to a store or a platform may fail, the state expires and the user may
\* refuse: the callback answers an error, and what was stored stays.
Fail(s) ==
  /\ at[s] \in {"away"} \cup Called
  /\ MoveTo(s, "failed")
  /\ UNCHANGED <<verifier, users, rows, account, raw, mine, beside, requestVars>>

\* HandleAppAuthRedirect (GET): the state names the app and the platform; for
\* Deezer it is a static one of the app's.
HandleAppAuthRedirect(s) ==
  /\ at[s] = "away"
  /\ account[s].platform # "applemusic"
  /\ MoveTo(s, IF account[s].platform = "deezer" THEN "exchange" ELSE "called")
  /\ UNCHANGED <<verifier, users, rows, account, raw, mine, beside, requestVars>>

\* Spotify's and Tidal's branch read the verifier of the app.
ReadVerifier(s) ==
  /\ at[s] = "called"
  /\ raw' = [raw EXCEPT ![s] = verifier[account[s].app]]
  /\ MoveTo(s, "exchange")
  /\ UNCHANGED <<verifier, users, rows, account, mine, beside, requestVars>>

\* Spotify's CompleteUserAuth ignores the verifier, as its FetchAuthURL ignored the
\* challenge.
CompleteSpotifyAuth(s) ==
  /\ at[s] = "exchange" /\ account[s].platform = "spotify"
  /\ MoveTo(s, "user")
  /\ UNCHANGED <<verifier, users, rows, account, raw, mine, beside, requestVars>>

\* Tidal's sends it, and Tidal compares it with the challenge of the sign-in page.
CompleteTidalAuth(s) ==
  /\ at[s] = "exchange" /\ account[s].platform = "tidal"
  /\ MoveTo(s, IF raw[s] = s THEN "user" ELSE "refused")
  /\ UNCHANGED <<verifier, users, rows, account, raw, mine, beside, requestVars>>

CompleteDeezerAuth(s) ==
  /\ at[s] = "exchange" /\ account[s].platform = "deezer"
  /\ MoveTo(s, "user")
  /\ UNCHANGED <<verifier, users, rows, account, raw, mine, beside, requestVars>>

\* HandleAppAuthRedirect (POST): Apple Music's page posts the user's token.
HandleAppleMusicRedirect(s) ==
  /\ at[s] = "away" /\ account[s].platform = "applemusic"
  /\ MoveTo(s, "user")
  /\ UNCHANGED <<verifier, users, rows, account, raw, mine, beside, requestVars>>

\* CreateUserQuery inserts the user or touches the user's row; then the token the
\* redirect will carry is signed.
CreateUser(s) ==
  /\ at[s] = "user"
  /\ users' = users \cup {account[s].user}
  /\ MoveTo(s, "lookup")
  /\ UNCHANGED <<verifier, rows, account, raw, mine, beside, requestVars>>

\* Mutant: a row whose token has expired is not looked at.
FetchUserAppUnexpired(s) ==
  LET found == {id \in DOMAIN rows : /\ Account(rows[id]) = account[s]
                                     /\ rows[id].expiry # "past"}
  IN  /\ at[s] = "lookup"
      /\ \/ /\ found = {}
            /\ MoveTo(s, "insert")
            /\ UNCHANGED mine
         \/ \E id \in found : /\ mine' = [mine EXCEPT ![s] = id]
                              /\ MoveTo(s, "update")
      /\ beside' = [t \in SignIns |-> IF t = s THEN beside[s] \cup Beside(s)
                                      ELSE IF t \in Beside(s) THEN beside[t] \cup {s}
                                      ELSE beside[t]]
      /\ UNCHANGED <<verifier, users, rows, account, raw, requestVars>>

\* CreateOrUpdateUserApp, the lookup: the first row of the account, if any.
FetchUserApp(s) ==
  LET found == {id \in DOMAIN rows : Account(rows[id]) = account[s]}
  IN  /\ at[s] = "lookup"
      /\ \/ /\ found = {}
            /\ MoveTo(s, "insert")
            /\ UNCHANGED mine
         \/ \E id \in found : /\ mine' = [mine EXCEPT ![s] = id]
                              /\ MoveTo(s, "update")
      /\ beside' = [t \in SignIns |-> IF t = s THEN beside[s] \cup Beside(s)
                                      ELSE IF t \in Beside(s) THEN beside[t] \cup {s}
                                      ELSE beside[t]]
      /\ UNCHANGED <<verifier, users, rows, account, raw, requestVars>>

\* CreateOrUpdateUserApp, the insert.  Deezer's and Apple Music's expires_in is the
\* empty string, which the column's type does not take.
CreateUserApp(s) ==
  /\ at[s] = "insert"
  /\ IF Row(s).expiry = "none"
     THEN MoveTo(s, "failed") /\ UNCHANGED <<rows, mine>>
     ELSE /\ rows' = [id \in DOMAIN rows \cup {s} |-> IF id = s THEN Row(s) ELSE rows[id]]
          /\ mine' = [mine EXCEPT ![s] = s]
          /\ MoveTo(s, "update")
  /\ UNCHANGED <<verifier, users, account, raw, beside, requestVars>>

\* Mutant: the tokens are left for the last query, the scopes are not.
UpdateUserAppScopesOnly(s) ==
  /\ at[s] = "update"
  /\ rows' = [rows EXCEPT ![mine[s]].scopes = s]
  /\ MoveTo(s, "profile")
  /\ UNCHANGED <<verifier, users, account, raw, mine, beside, requestVars>>

\* CreateOrUpdateUserApp, the update of the row by its uuid, after an insert too.
UpdateUserApp(s) ==
  /\ at[s] = "update"
  /\ rows' = [rows EXCEPT ![mine[s]] = Row(s)]
  /\ MoveTo(s, "profile")
  /\ UNCHANGED <<verifier, users, account, raw, mine, beside, requestVars>>

\* Mutant: every row of the user on the platform gets the tokens.
UpdatePlatformOfAllApps(s) ==
  /\ at[s] = "profile" /\ account[s].platform # "applemusic"
  /\ rows' = [id \in DOMAIN rows |->
                IF /\ rows[id].user = account[s].user
                   /\ rows[id].platform = account[s].platform
                THEN [Row(s) EXCEPT !.app = rows[id].app, !.scopes = rows[id].scopes]
                ELSE rows[id]]
  /\ MoveTo(s, "redirected")
  /\ UNCHANGED <<verifier, users, account, raw, mine, beside, requestVars>>

\* UpdatePlatformUserNameIdAndToken writes the tokens again, beside the user's name,
\* and the user is redirected to the app.
UpdatePlatformUserNameIdAndToken(s) ==
  /\ at[s] = "profile" /\ account[s].platform # "applemusic"
  /\ rows' = [rows EXCEPT ![mine[s]] = [Row(s) EXCEPT !.scopes = rows[mine[s]].scopes]]
  /\ MoveTo(s, "redirected")
  /\ UNCHANGED <<verifier, users, account, raw, mine, beside, requestVars>>

\* Apple Music's branch runs the query with six of its eight arguments.
UpdateAppleMusicUser(s) ==
  /\ at[s] = "profile" /\ account[s].platform = "applemusic"
  /\ MoveTo(s, "failed")
  /\ UNCHANGED <<verifier, users, rows, account, raw, mine, beside, requestVars>>

CreateOrUpdateUserApp(s) == FetchUserApp(s) \/ CreateUserApp(s) \/ UpdateUserApp(s)

SignIn(s) == \/ AppAuthRedirect(s) \/ Fail(s)
             \/ HandleAppAuthRedirect(s) \/ HandleAppleMusicRedirect(s)
             \/ ReadVerifier(s)
             \/ CompleteSpotifyAuth(s) \/ CompleteTidalAuth(s) \/ CompleteDeezerAuth(s)
             \/ CreateUser(s) \/ CreateOrUpdateUserApp(s)
             \/ UpdatePlatformUserNameIdAndToken(s) \/ UpdateAppleMusicUser(s)

-----------------------------------------------------------------------------
(* /account and the refresh of Tidal's tokens.                              *)

\* A token's hour is over.
Expire(id) ==
  /\ rows[id].expiry = "ahead"
  /\ rows' = [rows EXCEPT ![id].expiry = "past"]
  /\ UNCHANGED <<verifier, users, signInVars, requestVars>>

\* FetchUserInfoByIdentifier reads all rows of the user in the app at once and then
\* asks for the user's info row by row, for Tidal twice.  Tokens (tidal/user.go)
\* refreshes those that expired; a row without an expiry is an error.
FetchUserInfoByIdentifier(q, app) ==
  /\ serving[q] = "idle"
  /\ \E u \in users :
       /\ whose' = [whose EXCEPT ![q] = u]
       /\ todo' = [todo EXCEPT ![q] =
            {rows[id].tokens : id \in {i \in DOMAIN rows :
               /\ Account(rows[i]) = [user |-> u, app |-> app, platform |-> "tidal"]
               /\ rows[i].expiry = "past" /\ <<app, "tidal">> \in Integrated}} \X {1, 2}]
  /\ serving' = [serving EXCEPT ![q] = "tokens"]
  /\ UNCHANGED <<verifier, users, rows, signInVars, fresh>>

\* Mutant: a refused refresh is stored like a granted one.
RefreshTokenUnchecked(q) ==
  /\ serving[q] = "tokens"
  /\ \E job \in todo[q] :
       /\ todo' = [todo EXCEPT ![q] = @ \ {job}]
       /\ fresh' \in {[fresh EXCEPT ![q] = job[1]], [fresh EXCEPT ![q] = None]}
       /\ serving' = [serving EXCEPT ![q] = "refreshed"]
  /\ UNCHANGED <<verifier, users, rows, signInVars, whose>>

\* Tidal answers a refresh with new tokens of the same grant, or refuses it.
RefreshToken(q) ==
  /\ serving[q] = "tokens"
  /\ \E job \in todo[q] :
       /\ todo' = [todo EXCEPT ![q] = @ \ {job}]
       /\ \/ /\ fresh' = [fresh EXCEPT ![q] = job[1]]
             /\ serving' = [serving EXCEPT ![q] = "refreshed"]
          \/ UNCHANGED <<fresh, serving>>
  /\ UNCHANGED <<verifier, users, rows, signInVars, whose>>

\* Mutant: the rows are selected by platform alone.
UpdateOAuthTokensOfAll(q) ==
  /\ serving[q] = "refreshed"
  /\ rows' = [id \in DOMAIN rows |->
                IF rows[id].platform = "tidal"
                THEN [rows[id] EXCEPT !.tokens = fresh[q], !.refreshed = TRUE,
                                      !.expiry = "ahead"]
                ELSE rows[id]]
  /\ serving' = [serving EXCEPT ![q] = "tokens"]
  /\ UNCHANGED <<verifier, users, signInVars, whose, todo, fresh>>

\* UpdateOAuthTokens selects rows by user and platform: those of other apps as well.
UpdateOAuthTokens(q) ==
  /\ serving[q] = "refreshed"
  /\ rows' = [id \in DOMAIN rows |->
                IF rows[id].user = whose[q] /\ rows[id].platform = "tidal"
                THEN [rows[id] EXCEPT !.tokens = fresh[q], !.refreshed = TRUE,
                                      !.expiry = "ahead"]
                ELSE rows[id]]
  /\ serving' = [serving EXCEPT ![q] = "tokens"]
  /\ UNCHANGED <<verifier, users, signInVars, whose, todo, fresh>>

\* The request is answered, or given up after an error.
Answer(q) ==
  /\ serving[q] # "idle"
  /\ serving[q] = "tokens" => todo[q] = {}
  /\ serving' = [serving EXCEPT ![q] = "idle"]
  /\ todo' = [todo EXCEPT ![q] = {}]
  /\ fresh' = [fresh EXCEPT ![q] = None]
  /\ UNCHANGED <<verifier, users, rows, signInVars, whose>>

Request(q) == \/ \E app \in Apps : FetchUserInfoByIdentifier(q, app)
              \/ RefreshToken(q) \/ UpdateOAuthTokens(q) \/ Answer(q)

Next == \/ \E s \in SignIns : SignIn(s)
        \/ \E id \in DOMAIN rows : Expire(id)
        \/ \E q \in Requests : Request(q)

Spec == Init /\ [][Next]_vars

-----------------------------------------------------------------------------
(* Properties.                                                              *)

\* The type of the state.
TypeOK ==
  /\ verifier \in [Apps -> SignIns \cup {None}]
  /\ users \in SUBSET Users
  /\ DOMAIN rows \subseteq Grants
  /\ rows \in [DOMAIN rows -> [user : Users, app : Apps, platform : Platforms,
                               tokens : Grants, scopes : Grants, refreshed : BOOLEAN,
                               expiry : {"none", "ahead", "past"}]]
  /\ at \in [SignIns -> {"idle", "away", "refused", "failed", "redirected"} \cup Called]
  /\ account \in [SignIns -> Accounts]
  /\ raw \in [SignIns -> SignIns \cup {None}]
  /\ mine \in [SignIns -> Grants \cup {None}]
  /\ beside \in [SignIns -> SUBSET SignIns]
  /\ serving \in [Requests -> {"idle", "tokens", "refreshed"}]
  /\ whose \in [Requests -> Users]
  /\ todo \in [Requests -> SUBSET (Grants \X {1, 2})]
  /\ fresh \in [Requests -> Grants \cup {None}]

\* Whoever signs in or refreshes beside whom: the tokens of a row were granted to
\* the row's user, on the row's platform.
TokensOfOwnUser ==
  \A id \in DOMAIN rows :
    LET granted == Granted(rows[id].tokens) IN
      /\ granted.user = rows[id].user
      /\ granted.platform = rows[id].platform

\* Only a refresh (tidal/user.go) can bring the tokens of another app into a row;
\* sign-ins never touch the rows of other apps.
ForeignTokensAreRefreshed ==
  \A id \in DOMAIN rows :
    Granted(rows[id].tokens).app # rows[id].app =>
      rows[id].refreshed /\ rows[id].platform = "tidal"

\* Whatever rows there were, an account gets another one only if two sign-ins to it
\* were stored at the same time: CreateOrUpdateUserApp looks it up before it inserts.
DuplicatesOnlyByOverlap ==
  \A i, j \in DOMAIN rows :
    i # j /\ Account(rows[i]) = Account(rows[j]) =>
      \/ {i, j} \subseteq Legacy
      \/ i \in SignIns /\ j \in SignIns /\ i \in beside[j]

\* The scopes of a row are those its tokens were granted with, although two queries
\* write them, unless another sign-in was stored at the same time or they were
\* refreshed.  A callback that fails on the way does not part them.
ScopesFitTokens ==
  \A id \in DOMAIN rows :
    LET row == rows[id] IN
      ~row.refreshed /\ row.tokens # row.scopes =>
        row.tokens \in SignIns /\ row.scopes \in beside[row.tokens]

\* A sign-in is refused for its verifier only on Tidal, and only if somebody went to
\* /connect of the same app after it.
RefusedOnlyIfOverwritten ==
  \A s \in SignIns : at[s] = "refused" =>
    LET last == verifier[account[s].app] IN
      /\ account[s].platform = "tidal"
      /\ last \in SignIns \ {s} /\ account[last].app = account[s].app

-----------------------------------------------------------------------------
(* The inductive invariant.                                                 *)

\* Verifiers are kept under the app they were generated for, also by the callback
\* that read one; and a verifier that was overwritten does not come back.
Verified ==
  /\ \A a \in Apps : verifier[a] # None => account[verifier[a]].app = a
  /\ \A s \in SignIns :
       LET app == account[s].app IN
         /\ at[s] # "idle" => verifier[app] # None
         /\ at[s] = "exchange" /\ account[s].platform = "tidal" =>
              /\ raw[s] # None /\ account[raw[s]].app = app
              /\ raw[s] # s => verifier[app] # s

\* A row stays with the account it was inserted for, and a sign-in that goes on to
\* update a row has one of its own account.
Placed ==
  /\ \A id \in DOMAIN rows : Account(rows[id]) = Granted(id)
  /\ \A s \in SignIns : at[s] \in {"update", "profile"} =>
       mine[s] \in DOMAIN rows /\ Account(rows[mine[s]]) = account[s]

\* The grant g is the user's on Tidal.
OfTidal(g, user) == Granted(g).user = user /\ Granted(g).platform = "tidal"

\* A request refreshes only tokens of the user it asks for.
Refreshing ==
  \A q \in Requests :
    /\ \A job \in todo[q] : OfTidal(job[1], whose[q])
    /\ serving[q] = "refreshed" => fresh[q] \in Grants /\ OfTidal(fresh[q], whose[q])

\* Sign-ins that are stored to one account at the same time know of each other,
\* and so a sign-in that is about to insert a row, or to update it for the last
\* time, knows whose rows and whose scopes it will find.
Overlapping ==
  /\ \A s, t \in SignIns : t \in beside[s] => s \in beside[t]
  /\ \A s \in SignIns : at[s] \in Storing => Beside(s) \subseteq beside[s]
  /\ \A s \in SignIns : at[s] = "insert" =>
       \A id \in DOMAIN rows : Account(rows[id]) = account[s] => id \in beside[s]
  /\ \A s \in SignIns : at[s] = "profile" =>
       rows[mine[s]].scopes \in beside[s] \cup {s}

IInv == /\ TypeOK /\ Verified /\ Placed /\ Refreshing /\ Overlapping
        /\ TokensOfOwnUser /\ ForeignTokensAreRefreshed
        /\ DuplicatesOnlyByOverlap /\ ScopesFitTokens /\ RefusedOnlyIfOverwritten

-----------------------------------------------------------------------------
(* What comments in the repository say of it.                               *)

\* The migration says of user_apps.refresh_token: the refresh token for this user
\* for this app.
RefreshTokenForThisApp ==
  \A id \in DOMAIN rows : Granted(rows[id].tokens).app = rows[id].app
=============================================================================
