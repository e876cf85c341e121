--------------------------- MODULE DeveloperApps ---------------------------
(***************************************************************************)
(* The apps of a developer: a row of Postgres each, with an application    *)
(* and one endpoint on Svix under fixed uids derived from the row's uuid.  *)
(* CreateApp and UpdateApp take several calls to both, any of which may    *)
(* fail, and nothing is rolled back; the other requests of a developer are *)
(* one query.  The API's requests are let through by a key of the app.     *)
(* A field of an app's credentials is named by the request that set it; an *)
(* app's id and secret on a platform are handled alike and one field here. *)
(***************************************************************************)
EXTENDS Naturals

CONSTANTS
  Requests,    \* requests that may be served at once
  AppIds,      \* uuids of apps
  OldApps,     \* apps from before webhooks were sent through Svix
  Platforms,   \* bound: the platforms that credentials are passed for
  Urls,        \* webhook URLs
  None

Fields == {"id", "refresh"}

\* Platforms with a column for their credentials, and those whose credentials have a
\* refresh token.
Stored      == {"applemusic", "deezer", "spotify", "tidal"}
Refreshable == {"applemusic", "tidal"}

ASSUME OldAppsAssumption   == OldApps \subseteq AppIds
ASSUME PlatformsAssumption == Platforms \subseteq Stored \cup {"ytmusic"}
ASSUME NoneAssumption      ==
  None \notin Requests \cup Urls \cup AppIds \cup Platforms \cup {"secret", "public"}

VARIABLES
  rows,      \* the rows of apps, by uuid
  svix,      \* the applications on Svix, by uuid: the URL of the endpoint, if any
  at,        \* where each request is, or whether its last answer was a success
  app,       \* the app it creates or updates
  platform,  \* the platform whose credentials it passes, if any
  passed,    \* the fields it passes
  url,       \* the webhook URL it passes, then the one the row has
  merged,    \* the credentials it will write
  alone,     \* history: no other request has touched the app since it began
  key        \* the kind of key it presented, as long as that is the app's key

requestVars == <<at, app, platform, passed, url, merged, alone, key>>
vars == <<rows, svix, requestVars>>

-----------------------------------------------------------------------------
NoCredentials == [f \in Fields |-> None]

\* Mutant: the row is inserted with the webhook id it will have.
NewRowHooked(u) == [authorized |-> TRUE, hook |-> TRUE, url |-> u,
                    creds |-> [p \in Stored |-> NoCredentials]]

\* A row as CreateNewApp inserts it; the column authorized is true by default.
NewRow(u) == [authorized |-> TRUE, hook |-> FALSE, url |-> u,
              creds |-> [p \in Stored |-> NoCredentials]]

Creating  == {"creating app", "creating endpoint", "creating id", "creating creds"}
Updating  == {"write", "app", "endpoint", "id", "get", "put", "missing"}
Busy(r)   == at[r] \in Creating \cup Updating \cup {"checked"}
Free(r)   == at[r] \in {"idle", "served", "admitted"}

\* Apps of which nothing is left, so that a new one may have their uuid.
Unused == {a \in AppIds : /\ a \notin DOMAIN rows \cup DOMAIN svix
                          /\ \A r \in Requests : Busy(r) => app[r] # a}

\* Some of the old apps are there; such an app has no Svix application, one without an
\* endpoint, or both.
Init ==
  /\ \E there \in SUBSET OldApps, u \in Urls :
       /\ svix \in UNION {[made -> Urls \cup {None}] : made \in SUBSET there}
       /\ rows = [a \in there |-> [NewRow(u) EXCEPT !.hook = a \in DOMAIN svix]]
  /\ at = [r \in Requests |-> "idle"]
  /\ app = [r \in Requests |-> None]
  /\ platform = [r \in Requests |-> None]
  /\ passed = [r \in Requests |-> {}]
  /\ url = [r \in Requests |-> None]
  /\ merged = [r \in Requests |-> NoCredentials]
  /\ alone = [r \in Requests |-> TRUE]
  /\ key = [r \in Requests |-> None]

MoveTo(r, label) == at' = [at EXCEPT ![r] = label]

\* The request is answered; what it held is gone with it.
Answer(r, label) ==
  /\ MoveTo(r, label)
  /\ app' = [app EXCEPT ![r] = None]
  /\ platform' = [platform EXCEPT ![r] = None]
  /\ passed' = [passed EXCEPT ![r] = {}]
  /\ url' = [url EXCEPT ![r] = None]
  /\ merged' = [merged EXCEPT ![r] = NoCredentials]
  /\ alone' = [alone EXCEPT ![r] = TRUE]
  /\ key' = [key EXCEPT ![r] = None]

\* It goes on.
Continue(r, label) ==
  MoveTo(r, label) /\ UNCHANGED <<app, platform, passed, url, merged, alone, key>>

\* Who is busy with the app of a query, or has begun to write the app.
At(a)      == {q \in Requests : Busy(q) /\ app[q] = a}
Writing(a) == {q \in At(a) : at[q] # "checked"}
Disturb(a) == alone' = [q \in Requests |-> alone[q] /\ q \notin At(a)]

\* Any call may fail: the answer is an error, and what was done stays.
Fail(r) ==
  /\ Busy(r) /\ at[r] # "creating creds"
  /\ Answer(r, "idle")
  /\ UNCHANGED <<rows, svix>>

-----------------------------------------------------------------------------
(* CreateApp.                                                               *)

\* CreateApp: the request is validated, then CreateNewApp inserts the row, without
\* credentials.
CreateApp(r) ==
  /\ Free(r)
  /\ \E a \in Unused, p \in Platforms, u \in Urls :
       /\ rows' = [b \in DOMAIN rows \cup {a} |-> IF b = a THEN NewRow(u) ELSE rows[b]]
       /\ app' = [app EXCEPT ![r] = a]
       /\ platform' = [platform EXCEPT ![r] = p]
       /\ url' = [url EXCEPT ![r] = u]
  /\ passed' = [passed EXCEPT ![r] = {"id"}]
  /\ merged' = [merged EXCEPT ![r] = [NoCredentials EXCEPT !["id"] = r]]
  /\ alone' = [alone EXCEPT ![r] = TRUE]
  /\ MoveTo(r, "creating app")
  /\ UNCHANGED <<svix, key>>

\* SvixWebhook.CreateApp: the uid is refused if there is an application with it; the
\* access to the portal is asked for next, so that it can fail with the application
\* created.
CreateSvixApp(r) ==
  /\ at[r] \in {"creating app", "app"}
  /\ app[r] \notin DOMAIN svix
  /\ svix' = [a \in DOMAIN svix \cup {app[r]} |-> IF a = app[r] THEN None ELSE svix[a]]
  /\ \/ Continue(r, IF at[r] = "app" THEN "endpoint" ELSE "creating endpoint")
     \/ Answer(r, "idle")
  /\ UNCHANGED rows

\* Mutant: an endpoint that could not be created is passed over.
CreateEndpointUnchecked(r) ==
  /\ at[r] \in {"creating endpoint", "endpoint", "missing"}
  /\ svix' \in {svix, [svix EXCEPT ![app[r]] = url[r]]}
  /\ \/ at[r] = "missing" /\ Answer(r, "served")
     \/ at[r] = "endpoint" /\ Continue(r, "id")
     \/ at[r] = "creating endpoint" /\ Continue(r, "creating id")
  /\ UNCHANGED rows

\* SvixWebhook.CreateEndpoint, refused if there is an endpoint with the uid.
CreateEndpoint(r) ==
  /\ at[r] \in {"creating endpoint", "endpoint", "missing"}
  /\ svix[app[r]] = None
  /\ svix' = [svix EXCEPT ![app[r]] = url[r]]
  /\ \/ at[r] = "missing" /\ Answer(r, "served")
     \/ at[r] = "endpoint" /\ Continue(r, "id")
     \/ at[r] = "creating endpoint" /\ Continue(r, "creating id")
  /\ UNCHANGED rows

\* UpdateWebhookAppID; that no row is updated goes unnoticed.
UpdateWebhookAppID(r) ==
  /\ at[r] \in {"creating id", "id"}
  /\ rows' = [a \in DOMAIN rows |-> IF a = app[r] THEN [rows[a] EXCEPT !.hook = TRUE] ELSE rows[a]]
  /\ IF at[r] = "id" THEN Answer(r, "served") ELSE Continue(r, "creating creds")
  /\ UNCHANGED svix

\* UpdateIntegrationCredentials writes URL, webhook id and authorized again; its error
\* is ignored, and a platform without a column loses its credentials.
UpdateIntegrationCredentials(r) ==
  /\ at[r] = "creating creds"
  /\ \/ rows' = [a \in DOMAIN rows |->
                   IF a # app[r] THEN rows[a]
                   ELSE [authorized |-> TRUE, hook |-> TRUE, url |-> url[r],
                         creds |-> [p \in Stored |-> IF p = platform[r] THEN merged[r]
                                                     ELSE rows[a].creds[p]]]]
     \/ UNCHANGED rows
  /\ Answer(r, "served")
  /\ UNCHANGED svix

-----------------------------------------------------------------------------
(* UpdateApp.                                                               *)

\* NewDB.UpdateApp reads the row and merges the fields passed into its credentials; a
\* platform without a column has none, and a refresh token only some platforms take.
FetchAppByAppId(r) ==
  /\ Free(r)
  /\ \E a \in DOMAIN rows, p \in Platforms \cup {None}, u \in Urls \cup {None},
        new \in SUBSET Fields :
       /\ p = None => new = {}
       /\ "refresh" \in new => p \in Refreshable
       /\ app' = [app EXCEPT ![r] = a]
       /\ platform' = [platform EXCEPT ![r] = p]
       /\ passed' = [passed EXCEPT ![r] = new]
       /\ url' = [url EXCEPT ![r] = u]
       /\ merged' = [merged EXCEPT ![r] = [f \in Fields |->
                       IF f \in new THEN r
                       ELSE IF p \in Stored THEN rows[a].creds[p][f] ELSE None]]
       /\ alone' = [q \in Requests |-> IF q = r THEN Writing(a) = {}
                                       ELSE alone[q] /\ q \notin Writing(a)]
  /\ MoveTo(r, "write")
  /\ UNCHANGED <<rows, svix, key>>

\* Mutant: a URL that is not passed is written like one that is.
UpdatedPassed(r, row) ==
  [row EXCEPT !.url   = url[r],
              !.creds = [p \in Stored |-> IF p = platform[r] THEN merged[r] ELSE row.creds[p]]]

\* Mutant: the fields that are not passed are lost.
UpdatedUnmerged(r, row) ==
  [row EXCEPT !.url   = IF url[r] = None THEN row.url ELSE url[r],
              !.creds = [p \in Stored |->
                 IF p = platform[r]
                 THEN [f \in Fields |-> IF f \in passed[r] THEN r ELSE None]
                 ELSE row.creds[p]]]

\* The row the query UpdateApp leaves: the URL is kept if none is passed, and the
\* credentials are written as merged.
Updated(r, row) ==
  [row EXCEPT !.url   = IF url[r] = None THEN row.url ELSE url[r],
              !.creds = [p \in Stored |-> IF p = platform[r] THEN merged[r] ELSE row.creds[p]]]

\* UpdateApp: the webhook id that the query returns decides what follows on Svix.
UpdateApp(r) ==
  /\ at[r] = "write"
  /\ app[r] \in DOMAIN rows
  /\ rows' = [rows EXCEPT ![app[r]] = Updated(r, rows[app[r]])]
  /\ url' = [url EXCEPT ![r] = rows'[app[r]].url]
  /\ MoveTo(r, IF rows'[app[r]].hook THEN "get" ELSE "app")
  /\ UNCHANGED <<svix, app, platform, passed, merged, alone, key>>

\* GetEndpoint; a 404 is told from the error's text.
GetEndpoint(r) ==
  /\ at[r] = "get"
  /\ Continue(r, IF svix[app[r]] = None THEN "missing" ELSE "put")
  /\ UNCHANGED <<rows, svix>>

\* Mutant: the endpoint gets the URL that was passed, or keeps its own.
UpdateEndpointPassed(r) ==
  /\ at[r] = "put"
  /\ Answer(r, "served")
  /\ UNCHANGED <<rows, svix>>

UpdateEndpoint(r) ==
  /\ at[r] = "put"
  /\ svix' = [svix EXCEPT ![app[r]] = url[r]]
  /\ Answer(r, "served")
  /\ UNCHANGED rows

-----------------------------------------------------------------------------
(* Requests of one query.  The routes of main.go name no app for DeleteApp, *)
(* DisableApp and EnableApp; here they do what they do for an app.          *)

DeletePlatformIntegrationCredentials(a) ==
  /\ \E p \in Stored \cap Platforms :
       rows' = [rows EXCEPT ![a].creds[p] = NoCredentials]
  /\ Disturb(a)
  /\ UNCHANGED <<svix, at, app, platform, passed, url, merged, key>>

\* The Svix application stays.
DeleteApp(a) ==
  /\ rows' = [b \in DOMAIN rows \ {a} |-> rows[b]]
  /\ Disturb(a)
  /\ UNCHANGED <<svix, at, app, platform, passed, url, merged, key>>

DisableApp(a) ==
  /\ rows' = [rows EXCEPT ![a].authorized = FALSE]
  /\ Disturb(a)
  /\ UNCHANGED <<svix, at, app, platform, passed, url, merged, key>>

EnableApp(a) ==
  /\ rows' = [rows EXCEPT ![a].authorized = TRUE]
  /\ Disturb(a)
  /\ UNCHANGED <<svix, at, app, platform, passed, url, merged, key>>

\* RevokeAppKeys replaces one key of an app by a fresh one; the verify secret and
\* Deezer's state, which it replaces alike, let no request through.
RevokeAppKeys(a) ==
  /\ \E k \in {"secret", "public"} :
       key' = [q \in Requests |-> IF app[q] = a /\ key[q] = k THEN None ELSE key[q]]
  /\ UNCHANGED <<rows, svix, at, app, platform, passed, url, merged, alone>>

-----------------------------------------------------------------------------
(* AddReadOnlyDeveloperToContext and AddReadWriteDeveloperToContext, which  *)
(* let a request through on a public and on a secret key.                   *)

\* The first query finds the developer of an enabled app with the key.
FetchDeveloper(r) ==
  /\ Free(r)
  /\ \E a \in DOMAIN rows, k \in {"secret", "public"} :
       /\ rows[a].authorized
       /\ app' = [app EXCEPT ![r] = a]
       /\ key' = [key EXCEPT ![r] = k]
  /\ alone' = [alone EXCEPT ![r] = TRUE]
  /\ MoveTo(r, "checked")
  /\ UNCHANGED <<rows, svix, platform, passed, url, merged>>

\* Mutant: the second query looks for the app that the first one found.
FetchAppByFound(r) ==
  /\ at[r] = "checked"
  /\ app[r] \in DOMAIN rows
  /\ Answer(r, "admitted")
  /\ UNCHANGED <<rows, svix>>

\* The second finds the app, enabled or not, by the same key, and the request is let
\* through.
FetchAppByKey(r) ==
  /\ at[r] = "checked"
  /\ app[r] \in DOMAIN rows
  /\ key[r] # None
  /\ Answer(r, "admitted")
  /\ UNCHANGED <<rows, svix>>

Create(r) == \/ CreateApp(r) \/ CreateSvixApp(r) \/ CreateEndpoint(r)
             \/ UpdateWebhookAppID(r) \/ UpdateIntegrationCredentials(r)

Update(r) == FetchAppByAppId(r) \/ UpdateApp(r) \/ GetEndpoint(r) \/ UpdateEndpoint(r)

Admit(r)  == FetchDeveloper(r) \/ FetchAppByKey(r)

Manage(a) == \/ DeletePlatformIntegrationCredentials(a) \/ DeleteApp(a)
             \/ DisableApp(a) \/ EnableApp(a) \/ RevokeAppKeys(a)

Next == \/ \E r \in Requests : Create(r) \/ Update(r) \/ Admit(r) \/ Fail(r)
        \/ \E a \in DOMAIN rows : Manage(a)

Spec == Init /\ [][Next]_vars

-----------------------------------------------------------------------------
(* Properties.                                                              *)

\* The type of the state.
TypeOK ==
  /\ DOMAIN rows \subseteq AppIds
  /\ rows \in [DOMAIN rows -> [authorized : BOOLEAN, hook : BOOLEAN, url : Urls,
                               creds : [Stored -> [Fields -> Requests \cup {None}]]]]
  /\ DOMAIN svix \subseteq AppIds
  /\ svix \in [DOMAIN svix -> Urls \cup {None}]
  /\ at \in [Requests -> {"idle", "served", "admitted", "checked"} \cup Creating \cup Updating]
  /\ app \in [Requests -> AppIds \cup {None}]
  /\ platform \in [Requests -> Platforms \cup {None}]
  /\ passed \in [Requests -> SUBSET Fields]
  /\ url \in [Requests -> Urls \cup {None}]
  /\ merged \in [Requests -> [Fields -> Requests \cup {None}]]
  /\ alone \in [Requests -> BOOLEAN]
  /\ key \in [Requests -> {"secret", "public", None}]

\* A row's webhook id is that of an application on Svix, whatever failed and whoever
\* else created it: it is only written after Svix answered.
WebhookAppExists == \A a \in DOMAIN rows : rows[a].hook => a \in DOMAIN svix

\* An app whose creation or update was answered with success gets its events: it has
\* a webhook id, and an endpoint under it.  Requests beside it do not undo that, and
\* that an error of the last query of CreateApp is ignored does not either.
AnsweredAppGetsEvents ==
  [][\A r \in Requests :
       Busy(r) /\ at'[r] = "served" /\ app[r] \in DOMAIN rows' =>
         rows'[app[r]].hook /\ svix'[app[r]] # None]_vars

\* A request that was alone with its app leaves one webhook URL, in the row and on
\* Svix, although it is written to both in turn.
OneUrlAfterwards ==
  [][\A r \in Requests :
       Busy(r) /\ alone[r] /\ at'[r] = "served" =>
         app[r] \in DOMAIN rows' /\ svix'[app[r]] = rows'[app[r]].url]_vars

\* A field of an app's credentials changes only if it is passed or the platform's are
\* deleted, unless another request came between the read and the write: UpdateApp
\* writes back all that it read.
OnlyPassedFieldsChange ==
  [][\A a \in DOMAIN rows \cap DOMAIN rows' : \A p \in Stored : \A f \in Fields :
       rows'[a].creds[p][f] # rows[a].creds[p][f] /\ rows'[a].creds[p] # NoCredentials =>
         \E r \in Requests : /\ Busy(r) /\ app[r] = a /\ platform[r] = p
                            /\ (f \in passed[r] \/ ~alone[r])]_vars

\* A request is let through only while its key is the app's, although the middleware
\* looks in two queries and the key may be revoked between them; whether the app is
\* enabled only the first looks, so that it is unless the app was changed since.
LetThroughByValidKey ==
  [][\A r \in Requests :
       Busy(r) /\ at'[r] = "admitted" =>
         /\ app[r] \in DOMAIN rows /\ key[r] # None
         /\ alone[r] => rows[app[r]].authorized]_vars

-----------------------------------------------------------------------------
(* The inductive invariant.                                                 *)

\* What a request holds where it is.
Holding ==
  \A r \in Requests :
    /\ Busy(r) => app[r] \in AppIds
    /\ Busy(r) /\ at[r] \notin {"checked", "write"} => url[r] \in Urls
    /\ at[r] \in Creating => passed[r] = {"id"} /\ merged[r]["refresh"] = None

\* What is on Svix, and known of it in the row, where a request is.
OnSvix ==
  \A r \in Requests :
    /\ at[r] \in {"creating endpoint", "endpoint", "creating id", "id", "creating creds",
                  "get", "put", "missing"} => app[r] \in DOMAIN svix
    /\ at[r] \in {"creating id", "id", "creating creds", "put"} => svix[app[r]] # None
    /\ at[r] \in {"creating creds", "get", "put", "missing"} /\ app[r] \in DOMAIN rows =>
         rows[app[r]].hook

\* No other request has begun to write the app of a request.
Sole(r) == \A q \in Requests \ {r} : q \notin Writing(app[r])

\* What a request knows of its app as long as no other has touched it.
Known(r) ==
  /\ app[r] \in DOMAIN rows
  /\ at[r] = "checked" => rows[app[r]].authorized
  /\ at[r] # "checked" => Sole(r)
  /\ at[r] \notin {"checked", "write"} => rows[app[r]].url = url[r]
  /\ at[r] \in {"creating id", "id", "creating creds"} => svix[app[r]] = url[r]
  /\ at[r] = "write" /\ platform[r] \in Stored =>
       \A f \in Fields \ passed[r] : merged[r][f] = rows[app[r]].creds[platform[r]][f]
  /\ at[r] \in Creating => \A p \in Stored : rows[app[r]].creds[p] = NoCredentials

Undisturbed == \A r \in Requests : Busy(r) /\ alone[r] => Known(r)

IInv == TypeOK /\ Holding /\ OnSvix /\ WebhookAppExists /\ Undisturbed

-----------------------------------------------------------------------------
(* What comments in the code say of it.                                     *)

\* dev_app.go says: if webhook app id is empty, then that means the application was
\* not created on Svix.
EmptyMeansNotOnSvix ==
  \A a \in DOMAIN rows :
    ~rows[a].hook /\ (\A r \in Requests : Busy(r) => app[r] # a) => a \notin DOMAIN svix
=============================================================================
