------------------------ MODULE DeveloperAppsProofs ------------------------
(***************************************************************************)
(* What TLAPS proves of DeveloperApps for any number of requests, apps and *)
(* URLs, whatever old apps there are.                                       *)
(***************************************************************************)
EXTENDS DeveloperApps, TLAPS

USE DEF requestVars

-----------------------------------------------------------------------------
(* The type.                                                                *)

\* What TypeOK says of the credentials of a platform and of a row.
CredsType == [Fields -> Requests \cup {None}]
RowType   == [authorized : BOOLEAN, hook : BOOLEAN, url : Urls, creds : [Stored -> CredsType]]

\* The rows that are written are rows.
LEMMA WrittenRows ==
         /\ NoCredentials \in CredsType
         /\ \A u \in Urls : NewRow(u) \in RowType
         /\ \A row \in RowType : \A b \in BOOLEAN :
              /\ [row EXCEPT !.hook = b] \in RowType
              /\ [row EXCEPT !.authorized = b] \in RowType
         /\ \A row \in RowType : \A p \in Stored :
              [row EXCEPT !.creds[p] = NoCredentials] \in RowType
<1>1. NoCredentials \in CredsType
  BY DEF NoCredentials, CredsType
<1> QED
  BY <1>1 DEF NewRow, RowType

\* So is what UpdateApp makes of one.
LEMMA UpdatedRow ==
  ASSUME TypeOK, NEW r \in Requests, NEW row \in RowType
  PROVE  /\ Updated(r, row) \in RowType
         /\ Updated(r, row).hook = row.hook
         /\ Updated(r, row).authorized = row.authorized
         /\ Updated(r, row).url = IF url[r] = None THEN row.url ELSE url[r]
         /\ \A p \in Stored : Updated(r, row).creds[p] =
              IF p = platform[r] THEN merged[r] ELSE row.creds[p]
<1>1. merged[r] \in CredsType /\ url[r] \in Urls \cup {None}
  BY DEF TypeOK, CredsType
<1> QED
  BY <1>1 DEF Updated, RowType

\* The state has its type at the start.
LEMMA InitType == Init => TypeOK
<1> SUFFICES ASSUME Init PROVE TypeOK
  OBVIOUS
<1>1. PICK there \in SUBSET OldApps, u \in Urls :
        /\ svix \in UNION {[made -> Urls \cup {None}] : made \in SUBSET there}
        /\ rows = [a \in there |-> [NewRow(u) EXCEPT !.hook = a \in DOMAIN svix]]
  BY DEF Init
<1>2. PICK made \in SUBSET there : svix \in [made -> Urls \cup {None}]
  BY <1>1
<1>3. rows \in [there -> RowType]
  <2>1. NewRow(u) \in RowType
    BY WrittenRows
  <2>2. ASSUME NEW b PROVE (b \in DOMAIN svix) \in BOOLEAN
    OBVIOUS
  <2>3. \A b \in there : [NewRow(u) EXCEPT !.hook = b \in DOMAIN svix] \in RowType
    BY <2>1, <2>2, WrittenRows, Zenon
  <2> QED
    BY <1>1, <2>3
<1>4. NoCredentials \in CredsType
  BY WrittenRows
<1> QED
  BY <1>2, <1>3, <1>4, OldAppsAssumption DEF Init, TypeOK, RowType, CredsType

\* Every step keeps it, because a request has an app and a URL when it writes them.
LEMMA NextType == TypeOK /\ Holding /\ [Next]_vars => TypeOK'
<1> SUFFICES ASSUME TypeOK, Holding, [Next]_vars PROVE TypeOK'
  OBVIOUS
<1> USE DEF TypeOK, MoveTo
<1>0. /\ rows \in [DOMAIN rows -> RowType] /\ DOMAIN rows \subseteq AppIds
      /\ merged \in [Requests -> CredsType]
  BY DEF RowType, CredsType
<1>a. ASSUME NEW r \in Requests, NEW label \in {"idle", "served", "admitted"},
             Answer(r, label)
      PROVE  /\ at' \in [Requests -> {"idle", "served", "admitted", "checked"}
                                       \cup Creating \cup Updating]
             /\ app' \in [Requests -> AppIds \cup {None}]
             /\ platform' \in [Requests -> Platforms \cup {None}]
             /\ passed' \in [Requests -> SUBSET Fields]
             /\ url' \in [Requests -> Urls \cup {None}]
             /\ merged' \in [Requests -> CredsType]
             /\ alone' \in [Requests -> BOOLEAN]
             /\ key' \in [Requests -> {"secret", "public", None}]
  BY <1>0, <1>a, WrittenRows DEF Answer
<1>1. ASSUME NEW r \in Requests, CreateApp(r) PROVE TypeOK'
  <2>1. PICK a \in Unused, p \in Platforms, u \in Urls :
          /\ rows' = [b \in DOMAIN rows \cup {a} |-> IF b = a THEN NewRow(u) ELSE rows[b]]
          /\ app' = [app EXCEPT ![r] = a]
          /\ platform' = [platform EXCEPT ![r] = p]
          /\ url' = [url EXCEPT ![r] = u]
    BY <1>1 DEF CreateApp
  <2>2. a \in AppIds
    BY DEF Unused
  <2>3. rows' \in [DOMAIN rows' -> RowType] /\ DOMAIN rows' \subseteq AppIds
    BY <1>0, <2>1, <2>2, WrittenRows
  <2>4. [NoCredentials EXCEPT !["id"] = r] \in CredsType
    BY WrittenRows DEF CredsType
  <2>5. merged' \in [Requests -> CredsType]
    BY <1>0, <1>1, <2>4 DEF CreateApp
  <2> QED
    BY <1>1, <2>1, <2>2, <2>3, <2>5 DEF CreateApp, RowType, CredsType, Fields, Creating
<1>2. ASSUME NEW r \in Requests, CreateSvixApp(r) PROVE TypeOK'
  <2>1. app[r] \in AppIds
    BY <1>2 DEF CreateSvixApp, Holding, Busy, Creating, Updating
  <2>2. svix' \in [DOMAIN svix' -> Urls \cup {None}] /\ DOMAIN svix' \subseteq AppIds
    BY <1>2, <2>1 DEF CreateSvixApp
  <2>3. CASE Continue(r, IF at[r] = "app" THEN "endpoint" ELSE "creating endpoint")
    BY <1>2, <2>2, <2>3 DEF CreateSvixApp, Continue, Creating, Updating
  <2>4. CASE Answer(r, "idle")
    BY <1>2, <1>a, <2>2, <2>4 DEF CreateSvixApp, CredsType
  <2> QED
    BY <1>2, <2>3, <2>4 DEF CreateSvixApp
<1>3. ASSUME NEW r \in Requests, CreateEndpoint(r) PROVE TypeOK'
  <2>1. url[r] \in Urls
    BY <1>3 DEF CreateEndpoint, Holding, Busy, Creating, Updating
  <2>2. svix' \in [DOMAIN svix' -> Urls \cup {None}] /\ DOMAIN svix' \subseteq AppIds
    BY <1>3, <2>1 DEF CreateEndpoint
  <2>3. CASE Answer(r, "served")
    BY <1>3, <1>a, <2>2, <2>3 DEF CreateEndpoint, CredsType
  <2>4. CASE Continue(r, "id") \/ Continue(r, "creating id")
    BY <1>3, <2>2, <2>4 DEF CreateEndpoint, Continue, Creating, Updating
  <2> QED
    BY <1>3, <2>3, <2>4 DEF CreateEndpoint
<1>4. ASSUME NEW r \in Requests, UpdateWebhookAppID(r) PROVE TypeOK'
  <2>1. rows' \in [DOMAIN rows' -> RowType] /\ DOMAIN rows' \subseteq AppIds
    BY <1>0, <1>4, WrittenRows DEF UpdateWebhookAppID
  <2>2. CASE Answer(r, "served")
    BY <1>4, <1>a, <2>1, <2>2 DEF UpdateWebhookAppID, CredsType, RowType
  <2>3. CASE Continue(r, "creating creds")
    BY <1>4, <2>1, <2>3 DEF UpdateWebhookAppID, Continue, Creating, RowType, CredsType
  <2> QED
    BY <1>4, <2>2, <2>3 DEF UpdateWebhookAppID
<1>5. ASSUME NEW r \in Requests, UpdateIntegrationCredentials(r) PROVE TypeOK'
  <2>1. url[r] \in Urls /\ merged[r] \in CredsType
    BY <1>0, <1>5 DEF UpdateIntegrationCredentials, Holding, Busy, Creating
  <2>2. \A row \in RowType :
          [authorized |-> TRUE, hook |-> TRUE, url |-> url[r],
           creds |-> [p \in Stored |-> IF p = platform[r] THEN merged[r] ELSE row.creds[p]]]
             \in RowType
    BY <2>1 DEF RowType
  <2>3. \/ rows' = rows
        \/ rows' = [a \in DOMAIN rows |->
                       IF a # app[r] THEN rows[a]
                       ELSE [authorized |-> TRUE, hook |-> TRUE, url |-> url[r],
                             creds |-> [p \in Stored |-> IF p = platform[r] THEN merged[r]
                                                         ELSE rows[a].creds[p]]]]
    BY <1>5 DEF UpdateIntegrationCredentials
  <2>4. rows' \in [DOMAIN rows' -> RowType] /\ DOMAIN rows' \subseteq AppIds
    <3>1. CASE rows' = rows
      BY <1>0, <3>1
    <3>2. CASE rows' # rows
      <4>1. DOMAIN rows' = DOMAIN rows
        BY <2>3, <3>2
      <4>2. \A a \in DOMAIN rows : rows'[a] \in RowType
        BY <1>0, <2>2, <2>3, <3>2
      <4> QED
        BY <1>0, <2>3, <3>2, <4>1, <4>2
    <3> QED
      BY <3>1, <3>2
  <2>5. Answer(r, "served") /\ svix' = svix
    BY <1>5 DEF UpdateIntegrationCredentials
  <2> QED
    BY <1>a, <2>4, <2>5 DEF CredsType, RowType
<1>6. ASSUME NEW r \in Requests, FetchAppByAppId(r) PROVE TypeOK'
  <2>1. PICK a \in DOMAIN rows, p \in Platforms \cup {None}, u \in Urls \cup {None},
             new \in SUBSET Fields :
          /\ app' = [app EXCEPT ![r] = a]
          /\ platform' = [platform EXCEPT ![r] = p]
          /\ passed' = [passed EXCEPT ![r] = new]
          /\ url' = [url EXCEPT ![r] = u]
          /\ merged' = [merged EXCEPT ![r] = [f \in Fields |->
                          IF f \in new THEN r
                          ELSE IF p \in Stored THEN rows[a].creds[p][f] ELSE None]]
          /\ alone' = [q \in Requests |-> IF q = r THEN Writing(a) = {}
                                          ELSE alone[q] /\ q \notin Writing(a)]
    BY <1>6 DEF FetchAppByAppId
  <2>2. \A f \in Fields : p \in Stored => rows[a].creds[p][f] \in Requests \cup {None}
    BY <1>0 DEF RowType, CredsType
  <2>3. merged' \in [Requests -> CredsType]
    BY <1>0, <2>1, <2>2 DEF CredsType
  <2> QED
    BY <1>6, <2>1, <2>3 DEF FetchAppByAppId, CredsType, Updating
<1>7. ASSUME NEW r \in Requests, UpdateApp(r) PROVE TypeOK'
  <2>1. Updated(r, rows[app[r]]) \in RowType
    BY <1>0, <1>7, UpdatedRow DEF UpdateApp
  <2>2. rows' \in [DOMAIN rows -> RowType] /\ app[r] \in DOMAIN rows
    BY <1>0, <1>7, <2>1 DEF UpdateApp
  <2>3. rows'[app[r]].url \in Urls
    BY <2>2 DEF RowType
  <2> QED
    BY <1>7, <2>2, <2>3 DEF UpdateApp, Updating, RowType, CredsType
<1>8. ASSUME NEW r \in Requests, GetEndpoint(r) PROVE TypeOK'
  BY <1>8 DEF GetEndpoint, Continue, Updating
<1>9. ASSUME NEW r \in Requests, UpdateEndpoint(r) PROVE TypeOK'
  <2>1. url[r] \in Urls
    BY <1>9 DEF UpdateEndpoint, Holding, Busy, Updating
  <2>2. svix' \in [DOMAIN svix' -> Urls \cup {None}] /\ DOMAIN svix' \subseteq AppIds
    BY <1>9, <2>1 DEF UpdateEndpoint
  <2> QED
    BY <1>9, <1>a, <2>2 DEF UpdateEndpoint, CredsType
<1>10. ASSUME NEW r \in Requests, FetchDeveloper(r) PROVE TypeOK'
  BY <1>10 DEF FetchDeveloper
<1>11. ASSUME NEW r \in Requests, FetchAppByKey(r) PROVE TypeOK'
  BY <1>11, <1>a DEF FetchAppByKey, CredsType
<1>12. ASSUME NEW r \in Requests, Fail(r) PROVE TypeOK'
  BY <1>12, <1>a DEF Fail, CredsType
<1>13. ASSUME NEW a \in DOMAIN rows, Manage(a) PROVE TypeOK'
  <2>1. CASE RevokeAppKeys(a)
    BY <2>1 DEF RevokeAppKeys
  <2>2. CASE \/ DeletePlatformIntegrationCredentials(a) \/ DeleteApp(a)
             \/ DisableApp(a) \/ EnableApp(a)
    <3>1. \/ rows' = [b \in DOMAIN rows \ {a} |-> rows[b]]
          \/ \E p \in Stored : rows' = [rows EXCEPT ![a].creds[p] = NoCredentials]
          \/ \E b \in BOOLEAN : rows' = [rows EXCEPT ![a].authorized = b]
      BY <2>2 DEF DeletePlatformIntegrationCredentials, DeleteApp, DisableApp, EnableApp
    <3>2. ASSUME NEW new \in RowType, rows' = [rows EXCEPT ![a] = new]
          PROVE  rows' \in [DOMAIN rows' -> RowType] /\ DOMAIN rows' \subseteq AppIds
      BY <1>0, <3>2
    <3>3. rows[a] \in RowType
      BY <1>0
    <3>4. rows' \in [DOMAIN rows' -> RowType] /\ DOMAIN rows' \subseteq AppIds
      <4>1. CASE rows' = [b \in DOMAIN rows \ {a} |-> rows[b]]
        BY <1>0, <4>1
      <4>2. CASE \E p \in Stored : rows' = [rows EXCEPT ![a].creds[p] = NoCredentials]
        BY <3>2, <3>3, <4>2, WrittenRows
      <4>3. CASE \E b \in BOOLEAN : rows' = [rows EXCEPT ![a].authorized = b]
        BY <3>2, <3>3, <4>3, WrittenRows
      <4> QED
        BY <3>1, <4>1, <4>2, <4>3
    <3> QED
      BY <2>2, <3>4 DEF DeletePlatformIntegrationCredentials, DeleteApp, DisableApp,
         EnableApp, Disturb, RowType, CredsType
  <2> QED
    BY <1>13, <2>1, <2>2 DEF Manage
<1>14. ASSUME UNCHANGED vars PROVE TypeOK'
  BY <1>14 DEF vars
<1> QED
  BY <1>1, <1>2, <1>3, <1>4, <1>5, <1>6, <1>7, <1>8, <1>9, <1>10, <1>11, <1>12, <1>13, <1>14
     DEF Next, Create, Update, Admit

-----------------------------------------------------------------------------
(* Who changes what.                                                        *)

\* A step of a request.
Step(r) == Create(r) \/ Update(r) \/ Admit(r) \/ Fail(r)

\* It leaves the other requests where they are, and none of them undisturbed that
\* was disturbed.
LEMMA OthersStay ==
  ASSUME TypeOK, NEW r \in Requests, Step(r), NEW q \in Requests \ {r}
  PROVE  /\ at'[q] = at[q] /\ app'[q] = app[q] /\ platform'[q] = platform[q]
         /\ passed'[q] = passed[q] /\ url'[q] = url[q] /\ merged'[q] = merged[q]
         /\ alone'[q] => alone[q]
<1> USE DEF TypeOK, MoveTo, Answer, Continue
<1>1. CASE CreateApp(r)
  BY <1>1 DEF CreateApp
<1>2. CASE CreateSvixApp(r)
  BY <1>2 DEF CreateSvixApp
<1>3. CASE CreateEndpoint(r)
  BY <1>3 DEF CreateEndpoint
<1>4. CASE UpdateWebhookAppID(r)
  <2>1. Answer(r, "served") \/ Continue(r, "creating creds")
    BY <1>4 DEF UpdateWebhookAppID
  <2> QED
    BY <2>1
<1>5. CASE UpdateIntegrationCredentials(r)
  <2>1. Answer(r, "served")
    BY <1>5 DEF UpdateIntegrationCredentials
  <2> QED
    BY <2>1
<1>6. CASE FetchAppByAppId(r)
  BY <1>6 DEF FetchAppByAppId
<1>7. CASE UpdateApp(r)
  BY <1>7 DEF UpdateApp
<1>8. CASE GetEndpoint(r) \/ UpdateEndpoint(r)
  BY <1>8 DEF GetEndpoint, UpdateEndpoint
<1>9. CASE Admit(r) \/ Fail(r)
  BY <1>9 DEF Admit, FetchDeveloper, FetchAppByKey, Fail
<1> QED
  BY <1>1, <1>2, <1>3, <1>4, <1>5, <1>6, <1>7, <1>8, <1>9 DEF Step, Create, Update

\* A query on an app leaves the requests where they are, and disturbs those that are
\* busy with the app unless it replaces a key.
LEMMA QueriesStay ==
  ASSUME TypeOK, NEW a \in DOMAIN rows, Manage(a)
  PROVE  /\ UNCHANGED <<svix, at, app, platform, passed, url, merged>>
         /\ \A q \in Requests : alone'[q] => alone[q]
         /\ \/ UNCHANGED <<rows, alone>>
            \/ \A q \in Requests : alone'[q] => q \notin At(a)
BY DEF TypeOK, Manage, DeletePlatformIntegrationCredentials, DeleteApp, DisableApp, EnableApp,
   RevokeAppKeys, Disturb

\* Applications and endpoints stay on Svix.
LEMMA SvixStays ==
  ASSUME TypeOK, Holding, OnSvix, [Next]_vars
  PROVE  /\ DOMAIN svix \subseteq DOMAIN svix'
         /\ \A a \in DOMAIN svix : svix[a] # None => svix'[a] # None
<1> USE DEF TypeOK
<1>1. ASSUME NEW r \in Requests, Step(r)
      PROVE  /\ DOMAIN svix \subseteq DOMAIN svix'
             /\ \A a \in DOMAIN svix : svix[a] # None => svix'[a] # None
  <2>1. CASE CreateSvixApp(r)
    BY <2>1 DEF CreateSvixApp
  <2>2. CASE CreateEndpoint(r)
    BY <2>2, NoneAssumption DEF CreateEndpoint, Holding, Busy, Creating, Updating
  <2>3. CASE UpdateEndpoint(r)
    BY <2>3, NoneAssumption DEF UpdateEndpoint, Holding, Busy, Updating
  <2>4. CASE svix' = svix
    BY <2>4
  <2>5. svix' = svix \/ CreateSvixApp(r) \/ CreateEndpoint(r) \/ UpdateEndpoint(r)
    BY <1>1 DEF Step, Create, Update, Admit, CreateApp, UpdateWebhookAppID,
       UpdateIntegrationCredentials, FetchAppByAppId, UpdateApp, GetEndpoint, FetchDeveloper,
       FetchAppByKey, Fail
  <2> QED
    BY <2>1, <2>2, <2>3, <2>4, <2>5
<1>2. ASSUME NEW a \in DOMAIN rows, Manage(a) PROVE svix' = svix
  BY <1>2, QueriesStay
<1>3. ASSUME UNCHANGED vars PROVE svix' = svix
  BY <1>3 DEF vars
<1> QED
  BY <1>1, <1>2, <1>3 DEF Next, Step

\* Who gives a row a webhook id.
Hooking(a) == \E r \in Requests : at[r] \in {"creating id", "id", "creating creds"} /\ app[r] = a

\* A row that is new is one CreateApp inserts, whose uuid no request is busy with; a row
\* that was there keeps its webhook id, and gets one only from a request that hooks it.
LEMMA HooksStay ==
  ASSUME TypeOK, [Next]_vars
  PROVE  /\ \A a \in DOMAIN rows' \ DOMAIN rows :
              /\ \E u \in Urls : rows'[a] = NewRow(u)
              /\ \A q \in Requests : Busy(q) => app[q] # a
         /\ \A a \in DOMAIN rows' \cap DOMAIN rows :
              /\ rows[a].hook => rows'[a].hook
              /\ rows'[a].hook => rows[a].hook \/ Hooking(a)
<1> DEFINE Goal == /\ \A a \in DOMAIN rows' \ DOMAIN rows :
                        /\ \E u \in Urls : rows'[a] = NewRow(u)
                        /\ \A q \in Requests : Busy(q) => app[q] # a
                   /\ \A a \in DOMAIN rows' \cap DOMAIN rows :
                        /\ rows[a].hook => rows'[a].hook
                        /\ rows'[a].hook => rows[a].hook \/ Hooking(a)
<1>0. rows \in [DOMAIN rows -> RowType]
  BY DEF TypeOK, RowType, CredsType
<1>1. ASSUME NEW r \in Requests, Step(r) PROVE Goal
  <2>1. CASE CreateApp(r)
    <3>1. PICK a \in Unused, u \in Urls :
            rows' = [b \in DOMAIN rows \cup {a} |-> IF b = a THEN NewRow(u) ELSE rows[b]]
      BY <2>1 DEF CreateApp
    <3>2. a \notin DOMAIN rows /\ \A q \in Requests : Busy(q) => app[q] # a
      BY DEF Unused
    <3>3. /\ DOMAIN rows' = DOMAIN rows \cup {a}
          /\ rows'[a] = NewRow(u)
          /\ \A b \in DOMAIN rows : rows'[b] = rows[b]
      BY <3>1, <3>2
    <3> QED
      BY <3>2, <3>3
  <2>2. CASE UpdateWebhookAppID(r)
    <3>1. \A row \in RowType : [row EXCEPT !.hook = TRUE].hook
      BY DEF RowType
    <3> QED
      BY <1>0, <2>2, <3>1 DEF UpdateWebhookAppID, Hooking
  <2>3. CASE UpdateIntegrationCredentials(r)
    <3>1. CASE rows' = rows
      BY <3>1
    <3>2. CASE rows' # rows
      <4>1. rows' = [a \in DOMAIN rows |->
                       IF a # app[r] THEN rows[a]
                       ELSE [authorized |-> TRUE, hook |-> TRUE, url |-> url[r],
                             creds |-> [p \in Stored |-> IF p = platform[r] THEN merged[r]
                                                         ELSE rows[a].creds[p]]]]
        BY <2>3, <3>2 DEF UpdateIntegrationCredentials
      <4>2. /\ DOMAIN rows' = DOMAIN rows
            /\ \A a \in DOMAIN rows : a # app[r] => rows'[a] = rows[a]
            /\ app[r] \in DOMAIN rows => rows'[app[r]].hook
        BY <4>1
      <4>3. at[r] = "creating creds"
        BY <2>3 DEF UpdateIntegrationCredentials
      <4> QED
        BY <4>2, <4>3 DEF Hooking
    <3> QED
      BY <3>1, <3>2
  <2>4. CASE UpdateApp(r)
    <3>1. Updated(r, rows[app[r]]).hook = rows[app[r]].hook
      BY <1>0, <2>4, UpdatedRow DEF UpdateApp
    <3>2. /\ DOMAIN rows' = DOMAIN rows
          /\ \A a \in DOMAIN rows : a # app[r] => rows'[a] = rows[a]
          /\ rows'[app[r]] = Updated(r, rows[app[r]])
      BY <1>0, <2>4 DEF UpdateApp
    <3> QED
      BY <3>1, <3>2
  <2>5. CASE rows' = rows
    BY <2>5
  <2>6. \/ rows' = rows \/ CreateApp(r) \/ UpdateWebhookAppID(r)
        \/ UpdateIntegrationCredentials(r) \/ UpdateApp(r)
    BY <1>1 DEF Step, Create, Update, Admit, CreateSvixApp, CreateEndpoint, FetchAppByAppId,
       GetEndpoint, UpdateEndpoint, FetchDeveloper, FetchAppByKey, Fail
  <2> QED
    BY <2>1, <2>2, <2>3, <2>4, <2>5, <2>6
<1>2. ASSUME NEW a \in DOMAIN rows, Manage(a) PROVE Goal
  <2>1. ASSUME NEW row \in RowType
        PROVE  /\ \A p \in Stored : [row EXCEPT !.creds[p] = NoCredentials].hook = row.hook
               /\ [row EXCEPT !.authorized = FALSE].hook = row.hook
               /\ [row EXCEPT !.authorized = TRUE].hook = row.hook
    BY DEF RowType
  <2>2. CASE DeleteApp(a)
    BY <1>0, <2>2 DEF DeleteApp
  <2>3. CASE RevokeAppKeys(a)
    BY <2>3 DEF RevokeAppKeys
  <2>4. CASE DeletePlatformIntegrationCredentials(a)
    BY <1>0, <2>1, <2>4 DEF DeletePlatformIntegrationCredentials
  <2>5. CASE DisableApp(a)
    BY <1>0, <2>1, <2>5 DEF DisableApp
  <2>6. CASE EnableApp(a)
    BY <1>0, <2>1, <2>6 DEF EnableApp
  <2> QED
    BY <1>2, <2>2, <2>3, <2>4, <2>5, <2>6 DEF Manage
<1>3. ASSUME UNCHANGED vars PROVE Goal
  BY <1>3 DEF vars
<1> QED
  BY <1>1, <1>2, <1>3 DEF Next, Step

\* A request only changes the row and the endpoint of an app it is writing, removes no
\* row and disables none.
LEMMA OthersRows ==
  ASSUME TypeOK, NEW r \in Requests, Step(r)
  PROVE  /\ \A a \in DOMAIN rows :
              /\ a \in DOMAIN rows'
              /\ rows[a].authorized => rows'[a].authorized
              /\ r \notin Writing(a) => rows'[a] = rows[a]
         /\ \A a \in DOMAIN svix : r \notin Writing(a) => svix'[a] = svix[a]
<1> DEFINE Rows == \A a \in DOMAIN rows :
                      /\ a \in DOMAIN rows'
                      /\ rows[a].authorized => rows'[a].authorized
                      /\ r \notin Writing(a) => rows'[a] = rows[a]
           Svix == \A a \in DOMAIN svix : r \notin Writing(a) => svix'[a] = svix[a]
<1>0. rows \in [DOMAIN rows -> RowType]
  BY DEF TypeOK, RowType, CredsType
<1> USE DEF Writing, At, Busy, Creating, Updating
<1>1. CASE CreateApp(r)
  BY <1>1 DEF CreateApp, Unused
<1>2. CASE CreateSvixApp(r)
  BY <1>2 DEF CreateSvixApp
<1>3. CASE CreateEndpoint(r)
  <2>1. at[r] \in {"creating endpoint", "endpoint", "missing"} /\ rows' = rows
        /\ svix' = [svix EXCEPT ![app[r]] = url[r]]
    BY <1>3 DEF CreateEndpoint
  <2> QED
    BY <2>1 DEF TypeOK
<1>4. CASE UpdateWebhookAppID(r)
  <2>1. at[r] \in {"creating id", "id"} /\ svix' = svix
        /\ rows' = [a \in DOMAIN rows |->
                      IF a = app[r] THEN [rows[a] EXCEPT !.hook = TRUE] ELSE rows[a]]
    BY <1>4 DEF UpdateWebhookAppID
  <2>2. \A row \in RowType : [row EXCEPT !.hook = TRUE].authorized = row.authorized
    BY DEF RowType
  <2> QED
    BY <1>0, <2>1, <2>2
<1>5. CASE UpdateIntegrationCredentials(r)
  <2>1. at[r] = "creating creds" /\ svix' = svix
    BY <1>5 DEF UpdateIntegrationCredentials
  <2>2. CASE rows' = rows
    BY <2>1, <2>2
  <2>3. CASE rows' = [a \in DOMAIN rows |->
                        IF a # app[r] THEN rows[a]
                        ELSE [authorized |-> TRUE, hook |-> TRUE, url |-> url[r],
                              creds |-> [p \in Stored |-> IF p = platform[r] THEN merged[r]
                                                          ELSE rows[a].creds[p]]]]
    BY <2>1, <2>3
  <2> QED
    BY <1>5, <2>2, <2>3 DEF UpdateIntegrationCredentials
<1>6. CASE UpdateApp(r)
  <2>1. Updated(r, rows[app[r]]).authorized = rows[app[r]].authorized
    BY <1>0, <1>6, UpdatedRow DEF UpdateApp
  <2>2. /\ DOMAIN rows' = DOMAIN rows
        /\ \A a \in DOMAIN rows : a # app[r] => rows'[a] = rows[a]
        /\ rows'[app[r]] = Updated(r, rows[app[r]])
        /\ svix' = svix /\ at[r] = "write"
    BY <1>0, <1>6 DEF UpdateApp
  <2> QED
    BY <2>1, <2>2
<1>7. CASE UpdateEndpoint(r)
  BY <1>7 DEF UpdateEndpoint, TypeOK
<1>8. CASE rows' = rows /\ svix' = svix
  BY <1>8
<1>9. \/ CreateApp(r) \/ CreateSvixApp(r) \/ CreateEndpoint(r) \/ UpdateWebhookAppID(r)
      \/ UpdateIntegrationCredentials(r) \/ UpdateApp(r) \/ UpdateEndpoint(r)
      \/ rows' = rows /\ svix' = svix
  BY DEF Step, Create, Update, Admit, FetchAppByAppId, GetEndpoint, FetchDeveloper,
     FetchAppByKey, Fail
<1> QED
  BY <1>1, <1>2, <1>3, <1>4, <1>5, <1>6, <1>7, <1>8, <1>9

\* A request that begins to write an app disturbs who writes it already.
LEMMA Joining ==
  ASSUME TypeOK, NEW r \in Requests, Step(r), NEW q \in Requests \ {r}, NEW a,
         q \in Writing(a), alone'[q], r \notin Writing(a)
  PROVE  r \notin Writing(a)'
<1> USE DEF TypeOK, Writing, At, Busy, Free, Creating, Updating, MoveTo, Answer, Continue
<1>1. CASE CreateApp(r)
  <2>1. PICK b \in Unused : app' = [app EXCEPT ![r] = b]
    BY <1>1 DEF CreateApp
  <2> QED
    BY <2>1 DEF Unused
<1>2. CASE FetchAppByAppId(r)
  <2>1. PICK b \in DOMAIN rows :
          app' = [app EXCEPT ![r] = b] /\ (alone'[q] => q \notin Writing(b))
    BY <1>2 DEF FetchAppByAppId
  <2>2. b # a
    BY <2>1
  <2> QED
    BY <2>1, <2>2
<1>3. CASE CreateSvixApp(r) \/ CreateEndpoint(r)
  <2>1. /\ at[r] \in {"creating app", "app", "creating endpoint", "endpoint", "missing"}
        /\ app' = app \/ at' = [at EXCEPT ![r] = "idle"] \/ at' = [at EXCEPT ![r] = "served"]
    BY <1>3 DEF CreateSvixApp, CreateEndpoint
  <2> QED
    BY <2>1
<1>4. CASE UpdateWebhookAppID(r)
  <2>1. at[r] \in {"creating id", "id"}
        /\ (Answer(r, "served") \/ Continue(r, "creating creds"))
    BY <1>4 DEF UpdateWebhookAppID
  <2> QED
    BY <2>1
<1>5. CASE UpdateIntegrationCredentials(r)
  <2>1. Answer(r, "served")
    BY <1>5 DEF UpdateIntegrationCredentials
  <2> QED
    BY <2>1
<1>6. CASE UpdateApp(r)
  BY <1>6 DEF UpdateApp
<1>7. CASE GetEndpoint(r) \/ UpdateEndpoint(r)
  BY <1>7 DEF GetEndpoint, UpdateEndpoint
<1>8. CASE Admit(r) \/ Fail(r)
  BY <1>8 DEF Admit, FetchDeveloper, FetchAppByKey, Fail
<1> QED
  BY <1>1, <1>2, <1>3, <1>4, <1>5, <1>6, <1>7, <1>8 DEF Step, Create, Update

-----------------------------------------------------------------------------
(* The parts of the invariant.                                              *)

\* A request keeps what it holds.
LEMMA NextHolding == IInv /\ [Next]_vars => Holding'
<1> SUFFICES ASSUME IInv, [Next]_vars PROVE Holding'
  OBVIOUS
<1> USE DEF IInv
<1> DEFINE Holds(q) == /\ Busy(q) => app[q] \in AppIds
                       /\ Busy(q) /\ at[q] \notin {"checked", "write"} => url[q] \in Urls
                       /\ at[q] \in Creating => passed[q] = {"id"} /\ merged[q]["refresh"] = None
<1>1. ASSUME NEW r \in Requests, Step(r) PROVE Holding'
  <2>1. ASSUME NEW q \in Requests \ {r} PROVE Holds(q)'
    BY <1>1, <2>1, OthersStay DEF Holding, Busy
  <2>2. Holds(r)'
    <3> USE DEF TypeOK, Holding, Busy, Creating, Updating, MoveTo
    <3>1. ASSUME NEW label \in {"idle", "served", "admitted"}, Answer(r, label)
          PROVE  Holds(r)'
      BY <3>1 DEF Answer
    <3>2. CASE CreateApp(r)
      <4>1. [NoCredentials EXCEPT !["id"] = r]["refresh"] = None
        BY DEF NoCredentials, Fields
      <4> QED
        BY <3>2, <4>1 DEF CreateApp, Unused
    <3>3. CASE CreateSvixApp(r)
      BY <3>1, <3>3 DEF CreateSvixApp, Continue
    <3>4. CASE CreateEndpoint(r)
      BY <3>1, <3>4 DEF CreateEndpoint, Continue
    <3>5. CASE UpdateWebhookAppID(r)
      <4>1. \/ at[r] = "id" /\ Answer(r, "served")
            \/ at[r] = "creating id" /\ Continue(r, "creating creds")
        BY <3>5 DEF UpdateWebhookAppID
      <4> QED
        BY <3>1, <4>1 DEF Continue
    <3>6. CASE UpdateIntegrationCredentials(r)
      <4>1. Answer(r, "served")
        BY <3>6 DEF UpdateIntegrationCredentials
      <4> QED
        BY <3>1, <4>1
    <3>7. CASE FetchAppByAppId(r)
      <4>1. PICK a \in DOMAIN rows : app' = [app EXCEPT ![r] = a]
        BY <3>7 DEF FetchAppByAppId
      <4>2. at' = [at EXCEPT ![r] = "write"]
        BY <3>7 DEF FetchAppByAppId
      <4> QED
        BY <4>1, <4>2
    <3>8. CASE UpdateApp(r)
      <4>1. rows[app[r]] \in RowType /\ app[r] \in DOMAIN rows
        BY <3>8 DEF UpdateApp, RowType, CredsType
      <4>2. rows'[app[r]].url \in Urls
        BY <3>8, <4>1, UpdatedRow DEF UpdateApp, RowType
      <4> QED
        BY <3>8, <4>2 DEF UpdateApp
    <3>9. CASE GetEndpoint(r)
      BY <3>9 DEF GetEndpoint, Continue
    <3>10. CASE UpdateEndpoint(r)
      BY <3>1, <3>10 DEF UpdateEndpoint
    <3>11. CASE FetchDeveloper(r)
      BY <3>11 DEF FetchDeveloper
    <3>12. CASE FetchAppByKey(r) \/ Fail(r)
      BY <3>1, <3>12 DEF FetchAppByKey, Fail
    <3> QED
      BY <1>1, <3>2, <3>3, <3>4, <3>5, <3>6, <3>7, <3>8, <3>9, <3>10, <3>11, <3>12
         DEF Step, Create, Update, Admit
  <2> QED
    BY <2>1, <2>2 DEF Holding
<1>2. ASSUME NEW a \in DOMAIN rows, Manage(a) PROVE Holding'
  BY <1>2, QueriesStay DEF Holding, Busy
<1>3. ASSUME UNCHANGED vars PROVE Holding'
  BY <1>3 DEF vars, Holding, Busy
<1> QED
  BY <1>1, <1>2, <1>3 DEF Next, Step

\* The parts of OnSvix that a request's place decides.
Labels == {"creating endpoint", "endpoint", "creating id", "id", "creating creds", "get", "put",
           "missing"}
Placed(r) ==
  /\ at[r] \in Labels => app[r] \in DOMAIN svix
  /\ at[r] \in {"creating id", "id", "creating creds", "put"} => svix[app[r]] # None
  /\ at[r] \in {"creating creds", "get", "put", "missing"} /\ app[r] \in DOMAIN rows =>
       rows[app[r]].hook

\* What is on Svix for a request stays there, and so does the webhook id of its row.
LEMMA NextOnSvix == IInv /\ [Next]_vars => OnSvix'
<1> SUFFICES ASSUME IInv, [Next]_vars PROVE OnSvix'
  OBVIOUS
<1> USE DEF IInv
<1>1. \A q \in Requests : Placed(q)
  BY DEF OnSvix, Placed, Labels
<1>2. ASSUME NEW q \in Requests, at'[q] = at[q], app'[q] = app[q] PROVE Placed(q)'
  <2>1. at[q] \in {"creating creds", "get", "put", "missing"} /\ app[q] \in DOMAIN rows' =>
          app[q] \in DOMAIN rows
    BY HooksStay DEF Busy, Creating, Updating
  <2> QED
    BY <1>1, <1>2, <2>1, HooksStay, SvixStays DEF Placed, Labels
<1>3. ASSUME NEW r \in Requests, Step(r) PROVE OnSvix'
  <2>1. ASSUME NEW q \in Requests \ {r} PROVE Placed(q)'
    BY <1>2, <1>3, OthersStay
  <2>2. Placed(r)'
    <3> USE DEF TypeOK, Placed, Labels, MoveTo
    <3>1. ASSUME NEW label \in {"idle", "served", "admitted"}, Answer(r, label)
          PROVE  Placed(r)'
      BY <3>1 DEF Answer
    <3>2. CASE CreateApp(r)
      BY <3>2 DEF CreateApp
    <3>3. CASE CreateSvixApp(r)
      BY <3>1, <3>3 DEF CreateSvixApp, Continue
    <3>4. CASE CreateEndpoint(r)
      <4>1. url[r] # None
        BY <3>4, NoneAssumption DEF CreateEndpoint, Holding, Busy, Creating, Updating
      <4> QED
        BY <1>1, <3>1, <3>4, <4>1 DEF CreateEndpoint, Continue
    <3>5. CASE UpdateWebhookAppID(r)
      <4>1. \/ at[r] = "id" /\ Answer(r, "served")
            \/ at[r] = "creating id" /\ Continue(r, "creating creds")
        BY <3>5 DEF UpdateWebhookAppID
      <4>2. app[r] \in DOMAIN rows' => rows'[app[r]].hook
        <5>1. \A row \in RowType : [row EXCEPT !.hook = TRUE].hook
          BY DEF RowType
        <5>2. rows \in [DOMAIN rows -> RowType]
          BY DEF RowType, CredsType
        <5> QED
          BY <3>5, <5>1, <5>2 DEF UpdateWebhookAppID
      <4>3. svix' = svix
        BY <3>5 DEF UpdateWebhookAppID
      <4> QED
        BY <1>1, <3>1, <4>1, <4>2, <4>3 DEF Continue
    <3>6. CASE UpdateIntegrationCredentials(r)
      <4>1. Answer(r, "served")
        BY <3>6 DEF UpdateIntegrationCredentials
      <4> QED
        BY <3>1, <4>1
    <3>7. CASE FetchAppByAppId(r)
      BY <3>7 DEF FetchAppByAppId
    <3>8. CASE UpdateApp(r)
      <4>1. rows[app[r]] \in RowType
        BY <3>8 DEF UpdateApp, RowType, CredsType
      <4>2. rows'[app[r]].hook = rows[app[r]].hook
        BY <3>8, <4>1, UpdatedRow DEF UpdateApp
      <4> QED
        BY <3>8, <4>2 DEF UpdateApp, WebhookAppExists
    <3>9. CASE GetEndpoint(r)
      BY <1>1, <3>9 DEF GetEndpoint, Continue
    <3>10. CASE UpdateEndpoint(r)
      BY <3>1, <3>10 DEF UpdateEndpoint
    <3>11. CASE FetchDeveloper(r)
      BY <3>11 DEF FetchDeveloper
    <3>12. CASE FetchAppByKey(r) \/ Fail(r)
      BY <3>1, <3>12 DEF FetchAppByKey, Fail
    <3> QED
      BY <1>3, <3>2, <3>3, <3>4, <3>5, <3>6, <3>7, <3>8, <3>9, <3>10, <3>11, <3>12
         DEF Step, Create, Update, Admit
  <2> QED
    BY <2>1, <2>2 DEF OnSvix, Placed, Labels
<1>4. ASSUME NEW a \in DOMAIN rows, Manage(a) PROVE OnSvix'
  <2>1. at' = at /\ app' = app
    BY <1>4, QueriesStay
  <2> QED
    BY <1>2, <2>1 DEF OnSvix, Placed, Labels
<1>5. ASSUME UNCHANGED vars PROVE OnSvix'
  BY <1>5 DEF vars, OnSvix
<1> QED
  BY <1>3, <1>4, <1>5 DEF Next, Step

\* A webhook id is written for an application that is on Svix, where it stays.
LEMMA NextWebhookAppExists == IInv /\ [Next]_vars => WebhookAppExists'
<1> SUFFICES ASSUME IInv, [Next]_vars, NEW a \in DOMAIN rows', rows'[a].hook
             PROVE  a \in DOMAIN svix'
  BY DEF WebhookAppExists
<1> USE DEF IInv
<1>1. CASE a \in DOMAIN rows
  <2>1. rows[a].hook \/ Hooking(a)
    BY <1>1, HooksStay
  <2>2. a \in DOMAIN svix
    BY <1>1, <2>1 DEF WebhookAppExists, Hooking, OnSvix
  <2> QED
    BY <2>2, SvixStays
<1>2. CASE a \notin DOMAIN rows
  BY <1>2, HooksStay DEF NewRow
<1> QED
  BY <1>1, <1>2

\* A request that stays undisturbed through another's step knows what it knew.
LEMMA KnownStays ==
  ASSUME IInv, NEW r \in Requests, Step(r), NEW q \in Requests \ {r}, Busy(q)', alone'[q]
  PROVE  Known(q)'
<1> USE DEF IInv
<1>1. /\ at'[q] = at[q] /\ app'[q] = app[q] /\ platform'[q] = platform[q]
      /\ passed'[q] = passed[q] /\ url'[q] = url[q] /\ merged'[q] = merged[q]
      /\ alone[q]
  BY OthersStay
<1>2. Busy(q)
  BY <1>1 DEF Busy
<1>3. Known(q)
  BY <1>1, <1>2 DEF Undisturbed
<1>4. app[q] \in DOMAIN rows'
  BY <1>3, OthersRows DEF Known
<1>5. CASE at[q] = "checked"
  <2>1. rows'[app[q]].authorized
    BY <1>3, <1>5, OthersRows DEF Known
  <2> QED
    BY <1>1, <1>4, <1>5, <2>1 DEF Known, Creating
<1>6. CASE at[q] # "checked"
  <2>1. q \in Writing(app[q]) /\ r \notin Writing(app[q])
    BY <1>2, <1>3, <1>6 DEF Known, Sole, Writing, At
  <2>2. rows'[app[q]] = rows[app[q]]
    BY <1>3, <2>1, OthersRows DEF Known
  <2>3. app[q] \in DOMAIN svix => svix'[app[q]] = svix[app[q]]
    BY <2>1, OthersRows
  <2>4. at[q] \in {"creating id", "id", "creating creds"} => app[q] \in DOMAIN svix
    BY DEF OnSvix
  <2>5. Sole(q)'
    <3>1. r \notin Writing(app[q])'
      BY <1>1, <2>1, Joining DEF Writing, At
    <3>2. ASSUME NEW p \in Requests \ {q, r} PROVE p \notin Writing(app[q])'
      <4>1. at'[p] = at[p] /\ app'[p] = app[p]
        BY OthersStay
      <4>2. p \notin Writing(app[q])
        BY <1>3, <1>6 DEF Known, Sole
      <4> QED
        BY <1>1, <4>1, <4>2 DEF Writing, At, Busy
    <3> QED
      BY <3>1, <3>2 DEF Sole
  <2>6. at[q] \in {"creating id", "id", "creating creds"} => svix'[app[q]] = url[q]
    BY <1>3, <2>3, <2>4 DEF Known
  <2>7. at[q] \notin {"checked", "write"} => rows'[app[q]].url = url[q]
    BY <1>3, <2>2 DEF Known
  <2>8. at[q] = "write" /\ platform[q] \in Stored =>
          \A f \in Fields \ passed[q] : merged[q][f] = rows'[app[q]].creds[platform[q]][f]
    BY <1>3, <2>2 DEF Known
  <2>9. at[q] \in Creating => \A p \in Stored : rows'[app[q]].creds[p] = NoCredentials
    BY <1>3, <2>2 DEF Known
  <2> QED
    BY <1>1, <1>4, <1>6, <2>5, <2>6, <2>7, <2>8, <2>9 DEF Known
<1> QED
  BY <1>5, <1>6

\* No other request begins to write where one writes undisturbed.
LEMMA SoleStays ==
  ASSUME TypeOK, NEW r \in Requests, Step(r), Sole(r), app'[r] = app[r]
  PROVE  Sole(r)'
<1>1. ASSUME NEW q \in Requests \ {r} PROVE q \notin Writing(app[r])'
  <2>1. at'[q] = at[q] /\ app'[q] = app[q]
    BY OthersStay
  <2>2. q \notin Writing(app[r])
    BY DEF Sole
  <2> QED
    BY <2>1, <2>2 DEF Writing, At, Busy
<1> QED
  BY <1>1 DEF Sole

\* What a request knows of its app grows with its own steps and with nobody else's.
LEMMA NextUndisturbed == IInv /\ [Next]_vars => Undisturbed'
<1> SUFFICES ASSUME IInv, [Next]_vars PROVE Undisturbed'
  OBVIOUS
<1> USE DEF IInv
<1>0. rows \in [DOMAIN rows -> RowType] /\ merged \in [Requests -> CredsType]
  BY DEF TypeOK, RowType, CredsType
<1>1. ASSUME NEW r \in Requests, Step(r), Busy(r)', alone'[r] PROVE Known(r)'
  <2> DEFINE Keeps == /\ Busy(r) /\ alone[r] /\ at[r] # "checked" /\ at'[r] # "checked"
                      /\ app'[r] = app[r]
  <2>0. Keeps => Known(r) /\ Sole(r)'
    BY <1>1, SoleStays DEF Undisturbed, Known
  <2>1. ASSUME NEW label \in {"idle", "served", "admitted"}, Answer(r, label) PROVE FALSE
    BY <1>1, <2>1 DEF TypeOK, Answer, MoveTo, Busy, Creating, Updating
  <2>2. CASE CreateApp(r)
    <3>1. PICK a \in Unused, u \in Urls :
            /\ rows' = [b \in DOMAIN rows \cup {a} |-> IF b = a THEN NewRow(u) ELSE rows[b]]
            /\ app' = [app EXCEPT ![r] = a]
            /\ url' = [url EXCEPT ![r] = u]
      BY <2>2 DEF CreateApp
    <3>2. /\ app'[r] = a /\ url'[r] = u /\ at'[r] = "creating app"
          /\ a \in DOMAIN rows' /\ rows'[a] = NewRow(u)
      BY <2>2, <3>1 DEF TypeOK, CreateApp, MoveTo
    <3>3. Sole(r)'
      <4>1. ASSUME NEW q \in Requests \ {r} PROVE ~(Busy(q)' /\ app'[q] = a)
        BY <1>1, OthersStay DEF Unused, Busy
      <4> QED
        BY <3>2, <4>1 DEF Sole, Writing, At
    <3>4. NewRow(u).url = u /\ \A p \in Stored : NewRow(u).creds[p] = NoCredentials
      BY DEF NewRow
    <3> QED
      BY <3>2, <3>3, <3>4 DEF Known
  <2>3. CASE CreateSvixApp(r)
    <3>1. Continue(r, IF at[r] = "app" THEN "endpoint" ELSE "creating endpoint")
      BY <2>1, <2>3 DEF CreateSvixApp
    <3>2. /\ Keeps /\ rows' = rows /\ url'[r] = url[r]
          /\ at[r] \in {"creating app", "app"}
          /\ at'[r] = IF at[r] = "app" THEN "endpoint" ELSE "creating endpoint"
      BY <1>1, <2>3, <3>1
         DEF TypeOK, CreateSvixApp, Continue, MoveTo, Busy, Creating, Updating
    <3> QED
      BY <2>0, <3>2 DEF Known, Creating
  <2>4. CASE CreateEndpoint(r)
    <3>1. \/ at[r] = "endpoint" /\ Continue(r, "id")
          \/ at[r] = "creating endpoint" /\ Continue(r, "creating id")
      BY <2>1, <2>4 DEF CreateEndpoint
    <3>2. /\ Keeps /\ rows' = rows /\ url'[r] = url[r]
          /\ \/ at[r] = "endpoint" /\ at'[r] = "id"
             \/ at[r] = "creating endpoint" /\ at'[r] = "creating id"
      BY <1>1, <2>4, <3>1
         DEF TypeOK, CreateEndpoint, Continue, MoveTo, Busy, Creating, Updating
    <3>3. svix'[app[r]] = url[r]
      BY <2>4, <3>2 DEF CreateEndpoint, OnSvix
    <3> QED
      BY <2>0, <3>2, <3>3 DEF Known, Creating
  <2>5. CASE UpdateWebhookAppID(r)
    <3>1. at[r] = "creating id" /\ Continue(r, "creating creds")
      BY <2>1, <2>5 DEF UpdateWebhookAppID
    <3>2. /\ Keeps /\ svix' = svix /\ url'[r] = url[r]
          /\ at[r] = "creating id" /\ at'[r] = "creating creds"
      BY <1>1, <2>5, <3>1
         DEF TypeOK, UpdateWebhookAppID, Continue, MoveTo, Busy, Creating, Updating
    <3>3. \A row \in RowType : [row EXCEPT !.hook = TRUE].url = row.url
                            /\ [row EXCEPT !.hook = TRUE].creds = row.creds
      BY DEF RowType
    <3>4. app[r] \in DOMAIN rows =>
            /\ app[r] \in DOMAIN rows'
            /\ rows'[app[r]].url = rows[app[r]].url /\ rows'[app[r]].creds = rows[app[r]].creds
      BY <1>0, <2>5, <3>3 DEF UpdateWebhookAppID
    <3> QED
      BY <2>0, <3>2, <3>4 DEF Known, Creating
  <2>6. CASE UpdateIntegrationCredentials(r)
    BY <2>1, <2>6 DEF UpdateIntegrationCredentials
  <2>7. CASE FetchAppByAppId(r)
    <3>1. PICK a \in DOMAIN rows, p \in Platforms \cup {None}, new \in SUBSET Fields :
            /\ app' = [app EXCEPT ![r] = a]
            /\ platform' = [platform EXCEPT ![r] = p]
            /\ passed' = [passed EXCEPT ![r] = new]
            /\ merged' = [merged EXCEPT ![r] = [f \in Fields |->
                            IF f \in new THEN r
                            ELSE IF p \in Stored THEN rows[a].creds[p][f] ELSE None]]
            /\ alone'[r] => Writing(a) = {}
      BY <2>7 DEF FetchAppByAppId
    <3>2. at' = [at EXCEPT ![r] = "write"] /\ rows' = rows
      BY <2>7 DEF FetchAppByAppId, MoveTo
    <3>3. /\ at'[r] = "write" /\ app'[r] = a /\ platform'[r] = p /\ passed'[r] = new
          /\ p \in Stored => \A f \in Fields \ new : merged'[r][f] = rows[a].creds[p][f]
      BY <1>0, <3>1, <3>2 DEF TypeOK
    <3>4. Sole(r)'
      <4>1. ASSUME NEW q \in Requests \ {r}
            PROVE  ~(Busy(q)' /\ at'[q] # "checked" /\ app'[q] = a)
        <5>1. at'[q] = at[q] /\ app'[q] = app[q]
          BY <1>1, OthersStay
        <5> QED
          BY <1>1, <3>1, <5>1 DEF Writing, At, Busy
      <4> QED
        BY <3>3, <4>1 DEF Sole, Writing, At
    <3> QED
      BY <3>2, <3>3, <3>4 DEF Known, Creating
  <2>8. CASE UpdateApp(r)
    <3>1. /\ Keeps /\ svix' = svix /\ at[r] = "write"
          /\ at'[r] \in {"get", "app"} /\ url'[r] = rows'[app[r]].url
          /\ app[r] \in DOMAIN rows' /\ app[r] \in DOMAIN rows
      BY <1>1, <2>8 DEF TypeOK, UpdateApp, MoveTo, Busy, Updating
    <3> QED
      BY <2>0, <3>1 DEF Known, Creating
  <2>9. CASE GetEndpoint(r)
    <3>1. /\ Keeps /\ rows' = rows /\ url'[r] = url[r]
          /\ at[r] = "get" /\ at'[r] \in {"missing", "put"}
      BY <1>1, <2>9 DEF TypeOK, GetEndpoint, Continue, MoveTo, Busy, Updating
    <3> QED
      BY <2>0, <3>1 DEF Known, Creating
  <2>10. CASE UpdateEndpoint(r)
    BY <2>1, <2>10 DEF UpdateEndpoint
  <2>11. CASE FetchDeveloper(r)
    <3>1. PICK a \in DOMAIN rows : rows[a].authorized /\ app' = [app EXCEPT ![r] = a]
      BY <2>11 DEF FetchDeveloper
    <3>2. at'[r] = "checked" /\ app'[r] = a /\ rows' = rows
      BY <2>11, <3>1 DEF TypeOK, FetchDeveloper, MoveTo
    <3> QED
      BY <3>1, <3>2 DEF Known, Creating
  <2>12. CASE FetchAppByKey(r) \/ Fail(r)
    BY <2>1, <2>12 DEF FetchAppByKey, Fail
  <2> QED
    BY <1>1, <2>2, <2>3, <2>4, <2>5, <2>6, <2>7, <2>8, <2>9, <2>10, <2>11, <2>12
       DEF Step, Create, Update, Admit
<1>2. ASSUME NEW r \in Requests, Step(r) PROVE Undisturbed'
  <2>1. ASSUME NEW q \in Requests, Busy(q)', alone'[q] PROVE Known(q)'
    <3>1. CASE q = r
      BY <1>1, <1>2, <2>1, <3>1
    <3>2. CASE q # r
      BY <1>2, <2>1, <3>2, KnownStays
    <3> QED
      BY <3>1, <3>2
  <2> QED
    BY <2>1 DEF Undisturbed
<1>3. ASSUME NEW a \in DOMAIN rows, Manage(a) PROVE Undisturbed'
  <2>1. /\ UNCHANGED <<svix, at, app, platform, passed, url, merged>>
        /\ \A q \in Requests : alone'[q] => alone[q]
        /\ \/ UNCHANGED <<rows, alone>>
           \/ \A q \in Requests : alone'[q] => q \notin At(a)
    BY <1>3, QueriesStay
  <2>2. \A q \in Requests : Sole(q) => Sole(q)'
    BY <2>1 DEF Sole, Writing, At, Busy
  <2>3. ASSUME NEW q \in Requests, Busy(q)', alone'[q] PROVE Known(q)'
    <3>1. Busy(q) /\ alone[q]
      BY <2>1, <2>3 DEF Busy
    <3>2. Known(q)
      BY <3>1 DEF Undisturbed
    <3>3. rows' = rows \/ app[q] # a
      BY <2>1, <2>3, <3>1 DEF At
    <3>4. app[q] \in DOMAIN rows' /\ rows'[app[q]] = rows[app[q]]
      <4>1. CASE rows' = rows
        BY <3>2, <4>1 DEF Known
      <4>2. CASE app[q] # a
        BY <1>0, <1>3, <3>2, <4>2 DEF Known, Manage, DeletePlatformIntegrationCredentials,
           DeleteApp, DisableApp, EnableApp, RevokeAppKeys
      <4> QED
        BY <3>3, <4>1, <4>2
    <3> QED
      BY <2>1, <2>2, <3>2, <3>4 DEF Known
  <2> QED
    BY <2>3 DEF Undisturbed
<1>4. ASSUME UNCHANGED vars PROVE Undisturbed'
  BY <1>4 DEF vars, Undisturbed, Known, Sole, Busy, Writing, At
<1> QED
  BY <1>2, <1>3, <1>4 DEF Next, Step
-----------------------------------------------------------------------------
(* The invariant.                                                           *)

\* It holds at the start: an old app has a webhook id if it is on Svix.
LEMMA InitIInv == Init => IInv
<1> SUFFICES ASSUME Init PROVE IInv
  OBVIOUS
<1>1. TypeOK
  BY InitType
<1>2. \A r \in Requests : at[r] = "idle"
  BY DEF Init
<1>3. Holding /\ OnSvix /\ Undisturbed
  BY <1>2 DEF Holding, OnSvix, Undisturbed, Busy, Creating, Updating
<1>4. WebhookAppExists
  <2>1. PICK there \in SUBSET OldApps, u \in Urls :
          rows = [a \in there |-> [NewRow(u) EXCEPT !.hook = a \in DOMAIN svix]]
    BY DEF Init
  <2>2. \A a \in there : rows[a].hook = (a \in DOMAIN svix)
    BY <2>1 DEF NewRow
  <2> QED
    BY <2>1, <2>2 DEF WebhookAppExists
<1> QED
  BY <1>1, <1>3, <1>4 DEF IInv

\* Every step keeps it.
LEMMA NextIInv == IInv /\ [Next]_vars => IInv'
BY NextType, NextHolding, NextOnSvix, NextWebhookAppExists, NextUndisturbed DEF IInv

LEMMA Invariant == Spec => []IInv
BY InitIInv, NextIInv, PTL DEF Spec

\* The state has its type: whatever fails, a row is a row, and a request that writes a
\* URL has one.
THEOREM TypeCorrect == Spec => []TypeOK
<1>1. IInv => TypeOK
  BY DEF IInv
<1> QED
  BY <1>1, Invariant, PTL

\* A row's webhook id is that of an application on Svix.
THEOREM Webhook_AppExists == Spec => []WebhookAppExists
<1>1. IInv => WebhookAppExists
  BY DEF IInv
<1> QED
  BY <1>1, Invariant, PTL

-----------------------------------------------------------------------------
(* What a request that is answered leaves.                                  *)

\* The four steps that answer with success, and the one that lets a request through.
LEMMA WhoAnswers ==
  ASSUME IInv, [Next]_vars, NEW r \in Requests, Busy(r)
  PROVE  /\ at'[r] = "served" =>
              \/ at[r] = "missing" /\ CreateEndpoint(r)
              \/ at[r] = "id" /\ UpdateWebhookAppID(r)
              \/ UpdateIntegrationCredentials(r)
              \/ UpdateEndpoint(r)
         /\ at'[r] = "admitted" => FetchAppByKey(r)
<1> USE DEF IInv
<1>1. CASE Step(r)
  <2> USE DEF TypeOK, MoveTo, Answer, Continue
  <2>1. CreateApp(r) => at'[r] = "creating app"
    BY DEF CreateApp
  <2>2. CreateSvixApp(r) => at'[r] \in {"idle", "endpoint", "creating endpoint"}
    BY DEF CreateSvixApp
  <2>3. CreateEndpoint(r) =>
          \/ at[r] = "missing" /\ at'[r] = "served"
          \/ at'[r] \in {"id", "creating id"}
    BY DEF CreateEndpoint
  <2>4. UpdateWebhookAppID(r) =>
          \/ at[r] = "id" /\ at'[r] = "served"
          \/ at'[r] = "creating creds"
    <3> SUFFICES ASSUME UpdateWebhookAppID(r)
                 PROVE  (at[r] = "id" /\ at'[r] = "served") \/ at'[r] = "creating creds"
      OBVIOUS
    <3>1. (at[r] = "id" /\ Answer(r, "served")) \/ Continue(r, "creating creds")
      BY DEF UpdateWebhookAppID
    <3> QED
      BY <3>1
  <2>5. UpdateIntegrationCredentials(r) => at'[r] = "served"
    <3> SUFFICES ASSUME UpdateIntegrationCredentials(r) PROVE at'[r] = "served"
      OBVIOUS
    <3>1. Answer(r, "served")
      BY DEF UpdateIntegrationCredentials
    <3> QED
      BY <3>1
  <2>6. FetchAppByAppId(r) => at'[r] = "write"
    BY DEF FetchAppByAppId
  <2>7. UpdateApp(r) => at'[r] \in {"get", "app"}
    BY DEF UpdateApp
  <2>8. GetEndpoint(r) => at'[r] \in {"missing", "put"}
    BY DEF GetEndpoint
  <2>9. UpdateEndpoint(r) => at'[r] = "served"
    BY DEF UpdateEndpoint
  <2>10. FetchDeveloper(r) => at'[r] = "checked"
    BY DEF FetchDeveloper
  <2>11. FetchAppByKey(r) => at'[r] = "admitted"
    BY DEF FetchAppByKey
  <2>12. Fail(r) => at'[r] = "idle"
    BY DEF Fail
  <2>13. Create(r) \/ Update(r) \/ Admit(r) \/ Fail(r)
    BY <1>1 DEF Step
  <2> HIDE DEF TypeOK, MoveTo, Answer, Continue, IInv
  <2> QED
    BY <2>1, <2>2, <2>3, <2>4, <2>5, <2>6, <2>7, <2>8, <2>9, <2>10, <2>11, <2>12, <2>13
       DEF Create, Update, Admit
<1>2. CASE \E q \in Requests \ {r} : Step(q)
  BY <1>2, OthersStay DEF Busy, Creating, Updating
<1>3. CASE \E a \in DOMAIN rows : Manage(a)
  BY <1>3, QueriesStay DEF Busy, Creating, Updating
<1>4. CASE UNCHANGED vars
  BY <1>4 DEF vars, Busy, Creating, Updating
<1> QED
  BY <1>1, <1>2, <1>3, <1>4 DEF Next, Step

\* What those four steps write to the row and to Svix.
LEMMA WhatIsWritten ==
  ASSUME IInv, [Next]_vars, NEW r \in Requests, Busy(r), at'[r] = "served"
  PROVE  /\ app[r] \in DOMAIN svix
         /\ \/ /\ at[r] \in {"missing", "put"}
               /\ rows' = rows /\ svix'[app[r]] = url[r] /\ url[r] \in Urls
            \/ /\ at[r] \in {"id", "creating creds"}
               /\ svix' = svix /\ DOMAIN rows' = DOMAIN rows
               /\ app[r] \in DOMAIN rows =>
                    /\ rows'[app[r]].hook
                    /\ rows'[app[r]].url \in {rows[app[r]].url, url[r]}
<1> USE DEF IInv
<1>0. rows \in [DOMAIN rows -> RowType]
  BY DEF TypeOK, RowType, CredsType
<1>1. CASE at[r] = "missing" /\ CreateEndpoint(r)
  BY <1>1 DEF TypeOK, OnSvix, Holding, CreateEndpoint
<1>2. CASE at[r] = "id" /\ UpdateWebhookAppID(r)
  <2>1. /\ svix' = svix
        /\ rows' = [a \in DOMAIN rows |->
                      IF a = app[r] THEN [rows[a] EXCEPT !.hook = TRUE] ELSE rows[a]]
    BY <1>2 DEF UpdateWebhookAppID
  <2>2. \A row \in RowType : /\ [row EXCEPT !.hook = TRUE].hook
                            /\ [row EXCEPT !.hook = TRUE].url = row.url
    BY DEF RowType
  <2>3. app[r] \in DOMAIN svix
    BY <1>2 DEF OnSvix
  <2> QED
    BY <1>0, <1>2, <2>1, <2>2, <2>3
<1>3. CASE UpdateIntegrationCredentials(r)
  <2>1. at[r] = "creating creds" /\ svix' = svix
    BY <1>3 DEF UpdateIntegrationCredentials
  <2>2. app[r] \in DOMAIN svix /\ (app[r] \in DOMAIN rows => rows[app[r]].hook)
    BY <2>1 DEF OnSvix
  <2>3. CASE rows' = rows
    BY <2>1, <2>2, <2>3
  <2>4. CASE rows' = [a \in DOMAIN rows |->
                        IF a # app[r] THEN rows[a]
                        ELSE [authorized |-> TRUE, hook |-> TRUE, url |-> url[r],
                              creds |-> [p \in Stored |-> IF p = platform[r] THEN merged[r]
                                                          ELSE rows[a].creds[p]]]]
    BY <2>1, <2>2, <2>4
  <2> QED
    BY <1>3, <2>3, <2>4 DEF UpdateIntegrationCredentials
<1>4. CASE UpdateEndpoint(r)
  BY <1>4 DEF TypeOK, OnSvix, Holding, UpdateEndpoint, Busy, Updating
<1> QED
  BY <1>1, <1>2, <1>3, <1>4, WhoAnswers

\* An app whose creation or update was answered with success gets its events.
THEOREM AnsweredApp_GetsEvents == Spec => AnsweredAppGetsEvents
<1>1. IInv /\ [Next]_vars =>
        [\A r \in Requests :
           Busy(r) /\ at'[r] = "served" /\ app[r] \in DOMAIN rows' =>
             rows'[app[r]].hook /\ svix'[app[r]] # None]_vars
  <2> SUFFICES ASSUME IInv, [Next]_vars, NEW r \in Requests,
                      Busy(r), at'[r] = "served", app[r] \in DOMAIN rows'
               PROVE  rows'[app[r]].hook /\ svix'[app[r]] # None
    OBVIOUS
  <2>1. CASE at[r] \in {"missing", "put"}
    BY <2>1, WhatIsWritten, NoneAssumption DEF IInv, OnSvix
  <2>2. CASE at[r] \in {"id", "creating creds"}
    BY <2>2, WhatIsWritten DEF IInv, OnSvix
  <2> QED
    BY <2>1, <2>2, WhatIsWritten
<1> QED
  BY <1>1, Invariant, PTL DEF Spec, AnsweredAppGetsEvents

\* A request that was alone with its app leaves one webhook URL in the row and on Svix.
THEOREM OneUrl_Afterwards == Spec => OneUrlAfterwards
<1>1. IInv /\ [Next]_vars =>
        [\A r \in Requests :
           Busy(r) /\ alone[r] /\ at'[r] = "served" =>
             app[r] \in DOMAIN rows' /\ svix'[app[r]] = rows'[app[r]].url]_vars
  <2> SUFFICES ASSUME IInv, [Next]_vars, NEW r \in Requests,
                      Busy(r), alone[r], at'[r] = "served"
               PROVE  app[r] \in DOMAIN rows' /\ svix'[app[r]] = rows'[app[r]].url
    OBVIOUS
  <2>1. Known(r)
    BY DEF IInv, Undisturbed
  <2>2. CASE at[r] \in {"missing", "put"}
    BY <2>1, <2>2, WhatIsWritten DEF Known
  <2>3. CASE at[r] \in {"id", "creating creds"}
    BY <2>1, <2>3, WhatIsWritten DEF Known
  <2> QED
    BY <2>2, <2>3, WhatIsWritten
<1> QED
  BY <1>1, Invariant, PTL DEF Spec, OneUrlAfterwards

\* A request is let through only while its key is the app's.
THEOREM LetThrough_ByValidKey == Spec => LetThroughByValidKey
<1>1. IInv /\ [Next]_vars =>
        [\A r \in Requests :
           Busy(r) /\ at'[r] = "admitted" =>
             /\ app[r] \in DOMAIN rows /\ key[r] # None
             /\ alone[r] => rows[app[r]].authorized]_vars
  <2> SUFFICES ASSUME IInv, [Next]_vars, NEW r \in Requests, Busy(r), at'[r] = "admitted"
               PROVE  /\ app[r] \in DOMAIN rows /\ key[r] # None
                      /\ alone[r] => rows[app[r]].authorized
    OBVIOUS
  <2>1. FetchAppByKey(r)
    BY WhoAnswers
  <2>2. alone[r] => Known(r)
    BY DEF IInv, Undisturbed
  <2> QED
    BY <2>1, <2>2 DEF FetchAppByKey, Known
<1> QED
  BY <1>1, Invariant, PTL DEF Spec, LetThroughByValidKey

\* A field of an app's credentials changes only if it is passed or the platform's are
\* deleted, unless another request came between the read and the write.
THEOREM OnlyPassed_FieldsChange == Spec => OnlyPassedFieldsChange
<1> DEFINE Excused(a, p, f) ==
             \E r \in Requests : /\ Busy(r) /\ app[r] = a /\ platform[r] = p
                                /\ (f \in passed[r] \/ ~alone[r])
<1>1. IInv /\ [Next]_vars =>
        [\A a \in DOMAIN rows \cap DOMAIN rows' : \A p \in Stored : \A f \in Fields :
           rows'[a].creds[p][f] # rows[a].creds[p][f] /\ rows'[a].creds[p] # NoCredentials =>
             Excused(a, p, f)]_vars
  <2> SUFFICES ASSUME IInv, [Next]_vars,
                      NEW a \in DOMAIN rows \cap DOMAIN rows', NEW p \in Stored,
                      NEW f \in Fields,
                      rows'[a].creds[p][f] # rows[a].creds[p][f],
                      rows'[a].creds[p] # NoCredentials
               PROVE  Excused(a, p, f)
    OBVIOUS
  <2> USE DEF IInv
  <2>0. rows \in [DOMAIN rows -> RowType] /\ merged \in [Requests -> CredsType]
    BY DEF TypeOK, RowType, CredsType
  <2>1. rows'[a].creds[p] # rows[a].creds[p]
    OBVIOUS
  <2>2. ASSUME NEW r \in Requests, Step(r) PROVE Excused(a, p, f)
    <3>1. CASE CreateApp(r)
      BY <2>1, <3>1 DEF CreateApp, Unused
    <3>2. CASE UpdateWebhookAppID(r)
      <4>1. \A row \in RowType : [row EXCEPT !.hook = TRUE].creds = row.creds
        BY DEF RowType
      <4> QED
        BY <2>0, <2>1, <3>2, <4>1 DEF UpdateWebhookAppID
    <3>3. CASE UpdateIntegrationCredentials(r)
      <4>1. rows' = [b \in DOMAIN rows |->
                       IF b # app[r] THEN rows[b]
                       ELSE [authorized |-> TRUE, hook |-> TRUE, url |-> url[r],
                             creds |-> [o \in Stored |-> IF o = platform[r] THEN merged[r]
                                                         ELSE rows[b].creds[o]]]]
        BY <2>1, <3>3 DEF UpdateIntegrationCredentials
      <4>2. a = app[r] /\ p = platform[r] /\ rows'[a].creds[p] = merged[r]
        BY <2>1, <4>1
      <4>3. Busy(r) /\ at[r] \in Creating
        BY <3>3 DEF UpdateIntegrationCredentials, Busy, Creating
      <4>4. passed[r] = {"id"} /\ merged[r]["refresh"] = None
        BY <4>3 DEF Holding
      <4>5. alone[r] => rows[a].creds[p] = NoCredentials
        BY <4>2, <4>3 DEF Undisturbed, Known
      <4>6. alone[r] => f # "refresh"
        BY <4>2, <4>4, <4>5 DEF NoCredentials, Fields
      <4> QED
        BY <4>2, <4>3, <4>4, <4>6 DEF Fields
    <3>4. CASE UpdateApp(r)
      <4>1. /\ at[r] = "write" /\ app[r] \in DOMAIN rows
            /\ rows' = [rows EXCEPT ![app[r]] = Updated(r, rows[app[r]])]
        BY <3>4 DEF UpdateApp
      <4>2. a = app[r] /\ rows'[a] = Updated(r, rows[a])
        BY <2>0, <2>1, <4>1
      <4>3. p = platform[r] /\ rows'[a].creds[p] = merged[r]
        BY <2>0, <2>1, <4>2, UpdatedRow
      <4>4. Busy(r)
        BY <4>1 DEF Busy, Updating
      <4>5. alone[r] => Known(r)
        BY <4>4 DEF Undisturbed
      <4>6. alone[r] => \A g \in Fields \ passed[r] : merged[r][g] = rows[a].creds[p][g]
        BY <4>1, <4>2, <4>3, <4>5 DEF Known
      <4>7. ~alone[r] \/ f \in passed[r]
        BY <4>3, <4>6
      <4> QED
        BY <4>2, <4>3, <4>4, <4>7
    <3>5. \/ rows' = rows \/ CreateApp(r) \/ UpdateWebhookAppID(r)
          \/ UpdateIntegrationCredentials(r) \/ UpdateApp(r)
      BY <2>2 DEF Step, Create, Update, Admit, CreateSvixApp, CreateEndpoint, FetchAppByAppId,
         GetEndpoint, UpdateEndpoint, FetchDeveloper, FetchAppByKey, Fail
    <3> QED
      BY <2>1, <3>1, <3>2, <3>3, <3>4, <3>5
  <2>3. ASSUME NEW b \in DOMAIN rows, Manage(b) PROVE FALSE
    <3>1. ASSUME NEW row \in RowType
          PROVE  /\ \A c \in BOOLEAN : [row EXCEPT !.authorized = c].creds = row.creds
                 /\ \A o \in Stored :
                      /\ [row EXCEPT !.creds[o] = NoCredentials].creds[o] = NoCredentials
                      /\ o # p =>
                           [row EXCEPT !.creds[o] = NoCredentials].creds[p] = row.creds[p]
      BY DEF RowType
    <3>2. CASE DeleteApp(b)
      BY <2>1, <3>2 DEF DeleteApp
    <3>3. CASE RevokeAppKeys(b)
      BY <2>1, <3>3 DEF RevokeAppKeys
    <3>4. CASE DeletePlatformIntegrationCredentials(b)
      <4>1. PICK o \in Stored : rows' = [rows EXCEPT ![b].creds[o] = NoCredentials]
        BY <3>4 DEF DeletePlatformIntegrationCredentials
      <4>2. a = b
        BY <2>0, <2>1, <4>1
      <4>3. rows'[a] = [rows[a] EXCEPT !.creds[o] = NoCredentials]
        BY <2>0, <4>1, <4>2
      <4>4. rows[a] \in RowType
        BY <2>0
      <4> QED
        BY <2>1, <3>1, <4>3, <4>4
    <3>5. CASE DisableApp(b) \/ EnableApp(b)
      <4>1. PICK c \in BOOLEAN : rows' = [rows EXCEPT ![b].authorized = c]
        BY <3>5 DEF DisableApp, EnableApp
      <4>2. a = b
        BY <2>0, <2>1, <4>1
      <4>3. rows'[a] = [rows[a] EXCEPT !.authorized = c] /\ rows[a] \in RowType
        BY <2>0, <4>1, <4>2
      <4> QED
        BY <2>1, <3>1, <4>3
    <3> QED
      BY <2>3, <3>2, <3>3, <3>4, <3>5 DEF Manage
  <2>4. CASE UNCHANGED vars
    BY <2>1, <2>4 DEF vars
  <2> QED
    BY <2>2, <2>3, <2>4 DEF Next, Step
<1> QED
  BY <1>1, Invariant, PTL DEF Spec, OnlyPassedFieldsChange
=============================================================================
