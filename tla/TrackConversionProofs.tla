----------------------- MODULE TrackConversionProofs -----------------------
(***************************************************************************)
(* What TLAPS proves of TrackConversion for every catalog, every spelling  *)
(* of names and any number of conversions.                                 *)
(***************************************************************************)
EXTENDS TrackConversion, Integers, TLAPS

USE DEF jobVars, MoveTo

-----------------------------------------------------------------------------
(* Platforms, requests and tracks.                                          *)

Labels    == {"idle", "lookup", "get", "fetch", "item", "panic", "search", "ask", "done"}
AnyRequest == TrackRequests \cup ItemRequests

\* What a request asks for.
LEMMA RequestType ==
  ASSUME NEW r \in AnyRequest
  PROVE  /\ r.from \in Platforms /\ r.to \in Platforms \cup {"all"}
         /\ r.kind \in {"track", "item"} /\ r # NoRequest
         /\ r.kind = "item" => r.to \in Platforms
<1>1. CASE r \in TrackRequests
  <2>1. PICK p \in {l \in Links : Served(l)} :
          r \in [kind : {"track"}, from : {p}, id : {t.id : t \in Catalog[p]}, to : Aims]
    BY <1>1 DEF TrackRequests
  <2> QED
    BY <2>1, BoundsAssumption DEF NoRequest
<1>2. CASE r \in ItemRequests
  <2>1. PICK p \in Links \cap Credentialed \cap {"deezer", "spotify"} :
          r \in [kind : {"item"}, from : {p}, id : {t.id : t \in Catalog[p]},
                 to : Aims \cap Credentialed]
    BY <1>2 DEF ItemRequests
  <2> QED
    BY <2>1, BoundsAssumption, CredentialedAssumption DEF NoRequest
<1> QED
  BY <1>1, <1>2 DEF AnyRequest

\* The places of the platforms.
LEMMA Places == /\ Place("applemusic") = 1 /\ Place("deezer") = 2 /\ Place("spotify") = 3
                /\ Place("tidal") = 4 /\ Place("ytmusic") = 5
<1>1. /\ \A n \in 1 .. 5 : Order[n] = "applemusic" <=> n = 1
      /\ \A n \in 1 .. 5 : Order[n] = "deezer" <=> n = 2
      /\ \A n \in 1 .. 5 : Order[n] = "spotify" <=> n = 3
      /\ \A n \in 1 .. 5 : Order[n] = "tidal" <=> n = 4
      /\ \A n \in 1 .. 5 : Order[n] = "ytmusic" <=> n = 5
  BY DEF Order
<1> QED
  BY <1>1 DEF Place

\* The targets of a request are platforms, and none of them twice.
LEMMA TargetsType ==
  ASSUME NEW r \in AnyRequest
  PROVE  /\ Targets(r) \in Seq(Platforms) /\ Len(Targets(r)) \in {1, 4}
         /\ \A i, k \in 1 .. Len(Targets(r)) : Targets(r)[i] = Targets(r)[k] => i = k
         /\ r.to # "all" => Targets(r) = <<r.to>> /\ Len(Targets(r)) = 1
<1>1. r.from \in Platforms /\ r.to \in Platforms \cup {"all"}
  BY RequestType
<1>2. CASE r.to # "all"
  <2>1. Targets(r) = <<r.to>> /\ r.to \in Platforms
    BY <1>1, <1>2 DEF Targets
  <2> QED
    BY <2>1
<1>3. CASE r.to = "all"
  <2> DEFINE n == Place(r.from)
             T == [i \in 1 .. 4 |-> IF i < n THEN Order[i] ELSE Order[i + 1]]
  <2>1. Targets(r) = T
    BY <1>3 DEF Targets
  <2>2. n \in 1 .. 5
    BY <1>1, Places DEF Platforms
  <2>3. /\ \A i \in 1 .. 5 : Order[i] \in Platforms
        /\ \A i, k \in 1 .. 5 : Order[i] = Order[k] => i = k
    BY DEF Order, Platforms
  <2> HIDE DEF n
  <2>4. \A i \in 1 .. 4 : T[i] \in Platforms
    BY <2>2, <2>3
  <2>5. \A i, k \in 1 .. 4 : T[i] = T[k] => i = k
    BY <2>2, <2>3
  <2>6. T \in Seq(Platforms) /\ Len(T) = 4
    BY <2>4
  <2> QED
    BY <1>3, <2>1, <2>5, <2>6
<1> QED
  BY <1>2, <1>3

\* Tracks of the catalog, and what SearchTrackWithID makes of them, are tracks.
LEMMA CatalogType ==
  ASSUME NEW p \in Platforms, NEW t \in Catalog[p]
  PROVE  /\ t \in TrackType /\ AsSource(p, t) \in TrackType
         /\ AsRead(p, t.id, t) /\ AsRead(p, t.id, AsSource(p, t))
<1>1. t \in TrackType
  <2>1. t \in [id : {t.id}, artist : Names, title : Titles] /\ t.id \in Ids
    BY CatalogAssumption DEF Ids
  <2> QED
    BY <2>1 DEF TrackType
<1>2. AsSource(p, t) \in TrackType
  <2>1. AlbumId \in Ids /\ AlbumArtist[t.title] \in Names
    BY <1>1, TitlesAssumption DEF Ids, TrackType
  <2>2. CASE p = "spotify"
    BY <1>1, <2>1, <2>2 DEF AsSource, TrackType
  <2>3. CASE p = "tidal"
    BY <1>1, <2>1, <2>3 DEF AsSource, TrackType
  <2>4. CASE p \notin {"spotify", "tidal"}
    BY <1>1, <2>4 DEF AsSource
  <2> QED
    BY <2>2, <2>3, <2>4
<1>3. AsRead(p, t.id, t) /\ AsRead(p, t.id, AsSource(p, t))
  BY DEF AsRead
<1> QED
  BY <1>1, <1>2, <1>3

\* What is read under an id is a track.
LEMMA ReadType ==
  ASSUME NEW p \in Platforms, NEW id, NEW t, AsRead(p, id, t)
  PROVE  t \in TrackType
BY CatalogType DEF AsRead

\* A track of a catalog, or made of one, is not the blank track.
LEMMA NotBlank ==
  ASSUME NEW t \in TrackType
  PROVE  t # Blank
<1>1. DOMAIN t = {"id", "artist", "title"}
  BY DEF TrackType
<1>2. DOMAIN Blank = {"artists"}
  BY DEF Blank
<1> QED
  BY <1>1, <1>2

-----------------------------------------------------------------------------
(* The cache.                                                               *)

EntryType == {e \in [track : TrackType \cup {Blank}, expires : BOOLEAN] :
                e.track = Blank => e.expires}

\* The entries of tracks that are not blank, and of the blank track.
LEMMA EntriesType ==
  /\ \A t \in TrackType, expires \in BOOLEAN :
       Entry(t, expires) \in EntryType /\ Entry(t, expires).track = t
  /\ Entry(Blank, TRUE) \in EntryType /\ Entry(Blank, TRUE).track = Blank
BY NotBlank DEF Entry, EntryType

CacheOK == \A key \in DOMAIN cache : cache[key] \in EntryType /\ Fits(cache[key].track, key)

\* Writing an entry where it fits, under any of the keys.
LEMMA SetFits ==
  ASSUME CacheOK, NEW keys, NEW entry \in EntryType, Set(keys, entry),
         \A key \in keys : Fits(entry.track, key)
  PROVE  CacheOK'
BY DEF CacheOK, Set, Fits, AsRead

LEMMA StoreFits ==
  ASSUME CacheOK, NEW keys, NEW entry \in EntryType, Store(keys, entry),
         \A key \in keys : Fits(entry.track, key)
  PROVE  CacheOK'
<1>1. PICK stored \in SUBSET keys : Set(stored, entry)
  BY DEF Store
<1> QED
  BY <1>1, SetFits

\* What fits the keys that a conversion writes.
LEMMA KeysFit ==
  ASSUME NEW p \in Platforms
  PROVE  /\ \A id, t : AsRead(p, id, t) => Fits(t, IdKey(p, id))
         /\ \A id : Fits(Blank, IdKey("deezer", id))
         /\ \A t \in Catalog[p] : \A key \in ItemKeys(p, t) : Fits(t, key)
         /\ \A name \in Names : \A t \in Catalog["applemusic"] : Fits(t, ArtistKey(Normalized[name]))
<1>1. ASSUME NEW id, NEW t, AsRead(p, id, t)
      PROVE  Fits(t, IdKey(p, id))
  BY <1>1 DEF Fits, IdKey
<1>2. ASSUME NEW t \in Catalog[p], NEW key \in ItemKeys(p, t)
      PROVE  Fits(t, key)
  <2>1. CASE key = NameKey(p, t.artist, t.title)
    <3>1. key[1] = "name" /\ key[2] = p
      BY <2>1 DEF NameKey
    <3> QED
      BY <2>1, <3>1 DEF Fits
  <2>2. CASE key = IdKey(p, t.id)
    BY <1>1, <2>2, CatalogType
  <2> QED
    BY <1>2, <2>1, <2>2 DEF ItemKeys
<1>3. ASSUME NEW name \in Names, NEW t \in Catalog["applemusic"]
      PROVE  Fits(t, ArtistKey(Normalized[name]))
  BY NormalizedAssumption DEF Fits, ArtistKey
<1>4. \A id : Fits(Blank, IdKey("deezer", id))
  BY DEF Fits, IdKey
<1> QED
  BY <1>1, <1>2, <1>3, <1>4

\* What an entry tells that is read under a key.
LEMMA HitsFit ==
  ASSUME CacheOK
  PROVE  /\ \A p, id : IdKey(p, id) \in DOMAIN cache =>
              \/ AsRead(p, id, cache[IdKey(p, id)].track)
              \/ cache[IdKey(p, id)].track = Blank
         /\ \A p, artist, title : NameKey(p, artist, title) \in DOMAIN cache =>
              LET t == cache[NameKey(p, artist, title)].track
              IN  t \in Catalog[p] /\ t.artist = artist /\ t.title = title
         /\ \A p, artist, title : PlainKey(p, artist, title) \notin DOMAIN cache
         /\ \A artist : ArtistKey(artist) \in DOMAIN cache =>
              cache[ArtistKey(artist)].track \in Catalog["applemusic"]
<1>1. ASSUME NEW p, NEW id, IdKey(p, id) \in DOMAIN cache
      PROVE  AsRead(p, id, cache[IdKey(p, id)].track) \/ cache[IdKey(p, id)].track = Blank
  <2> DEFINE key == IdKey(p, id)
  <2>1. key[1] = "id" /\ key[2] = p /\ key[3] = id /\ Fits(cache[key].track, key)
    BY <1>1 DEF IdKey, CacheOK
  <2> HIDE DEF key
  <2> QED
    BY <2>1 DEF Fits, key
<1>2. ASSUME NEW p, NEW artist, NEW title, NameKey(p, artist, title) \in DOMAIN cache
      PROVE  LET t == cache[NameKey(p, artist, title)].track
             IN  t \in Catalog[p] /\ t.artist = artist /\ t.title = title
  <2> DEFINE key == NameKey(p, artist, title)
             t   == cache[key].track
  <2>1. key[1] = "name" /\ key[2] = p /\ key[3] = artist /\ key[4] = title /\ Fits(t, key)
    BY <1>2 DEF NameKey, CacheOK
  <2> HIDE DEF key, t
  <2>2. t \in Catalog[p] /\ key = NameKey(p, t.artist, t.title)
    BY <2>1 DEF Fits
  <2>3. key[3] = t.artist /\ key[4] = t.title
    BY <2>2 DEF NameKey
  <2> QED
    BY <2>1, <2>2, <2>3 DEF key, t
<1>3. ASSUME NEW p, NEW artist, NEW title, PlainKey(p, artist, title) \in DOMAIN cache
      PROVE  FALSE
  <2> DEFINE key == PlainKey(p, artist, title)
  <2>1. key[1] = "plain" /\ Fits(cache[key].track, key)
    BY <1>3 DEF PlainKey, CacheOK
  <2> HIDE DEF key
  <2> QED
    BY <2>1 DEF Fits
<1>4. ASSUME NEW artist, ArtistKey(artist) \in DOMAIN cache
      PROVE  cache[ArtistKey(artist)].track \in Catalog["applemusic"]
  <2> DEFINE key == ArtistKey(artist)
  <2>1. key[1] = "artist" /\ Fits(cache[key].track, key)
    BY <1>4 DEF ArtistKey, CacheOK
  <2> HIDE DEF key
  <2> QED
    BY <2>1 DEF Fits, key
<1> QED
  BY <1>1, <1>2, <1>3, <1>4

LEMMA ExpireFits == CacheOK /\ Expire => CacheOK'
BY DEF CacheOK, Expire, Fits, AsRead

-----------------------------------------------------------------------------
(* The steps of a conversion, whatever its platforms are.                   *)

Before == {"lookup", "get", "fetch", "item", "panic"}

\* The artist that Spotify's search strips as it looks into the cache.
Looked(j) == IF at[j] = "search" /\ Head(todo[j]) = "spotify" THEN Strip(source[j]) ELSE source[j]
SourceLooked(j) == source' = [source EXCEPT ![j] = Looked(j)]

\* Only two platforms' searches ever end in the cache; only a conversion to one platform
\* fails once it has its source track.
Hitting    == {"deezer", "applemusic"}
Decides(j) == at[j] = "search" => Head(todo[j]) \in Hitting
MayStop(j) == \/ at[j] \in Before
              \/ at[j] \in {"search", "ask"} /\ request[j].to # "all" /\ request[j].kind # "item"

Goes(j)    == at[j] \in Before /\ \E label \in Before : Goto(j, label)
Stops(j)   == /\ MayStop(j) /\ GiveUp(j)
              /\ \E t \in TrackType \cup {NoTrack} : source' = [source EXCEPT ![j] = t]
Begins(j)  == /\ at[j] \in Before /\ MoveTo(j, "search")
              /\ todo' = [todo EXCEPT ![j] = Targets(request[j])]
              /\ \E t \in TrackType : /\ AsRead(request[j].from, request[j].id, t)
                                      /\ source' = [source EXCEPT ![j] = t]
              /\ UNCHANGED <<request, found>>
Looks(j)   == /\ at[j] = "search" /\ MoveTo(j, "ask") /\ SourceLooked(j)
              /\ UNCHANGED <<request, todo, found>>
Answers(j) == /\ at[j] \in {"search", "ask"} /\ Decides(j) /\ SourceLooked(j)
              /\ \E t \in Catalog[Head(todo[j])] : Answered(j, t)
Omits(j)   == /\ at[j] \in {"search", "ask"} /\ Decides(j) /\ SourceLooked(j)
              /\ request[j].to = "all" \/ request[j].kind = "item"
              /\ todo' = [todo EXCEPT ![j] = Tail(@)]
              /\ MoveTo(j, IF Len(todo[j]) = 1 THEN "done" ELSE "search")
              /\ UNCHANGED <<request, found>>

JobStep(j) == Goes(j) \/ Stops(j) \/ Begins(j) \/ Looks(j) \/ Answers(j) \/ Omits(j)

\* What is known of a conversion that runs.
LEMMA Running ==
  ASSUME IInv, NEW j \in Jobs, at[j] # "idle"
  PROVE  /\ request[j] \in AnyRequest /\ request[j].from \in Platforms
         /\ CacheOK
         /\ source \in [Jobs -> TrackType \cup {NoTrack}]
<1>1. request[j] \in AnyRequest
  BY DEF IInv, TypeOK, InTurn, AnyRequest
<1>2. CacheOK
  BY DEF IInv, TypeOK, CachedAsRead, CacheOK, EntryType
<1> QED
  BY <1>1, <1>2, RequestType DEF IInv, TypeOK

LEMMA FailStops == ASSUME NEW j, at[j] \in Before, Fail(j) PROVE Stops(j)
BY DEF Fail, Stops, MayStop

\* With the source track a conversion begins its searches, or it fails.
LEMMA SourcedSteps ==
  ASSUME NEW j, at[j] \in Before, NEW t \in TrackType,
         AsRead(request[j].from, request[j].id, t), Sourced(j, t)
  PROVE  JobStep(j)
<1>1. CASE Fail(j)
  BY <1>1, FailStops DEF JobStep
<1>2. CASE ~Fail(j)
  BY <1>2, NotBlank DEF Sourced, JobStep, Begins
<1> QED
  BY <1>1, <1>2

\* With a blank source track it panics, or it fails.
LEMMA BlankSteps ==
  ASSUME NEW j, at[j] \in Before, Sourced(j, Blank)
  PROVE  JobStep(j)
<1>1. CASE Fail(j)
  BY <1>1, FailStops DEF JobStep
<1>2. CASE Goto(j, "panic")
  BY <1>2 DEF JobStep, Goes, Before
<1> QED
  BY <1>1, <1>2 DEF Sourced

\* A source track that is read from the cache.
LEMMA HitSteps ==
  ASSUME IInv, NEW j \in Jobs, at[j] \in Before, SourceKey(j) \in DOMAIN cache,
         Sourced(j, cache[SourceKey(j)].track)
  PROVE  JobStep(j)
<1> DEFINE t == cache[SourceKey(j)].track
<1>1. request[j].from \in Platforms /\ CacheOK
  BY Running DEF Before
<1>2. CASE AsRead(request[j].from, request[j].id, t)
  <2>1. t \in TrackType
    BY <1>1, <1>2, ReadType
  <2> QED
    BY <1>2, <2>1, SourcedSteps
<1>3. CASE t = Blank
  BY <1>3, BlankSteps
<1> QED
  BY <1>1, <1>2, <1>3, HitsFit DEF SourceKey

\* A source track that its platform answers, and that is kept under its id.
LEMMA AnswerSteps ==
  ASSUME IInv, NEW j \in Jobs, at[j] \in Before, NEW t \in Fetched(j),
         NEW a \in {t, AsSource(request[j].from, t)}, Sourced(j, a)
  PROVE  /\ JobStep(j)
         /\ Entry(a, TRUE) \in EntryType /\ Entry(a, TRUE).track = a
         /\ Fits(a, SourceKey(j))
<1>1. request[j].from \in Platforms /\ CacheOK
  BY Running DEF Before
<1>2. t \in Catalog[request[j].from] /\ t.id = request[j].id
  BY DEF Fetched
<1>3. a \in TrackType /\ AsRead(request[j].from, request[j].id, a)
  BY <1>1, <1>2, CatalogType
<1>4. Fits(a, SourceKey(j))
  BY <1>1, <1>3, KeysFit DEF SourceKey
<1> QED
  BY <1>3, <1>4, SourcedSteps, EntriesType

LEMMA FetchSteps ==
  ASSUME IInv, NEW j \in Jobs, FetchSource(j)
  PROVE  JobStep(j) /\ CacheOK'
<1>1. at[j] \in Before /\ at[j] # "idle"
  BY DEF FetchSource, Before
<1>2. PICK t \in Fetched(j) :
        /\ Store({SourceKey(j)}, Entry(AsSource(request[j].from, t), TRUE))
        /\ Sourced(j, AsSource(request[j].from, t))
  BY DEF FetchSource
<1> DEFINE a == AsSource(request[j].from, t)
<1>3. /\ JobStep(j) /\ Entry(a, TRUE) \in EntryType /\ Entry(a, TRUE).track = a
      /\ Fits(a, SourceKey(j))
  BY <1>1, <1>2, AnswerSteps
<1> DEFINE keys == {SourceKey(j)}
<1> HIDE DEF a
<1>4. CacheOK
  BY <1>1, Running
<1>5. \A key \in keys : Fits(Entry(a, TRUE).track, key)
  BY <1>3
<1>6. Store(keys, Entry(a, TRUE))
  BY <1>2 DEF a
<1> HIDE DEF keys
<1> QED
  BY <1>3, <1>4, <1>5, <1>6, StoreFits

LEMMA ReadSteps ==
  ASSUME IInv, NEW j \in Jobs, ReadSource(j) \/ FetchFails(j)
  PROVE  JobStep(j) /\ CacheOK'
<1>1. at[j] \in Before /\ at[j] # "idle"
  BY DEF ReadSource, FetchFails, Before
<1>2. CacheOK'
  <2>1. CacheOK /\ UNCHANGED cache
    BY <1>1, Running DEF ReadSource, FetchFails
  <2> QED
    BY <2>1 DEF CacheOK, Fits, AsRead
<1>3. CASE Fail(j)
  BY <1>1, <1>2, <1>3, FailStops DEF JobStep
<1>4. CASE Goto(j, "fetch")
  BY <1>1, <1>2, <1>4 DEF JobStep, Goes, Before
<1>5. CASE SourceKey(j) \in DOMAIN cache /\ Sourced(j, cache[SourceKey(j)].track)
  BY <1>1, <1>2, <1>5, HitSteps
<1> QED
  BY <1>3, <1>4, <1>5 DEF ReadSource, FetchFails

\* Deezer's answer without a track.
LEMMA BlankFetchSteps ==
  ASSUME IInv, NEW j \in Jobs, Reads(j, "deezer"), at[j] = "fetch",
         Store({SourceKey(j)}, Entry(Blank, TRUE)), Sourced(j, Blank)
  PROVE  JobStep(j) /\ CacheOK'
<1> DEFINE keys == {SourceKey(j)}
<1>1. at[j] \in Before /\ request[j].from = "deezer"
  BY DEF Before, Reads
<1>2. CacheOK /\ request[j].from \in Platforms
  BY Running
<1>3. \A key \in keys : Fits(Entry(Blank, TRUE).track, key)
  BY <1>1, <1>2, KeysFit, EntriesType DEF SourceKey
<1>4. JobStep(j)
  BY <1>1, BlankSteps
<1>5. Store(keys, Entry(Blank, TRUE))
  OBVIOUS
<1> HIDE DEF keys
<1> QED
  BY <1>2, <1>3, <1>4, <1>5, EntriesType, StoreFits

\* The searches by id.
LEMMA SourceSteps ==
  ASSUME IInv, NEW j \in Jobs, SearchTrackWithID(j)
  PROVE  JobStep(j) /\ CacheOK'
<1>1. at[j] \in Before /\ at[j] # "idle"
  BY DEF SearchTrackWithID, SpotifyTrackWithID, DeezerTrackWithID, AppleMusicTrackWithID,
     TidalTrackWithID, YTMusicTrackWithID, Reads, Before
<1>2. CacheOK /\ (UNCHANGED cache => CacheOK')
  BY <1>1, Running DEF CacheOK, Fits, AsRead
<1>3. CASE FetchSource(j) \/ ReadSource(j) \/ FetchFails(j)
  BY <1>3, FetchSteps, ReadSteps
<1>4. CASE DeezerTrackWithID(j) /\ ~FetchSource(j)
  <2>1. CASE at[j] = "fetch"
    BY <1>4, <2>1, BlankFetchSteps DEF DeezerTrackWithID
  <2>2. CASE at[j] # "fetch"
    <3>1. UNCHANGED cache
      BY <1>4, <2>2 DEF DeezerTrackWithID
    <3>2. \/ Goto(j, "get") \/ Goto(j, "fetch") \/ Fail(j)
          \/ SourceKey(j) \in DOMAIN cache /\ Sourced(j, cache[SourceKey(j)].track)
      BY <1>4, <2>2 DEF DeezerTrackWithID
    <3>3. JobStep(j)
      BY <1>1, <3>2, FailStops, HitSteps DEF JobStep, Goes, Before
    <3> QED
      BY <1>2, <3>1, <3>3
  <2> QED
    BY <2>1, <2>2
<1>5. CASE AppleMusicTrackWithID(j) /\ ~FetchFails(j)
  <2>1. CASE UNCHANGED cache /\ (Goto(j, "fetch") \/ Fail(j))
    BY <1>1, <1>2, <2>1, FailStops DEF JobStep, Goes, Before
  <2>2. CASE \E t \in Fetched(j) : Set({SourceKey(j)}, Entry(t, TRUE)) /\ Sourced(j, t)
    <3>1. PICK t \in Fetched(j) : Set({SourceKey(j)}, Entry(t, TRUE)) /\ Sourced(j, t)
      BY <2>2
    <3>2. /\ JobStep(j) /\ Entry(t, TRUE) \in EntryType /\ Entry(t, TRUE).track = t
          /\ Fits(t, SourceKey(j))
      BY <1>1, <3>1, AnswerSteps
    <3> DEFINE keys == {SourceKey(j)}
    <3>3. Set(keys, Entry(t, TRUE)) /\ \A key \in keys : Fits(Entry(t, TRUE).track, key)
      BY <3>1, <3>2
    <3> HIDE DEF keys
    <3> QED
      BY <1>2, <3>2, <3>3, SetFits
  <2> QED
    BY <1>5, <2>1, <2>2 DEF AppleMusicTrackWithID
<1>6. CASE YTMusicTrackWithID(j) /\ ~ReadSource(j) /\ ~FetchFails(j)
  <2>1. UNCHANGED cache /\ \E t \in Fetched(j) : Sourced(j, t)
    BY <1>6 DEF YTMusicTrackWithID
  <2>2. JobStep(j)
    BY <1>1, <2>1, AnswerSteps
  <2> QED
    BY <1>2, <2>1, <2>2
<1> QED
  BY <1>3, <1>4, <1>5, <1>6
     DEF SearchTrackWithID, SpotifyTrackWithID, TidalTrackWithID, DeezerTrackWithID,
         AppleMusicTrackWithID, YTMusicTrackWithID

LEMMA ItemSteps ==
  ASSUME IInv, NEW j \in Jobs, ReceiveItem(j)
  PROVE  JobStep(j) /\ CacheOK'
<1>1. at[j] \in Before /\ at[j] # "idle"
  BY DEF ReceiveItem, Before
<1>2. request[j].from \in Platforms /\ CacheOK
  BY <1>1, Running
<1>3. PICK t \in Catalog[request[j].from] :
        /\ t.id = request[j].id
        /\ Store(ItemKeys(request[j].from, t), Entry(t, FALSE))
        /\ Sourced(j, t)
  BY DEF ReceiveItem
<1>4. t \in TrackType /\ AsRead(request[j].from, request[j].id, t)
  BY <1>2, <1>3, CatalogType
<1>5. JobStep(j)
  BY <1>1, <1>3, <1>4, SourcedSteps
<1>6. Entry(t, FALSE) \in EntryType /\ Entry(t, FALSE).track = t
  BY <1>4, EntriesType
<1>7. \A key \in ItemKeys(request[j].from, t) : Fits(Entry(t, FALSE).track, key)
  BY <1>2, <1>6, KeysFit
<1> QED
  BY <1>2, <1>3, <1>5, <1>6, <1>7, StoreFits

\* What the next target of a conversion in its searches is.
LEMMA Wanting ==
  ASSUME IInv, NEW j \in Jobs, at[j] \in {"search", "ask"}
  PROVE  /\ todo[j] \in Seq(Platforms) /\ Len(todo[j]) > 0 /\ Head(todo[j]) \in Platforms
         /\ todo \in [Jobs -> Seq(Platforms)] /\ source \in [Jobs -> TrackType \cup {NoTrack}]
         /\ source[j] \in TrackType /\ source[j].artist \in Names
         /\ request[j] \in AnyRequest /\ CacheOK
<1>1. todo \in [Jobs -> Seq(Platforms)] /\ todo[j] # <<>>
  BY DEF IInv, TypeOK
<1>2. source[j] \in TrackType
  BY DEF IInv, InTurn, Begun
<1> QED
  BY <1>1, <1>2, Running DEF TrackType

\* What KeptItem and KeptBySearch keep fits.
LEMMA KeptFits ==
  ASSUME IInv, NEW j \in Jobs, at[j] \in {"search", "ask"}, NEW t \in Catalog[Head(todo[j])]
  PROVE  /\ Entry(t, FALSE) \in EntryType /\ Entry(t, FALSE).track = t
         /\ \A key \in KeptItem(j, Head(todo[j]), t) : Fits(t, key)
         /\ \A key \in KeptBySearch(j, Head(todo[j]), t) : Fits(t, key)
<1> DEFINE p == Head(todo[j])
<1>1. p \in Platforms /\ source[j].artist \in Names
  BY Wanting
<1>2. t \in TrackType /\ AsRead(p, t.id, t)
  BY <1>1, CatalogType
<1>3. Entry(t, FALSE) \in EntryType /\ Entry(t, FALSE).track = t
  BY <1>2, EntriesType
<1>4. \A key \in KeptItem(j, p, t) : Fits(t, key)
  BY <1>1, KeysFit DEF KeptItem
<1>5. \A key \in KeptBySearch(j, p, t) : Fits(t, key)
  <2>1. CASE p = "spotify"
    BY <1>1, <1>2, <2>1, KeysFit DEF KeptBySearch
  <2>2. CASE p = "applemusic"
    BY <1>1, <2>2, KeysFit DEF KeptBySearch
  <2>3. CASE p \notin {"spotify", "applemusic"}
    BY <2>3 DEF KeptBySearch
  <2> QED
    BY <2>1, <2>2, <2>3
<1> QED
  BY <1>3, <1>4, <1>5

\* A platform's own search.
LEMMA PlatformSteps ==
  ASSUME IInv, NEW j \in Jobs, at[j] \in {"search", "ask"}, Finds(j) \/ FindsNothing(j)
  PROVE  JobStep(j) /\ CacheOK'
<1>1. at[j] = "ask" /\ UNCHANGED source
  BY DEF Finds, FindsNothing
<1>2. CacheOK /\ SourceLooked(j) /\ source = [source EXCEPT ![j] = source[j]]
      /\ source[j] \in TrackType
  BY <1>1, Wanting DEF SourceLooked, Looked
<1>3. CASE Finds(j)
  <2>1. PICK t \in Catalog[Head(todo[j])] :
          /\ Store(KeptBySearch(j, Head(todo[j]), t) \cup KeptItem(j, Head(todo[j]), t),
                   Entry(t, FALSE))
          /\ Answered(j, t)
    BY <1>3 DEF Finds
  <2>2. JobStep(j)
    BY <1>1, <1>2, <2>1 DEF JobStep, Answers, Decides
  <2> DEFINE keys == KeptBySearch(j, Head(todo[j]), t) \cup KeptItem(j, Head(todo[j]), t)
  <2>3. /\ Entry(t, FALSE) \in EntryType
        /\ \A key \in keys : Fits(Entry(t, FALSE).track, key)
    BY KeptFits
  <2> HIDE DEF keys
  <2>4. Store(keys, Entry(t, FALSE))
    BY <2>1 DEF keys
  <2> QED
    BY <1>2, <2>2, <2>3, <2>4, StoreFits
<1>4. CASE FindsNothing(j)
  <2>1. CacheOK'
    BY <1>2, <1>4 DEF FindsNothing, CacheOK, Fits, AsRead
  <2>2. JobStep(j)
    BY <1>1, <1>2, <1>4 DEF FindsNothing, Unanswered, JobStep, Omits, Stops, Decides, MayStop
  <2> QED
    BY <2>1, <2>2
<1> QED
  BY <1>3, <1>4

\* A search in the cache hits nothing, or a track of its own platform.
LEMMA CacheSteps ==
  ASSUME IInv, NEW j \in Jobs, at[j] \in {"search", "ask"}, NEW seen, NEW read,
         SearchCache(j, seen, read), SourceLooked(j),
         read \in DOMAIN cache => cache[read].track \in Catalog[Head(todo[j])],
         Head(todo[j]) \in Hitting \/ seen \notin DOMAIN cache
  PROVE  JobStep(j) /\ CacheOK'
<1>1. at[j] = "search" /\ CacheOK
  BY Wanting DEF SearchCache
<1>2. CASE MoveTo(j, "ask") /\ UNCHANGED <<cache, request, todo, found>>
  BY <1>1, <1>2 DEF JobStep, Looks, CacheOK, Fits, AsRead
<1>3. CASE /\ {seen, read} \subseteq DOMAIN cache
           /\ Store(KeptItem(j, Head(todo[j]), cache[read].track),
                    Entry(cache[read].track, FALSE))
           /\ Answered(j, cache[read].track)
  <2> DEFINE t == cache[read].track
             keys == KeptItem(j, Head(todo[j]), t)
  <2>1. t \in Catalog[Head(todo[j])]
    BY <1>3
  <2> HIDE DEF t
  <2>2. /\ Entry(t, FALSE) \in EntryType
        /\ \A key \in keys : Fits(Entry(t, FALSE).track, key)
    BY <2>1, KeptFits
  <2>3. JobStep(j)
    BY <1>1, <1>3, <2>1 DEF JobStep, Answers, Decides, t
  <2>4. Store(keys, Entry(t, FALSE))
    BY <1>3 DEF t
  <2> HIDE DEF keys
  <2> QED
    BY <1>1, <2>2, <2>3, <2>4, StoreFits
<1>4. CASE seen \in DOMAIN cache /\ Unanswered(j) /\ UNCHANGED cache
  <2>1. CacheOK'
    BY <1>1, <1>4 DEF CacheOK, Fits, AsRead
  <2>2. Looked(j) \in TrackType
    BY Wanting, ExtractedAssumption DEF Looked, Strip, TrackType
  <2>3. JobStep(j)
    BY <1>1, <1>4, <2>2
       DEF Unanswered, JobStep, Omits, Stops, Decides, MayStop, SourceLooked
  <2> QED
    BY <2>1, <2>3
<1> QED
  BY <1>2, <1>3, <1>4 DEF SearchCache

\* The searches by title.
LEMMA SearchSteps ==
  ASSUME IInv, NEW j \in Jobs, SearchTrackWithTitle(j)
  PROVE  at[j] \in {"search", "ask"} /\ JobStep(j) /\ CacheOK'
<1>1. at[j] \in {"search", "ask"}
  BY DEF SearchTrackWithTitle, SpotifyTrackWithTitle, DeezerTrackWithTitle,
     AppleMusicTrackWithTitle, TidalTrackWithTitle, YTMusicTrackWithTitle, Wants
<1>2. CacheOK /\ source = [source EXCEPT ![j] = source[j]]
  BY <1>1, Wanting
<1>3. CASE Finds(j) \/ FindsNothing(j)
  BY <1>1, <1>3, PlatformSteps
<1>4. CASE SpotifyTrackWithTitle(j) /\ ~Finds(j) /\ ~FindsNothing(j)
  <2> DEFINE want == Strip(source[j])
             key  == PlainKey("spotify", Normalized[want.artist], want.title)
  <2>1. SearchCache(j, key, key) /\ source' = [source EXCEPT ![j] = want]
    BY <1>4 DEF SpotifyTrackWithTitle
  <2>2. SourceLooked(j)
    BY <1>4, <2>1 DEF SpotifyTrackWithTitle, SearchCache, SourceLooked, Looked, Wants
  <2>3. key \notin DOMAIN cache
    BY <1>2, HitsFit
  <2> HIDE DEF key
  <2> QED
    BY <1>1, <2>1, <2>2, <2>3, CacheSteps DEF Hitting
<1>5. CASE DeezerTrackWithTitle(j) /\ ~Finds(j) /\ ~FindsNothing(j)
  <2> DEFINE key == NameKey("deezer", Normalized[source[j].artist], source[j].title)
  <2>1. SearchCache(j, key, key) /\ UNCHANGED source /\ Head(todo[j]) = "deezer"
    BY <1>5 DEF DeezerTrackWithTitle, Wants
  <2>2. SourceLooked(j)
    BY <1>2, <2>1 DEF SourceLooked, Looked
  <2>3. key \in DOMAIN cache => cache[key].track \in Catalog["deezer"]
    BY <1>2, HitsFit
  <2> HIDE DEF key
  <2> QED
    BY <1>1, <2>1, <2>2, <2>3, CacheSteps DEF Hitting
<1>6. CASE AppleMusicTrackWithTitle(j) /\ ~Finds(j) /\ ~FindsNothing(j)
  <2> DEFINE seen == ArtistKey(source[j].artist)
             read == ArtistKey(Normalized[source[j].artist])
  <2>1. SearchCache(j, seen, read) /\ UNCHANGED source /\ Head(todo[j]) = "applemusic"
    BY <1>6 DEF AppleMusicTrackWithTitle, Wants
  <2>2. SourceLooked(j)
    BY <1>2, <2>1 DEF SourceLooked, Looked
  <2>3. read \in DOMAIN cache => cache[read].track \in Catalog["applemusic"]
    BY <1>2, HitsFit
  <2> HIDE DEF seen, read
  <2> QED
    BY <1>1, <2>1, <2>2, <2>3, CacheSteps DEF Hitting
<1>7. CASE TidalTrackWithTitle(j) /\ ~Finds(j) /\ ~FindsNothing(j)
  <2> DEFINE key == PlainKey("tidal", Normalized[source[j].artist], source[j].title)
  <2>1. SearchCache(j, key, key) /\ UNCHANGED source /\ Head(todo[j]) = "tidal"
    BY <1>7 DEF TidalTrackWithTitle, Wants
  <2>2. SourceLooked(j)
    BY <1>2, <2>1 DEF SourceLooked, Looked
  <2>3. key \notin DOMAIN cache
    BY <1>2, HitsFit
  <2> HIDE DEF key
  <2> QED
    BY <1>1, <2>1, <2>2, <2>3, CacheSteps DEF Hitting
<1>8. CASE YTMusicTrackWithTitle(j) /\ ~Finds(j) /\ ~FindsNothing(j)
  <2> DEFINE key == PlainKey("ytmusic", Normalized[source[j].artist], source[j].title)
  <2>1. SearchCache(j, key, key) /\ UNCHANGED source /\ Head(todo[j]) = "ytmusic"
    BY <1>8 DEF YTMusicTrackWithTitle, Wants
  <2>2. SourceLooked(j)
    BY <1>2, <2>1 DEF SourceLooked, Looked
  <2>3. key \notin DOMAIN cache
    BY <1>2, HitsFit
  <2> HIDE DEF key
  <2> QED
    BY <1>1, <2>1, <2>2, <2>3, CacheSteps DEF Hitting
<1> QED
  BY <1>1, <1>3, <1>4, <1>5, <1>6, <1>7, <1>8 DEF SearchTrackWithTitle

-----------------------------------------------------------------------------
(* The inductive invariant, conversion by conversion.                       *)

Shape == /\ at \in [Jobs -> Labels]
         /\ request \in [Jobs -> AnyRequest \cup {NoRequest}]
         /\ source \in [Jobs -> TrackType \cup {NoTrack}]
         /\ todo \in [Jobs -> Seq(Platforms)]
         /\ DOMAIN found = Jobs

JobType(j) == /\ DOMAIN found[j] \subseteq Platforms
              /\ \A p \in DOMAIN found[j] : found[j][p] \in TrackType
              /\ at[j] \in {"search", "ask"} <=> todo[j] # <<>>

JobInTurn(j) == /\ at[j] # "idle" => request[j] # NoRequest
                /\ Begun(j) => /\ source[j] \in TrackType
                               /\ Searched(j) >= 0
                               /\ \A i \in 1 .. Len(todo[j]) :
                                    todo[j][i] = Targets(request[j])[Searched(j) + i]

JobFound(j) == /\ ~Begun(j) => DOMAIN found[j] = {}
               /\ \A p \in DOMAIN found[j] :
                    /\ found[j][p] \in Catalog[p]
                    /\ \E i \in 1 .. Searched(j) : Targets(request[j])[i] = p
               /\ at[j] = "done" /\ request[j].kind = "track" /\ request[j].to # "all"
                    => DOMAIN found[j] = {request[j].to}

JobSource(j) == Begun(j) => IF SpotifyBegan(j) THEN Stripped(j)
                            ELSE AsRead(request[j].from, request[j].id, source[j])

JobOK(j) == JobType(j) /\ JobInTurn(j) /\ JobFound(j) /\ JobSource(j)

Parts == CacheOK /\ Shape /\ \A j \in Jobs : JobOK(j)

LEMMA JobParts == (IInv => Parts) /\ (Parts' => IInv')
BY DEF Parts, IInv, TypeOK, CachedAsRead, InTurn, FoundInTurn, SourceAsRead, CacheOK, EntryType,
   Shape, JobOK, JobType, JobInTurn, JobFound, JobSource, Labels, AnyRequest

\* A conversion whose state stays keeps what is known of it.
LEMMA Frame ==
  ASSUME NEW j, JobOK(j), at'[j] = at[j], request'[j] = request[j], source'[j] = source[j],
         todo'[j] = todo[j], found'[j] = found[j]
  PROVE  JobOK(j)'
BY DEF JobOK, JobType, JobInTurn, JobFound, JobSource, Begun, Searched, SpotifyBegan, Stripped,
   AsRead

\* What is known of a conversion in its searches, and of its next target.
LEMMA NextTarget ==
  ASSUME IInv, NEW j \in Jobs, at[j] \in {"search", "ask"}
  PROVE  /\ Searched(j) \in Nat /\ Searched(j) + 1 \in 1 .. Len(Targets(request[j]))
         /\ Targets(request[j])[Searched(j) + 1] = Head(todo[j])
         /\ Len(Targets(request[j])) \in Nat /\ Len(todo[j]) \in Nat \ {0}
         /\ Len(todo[j]) = Len(Targets(request[j])) - Searched(j)
         /\ Len(Tail(todo[j])) = Len(todo[j]) - 1
         /\ \A i \in 1 .. Len(Tail(todo[j])) :
              Tail(todo[j])[i] = Targets(request[j])[Searched(j) + 1 + i]
<1>1. /\ todo[j] \in Seq(Platforms) /\ Len(todo[j]) > 0 /\ request[j] \in AnyRequest
      /\ JobInTurn(j) /\ Begun(j)
  BY Wanting, JobParts DEF Parts, JobOK, Begun
<1>2. Targets(request[j]) \in Seq(Platforms)
  BY <1>1, TargetsType
<1> DEFINE T == Targets(request[j])
           d == todo[j]
<1>3. /\ Len(T) - Len(d) >= 0
      /\ \A i \in 1 .. Len(d) : d[i] = T[Len(T) - Len(d) + i]
  BY <1>1 DEF JobInTurn, Searched
<1>4. Searched(j) = Len(T) - Len(d)
  BY DEF Searched
<1> HIDE DEF T, d
<1>5. /\ d \in Seq(Platforms) /\ T \in Seq(Platforms) /\ Len(d) \in Nat \ {0} /\ Len(T) \in Nat
  BY <1>1, <1>2 DEF T, d
<1>6. Head(d) = d[1] /\ Len(Tail(d)) = Len(d) - 1 /\ \A i \in 1 .. Len(d) - 1 : Tail(d)[i] = d[i + 1]
  BY <1>5
<1>7. \A i \in 1 .. Len(d) - 1 : Tail(d)[i] = T[Len(T) - Len(d) + 1 + i]
  <2> TAKE i \in 1 .. Len(d) - 1
  <2>1. i + 1 \in 1 .. Len(d) /\ Len(T) - Len(d) + (i + 1) = Len(T) - Len(d) + 1 + i
    BY <1>5
  <2> QED
    BY <1>3, <1>6, <2>1
<1>8. d[1] = T[Len(T) - Len(d) + 1]
  BY <1>3, <1>5
<1>9. Len(T) - Len(d) \in Nat /\ Len(T) - Len(d) + 1 \in 1 .. Len(T)
  BY <1>3, <1>5
<1> DEFINE n == Searched(j)
<1> HIDE DEF n
<1>10. /\ n \in Nat /\ n + 1 \in 1 .. Len(T) /\ T[n + 1] = Head(d)
       /\ Len(T) \in Nat /\ Len(d) \in Nat \ {0} /\ Len(d) = Len(T) - n
       /\ Len(Tail(d)) = Len(d) - 1
       /\ \A i \in 1 .. Len(Tail(d)) : Tail(d)[i] = T[n + 1 + i]
  <2>1. n = Len(T) - Len(d)
    BY <1>4 DEF n
  <2>2. \A i \in 1 .. Len(Tail(d)) : Tail(d)[i] = T[n + 1 + i]
    BY <1>6, <1>7, <2>1
  <2>3. Len(d) = Len(T) - n
    BY <1>5, <2>1
  <2> QED
    BY <1>5, <1>6, <1>8, <1>9, <2>1, <2>2, <2>3
<1> QED
  BY <1>10 DEF T, d, n

\* Is Spotify among the targets up to the next one.
UpToSpotify(j) == \E i \in 1 .. Searched(j) + 1 : Targets(request[j])[i] = "spotify"

\* The source track after a look at the next target: no target is searched twice, so
\* Spotify strips the artist only once.
LEMMA LookedAsRead ==
  ASSUME IInv, NEW j \in Jobs, at[j] \in {"search", "ask"}
  PROVE  /\ Looked(j) \in TrackType
         /\ IF UpToSpotify(j)
            THEN \E a \in Names :
                   /\ Looked(j).artist = Extracted[a]
                   /\ AsRead(request[j].from, request[j].id, [Looked(j) EXCEPT !.artist = a])
            ELSE AsRead(request[j].from, request[j].id, Looked(j))
<1>1. source[j] \in TrackType /\ source[j].artist \in Names /\ request[j] \in AnyRequest
  BY Wanting
<1>2. JobSource(j) /\ Begun(j)
  BY JobParts DEF Parts, JobOK, Begun
<1> DEFINE T == Targets(request[j])
           n == Searched(j)
<1>3. n \in Nat /\ n + 1 \in 1 .. Len(T) /\ T[n + 1] = Head(todo[j]) /\ Len(T) \in Nat
  BY NextTarget
<1>4. \A i, k \in 1 .. Len(T) : T[i] = T[k] => i = k
  BY <1>1, TargetsType
<1>5. UpToSpotify(j) <=> (\E i \in 1 .. n : T[i] = "spotify") \/ Head(todo[j]) = "spotify"
  <2> HIDE DEF n, T
  <2>1. 1 .. n + 1 = (1 .. n) \cup {n + 1}
    BY <1>3
  <2> QED
    BY <1>3, <2>1 DEF UpToSpotify, n, T
<1>6. Looked(j) \in TrackType
  BY <1>1, ExtractedAssumption DEF Looked, Strip, TrackType
<1>7. CASE at[j] = "search" /\ Head(todo[j]) = "spotify"
  <2>1. ~SpotifyBegan(j)
    <3>1. ~\E i \in 1 .. n : T[i] = "spotify"
      <4> HIDE DEF n, T
      <4> QED
        BY <1>3, <1>4, <1>7
    <3> QED
      BY <1>7, <3>1 DEF SpotifyBegan
  <2>2. AsRead(request[j].from, request[j].id, source[j])
    BY <1>2, <2>1 DEF JobSource
  <2>3. /\ Looked(j).artist = Extracted[source[j].artist]
        /\ [Looked(j) EXCEPT !.artist = source[j].artist] = source[j]
    BY <1>1, <1>7 DEF Looked, Strip, TrackType
  <2> QED
    BY <1>1, <1>5, <1>6, <1>7, <2>2, <2>3
<1>8. CASE ~(at[j] = "search" /\ Head(todo[j]) = "spotify")
  <2>1. Looked(j) = source[j]
    BY <1>8 DEF Looked
  <2>2. SpotifyBegan(j) <=> UpToSpotify(j)
    BY <1>5, <1>8 DEF SpotifyBegan
  <2> QED
    BY <1>2, <1>6, <2>1, <2>2 DEF JobSource, Stripped
<1> QED
  BY <1>7, <1>8

\* A step of conversion j leaves the others alone.
LEMMA OthersStay ==
  ASSUME IInv, NEW j \in Jobs, JobStep(j), NEW k \in Jobs, k # j
  PROVE  /\ at'[k] = at[k] /\ request'[k] = request[k] /\ source'[k] = source[k]
         /\ todo'[k] = todo[k] /\ found'[k] = found[k]
<1>1. Shape
  BY JobParts DEF Parts
<1>2. CASE Goes(j)
  BY <1>1, <1>2 DEF Shape, Goes, Goto
<1>3. CASE Stops(j)
  BY <1>1, <1>3 DEF Shape, Stops, GiveUp
<1>4. CASE Begins(j)
  BY <1>1, <1>4 DEF Shape, Begins
<1>5. CASE Looks(j)
  BY <1>1, <1>5 DEF Shape, Looks, SourceLooked
<1>6. CASE Answers(j)
  BY <1>1, <1>6 DEF Shape, Answers, SourceLooked, Answered
<1>7. CASE Omits(j)
  BY <1>1, <1>7 DEF Shape, Omits, SourceLooked
<1> QED
  BY <1>2, <1>3, <1>4, <1>5, <1>6, <1>7 DEF JobStep

\* The step of a conversion before its searches, or of one that fails.
LEMMA EarlySteps ==
  ASSUME IInv, NEW j \in Jobs, Goes(j) \/ Stops(j) \/ Begins(j)
  PROVE  Shape' /\ JobOK(j)'
<1>1. Shape /\ JobOK(j)
  BY JobParts DEF Parts
<1>2. CASE Goes(j)
  <2>1. PICK label \in Before : Goto(j, label)
    BY <1>2 DEF Goes
  <2>2. /\ at'[j] = label /\ at[j] \in Before /\ label \in Before
        /\ request' = request /\ source' = source /\ todo' = todo /\ found' = found
    BY <1>1, <1>2, <2>1 DEF Shape, Goes, Goto
  <2>3. Shape'
    BY <1>1, <2>1, <2>2 DEF Shape, Goto, Labels, Before
  <2>4. request[j] # NoRequest /\ todo[j] = <<>> /\ DOMAIN found[j] = {}
    BY <1>1, <2>2 DEF JobOK, JobType, JobInTurn, JobFound, Begun, Before
  <2> QED
    BY <2>2, <2>3, <2>4 DEF JobOK, JobType, JobInTurn, JobFound, JobSource, Begun, Before
<1>3. CASE Stops(j)
  <2>1. PICK t \in TrackType \cup {NoTrack} : source' = [source EXCEPT ![j] = t]
    BY <1>3 DEF Stops
  <2>2. /\ at' = [at EXCEPT ![j] = "idle"] /\ todo' = [todo EXCEPT ![j] = <<>>]
        /\ found' = [found EXCEPT ![j] = [p \in {} |-> NoTrack]]
        /\ request' = [request EXCEPT ![j] = NoRequest]
    BY <1>3 DEF Stops, GiveUp
  <2>3. Shape'
    BY <1>1, <2>1, <2>2 DEF Shape, Labels
  <2>4. at'[j] = "idle" /\ todo'[j] = <<>> /\ found'[j] = [p \in {} |-> NoTrack]
    BY <1>1, <2>2 DEF Shape
  <2>5. DOMAIN found'[j] = {}
    BY <2>4
  <2> QED
    BY <2>3, <2>4, <2>5 DEF JobOK, JobType, JobInTurn, JobFound, JobSource, Begun
<1>4. CASE Begins(j)
  <2> DEFINE T == Targets(request[j])
  <2>1. PICK t \in TrackType : /\ AsRead(request[j].from, request[j].id, t)
                               /\ source' = [source EXCEPT ![j] = t]
    BY <1>4 DEF Begins
  <2>2. /\ at' = [at EXCEPT ![j] = "search"] /\ todo' = [todo EXCEPT ![j] = T]
        /\ at[j] \in Before /\ request' = request /\ found' = found
    BY <1>4 DEF Begins
  <2>3. request[j] \in AnyRequest /\ request[j] # NoRequest /\ DOMAIN found[j] = {}
    BY <1>1, <2>2, Running, RequestType
       DEF JobOK, JobFound, Begun, Before
  <2>4. T \in Seq(Platforms) /\ Len(T) \in {1, 4}
    BY <2>3, TargetsType
  <2>5. Shape'
    BY <1>1, <2>1, <2>2, <2>4 DEF Shape, Labels
  <2>6. at'[j] = "search" /\ todo'[j] = T /\ source'[j] = t
    BY <1>1, <2>1, <2>2 DEF Shape
  <2>7. Searched(j)' = 0
    BY <2>2, <2>4, <2>6 DEF Searched
  <2>8. T # <<>> /\ \A i \in 1 .. Len(T) : T[i] = T[0 + i]
    BY <2>4
  <2> HIDE DEF T
  <2>9. JobType(j)'
    BY <2>2, <2>3, <2>6, <2>8 DEF JobType
  <2>10. JobInTurn(j)'
    BY <2>2, <2>3, <2>6, <2>7, <2>8 DEF JobInTurn, T
  <2>11. JobFound(j)'
    BY <2>2, <2>3, <2>6 DEF JobFound
  <2>12. ~SpotifyBegan(j)'
    BY <2>6, <2>7 DEF SpotifyBegan
  <2>13. JobSource(j)'
    BY <2>1, <2>2, <2>6, <2>12 DEF JobSource, AsRead
  <2> QED
    BY <2>5, <2>9, <2>10, <2>11, <2>13 DEF JobOK
<1> QED
  BY <1>2, <1>3, <1>4

\* The step of a conversion that looks into the cache in vain.
LEMMA LooksKeeps ==
  ASSUME IInv, NEW j \in Jobs, Looks(j)
  PROVE  Shape' /\ JobOK(j)'
<1>1. Shape /\ JobOK(j) /\ at[j] = "search" /\ Begun(j)
  BY JobParts DEF Parts, Looks, Begun
<1>2. /\ at' = [at EXCEPT ![j] = "ask"] /\ source' = [source EXCEPT ![j] = Looked(j)]
      /\ request' = request /\ todo' = todo /\ found' = found
  BY DEF Looks, SourceLooked
<1>3. /\ Looked(j) \in TrackType
      /\ IF UpToSpotify(j)
         THEN \E a \in Names :
                /\ Looked(j).artist = Extracted[a]
                /\ AsRead(request[j].from, request[j].id, [Looked(j) EXCEPT !.artist = a])
         ELSE AsRead(request[j].from, request[j].id, Looked(j))
  BY <1>1, LookedAsRead
<1>4. Shape' /\ at'[j] = "ask" /\ source'[j] = Looked(j)
  BY <1>1, <1>2, <1>3 DEF Shape, Labels
<1>5. Searched(j)' = Searched(j)
  BY <1>2 DEF Searched
<1>6. JobType(j)'
  BY <1>1, <1>2, <1>4 DEF JobOK, JobType
<1>7. JobInTurn(j)'
  BY <1>1, <1>2, <1>3, <1>4, <1>5 DEF JobOK, JobInTurn
<1>8. JobFound(j)'
  BY <1>1, <1>2, <1>4, <1>5 DEF JobOK, JobFound, Begun
<1>9. SpotifyBegan(j)' <=> UpToSpotify(j)
  <2> DEFINE n == Searched(j)
             T == Targets(request[j])
  <2>1. n \in Nat /\ T[n + 1] = Head(todo[j])
    BY <1>1, NextTarget
  <2>2. SpotifyBegan(j)' <=> (\E i \in 1 .. n : T[i] = "spotify") \/ T[n + 1] = "spotify"
    BY <1>2, <1>4, <1>5, <2>1 DEF SpotifyBegan
  <2> HIDE DEF n, T
  <2>3. 1 .. n + 1 = (1 .. n) \cup {n + 1}
    BY <2>1
  <2> QED
    BY <2>2, <2>3 DEF UpToSpotify, n, T
<1>10. JobSource(j)'
  BY <1>2, <1>3, <1>4, <1>9 DEF JobSource, Stripped, AsRead
<1> QED
  BY <1>4, <1>6, <1>7, <1>8, <1>10 DEF JobOK

\* The step of a conversion that is through with its next target.
NextDone(j) == /\ at[j] \in {"search", "ask"} /\ SourceLooked(j)
               /\ todo' = [todo EXCEPT ![j] = Tail(@)]
               /\ MoveTo(j, IF Len(todo[j]) = 1 THEN "done" ELSE "search")
               /\ request' = request /\ DOMAIN found' = Jobs

LEMMA TargetDone ==
  ASSUME IInv, NEW j \in Jobs, NextDone(j)
  PROVE  /\ Shape' /\ JobInTurn(j)' /\ JobSource(j)'
         /\ Begun(j)' /\ Searched(j)' = Searched(j) + 1
         /\ at[j]' \in {"search", "ask"} <=> todo[j]' # <<>>
<1>1. Shape /\ at[j] \in {"search", "ask"}
  BY JobParts DEF Parts, NextDone
<1>2. /\ Looked(j) \in TrackType
      /\ IF UpToSpotify(j)
         THEN \E a \in Names :
                /\ Looked(j).artist = Extracted[a]
                /\ AsRead(request[j].from, request[j].id, [Looked(j) EXCEPT !.artist = a])
         ELSE AsRead(request[j].from, request[j].id, Looked(j))
  BY <1>1, LookedAsRead
<1> DEFINE n == Searched(j)
           T == Targets(request[j])
           d == todo[j]
<1>3. /\ n \in Nat /\ n + 1 \in 1 .. Len(T)
      /\ Len(T) \in Nat /\ Len(d) \in Nat \ {0} /\ Len(d) = Len(T) - n
      /\ Len(Tail(d)) = Len(d) - 1
      /\ \A i \in 1 .. Len(Tail(d)) : Tail(d)[i] = T[n + 1 + i]
  BY <1>1, NextTarget
<1>4. d \in Seq(Platforms) /\ Tail(d) \in Seq(Platforms) /\ request[j] \in AnyRequest
      /\ request[j] # NoRequest
  <2>1. d \in Seq(Platforms) /\ Len(d) > 0 /\ request[j] \in AnyRequest
    BY <1>1, Wanting
  <2> QED
    BY <2>1, RequestType
<1>5. /\ todo'[j] = Tail(d) /\ source'[j] = Looked(j)
      /\ at'[j] = IF Len(d) = 1 THEN "done" ELSE "search"
      /\ request' = request
  BY <1>1 DEF Shape, SourceLooked, NextDone
<1>6. Shape'
  BY <1>1, <1>2, <1>4 DEF Shape, SourceLooked, Labels, NextDone
<1>7. Searched(j)' = n + 1
  <2>1. Searched(j)' = Len(T) - Len(Tail(d))
    BY <1>5 DEF Searched
  <2>2. Len(T) - Len(Tail(d)) = n + 1
    <3>1. n \in Int /\ Len(T) \in Int /\ Len(Tail(d)) = (Len(T) - n) - 1
      BY <1>3
    <3>2. \A a, b \in Int : a - ((a - b) - 1) = b + 1
      OBVIOUS
    <3>3. Len(T) - ((Len(T) - n) - 1) = n + 1
      BY <3>1, <3>2
    <3> QED
      BY <3>1, <3>3
  <2> QED
    BY <2>1, <2>2
<1>8. at[j]' \in {"search", "ask"} <=> todo[j]' # <<>>
  <2>1. Tail(d) # <<>> <=> Len(d) # 1
    <3>1. Tail(d) \in Seq(Platforms) /\ Len(Tail(d)) = Len(d) - 1 /\ Len(d) \in Nat
      BY <1>3, <1>4
    <3> HIDE DEF d
    <3>2. Tail(d) # <<>> <=> Len(Tail(d)) # 0
      BY <3>1
    <3> QED
      BY <3>1, <3>2
  <2> QED
    BY <1>5, <2>1
<1>9. Begun(j)'
  BY <1>5 DEF Begun
<1>10. JobInTurn(j)'
  <2>1. \A i \in 1 .. Len(todo'[j]) : todo'[j][i] = Targets(request'[j])[n + 1 + i]
    BY <1>3, <1>5
  <2>2. n + 1 >= 0
    BY <1>3
  <2> HIDE DEF n, T, d
  <2> QED
    BY <1>2, <1>4, <1>5, <1>7, <2>1, <2>2 DEF JobInTurn
<1>11. SpotifyBegan(j)' <=> UpToSpotify(j)
  BY <1>5, <1>7 DEF SpotifyBegan, UpToSpotify
<1>12. JobSource(j)'
  BY <1>2, <1>5, <1>11 DEF JobSource, Stripped, AsRead
<1> QED
  BY <1>6, <1>7, <1>8, <1>9, <1>10, <1>12

LEMMA OmitsKeeps ==
  ASSUME IInv, NEW j \in Jobs, Omits(j)
  PROVE  Shape' /\ JobOK(j)'
<1>1. /\ at[j] \in {"search", "ask"} /\ SourceLooked(j)
      /\ request[j].to = "all" \/ request[j].kind = "item"
      /\ todo' = [todo EXCEPT ![j] = Tail(@)]
      /\ MoveTo(j, IF Len(todo[j]) = 1 THEN "done" ELSE "search")
      /\ request' = request /\ found' = found
  BY DEF Omits
<1>2. Shape /\ JobOK(j) /\ Begun(j)
  BY <1>1, JobParts DEF Parts, Begun
<1>3. /\ Shape' /\ JobInTurn(j)' /\ JobSource(j)'
      /\ Begun(j)' /\ Searched(j)' = Searched(j) + 1
      /\ at[j]' \in {"search", "ask"} <=> todo[j]' # <<>>
  BY <1>1, <1>2, TargetDone DEF Shape, NextDone
<1>4. JobType(j)'
  BY <1>1, <1>2, <1>3 DEF JobOK, JobType
<1>5. JobFound(j)'
  <2>1. Searched(j) \in Nat
    BY <1>1, NextTarget
  <2>2. \A i \in 1 .. Searched(j) : i \in 1 .. Searched(j)'
    BY <1>3, <2>1
  <2>3. request[j].kind # "track" \/ request[j].to = "all"
    BY <1>1
  <2> QED
    BY <1>1, <1>2, <1>3, <2>2, <2>3 DEF JobOK, JobFound
<1> QED
  BY <1>3, <1>4, <1>5 DEF JobOK

LEMMA AnswersKeeps ==
  ASSUME IInv, NEW j \in Jobs, Answers(j)
  PROVE  Shape' /\ JobOK(j)'
<1> DEFINE h == Head(todo[j])
           T == Targets(request[j])
           n == Searched(j)
<1>1. PICK t \in Catalog[h] : Answered(j, t)
  BY DEF Answers
<1>2. /\ at[j] \in {"search", "ask"} /\ SourceLooked(j)
      /\ todo' = [todo EXCEPT ![j] = Tail(@)]
      /\ MoveTo(j, IF Len(todo[j]) = 1 THEN "done" ELSE "search")
      /\ request' = request
      /\ found' = [found EXCEPT ![j] = [p \in DOMAIN found[j] \cup {h} |->
                                          IF p = h THEN t ELSE found[j][p]]]
  BY <1>1 DEF Answers, Answered
<1>3. Shape /\ JobOK(j) /\ Begun(j)
  BY <1>2, JobParts DEF Parts, Begun
<1>4. /\ Shape' /\ JobInTurn(j)' /\ JobSource(j)'
      /\ Begun(j)' /\ Searched(j)' = n + 1
      /\ at[j]' \in {"search", "ask"} <=> todo[j]' # <<>>
  BY <1>2, <1>3, TargetDone DEF Shape, NextDone
<1>5. /\ DOMAIN found'[j] = DOMAIN found[j] \cup {h}
      /\ \A p \in DOMAIN found'[j] : found'[j][p] = IF p = h THEN t ELSE found[j][p]
  BY <1>2, <1>3 DEF Shape
<1>6. h \in Platforms /\ t \in TrackType /\ request[j] \in AnyRequest
  BY <1>2, Wanting, CatalogType
<1>7. /\ n \in Nat /\ n + 1 \in 1 .. Len(T) /\ T[n + 1] = h /\ Len(T) \in Nat
  BY <1>2, NextTarget
<1>8. JobType(j)'
  BY <1>3, <1>4, <1>5, <1>6 DEF JobOK, JobType
<1>9. ASSUME NEW p \in DOMAIN found'[j]
      PROVE  /\ found'[j][p] \in Catalog[p]
             /\ \E i \in 1 .. n + 1 : T[i] = p
  <2>1. CASE p = h
    <3>1. n + 1 \in 1 .. n + 1
      BY <1>7
    <3> QED
      BY <1>1, <1>5, <1>7, <2>1, <3>1
  <2>2. CASE p # h
    <3>1. p \in DOMAIN found[j] /\ found'[j][p] = found[j][p]
      BY <1>5, <2>2
    <3>2. found[j][p] \in Catalog[p] /\ \E i \in 1 .. n : T[i] = p
      BY <1>3, <3>1 DEF JobOK, JobFound
    <3> HIDE DEF n, T
    <3>3. \A i \in 1 .. n : i \in 1 .. n + 1
      BY <1>7
    <3> QED
      BY <3>1, <3>2, <3>3
  <2> QED
    BY <2>1, <2>2
<1>10. ASSUME request[j].to # "all"
       PROVE  DOMAIN found'[j] = {request[j].to}
  <2>1. T = <<request[j].to>> /\ Len(T) = 1
    BY <1>6, <1>10, TargetsType
  <2>2. n = 0
    BY <1>7, <2>1
  <2>3. h = request[j].to
    BY <1>7, <2>1, <2>2
  <2>4. DOMAIN found[j] = {}
    <3>1. \A p \in DOMAIN found[j] : \E i \in 1 .. n : T[i] = p
      BY <1>3 DEF JobOK, JobFound
    <3> HIDE DEF n, T
    <3> QED
      BY <2>2, <3>1
  <2> QED
    BY <1>5, <2>3, <2>4
<1>11. JobFound(j)'
  BY <1>2, <1>4, <1>9, <1>10 DEF JobFound
<1> QED
  BY <1>4, <1>8, <1>11 DEF JobOK

\* A step of a conversion keeps the invariant.
LEMMA JobKeeps ==
  ASSUME IInv, NEW j \in Jobs, JobStep(j), CacheOK'
  PROVE  IInv'
<1>1. Shape' /\ JobOK(j)'
  BY EarlySteps, LooksKeeps, AnswersKeeps, OmitsKeeps DEF JobStep
<1>2. ASSUME NEW k \in Jobs, k # j
      PROVE  JobOK(k)'
  BY <1>2, OthersStay, Frame, JobParts DEF Parts
<1>3. \A k \in Jobs : JobOK(k)'
  BY <1>1, <1>2
<1> QED
  BY <1>1, <1>3, JobParts DEF Parts

-----------------------------------------------------------------------------
(* The invariant.                                                           *)

LEMMA InitIInv == Init => IInv
<1> SUFFICES ASSUME Init PROVE IInv
  OBVIOUS
<1>1. DOMAIN cache = {}
  BY DEF Init
<1>2. /\ at \in [Jobs -> {"idle"}] /\ request \in [Jobs -> {NoRequest}]
      /\ source \in [Jobs -> {NoTrack}] /\ todo = [j \in Jobs |-> <<>>]
      /\ DOMAIN found = Jobs /\ \A j \in Jobs : DOMAIN found[j] = {}
  BY DEF Init
<1>3. TypeOK
  BY <1>1, <1>2 DEF TypeOK
<1>4. CachedAsRead /\ InTurn /\ FoundInTurn /\ SourceAsRead
  BY <1>1, <1>2 DEF CachedAsRead, InTurn, FoundInTurn, SourceAsRead, Begun
<1> QED
  BY <1>3, <1>4 DEF IInv

\* A new request, or a crash: what the conversions held is gone.
LEMMA AskKeeps ==
  ASSUME IInv, NEW j \in Jobs, Ask(j)
  PROVE  IInv'
<1>1. CacheOK /\ Shape /\ \A k \in Jobs : JobOK(k)
  BY JobParts DEF Parts
<1>2. PICK r \in AnyRequest :
        /\ request' = [request EXCEPT ![j] = r]
        /\ at' = [at EXCEPT ![j] = IF r.kind = "track" THEN "lookup" ELSE "item"]
  BY DEF Ask, AnyRequest
<1>3. /\ source' = [source EXCEPT ![j] = NoTrack]
      /\ todo' = [todo EXCEPT ![j] = <<>>]
      /\ found' = [found EXCEPT ![j] = [p \in {} |-> NoTrack]]
      /\ cache' = cache
  BY DEF Ask
<1>4. CacheOK'
  BY <1>1, <1>3 DEF CacheOK, Fits, AsRead
<1>5. Shape'
  BY <1>1, <1>2, <1>3 DEF Shape, Labels
<1>6. /\ at'[j] \in {"lookup", "item"} /\ request'[j] = r /\ todo'[j] = <<>>
      /\ found'[j] = [p \in {} |-> NoTrack] /\ r # NoRequest
  BY <1>1, <1>2, <1>3, RequestType DEF Shape
<1>7. JobOK(j)'
  <2>1. DOMAIN found'[j] = {}
    BY <1>6
  <2> QED
    BY <1>6, <2>1 DEF JobOK, JobType, JobInTurn, JobFound, JobSource, Begun
<1>8. ASSUME NEW k \in Jobs, k # j
      PROVE  JobOK(k)'
  <2>1. /\ at'[k] = at[k] /\ request'[k] = request[k] /\ source'[k] = source[k]
        /\ todo'[k] = todo[k] /\ found'[k] = found[k]
    BY <1>1, <1>2, <1>3, <1>8 DEF Shape
  <2> QED
    BY <1>1, <2>1, Frame
<1>9. \A k \in Jobs : JobOK(k)'
  BY <1>7, <1>8
<1> QED
  BY <1>4, <1>5, <1>9, JobParts DEF Parts

LEMMA CrashKeeps ==
  ASSUME IInv, Crash
  PROVE  IInv'
<1>1. CacheOK
  BY JobParts DEF Parts
<1>2. /\ at' = [j \in Jobs |-> "idle"] /\ request' = [j \in Jobs |-> NoRequest]
      /\ source' = [j \in Jobs |-> NoTrack] /\ todo' = [j \in Jobs |-> <<>>]
      /\ found' = [j \in Jobs |-> [p \in {} |-> NoTrack]] /\ cache' = cache
  BY DEF Crash
<1>3. CacheOK'
  BY <1>1, <1>2 DEF CacheOK, Fits, AsRead
<1>4. Shape'
  BY <1>2 DEF Shape, Labels
<1>5. ASSUME NEW j \in Jobs
      PROVE  JobOK(j)'
  <2>1. /\ at'[j] = "idle" /\ todo'[j] = <<>> /\ found'[j] = [p \in {} |-> NoTrack]
    BY <1>2
  <2>2. DOMAIN found'[j] = {}
    BY <2>1
  <2> QED
    BY <2>1, <2>2 DEF JobOK, JobType, JobInTurn, JobFound, JobSource, Begun
<1> QED
  BY <1>3, <1>4, <1>5, JobParts DEF Parts

\* A step that leaves every conversion alone.
LEMMA QuietKeeps ==
  ASSUME IInv, UNCHANGED jobVars, CacheOK'
  PROVE  IInv'
<1>1. Shape' /\ \A j \in Jobs : JobOK(j)'
  BY JobParts, Frame DEF Parts, Shape
<1> QED
  BY <1>1, JobParts DEF Parts

LEMMA NextIInv == IInv /\ [Next]_vars => IInv'
<1> SUFFICES ASSUME IInv, [Next]_vars PROVE IInv'
  OBVIOUS
<1>1. CacheOK
  BY JobParts DEF Parts
<1>2. ASSUME NEW j \in Jobs, Ask(j)
      PROVE  IInv'
  BY <1>2, AskKeeps
<1>3. ASSUME NEW j \in Jobs, SearchTrackWithID(j) \/ ReceiveItem(j) \/ SearchTrackWithTitle(j)
      PROVE  IInv'
  BY <1>3, SourceSteps, ItemSteps, SearchSteps, JobKeeps
<1>4. CASE Expire
  BY <1>1, <1>4, ExpireFits, QuietKeeps DEF Expire
<1>5. CASE Crash
  BY <1>5, CrashKeeps
<1>6. CASE UNCHANGED vars
  <2>1. UNCHANGED jobVars /\ cache' = cache
    BY <1>6 DEF vars
  <2>2. CacheOK'
    BY <1>1, <2>1 DEF CacheOK, Fits, AsRead
  <2> QED
    BY <2>1, <2>2, QuietKeeps
<1> QED
  BY <1>2, <1>3, <1>4, <1>5, <1>6 DEF Next

LEMMA Invariant == Spec => []IInv
BY InitIInv, NextIInv, PTL DEF Spec

-----------------------------------------------------------------------------
(* The theorems.                                                            *)

\* The type of the state, and that a conversion searches exactly as long as it has
\* targets.
THEOREM TypeCorrect == Spec => []TypeOK
<1>1. IInv => TypeOK
  BY DEF IInv
<1> QED
  BY <1>1, Invariant, PTL

\* Every entry of the shared cache is what its key says, whatever the conversions do
\* at once, and although Spotify's search rewrites the source track they hold, but for
\* the blank tracks that Deezer leaves under ids, all of which expire.
THEOREM Cached_AsRead == Spec => []CachedAsRead
<1>1. IInv => CachedAsRead
  BY DEF IInv
<1> QED
  BY <1>1, Invariant, PTL

\* A conversion that is done has searched all of its targets.
LEMMA AllSearched ==
  ASSUME IInv, NEW j \in Jobs, at[j] = "done"
  PROVE  /\ Searched(j) = Len(Targets(request[j]))
         /\ Begun(j) /\ JobFound(j) /\ JobSource(j)
<1>1. /\ JobType(j) /\ JobFound(j) /\ JobSource(j) /\ Begun(j)
  BY JobParts DEF Parts, JobOK, Begun
<1>2. todo[j] = <<>>
  BY <1>1 DEF JobType
<1>3. Targets(request[j]) \in Seq(Platforms)
  BY Running, TargetsType
<1>4. Len(Targets(request[j])) \in Nat /\ Len(todo[j]) = 0
  BY <1>2, <1>3
<1>5. Searched(j) = Len(Targets(request[j])) - Len(todo[j])
  BY DEF Searched
<1> QED
  BY <1>1, <1>4, <1>5

\* The source track is answered as its platform gave it, and with the artist that
\* Spotify's search stripped exactly if Spotify was among the targets.
THEOREM Source_AnsweredAsRead == Spec => []SourceAnsweredAsRead
<1>1. IInv => SourceAnsweredAsRead
  <2> SUFFICES ASSUME IInv, NEW j \in Jobs, at[j] = "done"
               PROVE  IF \E i \in 1 .. Len(Targets(request[j])) : Targets(request[j])[i] = "spotify"
                      THEN Stripped(j)
                      ELSE AsRead(request[j].from, request[j].id, source[j])
    BY DEF SourceAnsweredAsRead
  <2> QED
    BY AllSearched DEF JobSource, SpotifyBegan
<1> QED
  BY <1>1, Invariant, PTL

\* What is answered for a target is a track of that platform.
THEOREM Answers_ArePlatformsOwn == Spec => []AnswersAreThePlatformsOwn
<1>1. IInv => AnswersAreThePlatformsOwn
  BY AllSearched DEF AnswersAreThePlatformsOwn, JobFound
<1> QED
  BY <1>1, Invariant, PTL

\* Whatever is found without asking the platform is found by a search in the cache.
LEMMA HitsInSearch ==
  ASSUME IInv, [Next]_vars, NEW j \in Jobs, at[j] = "search",
         DOMAIN found'[j] \ DOMAIN found[j] # {}
  PROVE  SearchTrackWithTitle(j)
<1>1. Shape
  BY JobParts DEF Parts
<1>2. found'[j] # found[j] /\ DOMAIN found'[j] # {}
  OBVIOUS
<1>3. ~Crash /\ ~Expire /\ ~UNCHANGED vars
  <2>1. ASSUME Crash PROVE FALSE
    <3>1. found'[j] = [p \in {} |-> NoTrack]
      BY <2>1 DEF Crash
    <3> QED
      BY <1>2, <3>1
  <2> QED
    BY <1>2, <2>1 DEF Expire, vars
<1>4. PICK k \in Jobs : Ask(k) \/ SearchTrackWithID(k) \/ ReceiveItem(k) \/ SearchTrackWithTitle(k)
  BY <1>3 DEF Next
<1>5. k = j
  <2>1. CASE Ask(k)
    BY <1>1, <1>2, <2>1 DEF Ask, Shape
  <2>2. CASE ~Ask(k)
    BY <1>2, <1>4, <2>2, SourceSteps, ItemSteps, SearchSteps, OthersStay
  <2> QED
    BY <2>1, <2>2
<1> QED
  BY <1>4, <1>5
     DEF Ask, Resting, ReceiveItem, SearchTrackWithID, SpotifyTrackWithID, DeezerTrackWithID,
         AppleMusicTrackWithID, TidalTrackWithID, YTMusicTrackWithID, Reads

\* A hit of Deezer's search has the wanted title, and an artist of the same normal form
\* as the wanted one.
THEOREM Deezer_HitsTheSong == Spec => DeezerHitsTheSong
<1> DEFINE Song(j) ==
      at[j] = "search" /\ "deezer" \in DOMAIN found'[j] \ DOMAIN found[j] =>
         LET hit == found'[j]["deezer"]
         IN  /\ hit.title = source[j].title
             /\ Normalized[hit.artist] = Normalized[source[j].artist]
<1>1. ASSUME IInv, [Next]_vars, NEW j \in Jobs, at[j] = "search",
             "deezer" \in DOMAIN found'[j] \ DOMAIN found[j]
      PROVE  /\ found'[j]["deezer"].title = source[j].title
             /\ Normalized[found'[j]["deezer"].artist] = Normalized[source[j].artist]
  <2>1. Shape /\ CacheOK /\ source[j].artist \in Names
    BY <1>1, JobParts, Wanting DEF Parts
  <2>2. found'[j] # found[j] /\ DOMAIN found'[j] # {}
    BY <1>1
  <2>3. SearchTrackWithTitle(j)
    BY <1>1, HitsInSearch
  <2>4. ~Finds(j) /\ ~FindsNothing(j)
    BY <1>1 DEF Finds, FindsNothing
  <2>5. PICK seen, read : SearchCache(j, seen, read) /\
          (Head(todo[j]) = "deezer" =>
             read = NameKey("deezer", Normalized[source[j].artist], source[j].title))
    BY <2>3, <2>4 DEF SearchTrackWithTitle, SpotifyTrackWithTitle, DeezerTrackWithTitle,
       AppleMusicTrackWithTitle, TidalTrackWithTitle, YTMusicTrackWithTitle, Wants
  <2>6. read \in DOMAIN cache /\ Answered(j, cache[read].track)
    <3>1. CASE found' = found
      BY <2>2, <3>1
    <3>2. CASE Unanswered(j)
      <4>1. CASE found' = found
        BY <2>2, <4>1
      <4>2. CASE GiveUp(j)
        <5>1. found'[j] = [p \in {} |-> NoTrack]
          BY <2>1, <4>2 DEF GiveUp, Shape
        <5> QED
          BY <2>2, <5>1
      <4> QED
        BY <3>2, <4>1, <4>2 DEF Unanswered
    <3> QED
      BY <2>5, <3>1, <3>2 DEF SearchCache
  <2>7. /\ DOMAIN found'[j] = DOMAIN found[j] \cup {Head(todo[j])}
        /\ found'[j][Head(todo[j])] = cache[read].track
    BY <2>1, <2>6 DEF Answered, Shape
  <2>8. Head(todo[j]) = "deezer"
    BY <1>1, <2>7
  <2>9. read = NameKey("deezer", Normalized[source[j].artist], source[j].title)
    BY <2>5, <2>8
  <2>10. /\ cache[read].track.artist = Normalized[source[j].artist]
         /\ cache[read].track.title = source[j].title
    BY <2>1, <2>6, <2>9, HitsFit
  <2>11. Normalized[Normalized[source[j].artist]] = Normalized[source[j].artist]
    BY <2>1, NormalizedAssumption
  <2> QED
    BY <2>7, <2>8, <2>10, <2>11
<1>2. IInv /\ [Next]_vars => \A j \in Jobs : Song(j)
  BY <1>1
<1>3. IInv /\ [Next]_vars => [\A j \in Jobs : Song(j)]_vars
  BY <1>2
<1> QED
  BY <1>3, Invariant, PTL DEF Spec, DeezerHitsTheSong

\* Only Deezer and Apple Music ever answer a search from the cache.
THEOREM OnlyTwo_SearchesHit == Spec => OnlyTwoSearchesHit
<1> DEFINE Hits(j) ==
      at[j] = "search" => DOMAIN found'[j] \ DOMAIN found[j] \subseteq {"deezer", "applemusic"}
<1>1. ASSUME IInv, [Next]_vars, NEW j \in Jobs, at[j] = "search",
             NEW p \in DOMAIN found'[j] \ DOMAIN found[j]
      PROVE  p \in Hitting
  <2>1. Shape /\ JobStep(j)
    BY <1>1, JobParts, HitsInSearch, SearchSteps DEF Parts
  <2>2. found'[j] # found[j] /\ DOMAIN found'[j] # {}
    BY <1>1
  <2>3. CASE Answers(j)
    <3>1. PICK t \in Catalog[Head(todo[j])] : Answered(j, t)
      BY <2>3 DEF Answers
    <3>2. DOMAIN found'[j] = DOMAIN found[j] \cup {Head(todo[j])}
      BY <2>1, <3>1 DEF Answered, Shape
    <3> QED
      BY <1>1, <2>3, <3>2 DEF Answers, Decides
  <2>4. CASE Stops(j)
    <3>1. found'[j] = [q \in {} |-> NoTrack]
      BY <2>1, <2>4 DEF Stops, GiveUp, Shape
    <3> QED
      BY <2>2, <3>1
  <2>5. CASE Goes(j) \/ Begins(j) \/ Looks(j) \/ Omits(j)
    BY <2>2, <2>5 DEF Goes, Goto, Begins, Looks, Omits
  <2> QED
    BY <2>1, <2>3, <2>4, <2>5 DEF JobStep
<1>2. IInv /\ [Next]_vars => \A j \in Jobs : Hits(j)
  BY <1>1 DEF Hitting
<1>3. IInv /\ [Next]_vars => [\A j \in Jobs : Hits(j)]_vars
  BY <1>2
<1> QED
  BY <1>3, Invariant, PTL DEF Spec, OnlyTwoSearchesHit
=============================================================================
