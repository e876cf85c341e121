-------------------------- MODULE TrackConversion --------------------------
(***************************************************************************)
(* Conversions of single tracks over the tracks cached in Redis: requests  *)
(* served by Service.ConvertTrack, and the tracks of playlists, which the  *)
(* consumer of AsynqConvertPlaylist caches and searches one by one.  All   *)
(* of them share the cache, whose keys every platform builds its own way.  *)
(* A track is its id on its platform, its first artist and its title; an   *)
(* artist's other spellings are the values of Normalized and Extracted.    *)
(* Keys nobody reads (YouTube Music's hashed ones) are left out.           *)
(***************************************************************************)
EXTENDS Naturals, Sequences

CONSTANTS
  Jobs,          \* conversions that may run at once
  Names, Titles, \* artists as the platforms write them, titles
  Catalog,       \* the tracks of each platform
  AlbumArtist,   \* the first artist of the album with a title
  Featured,      \* the artists a title names
  Normalized,    \* util.NormalizeString, on artists
  Extracted,     \* Spotify's extractArtiste
  Credentialed,  \* platforms of which the developer's app has credentials that work
  Links,         \* bound: the platforms clients send links of
  Aims,          \* bound: the targets they ask for, platforms or "all"
  AlbumId,       \* a Tidal album's id
  RedisMayFail   \* may a call to Redis fail

\* The order of validPlatforms.
Order     == <<"applemusic", "deezer", "spotify", "tidal", "ytmusic">>
Platforms == {"applemusic", "deezer", "spotify", "tidal", "ytmusic"}

ASSUME NormalizedAssumption == /\ Normalized \in [Names -> Names]
                               /\ \A n \in Names : Normalized[Normalized[n]] = Normalized[n]
ASSUME ExtractedAssumption  == Extracted \in [Names -> Names]
ASSUME TitlesAssumption     == /\ AlbumArtist \in [Titles -> Names]
                               /\ Featured \in [Titles -> SUBSET Names]
ASSUME CatalogAssumption    ==
  /\ DOMAIN Catalog = Platforms
  /\ \A p \in Platforms : \A t \in Catalog[p] :
       t \in [id : {t.id}, artist : Names, title : Titles] /\ t.id # AlbumId
ASSUME CredentialedAssumption == Credentialed \subseteq Platforms \ {"ytmusic"}
ASSUME BoundsAssumption       == /\ Links \subseteq Platforms
                                 /\ Aims \subseteq Platforms \cup {"all"}
ASSUME RedisAssumption        == RedisMayFail \in BOOLEAN

VARIABLES
  cache,     \* the tracks in Redis, by key
  at,        \* where each conversion is
  request,   \* what it was asked for
  source,    \* its source track: the struct the answer points to
  todo,      \* the targets it has yet to search
  found      \* the tracks found on its targets

jobVars == <<at, request, source, todo, found>>
vars    == <<cache, at, request, source, todo, found>>

-----------------------------------------------------------------------------
(* Keys and entries.                                                        *)

\* "<platform>:track:<id>"
IdKey(p, id) == <<"id", p, id>>

\* Mutant: the key leaves the title out.
NameKeyOfArtist(p, artist, title) == <<"name", p, artist, "any">>

\* "<platform>:track:title-artist-<artist>:<title>"
NameKey(p, artist, title) == <<"name", p, artist, title>>

\* "<platform>-<artist>-<title>", and Tidal's name key of such an "artist"
PlainKey(p, artist, title) == <<"plain", p, artist, title>>

\* "<artist>", without a platform or a title
ArtistKey(artist) == <<"artist", artist>>

Entry(track, expires) == [track |-> track, expires |-> expires]

\* What Deezer's track is when the body is an error's, which Deezer sends with status
\* 200 and nobody looks for: all of its fields are zero, and it has no artists.
Blank == [artists |-> {}]

\* Set of several keys, one after the other.  In Store a failure of any of them is
\* only logged.
Set(keys, entry) ==
  cache' = [k \in DOMAIN cache \cup keys |-> IF k \in keys THEN entry ELSE cache[k]]
Store(keys, entry) ==
  \E stored \in IF RedisMayFail THEN SUBSET keys ELSE {keys} : Set(stored, entry)

\* CacheTrackByArtistTitle and CacheTrackByID, whose entries do not expire.
ItemKeys(p, track) == {NameKey(p, track.artist, track.title), IdKey(p, track.id)}

\* What SearchTrackWithID makes of a platform's track: Spotify's has the album's
\* artists, Tidal's the album's id.
AsSource(p, track) ==
  CASE p = "spotify" -> [track EXCEPT !.artist = AlbumArtist[track.title]]
    [] p = "tidal"   -> [track EXCEPT !.id = AlbumId]
    [] OTHER         -> track

-----------------------------------------------------------------------------
(* Requests.                                                                *)

\* GetPlatformService finds a service; YouTube Music needs no credentials.
Served(p) == p \in Credentialed \cup {"ytmusic"}

\* A track a client asks for, to one platform or to all, which the middleware admits
\* if its own platform is served; a track of a playlist of a platform that sends its
\* tracks, to one that playlists are converted to.
TrackRequests == UNION {[kind : {"track"}, from : {p}, id : {t.id : t \in Catalog[p]},
                         to : Aims] : p \in {l \in Links : Served(l)}}
ItemRequests  == UNION {[kind : {"item"}, from : {p}, id : {t.id : t \in Catalog[p]},
                         to : Aims \cap Credentialed] :
                          p \in Links \cap Credentialed \cap {"deezer", "spotify"}}

\* The platforms to search: with "all", every one but the source's.
Place(p)   == CHOOSE n \in 1 .. 5 : Order[n] = p
Targets(r) == IF r.to = "all"
              THEN [i \in 1 .. 4 |-> IF i < Place(r.from) THEN Order[i] ELSE Order[i + 1]]
              ELSE <<r.to>>

NoTrack   == [id |-> AlbumId]
NoRequest == [kind |-> "none"]
Resting == {"idle", "done"}

Init == /\ cache = [k \in {} |-> {}]
        /\ at = [j \in Jobs |-> "idle"]
        /\ request = [j \in Jobs |-> NoRequest]
        /\ source = [j \in Jobs |-> NoTrack]
        /\ todo = [j \in Jobs |-> <<>>]
        /\ found = [j \in Jobs |-> [p \in {} |-> NoTrack]]

MoveTo(j, label) == at' = [at EXCEPT ![j] = label]

\* A conversion that fails answers nothing: what it held is gone with it.
GiveUp(j) == /\ MoveTo(j, "idle")
             /\ todo' = [todo EXCEPT ![j] = <<>>]
             /\ found' = [found EXCEPT ![j] = [p \in {} |-> NoTrack]]
             /\ request' = [request EXCEPT ![j] = NoRequest]

Fail(j) == GiveUp(j) /\ source' = [source EXCEPT ![j] = NoTrack]

\* A client asks, or the producer hands a playlist's track to the consumer.
Ask(j) ==
  /\ at[j] \in Resting
  /\ \E r \in TrackRequests \cup ItemRequests :
       /\ request' = [request EXCEPT ![j] = r]
       /\ MoveTo(j, IF r.kind = "track" THEN "lookup" ELSE "item")
  /\ source' = [source EXCEPT ![j] = NoTrack]
  /\ todo' = [todo EXCEPT ![j] = <<>>]
  /\ found' = [found EXCEPT ![j] = [p \in {} |-> NoTrack]]
  /\ UNCHANGED cache

-----------------------------------------------------------------------------
(* The source track.                                                        *)

Goto(j, label) == MoveTo(j, label) /\ UNCHANGED <<request, source, todo, found>>

\* The source track is there.  ConvertTrack needs a service of every target, which
\* the middleware has not looked for; then every platform's search begins with the first
\* artist, and without artists the conversion panics: only Crash is left to it.
Sourced(j, track) ==
  IF \E i \in DOMAIN Targets(request[j]) : ~Served(Targets(request[j])[i]) THEN Fail(j)
  ELSE \/ track = Blank /\ Goto(j, "panic")
       \/ /\ track # Blank
          /\ source' = [source EXCEPT ![j] = track]
          /\ todo' = [todo EXCEPT ![j] = Targets(request[j])]
          /\ MoveTo(j, "search")
          /\ UNCHANGED <<request, found>>

\* A client's conversion whose source platform p is asked.
Reads(j, p) == at[j] \in {"lookup", "get", "fetch"} /\ request[j].from = p

SourceKey(j) == IdKey(request[j].from, request[j].id)
Fetched(j)   == {t \in Catalog[request[j].from] : t.id = request[j].id}

\* The cache is read at once: a hit is the source, a miss is fetched.
ReadSource(j) == /\ at[j] = "lookup"
                 /\ \/ SourceKey(j) \in DOMAIN cache /\ Sourced(j, cache[SourceKey(j)].track)
                    \/ SourceKey(j) \notin DOMAIN cache /\ Goto(j, "fetch")
                    \/ RedisMayFail /\ Fail(j)
                 /\ UNCHANGED cache

\* The platform has no such track, or does not answer.
FetchFails(j) == at[j] = "fetch" /\ Fail(j) /\ UNCHANGED cache

\* The platform answers, and the answer is kept for a day.
FetchSource(j) ==
  /\ at[j] = "fetch"
  /\ \E t \in Fetched(j) : LET a == AsSource(request[j].from, t)
                          IN  /\ Store({SourceKey(j)}, Entry(a, TRUE))
                              /\ Sourced(j, a)

\* Spotify takes the artists of the track's album.
SpotifyTrackWithID(j) ==
  /\ Reads(j, "spotify")
  /\ \/ ReadSource(j)
     \/ FetchFails(j)
     \/ FetchSource(j)

\* Deezer asks whether the track is there and then reads it, when it may have
\* expired.  An error of its own call is not looked at: the process ends (Crash).  Nor
\* is an error in the answer's body: the blank track is kept for a day under the id.
DeezerTrackWithID(j) ==
  /\ Reads(j, "deezer")
  /\ \/ /\ at[j] = "lookup" /\ SourceKey(j) \in DOMAIN cache
        /\ Goto(j, "get")
        /\ UNCHANGED cache
     \/ /\ at[j] = "lookup" /\ (SourceKey(j) \notin DOMAIN cache \/ RedisMayFail)
        /\ Goto(j, "fetch")
        /\ UNCHANGED cache
     \/ /\ at[j] = "get" /\ SourceKey(j) \in DOMAIN cache
        /\ Sourced(j, cache[SourceKey(j)].track)
        /\ UNCHANGED cache
     \/ /\ at[j] = "get" /\ (SourceKey(j) \notin DOMAIN cache \/ RedisMayFail)
        /\ Fail(j)
        /\ UNCHANGED cache
     \/ FetchSource(j)
     \/ /\ at[j] = "fetch"
        /\ Store({SourceKey(j)}, Entry(Blank, TRUE))
        /\ Sourced(j, Blank)

\* Apple Music reads the cache and fetches the track all the same; it fails if
\* Redis does, before or after.
AppleMusicTrackWithID(j) ==
  /\ Reads(j, "applemusic")
  /\ \/ at[j] = "lookup" /\ Goto(j, "fetch") /\ UNCHANGED cache
     \/ at[j] = "lookup" /\ RedisMayFail /\ Fail(j) /\ UNCHANGED cache
     \/ FetchFails(j)
     \/ /\ at[j] = "fetch"
        /\ \E t \in Fetched(j) : Set({SourceKey(j)}, Entry(t, TRUE)) /\ Sourced(j, t)

\* Mutant: the track is kept by the id in the answer, as CacheTrackByID would.
TidalTrackWithIDByAnswer(j) ==
  /\ Reads(j, "tidal")
  /\ \/ ReadSource(j)
     \/ FetchFails(j)
     \/ /\ at[j] = "fetch"
        /\ \E t \in Fetched(j) : LET a == AsSource("tidal", t)
                                IN  /\ Store({IdKey("tidal", a.id)}, Entry(a, TRUE))
                                    /\ Sourced(j, a)

\* Tidal takes the album's id for the track's.
TidalTrackWithID(j) ==
  /\ Reads(j, "tidal")
  /\ \/ ReadSource(j)
     \/ FetchFails(j)
     \/ FetchSource(j)

\* YouTube Music hands Redis a struct it cannot write, so nothing is kept, and
\* that is not looked at.  A nil track ends the process (Crash).
YTMusicTrackWithID(j) ==
  /\ Reads(j, "ytmusic")
  /\ \/ ReadSource(j)
     \/ FetchFails(j)
     \/ /\ at[j] = "fetch"
        /\ \E t \in Fetched(j) : Sourced(j, t)
        /\ UNCHANGED cache

SearchTrackWithID(j) == \/ SpotifyTrackWithID(j) \/ DeezerTrackWithID(j)
                        \/ AppleMusicTrackWithID(j) \/ TidalTrackWithID(j)
                        \/ YTMusicTrackWithID(j)

\* Mutant: the source's track is kept as the target's.
ReceiveItemForTarget(j) ==
  /\ at[j] = "item"
  /\ \E t \in Catalog[request[j].from] :
       /\ t.id = request[j].id
       /\ Store(ItemKeys(request[j].to, t), Entry(t, FALSE))
       /\ Sourced(j, t)

\* A track of a playlist arrives at the consumer, which caches it before anything
\* else is done with it.
ReceiveItem(j) ==
  /\ at[j] = "item"
  /\ \E t \in Catalog[request[j].from] :
       /\ t.id = request[j].id
       /\ Store(ItemKeys(request[j].from, t), Entry(t, FALSE))
       /\ Sourced(j, t)

-----------------------------------------------------------------------------
(* The search on the next target.                                           *)

\* A target has answered: the next one is searched, or the conversion is done.
Answered(j, track) ==
  /\ found' = [found EXCEPT ![j] = [p \in DOMAIN @ \cup {Head(todo[j])} |->
                                      IF p = Head(todo[j]) THEN track ELSE @[p]]]
  /\ todo' = [todo EXCEPT ![j] = Tail(@)]
  /\ MoveTo(j, IF Len(todo[j]) = 1 THEN "done" ELSE "search")
  /\ UNCHANGED request

\* Mutant: a target without an answer does not end the search.
UnansweredGoesOn(j) ==
  IF request[j].to = "all" \/ request[j].kind = "item"
  THEN /\ todo' = [todo EXCEPT ![j] = Tail(@)]
       /\ MoveTo(j, "search")
       /\ UNCHANGED <<request, found>>
  ELSE GiveUp(j)

\* Mutant: a target without an answer fails a playlist's track.
UnansweredFailsItem(j) ==
  IF request[j].to = "all"
  THEN /\ todo' = [todo EXCEPT ![j] = Tail(@)]
       /\ MoveTo(j, IF Len(todo[j]) = 1 THEN "done" ELSE "search")
       /\ UNCHANGED <<request, found>>
  ELSE GiveUp(j)

\* A target has not: with "all" it is omitted, the track of a playlist is
\* reported as missing, a conversion to this target fails.
Unanswered(j) ==
  IF request[j].to = "all" \/ request[j].kind = "item"
  THEN /\ todo' = [todo EXCEPT ![j] = Tail(@)]
       /\ MoveTo(j, IF Len(todo[j]) = 1 THEN "done" ELSE "search")
       /\ UNCHANGED <<request, found>>
  ELSE GiveUp(j)

\* The next target of a conversion is p.
Wants(j, p) == at[j] \in {"search", "ask"} /\ Head(todo[j]) = p

IsItem(j) == request[j].kind = "item"

\* Mutant: the artist is normalized in place as well.
StripToNormalForm(track) == [track EXCEPT !.artist = Normalized[Extracted[@]]]

\* The artist is stripped in place.
Strip(track) == [track EXCEPT !.artist = Extracted[@]]

\* The consumer of a playlist caches the target's track too, a cached one again.
KeptItem(j, p, track) == IF IsItem(j) THEN ItemKeys(p, track) ELSE {}

\* A search looks for the key "seen" and reads the key "read".  An error of the
\* read ends the process if a playlist's track is searched (Crash).
SearchCache(j, seen, read) ==
  /\ at[j] = "search"
  /\ \/ /\ seen \notin DOMAIN cache \/ RedisMayFail
        /\ MoveTo(j, "ask")
        /\ UNCHANGED <<cache, request, todo, found>>
     \/ /\ {seen, read} \subseteq DOMAIN cache
        /\ Store(KeptItem(j, Head(todo[j]), cache[read].track),
                 Entry(cache[read].track, FALSE))
        /\ Answered(j, cache[read].track)
     \/ /\ seen \in DOMAIN cache /\ (read \notin DOMAIN cache \/ RedisMayFail)
        /\ ~IsItem(j)
        /\ Unanswered(j)
        /\ UNCHANGED cache

\* The keys under which a search itself keeps the track t it finds: Spotify's its id,
\* Apple Music's the wanted artist, if t has it or the searched title names it.
KeptBySearch(j, p, t) ==
  LET artist == source[j].artist
  IN  CASE p = "spotify" -> {IdKey(p, t.id)}
        [] p = "applemusic" /\ artist \in {t.artist} \cup Featured[source[j].title]
             -> {ArtistKey(Normalized[artist])}
        [] OTHER -> {}

\* The platform's own search answers with any of its tracks.
Finds(j) ==
  /\ at[j] = "ask"
  /\ \E t \in Catalog[Head(todo[j])] :
       /\ Store(KeptBySearch(j, Head(todo[j]), t) \cup KeptItem(j, Head(todo[j]), t),
                Entry(t, FALSE))
       /\ Answered(j, t)
  /\ UNCHANGED source

\* The platform's own search does not answer, or it has no result.
FindsNothing(j) == /\ at[j] = "ask"
                   /\ Unanswered(j)
                   /\ UNCHANGED <<cache, source>>

\* Mutant: Spotify looks for the artist alone, as Apple Music does.
SpotifyTrackWithTitleByArtist(j) ==
  /\ Wants(j, "spotify")
  /\ \/ LET want == Strip(source[j])
            key  == ArtistKey(Normalized[want.artist])
        IN  SearchCache(j, key, key) /\ source' = [source EXCEPT ![j] = want]
     \/ Finds(j)
     \/ FindsNothing(j)

\* Spotify strips the artist in place, in the list the source track shares with
\* the search, looks for a key nothing writes, and keeps what it finds by its id.
SpotifyTrackWithTitle(j) ==
  /\ Wants(j, "spotify")
  /\ \/ LET want == Strip(source[j])
            key  == PlainKey("spotify", Normalized[want.artist], want.title)
        IN  SearchCache(j, key, key) /\ source' = [source EXCEPT ![j] = want]
     \/ Finds(j)
     \/ FindsNothing(j)

\* Deezer looks for the normalized artist; what it finds is kept by the consumer
\* alone, and under the artist as Deezer writes it.
DeezerTrackWithTitle(j) ==
  /\ Wants(j, "deezer")
  /\ \/ LET key == NameKey("deezer", Normalized[source[j].artist], source[j].title)
        IN  SearchCache(j, key, key) /\ UNCHANGED source
     \/ Finds(j)
     \/ FindsNothing(j)

\* Apple Music looks for the artist as it is written, reads the normalized one, and
\* may keep what it finds.
AppleMusicTrackWithTitle(j) ==
  LET artist == source[j].artist
  IN  /\ Wants(j, "applemusic")
      /\ \/ /\ SearchCache(j, ArtistKey(artist), ArtistKey(Normalized[artist]))
            /\ UNCHANGED source
         \/ Finds(j)
         \/ FindsNothing(j)

\* Tidal looks for a key nothing writes.  That it has no track it says with the
\* error of a call, which ends the process if a playlist's track is searched.
TidalTrackWithTitle(j) ==
  /\ Wants(j, "tidal")
  /\ \/ LET key == PlainKey("tidal", Normalized[source[j].artist], source[j].title)
        IN  SearchCache(j, key, key) /\ UNCHANGED source
     \/ Finds(j)
     \/ ~IsItem(j) /\ FindsNothing(j)

\* YouTube Music looks for a key nothing writes.
YTMusicTrackWithTitle(j) ==
  /\ Wants(j, "ytmusic")
  /\ \/ LET key == PlainKey("ytmusic", Normalized[source[j].artist], source[j].title)
        IN  SearchCache(j, key, key) /\ UNCHANGED source
     \/ Finds(j)
     \/ FindsNothing(j)

SearchTrackWithTitle(j) == \/ SpotifyTrackWithTitle(j) \/ DeezerTrackWithTitle(j)
                           \/ AppleMusicTrackWithTitle(j) \/ TidalTrackWithTitle(j)
                           \/ YTMusicTrackWithTitle(j)

-----------------------------------------------------------------------------
\* Redis forgets an entry whose day is over.
Expire == /\ \E key \in DOMAIN cache :
               /\ cache[key].expires
               /\ cache' = [k \in DOMAIN cache \ {key} |-> cache[k]]
          /\ UNCHANGED jobVars

\* The process ends, by a panic nothing recovers (there is no recover middleware)
\* or from outside.  Redis keeps its tracks.
Crash == /\ \E j \in Jobs : at[j] \notin Resting
         /\ at' = [j \in Jobs |-> "idle"]
         /\ source' = [j \in Jobs |-> NoTrack]
         /\ todo' = [j \in Jobs |-> <<>>]
         /\ found' = [j \in Jobs |-> [p \in {} |-> NoTrack]]
         /\ request' = [j \in Jobs |-> NoRequest]
         /\ UNCHANGED cache

Next == \/ \E j \in Jobs : \/ Ask(j) \/ SearchTrackWithID(j)
                           \/ ReceiveItem(j) \/ SearchTrackWithTitle(j)
        \/ Expire
        \/ Crash

Spec == Init /\ [][Next]_vars

-----------------------------------------------------------------------------
(* Properties.                                                              *)

Ids       == {t.id : t \in UNION {Catalog[p] : p \in Platforms}} \cup {AlbumId}
TrackType == [id : Ids, artist : Names, title : Titles]

\* The type of the state; a conversion searches exactly as long as it has targets.
TypeOK ==
  /\ \A key \in DOMAIN cache :
       cache[key] \in [track : TrackType \cup {Blank}, expires : BOOLEAN]
  /\ at \in [Jobs -> {"idle", "lookup", "get", "fetch", "item", "panic", "search", "ask",
                     "done"}]
  /\ request \in [Jobs -> TrackRequests \cup ItemRequests \cup {NoRequest}]
  /\ source \in [Jobs -> TrackType \cup {NoTrack}]
  /\ todo \in [Jobs -> Seq(Platforms)]
  /\ DOMAIN found = Jobs
  /\ \A j \in Jobs : /\ DOMAIN found[j] \subseteq Platforms
                     /\ \A p \in DOMAIN found[j] : found[j][p] \in TrackType
                     /\ at[j] \in {"search", "ask"} <=> todo[j] # <<>>

\* Track t is what platform p answers for this id.
AsRead(p, id, t) == \E c \in Catalog[p] : c.id = id /\ t \in {c, AsSource(p, c)}

\* Track t may be kept under the key: under an id, it is what its platform answers for
\* that id, or the blank track, which only Deezer leaves there and for a day at most, under
\* a name, it is a track of that platform and that very name, and under an artist, it is
\* Apple Music's and the name is a normalized one.
Fits(t, key) ==
  \/ key[1] = "id" /\ (AsRead(key[2], key[3], t) \/ (key[2] = "deezer" /\ t = Blank))
  \/ key[1] = "name" /\ t \in Catalog[key[2]] /\ key = NameKey(key[2], t.artist, t.title)
  \/ key[1] = "artist" /\ t \in Catalog["applemusic"] /\ Normalized[key[2]] = key[2]

\* Whatever the conversions that share the cache do, and although Spotify's search
\* rewrites the source track they hold: an entry is what its key says, but for Deezer's
\* blank tracks, which get under ids only and go with their day.
CachedAsRead == \A key \in DOMAIN cache :
                  /\ Fits(cache[key].track, key)
                  /\ cache[key].track = Blank => cache[key].expires

\* The source track as its platform gave it, but for an artist that Spotify's search
\* stripped.
Stripped(j) ==
  \E a \in Names : /\ source[j].artist = Extracted[a]
                   /\ AsRead(request[j].from, request[j].id, [source[j] EXCEPT !.artist = a])

\* A conversion answers with the source track as its platform gave it, unless Spotify
\* was among its targets: then the artist is what Spotify's search made of it.  It never
\* answers with a blank track, neither Deezer's own nor one that another conversion left.
SourceAnsweredAsRead ==
  \A j \in Jobs : at[j] = "done" =>
    LET r == request[j]
    IN  IF \E i \in 1 .. Len(Targets(r)) : Targets(r)[i] = "spotify"
        THEN Stripped(j)
        ELSE AsRead(r.from, r.id, source[j])

\* What a conversion answers for a target is a track of this very platform, and one
\* asked to convert to a single platform answers with that platform's track.
AnswersAreThePlatformsOwn ==
  \A j \in Jobs : at[j] = "done" =>
    /\ \A p \in DOMAIN found[j] :
         /\ found[j][p] \in Catalog[p]
         /\ \E i \in 1 .. Len(Targets(request[j])) : Targets(request[j])[i] = p
    /\ request[j].kind = "track" /\ request[j].to # "all"
         => DOMAIN found[j] = {request[j].to}

\* A hit of Deezer's search in the cache has the title that is wanted and an artist of
\* the same normal form, although another conversion wrote the entry under the name
\* Deezer gave the track, and not under the one it was searched by.
DeezerHitsTheSong ==
  [][\A j \in Jobs :
       at[j] = "search" /\ "deezer" \in DOMAIN found'[j] \ DOMAIN found[j] =>
         LET hit == found'[j]["deezer"]
         IN  /\ hit.title = source[j].title
             /\ Normalized[hit.artist] = Normalized[source[j].artist]]_vars

\* Only Deezer and Apple Music ever answer a search from the cache: what Spotify, Tidal
\* and YouTube Music look for is under no key that a conversion before or beside it, or
\* they themselves, have written, so that each of their searches goes to the platform.
OnlyTwoSearchesHit ==
  [][\A j \in Jobs : at[j] = "search" =>
       DOMAIN found'[j] \ DOMAIN found[j] \subseteq {"deezer", "applemusic"}]_vars

\* Where a conversion is for those who do not know of the cache.
Phase(j) == CASE at[j] \in {"lookup", "get", "fetch", "item", "panic"} -> "asked"
              [] at[j] = "ask" /\ Head(todo[j]) = "spotify"      -> "stripped"
              [] at[j] = "search" \/ (at[j] = "ask" /\ Head(todo[j]) # "spotify") -> "searching"
              [] OTHER                                           -> at[j]

\* What a request may be answered from: its targets, and its source track as read.
AllRequests == TrackRequests \cup ItemRequests
AllTargets  == [r \in AllRequests |-> Targets(r)]
AllReadings == [r \in AllRequests |->
                  UNION {{c, AsSource(r.from, c)} : c \in {t \in Catalog[r.from] : t.id = r.id}}]
AllAlone    == {r \in AllRequests : r.kind = "track" /\ r.to # "all"}

\* The cache cannot be told from the answers: conversions that share it, at once or one
\* after the other, over restarts and expired entries, are conversions that share nothing.
Apart == INSTANCE IndependentConversions
           WITH Requests  <- AllRequests,
                TargetsOf <- AllTargets,
                Readings  <- AllReadings,
                Alone     <- AllAlone,
                None      <- NoRequest,
                phase     <- [j \in Jobs |-> Phase(j)],
                source    <- [j \in Jobs |-> IF at[j] \in {"search", "ask", "done"}
                                             THEN source[j] ELSE NoRequest]
ImplementsIndependentConversions == Apart!ConversionsSpec

-----------------------------------------------------------------------------
(* The inductive invariant.                                                 *)

\* The source track is there, and so many targets have been searched.
Begun(j)    == at[j] \in {"search", "ask", "done"}
Searched(j) == Len(Targets(request[j])) - Len(todo[j])

\* A conversion searches its targets one after the other.
InTurn ==
  \A j \in Jobs :
    /\ at[j] # "idle" => request[j] # NoRequest
    /\ Begun(j) => /\ source[j] \in TrackType
                   /\ Searched(j) >= 0
                   /\ \A i \in 1 .. Len(todo[j]) :
                        todo[j][i] = Targets(request[j])[Searched(j) + i]

\* What it has found is its targets' own, and nothing before it has searched.
FoundInTurn ==
  \A j \in Jobs :
    /\ ~Begun(j) => DOMAIN found[j] = {}
    /\ \A p \in DOMAIN found[j] :
         /\ found[j][p] \in Catalog[p]
         /\ \E i \in 1 .. Searched(j) : Targets(request[j])[i] = p
    /\ at[j] = "done" /\ request[j].kind = "track" /\ request[j].to # "all"
         => DOMAIN found[j] = {request[j].to}

\* Spotify's search strips the artist of the source track as soon as it looks into
\* the cache.
SpotifyBegan(j) == \/ \E i \in 1 .. Searched(j) : Targets(request[j])[i] = "spotify"
                   \/ at[j] = "ask" /\ Head(todo[j]) = "spotify"

SourceAsRead ==
  \A j \in Jobs : Begun(j) =>
    IF SpotifyBegan(j) THEN Stripped(j)
    ELSE AsRead(request[j].from, request[j].id, source[j])

IInv == TypeOK /\ CachedAsRead /\ InTurn /\ FoundInTurn /\ SourceAsRead
=============================================================================
