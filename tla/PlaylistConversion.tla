------------------------ MODULE PlaylistConversion ------------------------
(***************************************************************************)
(* One run of Service.AsynqConvertPlaylist: the goroutine that called it,  *)
(* the producer that reads the source platform's playlist and sends its    *)
(* tracks over an unbuffered channel, and the consumer that looks each     *)
(* track up on the target platform, reports it by a webhook event and      *)
(* collects the result.  A panic in the producer or the consumer, and      *)
(* log.Fatal, end the whole process: nothing recovers them.                *)
(* A track is its position in the playlist.  What the platforms, Redis and *)
(* Svix answer is chosen from what the code distinguishes.                 *)
(***************************************************************************)
EXTENDS Integers, Sequences, SequencesExt

CONSTANTS
  MaxTracks,        \* bound on the length of a playlist
  PageSize,         \* tracks in one page of a platform's answer
  WebhooksMayFail   \* may Svix refuse an event

ASSUME MaxTracksAssumption == MaxTracks \in Nat
ASSUME PageSizeAssumption  == PageSize \in Nat \ {0}
ASSUME WebhooksAssumption  == WebhooksMayFail \in BOOLEAN

VARIABLES
  source, target,   \* the two platforms of the conversion
  length,           \* how long the playlist is
  known,            \* does the app have credentials of the target platform
  main,             \* where the caller's goroutine is
  producer,         \* where the producer is
  fetched,          \* tracks the producer has read
  page,             \* pages the producer has read
  sent,             \* tracks handed over on the channel
  closed,           \* is the channel closed
  consumer,         \* where the consumer is
  wg,               \* the WaitGroup's counter
  src, tgt, omitted,\* the tracks collected
  feed,             \* the webhook events Svix accepted
  refused,          \* has it refused any
  platforms,        \* the conversion's Platforms, by platform
  alive             \* does the process still run

inputVars    == <<source, target, length>>
producerVars == <<producer, fetched, page>>
resultVars   == <<src, tgt, omitted>>
feedVars     == <<feed, refused>>
vars == <<inputVars, known, main, producerVars, sent, closed, consumer, wg,
          resultVars, feedVars, platforms, alive>>

-----------------------------------------------------------------------------
\* Sources ExtractLinkInfo knows and targets the middleware admits for a
\* playlist.
Targets == {"spotify", "deezer", "applemusic", "tidal"}
Sources == Targets \cup {"ytmusic"}

\* Platforms whose search says EnoResult for a track they do not have; Tidal's
\* then asks for the track with no id and returns that call's error.
AdmitMissing == {"spotify", "deezer", "applemusic"}

Tracks == 1 .. MaxTracks
Event(type, track) == [type |-> type, track |-> track]

\* SendEvent: a refused event is logged and forgotten.
SendEvent(e) == \/ feed' = Append(feed, e) /\ UNCHANGED refused
                \/ WebhooksMayFail /\ refused' = TRUE /\ UNCHANGED feed

\* The process is gone, with all its goroutines.
Die == /\ alive
       /\ alive' = FALSE
       /\ UNCHANGED <<inputVars, known, main, producerVars, sent, closed, consumer,
                      wg, resultVars, feedVars, platforms>>

Init ==
  /\ source \in Sources
  /\ target \in Targets
  /\ length \in 0 .. MaxTracks
  /\ known = FALSE
  /\ main = "start"
  /\ producer = "none" /\ fetched = 0 /\ page = 0
  /\ sent = 0 /\ closed = FALSE
  /\ consumer = "none"
  /\ wg = 0
  /\ src = <<>> /\ tgt = <<>> /\ omitted = <<>>
  /\ feed = <<>> /\ refused = FALSE
  /\ platforms = [p \in Sources |-> <<>>]
  /\ alive = TRUE

-----------------------------------------------------------------------------
(* The caller's goroutine.                                                  *)

\* No credentials of the source platform end the conversion.  No credentials of
\* the target are only logged: toService stays nil.
GetPlatformService ==
  /\ alive
  /\ main = "start"
  /\ \/ main' = "meta" /\ known' \in BOOLEAN
     \/ main' = "failed" /\ UNCHANGED known
  /\ UNCHANGED <<inputVars, producerVars, sent, closed, consumer, wg, resultVars,
                 feedVars, platforms, alive>>

\* The playlist's metadata: Apple Music has none, YouTube Music's is nil without
\* an error, Spotify's may panic (no cover).  Then both goroutines start.
FetchPlaylistMetaInfo ==
  /\ alive
  /\ main = "meta"
  /\ \/ /\ source # "applemusic"
        /\ SendEvent(Event("metadata", 0))
        /\ main' = "waiting"
        /\ producer' = "fetching" /\ consumer' = "receiving" /\ wg' = 2
     \/ /\ source # "ytmusic"
        /\ main' \in {"failed"} \cup (IF source = "spotify" THEN {"panicked"} ELSE {})
        /\ UNCHANGED <<feedVars, producer, consumer, wg>>
  /\ UNCHANGED <<inputVars, known, fetched, page, sent, closed, resultVars,
                 platforms, alive>>

\* Mutant: the caller waits for the producer only.
AwaitProducer ==
  /\ alive
  /\ main = "waiting"
  /\ producer = "gone"
  /\ SendEvent(Event("done", 0))
  /\ main' = "finishing"
  /\ UNCHANGED <<inputVars, known, producerVars, sent, closed, consumer, wg,
                 resultVars, platforms, alive>>

\* wg.Wait, then the done event.
AwaitTracks ==
  /\ alive
  /\ main = "waiting"
  /\ wg = 0
  /\ SendEvent(Event("done", 0))
  /\ main' = "finishing"
  /\ UNCHANGED <<inputVars, known, producerVars, sent, closed, consumer, wg,
                 resultVars, platforms, alive>>

\* updatePlatformPlaylistTracks for the source, then for the target: YouTube
\* Music is no platform of a result, and if both are one platform the target's
\* tracks replace the source's.
BuildResult ==
  /\ alive
  /\ main = "finishing"
  /\ IF source = "ytmusic"
     THEN main' = "failed" /\ UNCHANGED platforms
     ELSE /\ main' = "returned"
          /\ platforms' = [platforms EXCEPT ![source] = src, ![target] = tgt]
  /\ UNCHANGED <<inputVars, known, producerVars, sent, closed, consumer, wg,
                 resultVars, feedVars, alive>>

Main == GetPlatformService \/ FetchPlaylistMetaInfo \/ AwaitTracks \/ BuildResult

-----------------------------------------------------------------------------
(* The producer: FetchTracksForSourcePlatform of each platform.             *)

\* The tracks after one more page.
WithPage(n) == IF n + PageSize < length THEN n + PageSize ELSE length

\* What every platform's fetch leaves alone.
FetchUnchanged == UNCHANGED <<inputVars, known, main, sent, closed, consumer, wg,
                              resultVars, feedVars, platforms>>

\* The fetch ends without (more) tracks.  Its error is only logged: what was sent
\* until then is taken for the playlist.
FetchEnds == producer' = "ended" /\ UNCHANGED <<fetched, page, alive>>

\* Deezer: one request, whose first page is all that is read.
FetchDeezer ==
  /\ alive
  /\ producer = "fetching" /\ source = "deezer"
  /\ \/ FetchEnds
     \/ /\ fetched' = WithPage(0)
        /\ page' = 1
        /\ producer' = "sending"
        /\ UNCHANGED alive
  /\ FetchUnchanged

\* Spotify: all pages before the first track is sent; a page after the first
\* that cannot be read is fatal.
FetchSpotify ==
  /\ alive
  /\ producer = "fetching" /\ source = "spotify"
  /\ \/ page = 0 /\ FetchEnds
     \/ page > 0 /\ fetched < length /\ alive' = FALSE /\ UNCHANGED producerVars
     \/ /\ page = 0 \/ fetched < length
        /\ fetched' = WithPage(fetched)
        /\ page' = page + 1
        /\ UNCHANGED <<producer, alive>>
     \/ /\ page > 0 /\ fetched = length
        /\ producer' = "sending"
        /\ UNCHANGED <<fetched, page, alive>>
  /\ FetchUnchanged

\* Tidal: page after page, until one fails or is empty or the metadata's count is
\* reached; the tracks to send are taken from playlistResult, which nothing fills.
FetchTidal ==
  /\ alive
  /\ producer = "fetching" /\ source = "tidal"
  /\ \/ FetchEnds
     \/ /\ fetched < length
        /\ fetched' = WithPage(fetched)
        /\ page' = page + 1
        /\ UNCHANGED <<producer, alive>>
  /\ FetchUnchanged

\* Apple Music and YouTube Music: not implemented.
FetchUnsupported ==
  /\ alive
  /\ producer = "fetching" /\ source \in {"applemusic", "ytmusic"}
  /\ FetchEnds
  /\ FetchUnchanged

\* The loop over the tracks is over.
SentAll ==
  /\ alive
  /\ producer = "sending" /\ sent = fetched
  /\ producer' = "ended"
  /\ UNCHANGED <<fetched, page, alive>>
  /\ FetchUnchanged

\* Mutant: the channel is not closed.
CloseChannelForgotten ==
  /\ alive
  /\ producer = "ended"
  /\ producer' = "closing"
  /\ UNCHANGED <<inputVars, known, main, fetched, page, sent, closed, consumer, wg,
                 resultVars, feedVars, platforms, alive>>

\* The deferred calls: close(resultChan), then wg.Done().
CloseChannel ==
  /\ alive
  /\ producer = "ended"
  /\ closed' = TRUE
  /\ producer' = "closing"
  /\ UNCHANGED <<inputVars, known, main, fetched, page, sent, consumer, wg,
                 resultVars, feedVars, platforms, alive>>

\* Mutant: Done is called twice, by the error path and by the defer.
ProducerDoneTwice ==
  /\ alive
  /\ producer = "closing"
  /\ wg' = wg - 2
  /\ producer' = "gone"
  /\ UNCHANGED <<inputVars, known, main, fetched, page, sent, closed, consumer,
                 resultVars, feedVars, platforms, alive>>

ProducerDone ==
  /\ alive
  /\ producer = "closing"
  /\ wg' = wg - 1
  /\ producer' = "gone"
  /\ UNCHANGED <<inputVars, known, main, fetched, page, sent, closed, consumer,
                 resultVars, feedVars, platforms, alive>>

Producer == \/ FetchDeezer \/ FetchSpotify \/ FetchTidal \/ FetchUnsupported
            \/ SentAll \/ CloseChannel \/ ProducerDone

-----------------------------------------------------------------------------
(* The consumer.                                                            *)

\* The next track is handed over on the unbuffered channel and put in the
\* cache by its first artist; a track without artists is a panic.
Receive ==
  /\ alive
  /\ consumer = "receiving"
  /\ producer = "sending" /\ sent < fetched
  /\ \/ /\ sent' = sent + 1
        /\ consumer' = "searching"
        /\ UNCHANGED <<inputVars, known, main, producerVars, closed, wg, resultVars,
                       feedVars, platforms, alive>>
     \/ Die

\* Mutant: a search without a track fails the conversion at once.
SearchFailsConversion ==
  /\ alive
  /\ consumer = "searching"
  /\ known
  /\ \/ consumer' = "found" /\ UNCHANGED main
     \/ main' = "failed" /\ consumer' = "gone"
  /\ UNCHANGED <<inputVars, known, producerVars, sent, closed, wg, resultVars,
                 feedVars, platforms, alive>>

\* SearchTrackWithTitle: a track, EnoResult where the platform admits it, or a
\* panic: toService is nil; any other error comes without a track, which is
\* dereferenced; the track found has no artists.
SearchTrackWithTitle ==
  /\ alive
  /\ consumer = "searching"
  /\ \/ /\ known
        /\ consumer' \in {"found"} \cup (IF target \in AdmitMissing THEN {"missing"} ELSE {})
        /\ UNCHANGED <<inputVars, known, main, producerVars, sent, closed, wg,
                       resultVars, feedVars, platforms, alive>>
     \/ Die

ConvertTrack ==
  /\ alive
  /\ consumer = "found"
  /\ tgt' = Append(tgt, sent)
  /\ SendEvent(Event("track", sent))
  /\ src' = Append(src, sent)
  /\ consumer' = "receiving"
  /\ UNCHANGED <<inputVars, known, main, producerVars, sent, closed, wg, omitted,
                 platforms, alive>>

\* Mutant: an omitted track is left out of the source's tracks.
OmitTrackEntirely ==
  /\ alive
  /\ consumer = "missing"
  /\ SendEvent(Event("missing", sent))
  /\ omitted' = Append(omitted, sent)
  /\ consumer' = "receiving"
  /\ UNCHANGED <<inputVars, known, main, producerVars, sent, closed, wg, src, tgt,
                 platforms, alive>>

\* Mutant: an omitted track is not reported.
OmitTrackSilently ==
  /\ alive
  /\ consumer = "missing"
  /\ omitted' = Append(omitted, sent)
  /\ src' = Append(src, sent)
  /\ consumer' = "receiving"
  /\ UNCHANGED <<inputVars, known, main, producerVars, sent, closed, wg, tgt, feedVars,
                 platforms, alive>>

\* Mutant: a track that was not found is searched again.
OmitTrackLater ==
  /\ alive
  /\ consumer = "missing"
  /\ consumer' = "searching"
  /\ UNCHANGED <<inputVars, known, main, producerVars, sent, closed, wg, resultVars,
                 feedVars, platforms, alive>>

OmitTrack ==
  /\ alive
  /\ consumer = "missing"
  /\ SendEvent(Event("missing", sent))
  /\ omitted' = Append(omitted, sent)
  /\ src' = Append(src, sent)
  /\ consumer' = "receiving"
  /\ UNCHANGED <<inputVars, known, main, producerVars, sent, closed, wg, tgt,
                 platforms, alive>>

\* The range over the channel ends once it is closed, then wg.Done().
ConsumerDone ==
  /\ alive
  /\ consumer = "receiving"
  /\ closed
  /\ wg' = wg - 1
  /\ consumer' = "gone"
  /\ UNCHANGED <<inputVars, known, main, producerVars, sent, closed, resultVars,
                 feedVars, platforms, alive>>

Consumer == Receive \/ SearchTrackWithTitle \/ ConvertTrack \/ OmitTrack \/ ConsumerDone

-----------------------------------------------------------------------------
\* The process is killed from outside.
Crash == Die

Next == Main \/ Producer \/ Consumer \/ Crash

Spec == Init /\ [][Next]_vars

\* Goroutines that are not blocked go on, and the calls they wait for return.
FairSpec == /\ Spec
            /\ WF_vars(Main)
            /\ WF_vars(Producer)
            /\ WF_vars(Consumer)

-----------------------------------------------------------------------------
(* Properties.                                                              *)

Positions(s) == \A i, j \in 1 .. Len(s) : i < j => s[i] < s[j]
Told(t)      == \E i \in 1 .. Len(feed) : feed[i].track = t
Over         == main \in {"returned", "failed", "panicked"}

\* The type of the state; a WaitGroup's counter is never negative (Go panics).
TypeOK ==
  /\ source \in Sources /\ target \in Targets /\ length \in 0 .. MaxTracks
  /\ known \in BOOLEAN /\ closed \in BOOLEAN /\ alive \in BOOLEAN /\ refused \in BOOLEAN
  /\ main \in {"start", "meta", "waiting", "finishing", "returned", "failed", "panicked"}
  /\ producer \in {"none", "fetching", "sending", "ended", "closing", "gone"}
  /\ consumer \in {"none", "receiving", "searching", "found", "missing", "gone"}
  /\ fetched \in 0 .. length /\ page \in 0 .. MaxTracks + 1
  /\ sent \in 0 .. fetched
  /\ wg \in 0 .. 2
  /\ src \in Seq(Tracks) /\ tgt \in Seq(Tracks) /\ omitted \in Seq(Tracks)
  /\ feed \in Seq([type : {"metadata", "track", "missing", "done"}, track : 0 .. MaxTracks])
  /\ platforms \in [Sources -> Seq(Tracks)]

\* A webhook client sees the metadata first, then tracks in the playlist's order
\* and none twice, and the done event last, although three goroutines send these
\* events and Svix may refuse any of them.
FeedInOrder ==
  \A i, j \in 1 .. Len(feed) : i < j =>
    /\ feed[j].type # "metadata" /\ feed[i].type # "done"
    /\ feed[i].track > 0 /\ feed[j].track > 0 => feed[i].track < feed[j].track

\* If Svix refused no event, then with the done event every track that was handed
\* over has been told of, as converted or as missing, and on a platform that sends
\* what it reads this is every track that was read.
DoneTellsAll ==
  ~refused /\ main \in {"finishing", "returned"} =>
    /\ \A t \in 1 .. sent : Told(t)
    /\ source = "tidal" \/ sent = fetched

\* A conversion that returns has every track that was handed over, in order, on
\* the source's side, and each of them either on the target's side or among the
\* omitted ones.  (A conversion within one platform keeps only the target's.)
ResultPartitionsSource ==
  main = "returned" =>
    /\ source # target => platforms[source] = [i \in 1 .. sent |-> i]
    /\ Positions(platforms[target]) /\ Positions(omitted)
    /\ ToSet(platforms[target]) \cup ToSet(omitted) = 1 .. sent
    /\ ToSet(platforms[target]) \cap ToSet(omitted) = {}

\* The conversion never hangs: the caller, the producer and the consumer cannot
\* wait for each other for ever, whatever the platforms answer.
ConversionEnds == <>(Over \/ ~alive)

\* The goroutine waits for another one, or is not there.
MainWaits     == main = "waiting" /\ wg > 0
ProducerWaits == \/ producer \in {"none", "gone"}
                 \/ producer = "sending" /\ sent < fetched /\ consumer # "receiving"
ConsumerWaits == \/ consumer \in {"none", "gone"}
                 \/ /\ consumer = "receiving" /\ ~closed
                    /\ ~(producer = "sending" /\ sent < fetched)

\* The caller waits for the WaitGroup, the producer for the consumer to take a track, the
\* consumer for a track or the end of the channel, but never all of them at once.
NotAllWait == alive /\ ~Over => ~(MainWaits /\ ProducerWaits /\ ConsumerWaits)

\* The steps that the conversion has left at most: three for each track that is not yet
\* handed over, one for each page that is not yet read, and those of the goroutines.
MainLeft     == CASE main = "start"     -> 4
                  [] main = "meta"      -> 3
                  [] main = "waiting"   -> 2
                  [] main = "finishing" -> 1
                  [] OTHER              -> 0
ProducerLeft == CASE producer \in {"none", "fetching"} -> 4
                  [] producer = "sending"              -> 3
                  [] producer = "ended"                -> 2
                  [] producer = "closing"              -> 1
                  [] OTHER                             -> 0
ConsumerLeft == CASE consumer = "searching"             -> 3
                  [] consumer \in {"found", "missing"}  -> 2
                  [] consumer \in {"none", "receiving"} -> 1
                  [] OTHER                              -> 0
DataLeft     == (MaxTracks + 1 - page) + 3 * (length - sent) + (IF alive THEN 1 ELSE 0)
StepsLeft    == MainLeft + ProducerLeft + ConsumerLeft + DataLeft

\* No goroutine goes round for ever, over pages that fail or bring nothing or over tracks
\* that are not found: every step leaves fewer steps than there were, and never less than
\* none.
EveryStepCounts == [][StepsLeft' \in 0 .. StepsLeft - 1]_vars

\* What makes the conversion end without a word about fairness: as long as it is not over
\* one of its goroutines can go on, and no run of them is endless.
NearsItsEnd == []NotAllWait /\ EveryStepCounts

\* Where the conversion is for those who see none of its goroutines.
Phase == IF ~alive THEN "dead"
         ELSE CASE main \in {"start", "meta"} -> "new"
                [] main = "waiting"   -> "converting"
                [] main = "finishing" -> "told"
                [] OTHER              -> main

\* To its caller and to the subscriber of its events the conversion is one loop over
\* the playlist: three goroutines, the channel between two of them and the WaitGroup
\* cannot be told from it, whichever of them comes first, fails or perishes.
Loop == INSTANCE SequentialConversion
          WITH within    <- source = target,
               lossy     <- source = "tidal",
               phase     <- Phase,
               read      <- fetched,
               handled   <- Len(src),
               converted <- tgt,
               answer    <- IF main = "returned"
                            THEN [source |-> platforms[source], target |-> platforms[target]]
                            ELSE [source |-> <<>>, target |-> <<>>]
ImplementsSequentialConversion == Loop!ConversionSpec

-----------------------------------------------------------------------------
(* The inductive invariant.                                                 *)

\* The goroutines that wg counts.
Running == (IF producer = "gone" THEN 0 ELSE 1) + (IF consumer = "gone" THEN 0 ELSE 1)

\* Where the three goroutines are at the same time.
Phases ==
  /\ main \in {"start", "meta"} => producer = "none" /\ feed = <<>>
  /\ producer = "none" <=> consumer = "none"
  /\ producer \notin {"none", "gone"} \/ consumer \notin {"none", "gone"} => main = "waiting"
  /\ main = "waiting" => producer # "none" /\ wg = Running
  /\ main \in {"finishing", "returned"} => producer = "gone" /\ consumer = "gone"
  /\ closed <=> producer \in {"closing", "gone"}
  /\ consumer = "gone" => closed

\* How far the producer has read and sent.
Reading ==
  /\ producer \in {"none", "fetching"} => sent = 0
  /\ producer = "none" => page = 0
  /\ page = 0 => fetched = 0
  /\ page <= fetched \/ (page = 1 /\ fetched = length)
  /\ source \notin {"spotify", "tidal"} /\ producer = "fetching" => page = 0
  /\ source # "tidal" /\ producer \in {"ended", "closing", "gone"} => sent = fetched
  /\ source = "tidal" => producer # "sending" /\ sent = 0

\* The tracks that the consumer is through with.
InHand  == consumer \in {"searching", "found", "missing"}
Handled == IF InHand THEN sent - 1 ELSE sent

\* They have been collected: on the source's side, and on one other.
Collected ==
  /\ InHand => sent > 0
  /\ src = [i \in 1 .. Handled |-> i]
  /\ Positions(tgt) /\ Positions(omitted)
  /\ ToSet(tgt) \cup ToSet(omitted) = 1 .. Handled
  /\ ToSet(tgt) \cap ToSet(omitted) = {}

\* They have been told of, and no other.
Reported ==
  /\ \A i \in 1 .. Len(feed) :
       /\ feed[i].track <= Handled
       /\ feed[i].type = "done" => main \notin {"start", "meta", "waiting"}
  /\ ~refused => \A t \in 1 .. Handled : Told(t)

\* The result holds what was collected.
Built == main = "returned" => /\ platforms[target] = tgt
                              /\ source # target => platforms[source] = src

IInv == TypeOK /\ Phases /\ Reading /\ Collected /\ Reported /\ FeedInOrder /\ Built
=============================================================================
