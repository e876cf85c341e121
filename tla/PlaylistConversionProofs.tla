---------------------- MODULE PlaylistConversionProofs ----------------------
(***************************************************************************)
(* What TLAPS proves of PlaylistConversion for playlists and pages of any  *)
(* length.                                                                  *)
(***************************************************************************)
EXTENDS PlaylistConversion, TLAPS

USE DEF inputVars, producerVars, resultVars, feedVars

-----------------------------------------------------------------------------
(* The type.                                                                *)

Events == [type : {"metadata", "track", "missing", "done"}, track : 0 .. MaxTracks]

\* TypeOK in parts.
PlacesType ==
  /\ source \in Sources /\ target \in Targets
  /\ known \in BOOLEAN /\ closed \in BOOLEAN /\ alive \in BOOLEAN /\ refused \in BOOLEAN
  /\ main \in {"start", "meta", "waiting", "finishing", "returned", "failed", "panicked"}
  /\ producer \in {"none", "fetching", "sending", "ended", "closing", "gone"}
  /\ consumer \in {"none", "receiving", "searching", "found", "missing", "gone"}
NumbersType ==
  /\ length \in 0 .. MaxTracks /\ fetched \in 0 .. length /\ page \in 0 .. MaxTracks + 1
  /\ sent \in 0 .. fetched
CollectedType == src \in Seq(Tracks) /\ tgt \in Seq(Tracks) /\ omitted \in Seq(Tracks)
FeedType      == feed \in Seq(Events)
ResultType    == platforms \in [Sources -> Seq(Tracks)]

LEMMA TypeParts ==
  TypeOK <=> /\ PlacesType /\ NumbersType /\ wg \in 0 .. 2
             /\ CollectedType /\ FeedType /\ ResultType
BY DEF TypeOK, PlacesType, NumbersType, CollectedType, FeedType, ResultType, Events

\* What SendEvent adds to the feed.
LEMMA Sending ==
  ASSUME TypeOK, NEW e \in Events, SendEvent(e)
  PROVE  /\ FeedType' /\ refused' \in BOOLEAN
         /\ \/ /\ feed' = Append(feed, e) /\ refused' = refused
               /\ Len(feed') = Len(feed) + 1 /\ feed'[Len(feed) + 1] = e
               /\ \A i \in 1 .. Len(feed) : feed'[i] = feed[i]
            \/ feed' = feed /\ refused'
<1>1. feed \in Seq(Events) /\ refused \in BOOLEAN
  BY TypeParts DEF FeedType, PlacesType
<1>2. CASE feed' = Append(feed, e) /\ refused' = refused
  <2>1. feed' \in Seq(Events) /\ Len(feed') = Len(feed) + 1 /\ feed'[Len(feed) + 1] = e
    BY <1>1, <1>2
  <2>2. \A i \in 1 .. Len(feed) : feed'[i] = feed[i]
    BY <1>1, <1>2
  <2> QED
    BY <1>1, <1>2, <2>1, <2>2 DEF FeedType
<1>3. CASE feed' = feed /\ refused'
  BY <1>1, <1>3 DEF FeedType
<1> QED
  BY <1>2, <1>3 DEF SendEvent

\* The events are events.
LEMMA EventTypes ==
  ASSUME TypeOK
  PROVE  /\ Event("metadata", 0) \in Events /\ Event("done", 0) \in Events
         /\ Event("track", sent) \in Events /\ Event("missing", sent) \in Events
         /\ \A type, t : Event(type, t).type = type /\ Event(type, t).track = t
<1>1. 0 \in 0 .. MaxTracks /\ sent \in 0 .. MaxTracks
  BY MaxTracksAssumption, TypeParts DEF NumbersType
<1> QED
  BY <1>1 DEF Event, Events

\* A page more is at most the playlist, and something unless it is all there.
LEMMA Paging ==
  ASSUME TypeOK, NEW n \in 0 .. length
  PROVE  WithPage(n) \in n .. length /\ (n < length => WithPage(n) > n)
BY PageSizeAssumption, MaxTracksAssumption, TypeParts DEF NumbersType, WithPage

LEMMA InitType == Init => TypeOK
<1> SUFFICES ASSUME Init PROVE TypeOK
  OBVIOUS
<1>1. PlacesType
  BY DEF Init, PlacesType
<1>2. NumbersType /\ wg \in 0 .. 2
  <2>1. /\ MaxTracks \in Nat /\ length \in 0 .. MaxTracks
        /\ fetched = 0 /\ page = 0 /\ sent = 0 /\ wg = 0
    BY MaxTracksAssumption DEF Init
  <2> QED
    BY <2>1 DEF NumbersType
<1>3. CollectedType /\ FeedType /\ ResultType
  BY DEF Init, CollectedType, FeedType, ResultType
<1> QED
  BY <1>1, <1>2, <1>3, TypeParts

\* Every step keeps it, because each goroutine leaves the WaitGroup once.
LEMMA NextType == TypeOK /\ Phases /\ Reading /\ Collected /\ [Next]_vars => TypeOK'
<1> SUFFICES ASSUME TypeOK, Phases, Reading, Collected, [Next]_vars PROVE TypeOK'
  OBVIOUS
<1>0. /\ PlacesType /\ NumbersType /\ wg \in 0 .. 2
      /\ CollectedType /\ FeedType /\ ResultType
  BY TypeParts
<1>a. (/\ PlacesType' /\ NumbersType' /\ wg' \in 0 .. 2
       /\ CollectedType' /\ FeedType' /\ ResultType') => TypeOK'
  BY DEF TypeOK, PlacesType, NumbersType, CollectedType, FeedType, ResultType, Events
<1>b. UNCHANGED <<length, fetched, page, sent>> => NumbersType'
  BY <1>0 DEF NumbersType
<1>c. UNCHANGED <<src, tgt, omitted>> => CollectedType'
  BY <1>0 DEF CollectedType
<1>d. UNCHANGED feed => FeedType'
  BY <1>0 DEF FeedType
<1>e. UNCHANGED platforms => ResultType'
  BY <1>0 DEF ResultType
<1>1. CASE GetPlatformService
  <2>1. PlacesType'
    BY <1>0, <1>1 DEF GetPlatformService, PlacesType
  <2> QED
    BY <1>0, <1>1, <1>a, <1>b, <1>c, <1>d, <1>e, <2>1 DEF GetPlatformService
<1>2. CASE FetchPlaylistMetaInfo
  <2>1. FeedType' /\ refused' \in BOOLEAN
    BY <1>0, <1>2, <1>d, EventTypes, Sending DEF FetchPlaylistMetaInfo, PlacesType
  <2>2. PlacesType' /\ wg' \in 0 .. 2
    BY <1>0, <1>2, <2>1 DEF FetchPlaylistMetaInfo, PlacesType
  <2> QED
    BY <1>2, <1>a, <1>b, <1>c, <1>e, <2>1, <2>2 DEF FetchPlaylistMetaInfo
<1>3. CASE AwaitTracks
  <2>1. FeedType' /\ refused' \in BOOLEAN
    BY <1>3, EventTypes, Sending DEF AwaitTracks
  <2>2. PlacesType'
    BY <1>0, <1>3, <2>1 DEF AwaitTracks, PlacesType
  <2> QED
    BY <1>0, <1>3, <1>a, <1>b, <1>c, <1>e, <2>1, <2>2 DEF AwaitTracks
<1>4. CASE BuildResult
  <2>1. ResultType'
    BY <1>0, <1>4 DEF BuildResult, CollectedType, ResultType
  <2>2. PlacesType'
    BY <1>0, <1>4 DEF BuildResult, PlacesType
  <2> QED
    BY <1>0, <1>4, <1>a, <1>b, <1>c, <1>d, <2>1, <2>2 DEF BuildResult
<1>5. ASSUME UNCHANGED <<inputVars, known, main, sent, closed, consumer, wg, resultVars,
                         feedVars, platforms>>,
             producer' \in {producer, "ended", "sending", "closing"}, alive' \in BOOLEAN,
             fetched' \in fetched .. length, page' \in 0 .. MaxTracks + 1
      PROVE  TypeOK'
  <2>1. NumbersType'
    BY <1>0, <1>5 DEF NumbersType
  <2>2. PlacesType'
    BY <1>0, <1>5 DEF PlacesType
  <2> QED
    BY <1>0, <1>5, <1>a, <1>c, <1>d, <1>e, <2>1, <2>2
<1>6. fetched \in fetched .. length /\ page \in 0 .. MaxTracks + 1 /\ alive \in BOOLEAN
  BY <1>0 DEF NumbersType, PlacesType
<1>7. /\ WithPage(fetched) \in fetched .. length /\ WithPage(0) \in 0 .. length
      /\ fetched < length => page + 1 \in 0 .. MaxTracks + 1
      /\ page = 0 => fetched = 0 /\ 1 \in 0 .. MaxTracks + 1
  <2>1. fetched \in 0 .. length /\ 0 \in 0 .. length
    BY <1>0, MaxTracksAssumption DEF NumbersType
  <2>2. fetched < length => page + 1 \in 0 .. MaxTracks + 1
    BY <1>0, MaxTracksAssumption DEF NumbersType, Reading
  <2>3. page = 0 => fetched = 0 /\ 1 \in 0 .. MaxTracks + 1
    BY MaxTracksAssumption DEF Reading
  <2> QED
    BY <2>1, <2>2, <2>3, Paging
<1>8. CASE FetchDeezer
  <2>1. source = "deezer" /\ producer = "fetching"
    BY <1>8 DEF FetchDeezer
  <2>2. page = 0 /\ fetched = 0
    BY <2>1 DEF Reading
  <2>3. /\ UNCHANGED <<inputVars, known, main, sent, closed, consumer, wg, resultVars,
                      feedVars, platforms>>
        /\ producer' \in {producer, "ended", "sending", "closing"} /\ alive' = alive
        /\ \/ fetched' = fetched /\ page' = page
           \/ fetched' = WithPage(0) /\ page' = 1
    BY <1>8 DEF FetchDeezer, FetchEnds, FetchUnchanged
  <2> QED
    BY <1>5, <1>6, <1>7, <2>2, <2>3
<1>9. CASE FetchSpotify
  <2>1. /\ UNCHANGED <<inputVars, known, main, sent, closed, consumer, wg, resultVars,
                      feedVars, platforms>>
        /\ producer' \in {producer, "ended", "sending", "closing"}
        /\ alive' \in {alive, FALSE}
        /\ \/ fetched' = fetched /\ page' = page
           \/ /\ page = 0 \/ fetched < length
              /\ fetched' = WithPage(fetched) /\ page' = page + 1
    BY <1>9 DEF FetchSpotify, FetchEnds, FetchUnchanged
  <2>2. CASE fetched' = fetched /\ page' = page
    BY <1>5, <1>6, <2>1, <2>2
  <2>3. CASE (page = 0 \/ fetched < length) /\ fetched' = WithPage(fetched) /\ page' = page + 1
    <3>1. fetched' \in fetched .. length /\ alive' \in BOOLEAN
      BY <1>6, <1>7, <2>1, <2>3
    <3>2. page' \in 0 .. MaxTracks + 1
      BY <1>7, <2>3
    <3> QED
      BY <1>5, <2>1, <3>1, <3>2
  <2> QED
    BY <2>1, <2>2, <2>3
<1>10. CASE FetchTidal
  BY <1>5, <1>6, <1>7, <1>10 DEF FetchTidal, FetchEnds, FetchUnchanged
<1>11. CASE FetchUnsupported \/ SentAll
  BY <1>5, <1>6, <1>11 DEF FetchUnsupported, SentAll, FetchEnds, FetchUnchanged
<1>12. CASE CloseChannel
  <2>1. PlacesType'
    BY <1>0, <1>12 DEF CloseChannel, PlacesType
  <2> QED
    BY <1>0, <1>12, <1>a, <1>b, <1>c, <1>d, <1>e, <2>1 DEF CloseChannel
<1>13. CASE ProducerDone \/ ConsumerDone
  <2>1. wg' \in 0 .. 2
    BY <1>13 DEF ProducerDone, ConsumerDone, Phases, Running
  <2>2. PlacesType'
    BY <1>0, <1>13 DEF ProducerDone, ConsumerDone, PlacesType
  <2> QED
    BY <1>13, <1>a, <1>b, <1>c, <1>d, <1>e, <2>1, <2>2 DEF ProducerDone, ConsumerDone
<1>14. CASE Die
  <2>1. PlacesType'
    BY <1>0, <1>14 DEF Die, PlacesType
  <2> QED
    BY <1>0, <1>14, <1>a, <1>b, <1>c, <1>d, <1>e, <2>1 DEF Die
<1>15. CASE Receive /\ ~Die
  <2>1. NumbersType'
    <3>1. sent' = sent + 1 /\ sent < fetched /\ UNCHANGED <<length, fetched, page>>
      BY <1>15 DEF Receive
    <3> QED
      BY <1>0, <3>1, MaxTracksAssumption DEF NumbersType
  <2>2. PlacesType'
    BY <1>0, <1>15 DEF Receive, PlacesType
  <2> QED
    BY <1>0, <1>15, <1>a, <1>c, <1>d, <1>e, <2>1, <2>2 DEF Receive
<1>16. CASE SearchTrackWithTitle /\ ~Die
  <2>1. PlacesType'
    BY <1>0, <1>16 DEF SearchTrackWithTitle, PlacesType
  <2> QED
    BY <1>0, <1>16, <1>a, <1>b, <1>c, <1>d, <1>e, <2>1 DEF SearchTrackWithTitle
<1>17. CASE ConvertTrack \/ OmitTrack
  <2>1. FeedType' /\ refused' \in BOOLEAN
    BY <1>17, EventTypes, Sending DEF ConvertTrack, OmitTrack
  <2>2. sent \in Tracks
    BY <1>0, <1>17, MaxTracksAssumption
       DEF ConvertTrack, OmitTrack, Collected, InHand, Tracks, NumbersType
  <2>3. CollectedType'
    <3>1. /\ src' = Append(src, sent)
          /\ tgt' \in {tgt, Append(tgt, sent)} /\ omitted' \in {omitted, Append(omitted, sent)}
      BY <1>17 DEF ConvertTrack, OmitTrack
    <3>2. \A s \in Seq(Tracks) : Append(s, sent) \in Seq(Tracks)
      BY <2>2
    <3> QED
      BY <1>0, <3>1, <3>2 DEF CollectedType
  <2>4. PlacesType'
    BY <1>0, <1>17, <2>1 DEF ConvertTrack, OmitTrack, PlacesType
  <2> QED
    BY <1>0, <1>17, <1>a, <1>b, <1>e, <2>1, <2>3, <2>4 DEF ConvertTrack, OmitTrack
<1>18. CASE UNCHANGED vars
  <2>1. PlacesType'
    BY <1>0, <1>18 DEF vars, PlacesType
  <2> QED
    BY <1>0, <1>18, <1>a, <1>b, <1>c, <1>d, <1>e, <2>1 DEF vars
<1> QED
  BY <1>1, <1>2, <1>3, <1>4, <1>8, <1>9, <1>10, <1>11, <1>12, <1>13, <1>14, <1>15, <1>16,
     <1>17, <1>18 DEF Next, Main, Producer, Consumer, Crash

-----------------------------------------------------------------------------
(* The other parts of the invariant.                                        *)

\* The steps that change neither what is collected nor where the goroutines are, but
\* for the caller before and after the conversion.
Fetch == FetchDeezer \/ FetchSpotify \/ FetchTidal \/ FetchUnsupported
Still == Crash \/ UNCHANGED vars

LEMMA StillStays ==
  ASSUME Still
  PROVE  UNCHANGED <<inputVars, known, main, producerVars, sent, closed, consumer, wg,
                     resultVars, feedVars, platforms>>
BY DEF Still, Crash, Die, vars

LEMMA NextPhases == IInv /\ [Next]_vars => Phases'
<1> SUFFICES ASSUME IInv, [Next]_vars PROVE Phases'
  OBVIOUS
<1> USE DEF Phases, Running
<1>0. Phases /\ wg \in 0 .. 2
  BY TypeParts DEF IInv
<1>1. CASE GetPlatformService
  BY <1>0, <1>1 DEF GetPlatformService
<1>2. CASE FetchPlaylistMetaInfo
  BY <1>0, <1>2 DEF FetchPlaylistMetaInfo
<1>3. CASE AwaitTracks \/ BuildResult
  BY <1>0, <1>3 DEF AwaitTracks, BuildResult
<1>4. CASE Fetch \/ SentAll
  BY <1>0, <1>4 DEF Fetch, SentAll, FetchDeezer, FetchSpotify, FetchTidal, FetchUnsupported,
     FetchEnds, FetchUnchanged
<1>5. CASE CloseChannel
  BY <1>0, <1>5 DEF CloseChannel
<1>6. CASE ProducerDone
  BY <1>0, <1>6 DEF ProducerDone
<1>7. CASE Receive \/ SearchTrackWithTitle
  BY <1>0, <1>7 DEF Receive, SearchTrackWithTitle, Die
<1>8. CASE ConvertTrack \/ OmitTrack
  BY <1>0, <1>8 DEF ConvertTrack, OmitTrack
<1>9. CASE ConsumerDone
  BY <1>0, <1>9 DEF ConsumerDone
<1>10. CASE Still
  BY <1>0, <1>10, StillStays
<1> QED
  BY <1>1, <1>2, <1>3, <1>4, <1>5, <1>6, <1>7, <1>8, <1>9, <1>10
     DEF Next, Main, Producer, Consumer, Fetch, Still

LEMMA NextReading == IInv /\ [Next]_vars => Reading'
<1> SUFFICES ASSUME IInv, [Next]_vars PROVE Reading'
  OBVIOUS
<1> USE DEF IInv
<1>0. /\ Reading /\ MaxTracks \in Nat /\ length \in 0 .. MaxTracks /\ fetched \in 0 .. length
      /\ page \in Nat /\ sent \in 0 .. fetched
  BY TypeParts, MaxTracksAssumption DEF NumbersType
<1>00. /\ WithPage(fetched) \in fetched .. length /\ WithPage(0) \in 0 .. length
       /\ fetched < length => WithPage(fetched) > fetched
  BY <1>0, Paging
<1>1. CASE GetPlatformService \/ AwaitTracks \/ BuildResult
  BY <1>0, <1>1 DEF GetPlatformService, AwaitTracks, BuildResult, Reading
<1>2. CASE FetchPlaylistMetaInfo
  BY <1>0, <1>2 DEF FetchPlaylistMetaInfo, Phases, Reading
<1>3. CASE FetchDeezer
  <2>1. /\ source = "deezer" /\ producer = "fetching" /\ UNCHANGED <<source, sent, length>>
        /\ \/ producer' = "ended" /\ fetched' = fetched /\ page' = page
           \/ producer' = "sending" /\ fetched' = WithPage(0) /\ page' = 1
    BY <1>3 DEF FetchDeezer, FetchEnds, FetchUnchanged
  <2>2. page = 0 /\ fetched = 0
    BY <1>0, <2>1 DEF Reading
  <2> QED
    BY <1>0, <1>00, <2>1, <2>2 DEF Reading
<1>4. CASE FetchSpotify
  <2>1. /\ source = "spotify" /\ producer = "fetching" /\ UNCHANGED <<source, sent, length>>
        /\ \/ page = 0 /\ producer' = "ended" /\ fetched' = fetched /\ page' = page
           \/ UNCHANGED producerVars
           \/ /\ page = 0 \/ fetched < length
              /\ fetched' = WithPage(fetched) /\ page' = page + 1 /\ producer' = producer
           \/ page > 0 /\ producer' = "sending" /\ fetched' = fetched /\ page' = page
    BY <1>4 DEF FetchSpotify, FetchEnds, FetchUnchanged
  <2> QED
    BY <1>0, <1>00, <2>1 DEF Reading
<1>5. CASE FetchTidal
  <2>1. /\ source = "tidal" /\ producer = "fetching" /\ UNCHANGED <<source, sent, length>>
        /\ \/ producer' = "ended" /\ fetched' = fetched /\ page' = page
           \/ /\ fetched < length
              /\ fetched' = WithPage(fetched) /\ page' = page + 1 /\ producer' = producer
    BY <1>5 DEF FetchTidal, FetchEnds, FetchUnchanged
  <2> QED
    BY <1>0, <1>00, <2>1 DEF Reading
<1>6. CASE FetchUnsupported \/ SentAll
  BY <1>6 DEF FetchUnsupported, SentAll, FetchEnds, FetchUnchanged, Reading
<1>7. CASE CloseChannel \/ ProducerDone
  BY <1>7 DEF CloseChannel, ProducerDone, Reading
<1>8. CASE Receive
  BY <1>8 DEF Receive, Die, Reading
<1>9. CASE SearchTrackWithTitle \/ ConvertTrack \/ OmitTrack \/ ConsumerDone
  BY <1>9 DEF SearchTrackWithTitle, ConvertTrack, OmitTrack, ConsumerDone, Die, Reading
<1>10. CASE Still
  BY <1>10, StillStays DEF Reading
<1> QED
  BY <1>1, <1>2, <1>3, <1>4, <1>5, <1>6, <1>7, <1>8, <1>9, <1>10
     DEF Next, Main, Producer, Consumer, Still

\* A step but the end of a track handles none.
Handling == ConvertTrack \/ OmitTrack

LEMMA OthersCollect ==
  ASSUME IInv, [Next]_vars, ~Handling
  PROVE  /\ UNCHANGED <<source, target, src, tgt, omitted>> /\ Handled' = Handled
         /\ InHand' => sent' > 0
         /\ main \notin {"start", "meta", "waiting"} => main' \notin {"start", "meta", "waiting"}
         /\ \/ UNCHANGED <<feed, refused>>
            \/ FetchPlaylistMetaInfo \/ AwaitTracks
<1> USE DEF IInv
<1>0. sent \in Nat /\ Collected
  BY TypeParts, MaxTracksAssumption DEF NumbersType
<1>1. CASE GetPlatformService \/ AwaitTracks \/ BuildResult
  BY <1>1 DEF GetPlatformService, AwaitTracks, BuildResult, Handled, InHand, Collected
<1>2. CASE FetchPlaylistMetaInfo
  BY <1>2 DEF FetchPlaylistMetaInfo, Phases, Handled, InHand, Collected
<1>3. CASE Fetch \/ SentAll
  BY <1>3 DEF Fetch, SentAll, FetchDeezer, FetchSpotify, FetchTidal, FetchUnsupported,
     FetchEnds, FetchUnchanged, Handled, InHand, Collected
<1>4. CASE CloseChannel \/ ProducerDone
  BY <1>4 DEF CloseChannel, ProducerDone, Handled, InHand, Collected
<1>5. CASE Receive
  <2>1. \/ consumer = "receiving" /\ consumer' = "searching" /\ sent' = sent + 1
        \/ UNCHANGED <<consumer, sent>>
    BY <1>5 DEF Receive, Die
  <2>2. UNCHANGED <<source, target, src, tgt, omitted, feed, refused, main>>
    BY <1>5 DEF Receive, Die
  <2> QED
    BY <1>0, <2>1, <2>2 DEF Handled, InHand, Collected
<1>6. CASE SearchTrackWithTitle \/ ConsumerDone
  BY <1>6 DEF SearchTrackWithTitle, ConsumerDone, Die, Handled, InHand, Collected
<1>7. CASE Still
  BY <1>7, StillStays DEF Handled, InHand, Collected
<1> QED
  BY <1>1, <1>2, <1>3, <1>4, <1>5, <1>6, <1>7
     DEF Next, Main, Producer, Consumer, Fetch, Still, Handling

\* What the end of a track appends.
LEMMA HandlingCollects ==
  ASSUME IInv, Handling
  PROVE  /\ sent \in Tracks /\ Handled = sent - 1 /\ Handled' = sent /\ ~InHand'
         /\ src' = Append(src, sent)
         /\ \/ tgt' = Append(tgt, sent) /\ omitted' = omitted
            \/ tgt' = tgt /\ omitted' = Append(omitted, sent)
         /\ SendEvent(Event("track", sent)) \/ SendEvent(Event("missing", sent))
         /\ main = "waiting" /\ UNCHANGED main
<1> USE DEF IInv
<1>1. InHand /\ sent \in Tracks
  <2>1. InHand /\ sent > 0
    BY DEF Handling, ConvertTrack, OmitTrack, InHand, Collected
  <2> QED
    BY <2>1, TypeParts, MaxTracksAssumption DEF NumbersType, Tracks
<1>2. Handled = sent - 1 /\ Handled' = sent /\ ~InHand'
  BY <1>1 DEF Handling, ConvertTrack, OmitTrack, Handled, InHand
<1>3. main = "waiting" /\ UNCHANGED main
  BY <1>1 DEF Handling, ConvertTrack, OmitTrack, InHand, Phases
<1> QED
  BY <1>1, <1>2, <1>3 DEF Handling, ConvertTrack, OmitTrack

\* A greater number at the end of an ascending sequence.
LEMMA Extending ==
  ASSUME NEW s \in Seq(Tracks), NEW n \in Tracks, Positions(s), \A t \in ToSet(s) : t < n
  PROVE  Positions(Append(s, n)) /\ ToSet(Append(s, n)) = ToSet(s) \cup {n}
<1> DEFINE r == Append(s, n)
<1>1. /\ Len(s) \in Nat /\ Len(r) = Len(s) + 1 /\ r[Len(s) + 1] = n
      /\ \A i \in 1 .. Len(s) : r[i] = s[i] /\ s[i] \in Tracks
  OBVIOUS
<1>2. ToSet(s) = {s[i] : i \in 1 .. Len(s)} /\ ToSet(r) = {r[i] : i \in 1 .. Len(r)}
  BY <1>1 DEF ToSet
<1> HIDE DEF r
<1>3. \A i \in 1 .. Len(s) : s[i] < n
  BY <1>2
<1>4. Positions(r)
  <2> SUFFICES ASSUME NEW i \in 1 .. Len(r), NEW j \in 1 .. Len(r), i < j PROVE r[i] < r[j]
    BY DEF Positions
  <2>1. i \in 1 .. Len(s) /\ (j \in 1 .. Len(s) \/ j = Len(s) + 1)
    BY <1>1
  <2>2. CASE j \in 1 .. Len(s)
    BY <1>1, <2>1, <2>2 DEF Positions
  <2>3. CASE j = Len(s) + 1
    BY <1>1, <1>3, <2>1, <2>3
  <2> QED
    BY <2>1, <2>2, <2>3
<1>5. ToSet(r) \subseteq ToSet(s) \cup {n}
  <2> SUFFICES ASSUME NEW i \in 1 .. Len(r) PROVE r[i] \in ToSet(s) \cup {n}
    BY <1>2
  <2> QED
    BY <1>1, <1>2
<1>6. ToSet(s) \cup {n} \subseteq ToSet(r)
  <2>1. n \in ToSet(r)
    BY <1>1, <1>2
  <2>2. \A i \in 1 .. Len(s) : i \in 1 .. Len(r) /\ s[i] = r[i]
    BY <1>1
  <2> QED
    BY <1>2, <2>1, <2>2
<1> QED
  BY <1>4, <1>5, <1>6 DEF r

LEMMA NextCollected == IInv /\ [Next]_vars => Collected'
<1> SUFFICES ASSUME IInv, [Next]_vars PROVE Collected'
  OBVIOUS
<1>0. /\ Collected /\ sent \in Nat
      /\ src \in Seq(Tracks) /\ tgt \in Seq(Tracks) /\ omitted \in Seq(Tracks)
  BY TypeParts, MaxTracksAssumption DEF IInv, NumbersType, CollectedType
<1>1. CASE ~Handling
  BY <1>0, <1>1, OthersCollect DEF Collected
<1>2. CASE Handling
  <2>1. /\ sent \in Tracks /\ Handled = sent - 1 /\ Handled' = sent /\ ~InHand'
        /\ src' = Append(src, sent)
        /\ \/ tgt' = Append(tgt, sent) /\ omitted' = omitted
           \/ tgt' = tgt /\ omitted' = Append(omitted, sent)
    BY <1>2, HandlingCollects
  <2>2. src' = [i \in 1 .. sent |-> i]
    <3>1. src = [i \in 1 .. sent - 1 |-> i] /\ sent - 1 \in Nat
      BY <1>0, <2>1, MaxTracksAssumption DEF Collected, Tracks
    <3>2. /\ Len(src) = sent - 1 /\ \A i \in 1 .. sent - 1 : src[i] = i
      BY <1>0, <3>1
    <3>3. src' \in Seq(Tracks) /\ Len(src') = sent /\ \A i \in 1 .. sent : src'[i] = i
      BY <1>0, <2>1, <3>1, <3>2
    <3>4. src' = [i \in 1 .. Len(src') |-> src'[i]]
      BY <3>3
    <3> QED
      BY <3>3, <3>4
  <2>3. /\ ToSet(tgt) \cup ToSet(omitted) = 1 .. sent - 1 /\ ToSet(tgt) \cap ToSet(omitted) = {}
        /\ Positions(tgt) /\ Positions(omitted)
    BY <1>0, <2>1 DEF Collected
  <2>5. /\ \A t \in ToSet(tgt) : t < sent
        /\ \A t \in ToSet(omitted) : t < sent
        /\ sent \notin ToSet(tgt) \cup ToSet(omitted)
        /\ (1 .. sent - 1) \cup {sent} = 1 .. sent
    BY <1>0, <2>1, <2>3, MaxTracksAssumption DEF Tracks
  <2>6. /\ Positions(Append(tgt, sent)) /\ ToSet(Append(tgt, sent)) = ToSet(tgt) \cup {sent}
        /\ Positions(Append(omitted, sent))
        /\ ToSet(Append(omitted, sent)) = ToSet(omitted) \cup {sent}
    BY <1>0, <2>1, <2>3, <2>5, Extending
  <2>7. /\ Positions(tgt') /\ Positions(omitted')
        /\ ToSet(tgt') \cup ToSet(omitted') = 1 .. sent /\ ToSet(tgt') \cap ToSet(omitted') = {}
    BY <2>1, <2>3, <2>5, <2>6
  <2>8. /\ Positions(tgt)' /\ Positions(omitted)'
        /\ ToSet(tgt)' \cup ToSet(omitted)' = 1 .. sent /\ ToSet(tgt)' \cap ToSet(omitted)' = {}
    BY <2>7 DEF Positions, ToSet
  <2> QED
    BY <2>1, <2>2, <2>8 DEF Collected
<1> QED
  BY <1>1, <1>2

\* The tracks of events are numbers.
LEMMA EventTracks ==
  ASSUME NEW f \in Seq(Events)
  PROVE  /\ \A e \in Events : e.track \in Nat
         /\ \A i \in 1 .. Len(f) : f[i].track \in Nat
<1>1. \A i \in 1 .. Len(f) : f[i] \in Events
  OBVIOUS
<1>2. \A e \in Events : e.track \in Nat
  BY MaxTracksAssumption DEF Events
<1> QED
  BY <1>1, <1>2

\* An event about a track that nobody has been told of, or about none, keeps the feed
\* in order, as long as the conversion is not over.
LEMMA SendingInOrder ==
  ASSUME IInv, main \in {"meta", "waiting"}, NEW e \in Events, SendEvent(e),
         e.type = "metadata" => feed = <<>>, e.track = 0 \/ e.track > Handled
  PROVE  FeedInOrder'
<1>1. /\ feed \in Seq(Events) /\ Handled \in Int /\ FeedInOrder
      /\ \A i \in 1 .. Len(feed) : feed[i].track <= Handled /\ feed[i].type # "done"
  BY TypeParts, MaxTracksAssumption DEF IInv, FeedType, Handled, NumbersType, Reported
<1>2. e.track \in Int /\ \A i \in 1 .. Len(feed) : feed[i].track \in Int
  BY <1>1, EventTracks
<1>3. CASE feed' = feed
  BY <1>1, <1>3 DEF FeedInOrder
<1>4. CASE /\ Len(feed') = Len(feed) + 1 /\ feed'[Len(feed) + 1] = e
           /\ \A i \in 1 .. Len(feed) : feed'[i] = feed[i]
  <2> SUFFICES ASSUME NEW i \in 1 .. Len(feed'), NEW j \in 1 .. Len(feed'), i < j
               PROVE  /\ feed'[j].type # "metadata" /\ feed'[i].type # "done"
                      /\ feed'[i].track > 0 /\ feed'[j].track > 0
                           => feed'[i].track < feed'[j].track
    BY DEF FeedInOrder
  <2>1. i \in 1 .. Len(feed) /\ feed'[i] = feed[i] /\ Len(feed) \in Nat
    BY <1>1, <1>4
  <2>2. CASE j \in 1 .. Len(feed)
    BY <1>1, <1>4, <2>1, <2>2 DEF FeedInOrder
  <2>3. CASE j = Len(feed) + 1
    <3>1. feed # <<>>
      BY <2>1
    <3> QED
      BY <1>1, <1>2, <1>4, <2>1, <2>3, <3>1
  <2> QED
    BY <1>4, <2>1, <2>2, <2>3
<1> QED
  BY <1>3, <1>4, Sending DEF IInv

LEMMA NextReported == IInv /\ [Next]_vars => Reported' /\ FeedInOrder'
<1> SUFFICES ASSUME IInv, [Next]_vars PROVE Reported' /\ FeedInOrder'
  OBVIOUS
<1>0. /\ TypeOK /\ Phases /\ Reported /\ FeedInOrder /\ Handled \in Nat
      /\ feed \in Seq(Events) /\ Len(feed) \in Nat
  <2>1. TypeOK /\ Phases /\ Reported /\ FeedInOrder /\ Collected
    BY DEF IInv
  <2>2. sent \in Nat /\ feed \in Seq(Events)
    BY <2>1, TypeParts, MaxTracksAssumption DEF NumbersType, FeedType
  <2> QED
    BY <2>1, <2>2 DEF Handled, Collected
<1>1. CASE ~Handling /\ UNCHANGED <<feed, refused>>
  BY <1>0, <1>1, OthersCollect DEF Reported, FeedInOrder, Told
<1>2. CASE ~Handling /\ (FetchPlaylistMetaInfo \/ AwaitTracks) /\ ~UNCHANGED <<feed, refused>>
  <2>0. PICK e \in {Event("metadata", 0), Event("done", 0)} :
          /\ SendEvent(e) /\ main \in {"meta", "waiting"}
          /\ e.type = "metadata" => main = "meta"
          /\ e.type = "done" => main' = "finishing"
    BY <1>0, <1>2, EventTypes DEF FetchPlaylistMetaInfo, AwaitTracks
  <2>1. e \in Events /\ e.track = 0
    BY <1>0, EventTypes
  <2>2. FeedInOrder'
    BY <1>0, <2>0, <2>1, SendingInOrder DEF Phases
  <2>3. Handled' = Handled
    BY <1>2, OthersCollect
  <2>4. /\ main \notin {"start", "meta", "waiting"} => main' \notin {"start", "meta", "waiting"}
    BY <1>2, OthersCollect
  <2>5. CASE feed' = feed /\ refused'
    BY <1>0, <2>2, <2>3, <2>4, <2>5 DEF Reported
  <2>6. CASE /\ Len(feed') = Len(feed) + 1 /\ feed'[Len(feed) + 1] = e
             /\ \A i \in 1 .. Len(feed) : feed'[i] = feed[i]
             /\ refused' = refused
    <3>1. \A i \in 1 .. Len(feed') :
            /\ feed'[i].track <= Handled
            /\ feed'[i].type = "done" => main' \notin {"start", "meta", "waiting"}
      BY <1>0, <2>0, <2>1, <2>4, <2>6 DEF Reported
    <3>2. ~refused' => \A t \in 1 .. Handled : \E i \in 1 .. Len(feed') : feed'[i].track = t
      BY <1>0, <2>6 DEF Reported, Told
    <3> QED
      BY <2>2, <2>3, <3>1, <3>2 DEF Reported, Told
  <2> QED
    BY <1>0, <2>0, <2>1, <2>2, <2>5, <2>6, Sending
<1>3. CASE Handling
  <2>0. PICK e \in {Event("track", sent), Event("missing", sent)} : SendEvent(e)
    BY <1>3, HandlingCollects
  <2>1. /\ e \in Events /\ e.track = sent /\ e.type \notin {"metadata", "done"}
        /\ sent \in Nat /\ Handled = sent - 1 /\ Handled' = sent
        /\ main = "waiting" /\ main' = main
    BY <1>0, <1>3, EventTypes, HandlingCollects DEF Tracks
  <2>2. FeedInOrder'
    BY <2>0, <2>1, SendingInOrder
  <2>5. CASE feed' = feed /\ refused'
    <3>1. \A i \in 1 .. Len(feed) : feed[i].track \in Int
      BY <1>0, EventTracks
    <3> QED
      BY <1>0, <2>1, <2>2, <2>5, <3>1 DEF Reported
  <2>6. CASE /\ Len(feed') = Len(feed) + 1 /\ feed'[Len(feed) + 1] = e
             /\ \A i \in 1 .. Len(feed) : feed'[i] = feed[i]
             /\ refused' = refused
    <3>1. \A i \in 1 .. Len(feed) : feed[i].track \in Int
      BY <1>0, EventTracks
    <3>2. \A i \in 1 .. Len(feed') : feed'[i].track <= sent /\ feed'[i].type # "done"
      BY <1>0, <2>1, <2>6, <3>1 DEF Reported
    <3>3. ~refused' => \A t \in 1 .. sent : \E i \in 1 .. Len(feed') : feed'[i].track = t
      <4>1. ASSUME ~refused', NEW t \in 1 .. Handled
            PROVE  \E i \in 1 .. Len(feed') : feed'[i].track = t
        BY <1>0, <2>6, <4>1 DEF Reported, Told
      <4>2. Len(feed) + 1 \in 1 .. Len(feed') /\ feed'[Len(feed) + 1].track = sent
        BY <1>0, <2>1, <2>6
      <4>3. \A t \in 1 .. sent : t \in 1 .. Handled \/ t = sent
        BY <2>1
      <4> QED
        BY <4>1, <4>2, <4>3
    <3> QED
      BY <2>1, <2>2, <3>2, <3>3 DEF Reported, Told
  <2> QED
    BY <1>0, <2>0, <2>1, <2>2, <2>5, <2>6, Sending
<1> QED
  BY <1>1, <1>2, <1>3, OthersCollect

LEMMA NextBuilt == IInv /\ [Next]_vars => Built'
<1> SUFFICES ASSUME IInv, [Next]_vars, main' = "returned"
             PROVE  /\ platforms'[target'] = tgt'
                    /\ source' # target' => platforms'[source'] = src'
  BY DEF Built
<1>1. CASE BuildResult
  <2>1. /\ platforms \in [Sources -> Seq(Tracks)] /\ source \in Sources /\ target \in Sources
    BY TypeParts DEF IInv, ResultType, PlacesType, Sources
  <2> QED
    BY <1>1, <2>1 DEF BuildResult
<1>2. CASE ~BuildResult
  <2>1. main = "returned" /\ UNCHANGED platforms
    BY <1>2 DEF Next, Main, Producer, Consumer, Crash, Die, GetPlatformService,
       FetchPlaylistMetaInfo, AwaitTracks, FetchDeezer, FetchSpotify, FetchTidal,
       FetchUnsupported, FetchUnchanged, SentAll, CloseChannel, ProducerDone, Receive,
       SearchTrackWithTitle, ConvertTrack, OmitTrack, ConsumerDone, vars
  <2>2. ~Handling
    BY <2>1, HandlingCollects
  <2> QED
    BY <2>1, <2>2, OthersCollect DEF IInv, Built
<1> QED
  BY <1>1, <1>2

-----------------------------------------------------------------------------
(* The invariant, and what follows from it.                                 *)

LEMMA InitIInv == Init => IInv
<1> SUFFICES ASSUME Init PROVE IInv
  OBVIOUS
<1>1. TypeOK
  BY InitType
<1>2. Phases /\ Reading /\ Built
  BY DEF Init, Phases, Reading, Built
<1>3. Handled = 0 /\ ~InHand
  BY DEF Init, Handled, InHand
<1>4. Collected
  <2>1. src = <<>> /\ tgt = <<>> /\ omitted = <<>> /\ 1 .. 0 = {}
    BY DEF Init
  <2>2. src = [i \in 1 .. 0 |-> i] /\ Len(tgt) = 0 /\ Len(omitted) = 0
    BY <2>1
  <2>3. ToSet(tgt) = {} /\ ToSet(omitted) = {}
    BY <2>1 DEF ToSet
  <2> QED
    BY <1>3, <2>1, <2>2, <2>3 DEF Collected, Positions
<1>5. Reported /\ FeedInOrder
  <2>1. Len(feed) = 0
    BY DEF Init
  <2> QED
    BY <1>3, <2>1 DEF Reported, FeedInOrder
<1> QED
  BY <1>1, <1>2, <1>4, <1>5 DEF IInv

LEMMA NextIInv == IInv /\ [Next]_vars => IInv'
BY NextType, NextPhases, NextReading, NextCollected, NextReported, NextBuilt DEF IInv

LEMMA Invariant == Spec => []IInv
<1>1. Init => IInv
  BY InitIInv
<1>2. IInv /\ [Next]_vars => IInv'
  BY NextIInv
<1> QED
  BY <1>1, <1>2, PTL DEF Spec

\* The state keeps its type; in particular the WaitGroup's counter, which each
\* goroutine decrements once, never becomes negative.
THEOREM TypeCorrect == Spec => []TypeOK
<1>1. IInv => TypeOK
  BY DEF IInv
<1> QED
  BY <1>1, Invariant, PTL

\* The events a webhook client sees are in the playlist's order, the metadata first
\* and the done event last, whatever events are refused.
THEOREM Feed_InOrder == Spec => []FeedInOrder
<1>1. IInv => FeedInOrder
  BY DEF IInv
<1> QED
  BY <1>1, Invariant, PTL

\* With the done event, every track that was handed over has been told of, unless
\* an event was refused.
THEOREM Done_TellsAll == Spec => []DoneTellsAll
<1>1. IInv => DoneTellsAll
  <2> SUFFICES ASSUME IInv, ~refused, main \in {"finishing", "returned"}
               PROVE  /\ \A t \in 1 .. sent : Told(t)
                      /\ source = "tidal" \/ sent = fetched
    BY DEF DoneTellsAll
  <2>1. producer = "gone" /\ consumer = "gone"
    BY DEF IInv, Phases
  <2>2. Handled = sent
    BY <2>1 DEF Handled, InHand
  <2> QED
    BY <2>1, <2>2 DEF IInv, Reported, Reading
<1> QED
  BY <1>1, Invariant, PTL

\* A conversion that returns has put every track it was handed on the source's side,
\* and on exactly one of the target's side and the omitted ones.
THEOREM Result_PartitionsSource == Spec => []ResultPartitionsSource
<1>1. IInv => ResultPartitionsSource
  <2> SUFFICES ASSUME IInv, main = "returned"
               PROVE  /\ source # target => platforms[source] = [i \in 1 .. sent |-> i]
                      /\ Positions(platforms[target]) /\ Positions(omitted)
                      /\ ToSet(platforms[target]) \cup ToSet(omitted) = 1 .. sent
                      /\ ToSet(platforms[target]) \cap ToSet(omitted) = {}
    BY DEF ResultPartitionsSource
  <2>1. /\ Collected /\ platforms[target] = tgt
        /\ source # target => platforms[source] = src
    BY DEF IInv, Built
  <2>2. Handled = sent
    BY DEF IInv, Phases, Handled, InHand
  <2> QED
    BY <2>1, <2>2 DEF Collected
<1> QED
  BY <1>1, Invariant, PTL

-----------------------------------------------------------------------------
(* The conversion comes to its end.                                         *)

\* The three goroutines never wait for each other all at once: the consumer leaves
\* after the channel is closed only, and the producer before the WaitGroup is at zero.
LEMMA NotAll_Wait == Spec => []NotAllWait
<1>1. IInv => NotAllWait
  <2> SUFFICES ASSUME IInv, MainWaits, ProducerWaits, ConsumerWaits PROVE FALSE
    BY DEF NotAllWait
  <2>1. /\ producer # "none" /\ consumer # "none"
        /\ producer # "gone" \/ consumer # "gone"
    BY DEF IInv, Phases, MainWaits, Running
  <2>2. CASE producer = "gone"
    BY <2>1, <2>2 DEF IInv, Phases, ConsumerWaits
  <2>3. CASE producer = "sending" /\ sent < fetched /\ consumer # "receiving"
    BY <2>1, <2>3 DEF IInv, Phases, ConsumerWaits
  <2> QED
    BY <2>1, <2>2, <2>3 DEF ProducerWaits
<1> QED
  BY <1>1, Invariant, PTL

\* Each part of StepsLeft is a natural number.
LEMMA LeftType ==
  ASSUME TypeOK
  PROVE  /\ MainLeft \in Nat /\ ProducerLeft \in Nat /\ ConsumerLeft \in Nat
         /\ DataLeft \in Nat /\ StepsLeft \in Nat
<1>1. MainLeft \in Nat /\ ProducerLeft \in Nat /\ ConsumerLeft \in Nat
  BY DEF MainLeft, ProducerLeft, ConsumerLeft
<1>2. MaxTracks + 1 - page \in Nat /\ length - sent \in Nat
  BY MaxTracksAssumption, TypeParts DEF NumbersType
<1>3. DataLeft \in Nat
  <2> DEFINE pages == MaxTracks + 1 - page
             tracks == length - sent
  <2>1. DataLeft = pages + 3 * tracks + (IF alive THEN 1 ELSE 0)
    BY DEF DataLeft
  <2> HIDE DEF pages, tracks
  <2>2. pages \in Nat /\ tracks \in Nat
    BY <1>2 DEF pages, tracks
  <2> QED
    BY <2>1, <2>2
<1> QED
  BY <1>1, <1>3 DEF StepsLeft

\* What a page read, a track handed over and the end of the process take away.
LEMMA DataFalls ==
  ASSUME TypeOK, UNCHANGED length
  PROVE  /\ UNCHANGED <<sent, page, alive>> => DataLeft' = DataLeft
         /\ UNCHANGED <<sent, alive>> /\ page' = page + 1 => DataLeft' = DataLeft - 1
         /\ UNCHANGED <<page, alive>> /\ sent' = sent + 1 => DataLeft' = DataLeft - 3
         /\ UNCHANGED <<sent, page>> /\ alive /\ ~alive' => DataLeft' = DataLeft - 1
<1> DEFINE a == IF alive THEN 1 ELSE 0
<1>1. MaxTracks \in Int /\ page \in Int /\ length \in Int /\ sent \in Int /\ a \in Int
  BY MaxTracksAssumption, TypeParts DEF NumbersType
<1>2. DataLeft = (MaxTracks + 1 - page) + 3 * (length - sent) + a
  BY DEF DataLeft
<1>3. DataLeft' = (MaxTracks + 1 - page') + 3 * (length - sent') + a'
  BY DEF DataLeft
<1>4. /\ UNCHANGED alive => a' = a
      /\ alive /\ ~alive' => a' = a - 1
  OBVIOUS
<1> HIDE DEF a
<1> QED
  BY <1>1, <1>2, <1>3, <1>4

\* The sums before and after a step.
LEMMA Sums ==
  \A m, p, c, d, m1, p1, c1, d1 \in Int :
    \/ m1 < m /\ p1 = p /\ c1 = c /\ d1 = d
    \/ m1 = m /\ p1 < p /\ c1 = c /\ d1 = d
    \/ m1 = m /\ p1 = p /\ c1 < c /\ d1 = d
    \/ m1 = m /\ p1 = p /\ c1 = c /\ d1 = d - 1
    \/ m1 = m /\ p1 < p /\ c1 = c /\ d1 = d - 1
    \/ m1 = m /\ p1 = p /\ c = 1 /\ c1 = 3 /\ d1 = d - 3
    => m1 + p1 + c1 + d1 < m + p + c + d
OBVIOUS

LEMMA StepsFall == IInv /\ [Next]_vars => StepsLeft' < StepsLeft \/ UNCHANGED vars
<1> SUFFICES ASSUME IInv, Next PROVE StepsLeft' < StepsLeft
  OBVIOUS
<1>0. /\ MainLeft \in Int /\ ProducerLeft \in Int /\ ConsumerLeft \in Int /\ DataLeft \in Int
      /\ TypeOK
  <2>1. TypeOK
    BY DEF IInv
  <2> QED
    BY <2>1, LeftType
<1>c. /\ MainLeft' \in Int /\ ProducerLeft' \in Int /\ ConsumerLeft' \in Int
      /\ StepsLeft = MainLeft + ProducerLeft + ConsumerLeft + DataLeft
      /\ StepsLeft' = MainLeft' + ProducerLeft' + ConsumerLeft' + DataLeft'
  BY DEF StepsLeft, MainLeft, ProducerLeft, ConsumerLeft
<1>a. ASSUME UNCHANGED <<length, sent, page, alive>>
      PROVE  DataLeft' = DataLeft /\ DataLeft' \in Int
  BY <1>0, <1>a, DataFalls
<1>b. ASSUME UNCHANGED <<main, consumer, producer, length, sent, page>>, alive, ~alive'
      PROVE  StepsLeft' < StepsLeft
  <2>1. DataLeft' = DataLeft - 1 /\ DataLeft' \in Int
    BY <1>0, <1>b, DataFalls
  <2>2. MainLeft' = MainLeft /\ ProducerLeft' = ProducerLeft /\ ConsumerLeft' = ConsumerLeft
    BY <1>b DEF MainLeft, ProducerLeft, ConsumerLeft
  <2> QED
    BY <1>0, <1>c, <2>1, <2>2, Sums
<1>1. CASE GetPlatformService \/ AwaitTracks \/ BuildResult
  <2>1. UNCHANGED <<producer, consumer, length, sent, page, alive>>
    BY <1>1 DEF GetPlatformService, AwaitTracks, BuildResult
  <2>2. MainLeft' < MainLeft
    BY <1>1 DEF GetPlatformService, AwaitTracks, BuildResult, MainLeft
  <2>3. ProducerLeft' = ProducerLeft /\ ConsumerLeft' = ConsumerLeft
    BY <2>1 DEF ProducerLeft, ConsumerLeft
  <2> QED
    BY <1>0, <1>a, <1>c, <2>1, <2>2, <2>3, Sums
<1>2. CASE FetchPlaylistMetaInfo
  <2>1. UNCHANGED <<length, sent, page, alive>>
    BY <1>2 DEF FetchPlaylistMetaInfo
  <2>2. MainLeft' < MainLeft
    BY <1>2 DEF FetchPlaylistMetaInfo, MainLeft
  <2>3. producer = "none" /\ consumer = "none"
    BY <1>2 DEF FetchPlaylistMetaInfo, IInv, Phases
  <2>4. ProducerLeft' = ProducerLeft /\ ConsumerLeft' = ConsumerLeft
    BY <1>2, <2>3 DEF FetchPlaylistMetaInfo, ProducerLeft, ConsumerLeft
  <2> QED
    BY <1>0, <1>a, <1>c, <2>1, <2>2, <2>4, Sums
<1>3. CASE Fetch
  <2>1. /\ UNCHANGED <<main, consumer, length, sent>>
        /\ alive /\ producer = "fetching"
    BY <1>3 DEF Fetch, FetchDeezer, FetchSpotify, FetchTidal, FetchUnsupported, FetchUnchanged
  <2>2. \/ ~alive' /\ UNCHANGED <<producer, page>>
        \/ UNCHANGED alive /\ producer' \in {"sending", "ended"} /\ page' \in {page, page + 1}
        \/ UNCHANGED <<alive, producer>> /\ page' = page + 1
    <3>1. CASE FetchDeezer
      <4>1. page = 0
        BY <2>1, <3>1 DEF FetchDeezer, IInv, Reading
      <4>2. page' = 1 => page' = page + 1
        BY <4>1
      <4> QED
        BY <3>1, <4>2 DEF FetchDeezer, FetchEnds
    <3> QED
      BY <1>3, <3>1 DEF Fetch, FetchSpotify, FetchTidal, FetchUnsupported, FetchEnds
  <2>3. MainLeft' = MainLeft /\ ConsumerLeft' = ConsumerLeft /\ ProducerLeft = 4
    BY <2>1 DEF MainLeft, ConsumerLeft, ProducerLeft
  <2>4. CASE ~alive' /\ UNCHANGED <<producer, page>>
    BY <1>b, <2>1, <2>4
  <2>5. CASE UNCHANGED alive /\ producer' \in {"sending", "ended"} /\ page' \in {page, page + 1}
    <3>1. ProducerLeft' < ProducerLeft
      BY <2>1, <2>5 DEF ProducerLeft
    <3>2. DataLeft' \in {DataLeft, DataLeft - 1} /\ DataLeft' \in Int
      BY <1>0, <2>1, <2>5, DataFalls
    <3> QED
      BY <1>0, <1>c, <2>3, <3>1, <3>2, Sums
  <2>6. CASE UNCHANGED <<alive, producer>> /\ page' = page + 1
    <3>1. ProducerLeft' = 4
      BY <2>1, <2>6 DEF ProducerLeft
    <3>2. DataLeft' = DataLeft - 1 /\ DataLeft' \in Int
      BY <1>0, <2>1, <2>6, DataFalls
    <3> QED
      BY <1>0, <1>c, <2>3, <3>1, <3>2, Sums
  <2> QED
    BY <2>2, <2>4, <2>5, <2>6
<1>4. CASE SentAll \/ CloseChannel \/ ProducerDone
  <2>1. UNCHANGED <<main, consumer, length, sent, page, alive>>
    BY <1>4 DEF SentAll, CloseChannel, ProducerDone, FetchUnchanged
  <2>2. ProducerLeft' < ProducerLeft
    BY <1>4 DEF SentAll, CloseChannel, ProducerDone, ProducerLeft
  <2>3. MainLeft' = MainLeft /\ ConsumerLeft' = ConsumerLeft
    BY <2>1 DEF MainLeft, ConsumerLeft
  <2> QED
    BY <1>0, <1>a, <1>c, <2>1, <2>2, <2>3, Sums
<1>5. CASE Receive /\ ~Die
  <2>1. /\ UNCHANGED <<main, producer, length, page, alive>>
        /\ sent' = sent + 1 /\ consumer = "receiving" /\ consumer' = "searching"
    BY <1>5 DEF Receive
  <2>2. /\ MainLeft' = MainLeft /\ ProducerLeft' = ProducerLeft
        /\ ConsumerLeft = 1 /\ ConsumerLeft' = 3
    BY <2>1 DEF MainLeft, ProducerLeft, ConsumerLeft
  <2>3. DataLeft' = DataLeft - 3 /\ DataLeft' \in Int
    BY <1>0, <2>1, DataFalls
  <2> QED
    BY <1>0, <1>c, <2>2, <2>3, Sums
<1>6. CASE (SearchTrackWithTitle /\ ~Die) \/ ConvertTrack \/ OmitTrack \/ ConsumerDone
  <2>1. UNCHANGED <<main, producer, length, sent, page, alive>>
    BY <1>6 DEF SearchTrackWithTitle, ConvertTrack, OmitTrack, ConsumerDone
  <2>2. ConsumerLeft' < ConsumerLeft
    BY <1>6 DEF SearchTrackWithTitle, ConvertTrack, OmitTrack, ConsumerDone, ConsumerLeft
  <2>3. MainLeft' = MainLeft /\ ProducerLeft' = ProducerLeft
    BY <2>1 DEF MainLeft, ProducerLeft
  <2> QED
    BY <1>0, <1>a, <1>c, <2>1, <2>2, <2>3, Sums
<1>7. CASE Die
  BY <1>b, <1>7 DEF Die
<1> QED
  BY <1>1, <1>2, <1>3, <1>4, <1>5, <1>6, <1>7
     DEF Next, Main, Producer, Consumer, Crash, Fetch, Receive, SearchTrackWithTitle

\* No run of the conversion is endless: each of its steps leaves fewer steps than there
\* were, and their number is a natural one.
LEMMA EveryStep_Counts == Spec => EveryStepCounts
<1>1. IInv => StepsLeft \in Nat
  BY LeftType DEF IInv
<1>2. IInv /\ StepsLeft \in Nat /\ (StepsLeft \in Nat)' /\ [Next]_vars
        => [StepsLeft' \in 0 .. StepsLeft - 1]_vars
  BY StepsFall
<1> QED
  BY <1>1, <1>2, Invariant, PTL DEF Spec, EveryStepCounts

\* As long as the conversion is not over one of its goroutines can go on, and no run of
\* them is endless.
THEOREM Nears_ItsEnd == Spec => NearsItsEnd
BY NotAll_Wait, EveryStep_Counts DEF NearsItsEnd

-----------------------------------------------------------------------------
(* The conversion as one loop.                                              *)

USE DEF Loop!conversionVars

\* What the loop has handled is what stands on the source's side.
LEMMA LoopHandles ==
  ASSUME IInv
  PROVE  /\ Len(src) = Handled /\ Handled \in 0 .. sent
         /\ fetched \in Nat /\ sent \in 0 .. fetched
<1>1. sent \in Nat /\ fetched \in Nat /\ sent \in 0 .. fetched /\ Collected
  BY TypeParts, MaxTracksAssumption DEF IInv, NumbersType
<1>2. Handled \in 0 .. sent
  BY <1>1 DEF Handled, Collected
<1>3. src = [i \in 1 .. Handled |-> i] /\ Handled \in Nat
  BY <1>1, <1>2 DEF Collected
<1> QED
  BY <1>1, <1>2, <1>3

\* The caller's answer, apart from the platforms it is built from.
LoopAnswer == IF main = "returned"
              THEN [source |-> platforms[source], target |-> platforms[target]]
              ELSE [source |-> <<>>, target |-> <<>>]

\* All of the loop's variables but where it is and what it has read.
LoopKept == <<source = target, source = "tidal", Len(src), tgt, omitted, feed, refused,
              LoopAnswer>>

LEMMA LoopInit == Init => Loop!ConversionInit
<1> SUFFICES ASSUME Init PROVE Loop!ConversionInit
  OBVIOUS
<1>1. Phase = "new" /\ Len(src) = 0 /\ fetched = 0 /\ main # "returned"
  BY DEF Init, Phase
<1> QED
  BY <1>1 DEF Init, Loop!ConversionInit, Loop!NoAnswer

\* An event of the conversion is told by the loop.
LEMMA LoopTells ==
  ASSUME NEW type, NEW t, SendEvent(Event(type, t))
  PROVE  Loop!Tell(type, t)
BY DEF SendEvent, Event, Loop!Tell

LEMMA LoopStep == IInv /\ [Next]_vars => [Loop!ConversionNext]_(Loop!conversionVars)
<1> DEFINE Step == [Loop!ConversionNext]_(Loop!conversionVars)
<1> SUFFICES ASSUME IInv, [Next]_vars PROVE Step
  OBVIOUS
<1>0. /\ Len(src) = Handled /\ Handled \in 0 .. sent /\ fetched \in Nat /\ sent \in 0 .. fetched
      /\ TypeOK /\ Phases /\ Reading /\ Collected /\ Built
  BY LoopHandles DEF IInv
<1>a. ASSUME UNCHANGED <<LoopKept, Phase, fetched>> PROVE Step
  BY <1>a DEF LoopKept, LoopAnswer
<1>b. ASSUME UNCHANGED <<LoopKept, fetched>>, Phase # "dead", Phase' = "dead" PROVE Step
  BY <1>b DEF LoopKept, LoopAnswer, Loop!ConversionNext, Loop!Perish
<1>c. ASSUME UNCHANGED <<inputVars, resultVars, feedVars, main, platforms>>
      PROVE  UNCHANGED LoopKept
  BY <1>c DEF LoopKept, LoopAnswer
<1>d. ASSUME Die PROVE Step
  BY <1>b, <1>c, <1>d DEF Die, Phase
<1>e. ASSUME UNCHANGED <<inputVars, resultVars, feedVars, main, platforms, fetched, alive>>
      PROVE  Step
  BY <1>a, <1>c, <1>e DEF Phase
<1> HIDE DEF Step
<1>1. ASSUME GetPlatformService PROVE Step
  <2>1. /\ Phase = "new" /\ Phase' \in {"new", "failed"}
        /\ UNCHANGED <<source, target, src, tgt, omitted, feed, refused, fetched>>
        /\ main # "returned" /\ main' # "returned"
    BY <1>1 DEF GetPlatformService, Phase
  <2>2. UNCHANGED LoopKept
    BY <2>1 DEF LoopKept, LoopAnswer
  <2> QED
    BY <1>a, <2>1, <2>2 DEF LoopKept, LoopAnswer, Step, Loop!ConversionNext, Loop!Stop
<1>2. ASSUME FetchPlaylistMetaInfo PROVE Step
  <2>1. /\ Phase = "new" /\ main # "returned" /\ main' # "returned"
        /\ UNCHANGED <<source, target, src, tgt, omitted, fetched>>
    BY <1>2 DEF FetchPlaylistMetaInfo, Phase
  <2>2. CASE SendEvent(Event("metadata", 0)) /\ main' = "waiting"
    <3>1. Phase' = "converting"
      BY <1>2, <2>2 DEF FetchPlaylistMetaInfo, Phase
    <3>2. Loop!Tell("metadata", 0)
      BY <2>2, LoopTells
    <3> QED
      BY <2>1, <3>1, <3>2 DEF Step, Loop!ConversionNext, Loop!Begin
  <2>3. CASE main' \in {"failed", "panicked"} /\ UNCHANGED feedVars
    <3>1. Phase' \in {"failed", "panicked"}
      BY <1>2, <2>3 DEF FetchPlaylistMetaInfo, Phase
    <3> QED
      BY <2>1, <2>3, <3>1 DEF Step, Loop!ConversionNext, Loop!Stop
  <2> QED
    BY <1>2, <2>2, <2>3 DEF FetchPlaylistMetaInfo
<1>3. ASSUME AwaitTracks PROVE Step
  <2>1. /\ Phase = "converting" /\ Phase' = "told" /\ main # "returned" /\ main' # "returned"
        /\ UNCHANGED <<source, target, src, tgt, omitted, fetched>>
    BY <1>3 DEF AwaitTracks, Phase
  <2>2. Loop!Tell("done", 0)
    BY <1>3, LoopTells DEF AwaitTracks
  <2>3. producer = "gone" /\ consumer = "gone"
    BY <1>0, <1>3 DEF AwaitTracks, Phases, Running
  <2>4. source = "tidal" \/ Len(src) = fetched
    BY <1>0, <2>3 DEF Reading, Handled, InHand
  <2> QED
    BY <2>1, <2>2, <2>4 DEF Step, Loop!ConversionNext, Loop!Finish
<1>4. ASSUME BuildResult PROVE Step
  <2>1. /\ Phase = "told" /\ main # "returned"
        /\ UNCHANGED <<source, target, src, tgt, omitted, fetched, feed, refused>>
    BY <1>4 DEF BuildResult, Phase
  <2>2. CASE source = "ytmusic"
    <3>1. Phase' = "failed" /\ main' # "returned"
      BY <1>4, <2>2 DEF BuildResult, Phase
    <3> QED
      BY <2>1, <3>1 DEF Step, Loop!ConversionNext, Loop!Stop
  <2>3. CASE source # "ytmusic"
    <3>1. /\ Phase' = "returned" /\ main' = "returned"
          /\ platforms' = [platforms EXCEPT ![source] = src, ![target] = tgt]
      BY <1>4, <2>3 DEF BuildResult, Phase
    <3>2. platforms \in [Sources -> Seq(Tracks)] /\ source \in Sources /\ target \in Sources
      BY <1>0, TypeParts DEF ResultType, PlacesType, Sources
    <3>3. platforms'[target] = tgt /\ platforms'[source] = IF source = target THEN tgt ELSE src
      BY <3>1, <3>2
    <3>4. src = [i \in 1 .. Len(src) |-> i]
      BY <1>0 DEF Collected
    <3> QED
      BY <2>1, <3>1, <3>3, <3>4 DEF Step, Loop!ConversionNext, Loop!Return
  <2> QED
    BY <2>2, <2>3
<1>5. ASSUME Fetch PROVE Step
  <2>1. /\ UNCHANGED <<inputVars, main, consumer, sent, resultVars, feedVars, platforms>>
        /\ alive /\ producer = "fetching"
    BY <1>5 DEF Fetch, FetchDeezer, FetchSpotify, FetchTidal, FetchUnsupported, FetchUnchanged
  <2>2. Phase = "converting" /\ Len(src) = 0
    BY <1>0, <2>1 DEF Phases, Phase, Reading
  <2>3. \/ fetched' \in fetched .. length /\ alive'
        \/ fetched' = fetched /\ ~alive' /\ alive' \in BOOLEAN
    <3>1. \A n \in 0 .. length : WithPage(n) \in n .. length
      BY <1>0, Paging
    <3>2. fetched \in 0 .. length /\ length \in Nat /\ (page = 0 => fetched = 0)
      BY <1>0, TypeParts, MaxTracksAssumption DEF NumbersType, Reading
    <3>3. ASSUME fetched' = fetched, UNCHANGED alive
          PROVE  fetched' \in fetched .. length /\ alive'
      BY <2>1, <3>2, <3>3
    <3>4. CASE FetchDeezer
      <4>1. page = 0
        BY <1>0, <2>1, <3>4 DEF FetchDeezer, Reading
      <4> QED
        BY <2>1, <3>1, <3>2, <3>3, <3>4, <4>1 DEF FetchDeezer, FetchEnds
    <3>5. CASE FetchSpotify
      BY <2>1, <3>1, <3>2, <3>3, <3>5 DEF FetchSpotify, FetchEnds
    <3>6. CASE FetchTidal \/ FetchUnsupported
      BY <2>1, <3>1, <3>2, <3>3, <3>6 DEF FetchTidal, FetchUnsupported, FetchEnds
    <3> QED
      BY <1>5, <3>4, <3>5, <3>6 DEF Fetch
  <2>4. CASE fetched' \in fetched .. length /\ alive'
    <3>1. fetched' \in Nat /\ fetched' >= fetched
      <4>1. length \in Nat
        BY <1>0, TypeParts, MaxTracksAssumption DEF NumbersType
      <4> QED
        BY <1>0, <2>4, <4>1
    <3>2. Phase' = Phase
      BY <2>1, <2>4 DEF Phase
    <3> QED
      BY <1>c, <2>1, <2>2, <3>1, <3>2
         DEF LoopKept, LoopAnswer, Step, Loop!ConversionNext, Loop!Read
  <2>5. CASE fetched' = fetched /\ ~alive'
    BY <1>b, <1>c, <2>1, <2>2, <2>5 DEF Phase
  <2> QED
    BY <2>3, <2>4, <2>5
<1>6. ASSUME SentAll \/ CloseChannel \/ ProducerDone \/ ConsumerDone PROVE Step
  BY <1>e, <1>6 DEF SentAll, CloseChannel, ProducerDone, ConsumerDone, FetchUnchanged
<1>7. ASSUME Receive \/ SearchTrackWithTitle PROVE Step
  BY <1>d, <1>e, <1>7 DEF Receive, SearchTrackWithTitle
<1>8. ASSUME Handling PROVE Step
  <2>1. /\ sent \in Tracks /\ Handled = sent - 1 /\ Handled' = sent
        /\ src' = Append(src, sent) /\ main = "waiting" /\ UNCHANGED main
    BY <1>8, HandlingCollects
  <2>2. UNCHANGED <<source, target, fetched, alive, platforms>> /\ alive
    BY <1>8 DEF Handling, ConvertTrack, OmitTrack
  <2>3. sent = Len(src) + 1 /\ Len(src') = Len(src) + 1 /\ Len(src) < fetched
    <3>1. src \in Seq(Tracks)
      BY <1>0, TypeParts DEF CollectedType
    <3>2. Len(src') = Len(src) + 1
      BY <2>1, <3>1
    <3>3. sent \in Int
      BY <2>1, MaxTracksAssumption DEF Tracks
    <3> QED
      BY <1>0, <2>1, <3>2, <3>3
  <2>4. Phase = "converting" /\ Phase' = "converting" /\ source # "tidal"
    <3>1. sent > 0
      BY <2>1, MaxTracksAssumption DEF Tracks
    <3> QED
      BY <1>0, <2>1, <2>2, <3>1 DEF Phase, Reading
  <2>5. CASE ConvertTrack
    <3>1. Loop!Tell("track", Len(src) + 1) /\ tgt' = Append(tgt, Len(src) + 1)
      BY <2>3, <2>5, LoopTells DEF ConvertTrack
    <3>2. UNCHANGED omitted
      BY <2>5 DEF ConvertTrack
    <3> QED
      BY <2>1, <2>2, <2>3, <2>4, <3>1, <3>2 DEF Step, Loop!ConversionNext, Loop!Convert
  <2>6. CASE OmitTrack
    <3>1. Loop!Tell("missing", Len(src) + 1) /\ omitted' = Append(omitted, Len(src) + 1)
      BY <2>3, <2>6, LoopTells DEF OmitTrack
    <3>2. UNCHANGED tgt
      BY <2>6 DEF OmitTrack
    <3> QED
      BY <2>1, <2>2, <2>3, <2>4, <3>1, <3>2 DEF Step, Loop!ConversionNext, Loop!Omit
  <2> QED
    BY <1>8, <2>5, <2>6 DEF Handling
<1>9. ASSUME UNCHANGED vars PROVE Step
  BY <1>9, <1>e DEF vars
<1> QED
  BY <1>1, <1>2, <1>3, <1>4, <1>5, <1>6, <1>7, <1>8, <1>9, <1>d
     DEF Next, Main, Producer, Consumer, Crash, Fetch, Handling

\* The conversion, with its three goroutines, its channel and its WaitGroup, is one
\* loop over the playlist to its caller and to the subscriber of its events.
THEOREM Implements_SequentialConversion == Spec => ImplementsSequentialConversion
<1>1. Init => Loop!ConversionInit
  BY LoopInit
<1>2. IInv /\ [Next]_vars => [Loop!ConversionNext]_(Loop!conversionVars)
  BY LoopStep
<1> QED
  BY <1>1, <1>2, Invariant, PTL DEF Spec, ImplementsSequentialConversion, Loop!ConversionSpec

=============================================================================
