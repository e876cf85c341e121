--------------------- MODULE TrackConversionApartProofs ---------------------
(***************************************************************************)
(* TrackConversion implements IndependentConversions, for every catalog,   *)
(* every spelling of names and any number of conversions.                  *)
(***************************************************************************)
EXTENDS TrackConversionProofs

USE DEF jobVars, MoveTo, Apart!conversionsVars

\* The source track of a conversion, as far as it has one.
Given(j) == IF at[j] \in {"search", "ask", "done"} THEN source[j] ELSE NoRequest

phases == [j \in Jobs |-> Phase(j)]
givens == [j \in Jobs |-> Given(j)]

\* A step that leaves every conversion alone is none of theirs.
LEMMA ApartStutters ==
  ASSUME UNCHANGED jobVars
  PROVE  UNCHANGED Apart!conversionsVars
<1>1. \A j : Phase(j)' = Phase(j)
  BY DEF Phase
<1> QED
  BY <1>1

\* Of the conversions only j has moved.
LEMMA OneMoves ==
  ASSUME NEW j \in Jobs,
         \A k \in Jobs : k # j => at'[k] = at[k] /\ todo'[k] = todo[k] /\ source'[k] = source[k]
  PROVE  /\ phases' = [phases EXCEPT ![j] = Phase(j)']
         /\ givens' = [givens EXCEPT ![j] = Given(j)']
         /\ phases[j] = Phase(j) /\ givens[j] = Given(j)
<1>1. \A k \in Jobs : k # j => Phase(k)' = Phase(k) /\ Given(k)' = Given(k)
  BY DEF Phase, Given
<1> QED
  BY <1>1 DEF phases, givens

\* Where a conversion is.
LEMMA PhaseOf ==
  ASSUME NEW j
  PROVE  /\ at[j] \in {"idle", "done"} => Phase(j) = at[j]
         /\ at[j] \in Before => Phase(j) = "asked"
         /\ at[j] = "search" => Phase(j) = "searching"
         /\ at[j] = "ask" => Phase(j) = IF Head(todo[j]) = "spotify" THEN "stripped" ELSE "searching"
BY DEF Phase, Before

LEMMA PhaseNext ==
  ASSUME NEW j
  PROVE  /\ at'[j] \in {"idle", "done"} => Phase(j)' = at'[j]
         /\ at'[j] \in Before => Phase(j)' = "asked"
         /\ at'[j] = "search" => Phase(j)' = "searching"
         /\ at'[j] = "ask" =>
              Phase(j)' = IF Head(todo'[j]) = "spotify" THEN "stripped" ELSE "searching"
BY DEF Phase, Before

\* Nothing found, whatever a map without keys maps to.
LEMMA NothingFound == Apart!Nothing = [p \in {} |-> NoTrack]
BY DEF Apart!Nothing

\* What a request's source track is read as, and its targets.
LEMMA RequestData ==
  ASSUME NEW r \in AnyRequest
  PROVE  /\ AllTargets[r] = Targets(r)
         /\ \A t : AsRead(r.from, r.id, t) => t \in AllReadings[r]
         /\ r \in AllAlone <=> r.to # "all" /\ r.kind # "item"
<1>1. r \in AllRequests /\ r.kind \in {"track", "item"}
  BY RequestType DEF AllRequests, AnyRequest
<1> QED
  BY <1>1 DEF AllTargets, AllReadings, AllAlone, AsRead

-----------------------------------------------------------------------------
(* The steps.                                                               *)

Step == [Apart!ConversionsNext]_(Apart!conversionsVars)

\* A conversion reads its source track, or fails to.
LEMMA EarlyApart ==
  ASSUME IInv, NEW j \in Jobs, Goes(j) \/ Stops(j) \/ Begins(j)
  PROVE  Step
<1>1. /\ at \in [Jobs -> Labels] /\ source \in [Jobs -> TrackType \cup {NoTrack}]
      /\ todo \in [Jobs -> Seq(Platforms)]
  BY JobParts DEF Parts, Shape
<1>2. /\ phases' = [phases EXCEPT ![j] = Phase(j)']
      /\ givens' = [givens EXCEPT ![j] = Given(j)']
      /\ phases[j] = Phase(j) /\ givens[j] = Given(j)
  BY OthersStay, OneMoves DEF JobStep
<1>3. CASE Goes(j)
  <2>1. /\ at[j] \in Before /\ at'[j] \in Before /\ UNCHANGED <<request, source, todo, found>>
    BY <1>1, <1>3 DEF Goes, Goto
  <2>2. Phase(j)' = Phase(j) /\ Given(j)' = Given(j)
    BY <2>1, PhaseOf, PhaseNext DEF Given, Before
  <2>3. phases' = phases /\ givens' = givens
    BY <1>2, <2>2 DEF phases, givens
  <2> QED
    BY <2>1, <2>3 DEF Step, phases, givens, Given
<1>4. CASE Stops(j)
  <2>1. /\ at'[j] = "idle" /\ at[j] # "idle"
        /\ todo' = [todo EXCEPT ![j] = <<>>]
        /\ found' = [found EXCEPT ![j] = [p \in {} |-> NoTrack]]
        /\ request' = [request EXCEPT ![j] = NoRequest]
    BY <1>1, <1>4 DEF Stops, GiveUp, MayStop, Before
  <2>2. Phase(j)' = "idle" /\ Given(j)' = NoRequest
    BY <2>1, PhaseNext DEF Given
  <2>3. \/ Phase(j) = "asked"
        \/ Phase(j) \in {"searching", "stripped"} /\ request[j] \in AllAlone
    BY <1>4, <2>1, PhaseOf, Running, RequestData DEF Stops, MayStop
  <2>4. Apart!Fail(j)
    BY <1>2, <2>1, <2>2, <2>3, NothingFound DEF Apart!Fail, Apart!Holds, phases, givens, Given
  <2> QED
    BY <2>4 DEF Step, Apart!ConversionsNext
<1>5. CASE Begins(j)
  <2>1. /\ at[j] \in Before /\ at'[j] = "search" /\ UNCHANGED <<request, found>>
        /\ todo' = [todo EXCEPT ![j] = Targets(request[j])]
    BY <1>1, <1>5 DEF Begins
  <2>2. PICK t : AsRead(request[j].from, request[j].id, t) /\ source'[j] = t
    BY <1>1, <1>5 DEF Begins
  <2>3. Phase(j) = "asked" /\ Phase(j)' = "searching" /\ Given(j)' = t
    BY <2>1, <2>2, PhaseOf, PhaseNext DEF Given
  <2>4. t \in AllReadings[request[j]] /\ AllTargets[request[j]] = Targets(request[j])
    BY <2>1, <2>2, Running, RequestData DEF Before
  <2>5. Apart!Begin(j)
    BY <1>2, <2>1, <2>3, <2>4 DEF Apart!Begin, phases, givens, Given
  <2> QED
    BY <2>5 DEF Step, Apart!ConversionsNext
<1> QED
  BY <1>3, <1>4, <1>5

\* A conversion looks into the cache: Spotify's search strips the artist.
LEMMA LooksApart ==
  ASSUME IInv, NEW j \in Jobs, Looks(j)
  PROVE  Step
<1>1. /\ at \in [Jobs -> Labels] /\ source \in [Jobs -> TrackType \cup {NoTrack}]
  BY JobParts DEF Parts, Shape
<1>2. /\ phases' = [phases EXCEPT ![j] = Phase(j)']
      /\ givens' = [givens EXCEPT ![j] = Given(j)']
      /\ phases[j] = Phase(j) /\ givens[j] = Given(j)
  BY OthersStay, OneMoves DEF JobStep
<1>3. /\ at[j] = "search" /\ at'[j] = "ask" /\ source'[j] = Looked(j)
      /\ UNCHANGED <<request, todo, found>>
  BY <1>1 DEF Looks, SourceLooked
<1>4. Phase(j) = "searching" /\ Given(j) = source[j] /\ Given(j)' = Looked(j)
  BY <1>3, PhaseOf DEF Given
<1>5. CASE Head(todo[j]) = "spotify"
  <2>1. Phase(j)' = "stripped" /\ Looked(j) = [source[j] EXCEPT !.artist = Extracted[@]]
    BY <1>3, <1>5, PhaseNext DEF Looked, Strip
  <2>2. Apart!Strip(j)
    BY <1>2, <1>3, <1>4, <1>5, <2>1 DEF Apart!Strip, phases, givens, Given
  <2> QED
    BY <2>2 DEF Step, Apart!ConversionsNext
<1>6. CASE Head(todo[j]) # "spotify"
  <2>1. Phase(j)' = Phase(j) /\ Given(j)' = Given(j)
    BY <1>3, <1>4, <1>6, PhaseNext DEF Looked
  <2>2. phases' = phases /\ givens' = givens
    BY <1>2, <2>1 DEF phases, givens
  <2> QED
    BY <1>3, <2>2 DEF Step, phases, givens, Given
<1> QED
  BY <1>5, <1>6

\* A target's search ends.
LEMMA SearchedApart ==
  ASSUME IInv, NEW j \in Jobs, Answers(j) \/ Omits(j)
  PROVE  Step
<1>1. /\ at \in [Jobs -> Labels] /\ source \in [Jobs -> TrackType \cup {NoTrack}]
  BY JobParts DEF Parts, Shape
<1>2. /\ phases' = [phases EXCEPT ![j] = Phase(j)']
      /\ givens' = [givens EXCEPT ![j] = Given(j)']
      /\ phases[j] = Phase(j) /\ givens[j] = Given(j)
  BY OthersStay, OneMoves DEF JobStep
<1>3. /\ at[j] \in {"search", "ask"} /\ (at[j] = "search" => Head(todo[j]) # "spotify")
      /\ todo' = [todo EXCEPT ![j] = Tail(@)] /\ UNCHANGED request
      /\ at'[j] = IF Len(todo[j]) = 1 THEN "done" ELSE "search"
      /\ source'[j] = source[j]
  BY <1>1 DEF Answers, Omits, Answered, Decides, Hitting, SourceLooked, Looked
<1>4. /\ \/ Phase(j) = "searching" /\ Head(todo[j]) # "spotify"
         \/ Phase(j) = "stripped"
      /\ Phase(j)' = IF Len(todo[j]) = 1 THEN "done" ELSE "searching"
      /\ Given(j)' = Given(j)
  BY <1>3, PhaseOf, PhaseNext DEF Given
<1>5. givens' = givens
  BY <1>2, <1>4 DEF givens
<1>6. Apart!Searched(j)
  BY <1>2, <1>3, <1>4, <1>5 DEF Apart!Searched, phases, givens, Given
<1>7. CASE Answers(j)
  <2>1. Apart!Find(j)
    BY <1>6, <1>7 DEF Apart!Find, Answers, Answered
  <2> QED
    BY <2>1 DEF Step, Apart!ConversionsNext
<1>8. CASE Omits(j)
  <2>1. request[j] \notin AllAlone
    BY <1>3, <1>8, Running, RequestData DEF Omits
  <2>2. Apart!Miss(j)
    BY <1>6, <1>8, <2>1 DEF Apart!Miss, Omits
  <2> QED
    BY <2>2 DEF Step, Apart!ConversionsNext
<1> QED
  BY <1>7, <1>8

LEMMA AskApart ==
  ASSUME IInv, NEW j \in Jobs, Ask(j)
  PROVE  Step
<1>1. /\ at \in [Jobs -> Labels] /\ source \in [Jobs -> TrackType \cup {NoTrack}]
      /\ todo \in [Jobs -> Seq(Platforms)]
  BY JobParts DEF Parts, Shape
<1>2. PICK r \in AllRequests :
        /\ request' = [request EXCEPT ![j] = r]
        /\ at' = [at EXCEPT ![j] = IF r.kind = "track" THEN "lookup" ELSE "item"]
  BY DEF Ask, AllRequests
<1>3. /\ source' = [source EXCEPT ![j] = NoTrack]
      /\ todo' = [todo EXCEPT ![j] = <<>>]
      /\ found' = [found EXCEPT ![j] = [p \in {} |-> NoTrack]]
      /\ at[j] \in {"idle", "done"}
  BY DEF Ask, Resting
<1>4. \A k \in Jobs : k # j => at'[k] = at[k] /\ todo'[k] = todo[k] /\ source'[k] = source[k]
  BY <1>1, <1>2, <1>3
<1>5. /\ phases' = [phases EXCEPT ![j] = Phase(j)']
      /\ givens' = [givens EXCEPT ![j] = Given(j)']
      /\ phases[j] = Phase(j) /\ givens[j] = Given(j)
  BY <1>4, OneMoves
<1>6. at'[j] \in {"lookup", "item"}
  BY <1>1, <1>2
<1>7. Phase(j) \in {"idle", "done"} /\ Phase(j)' = "asked" /\ Given(j)' = NoRequest
  BY <1>3, <1>6, PhaseOf, PhaseNext DEF Given, Before
<1>8. Apart!Request(j)
  BY <1>2, <1>3, <1>5, <1>7, NothingFound DEF Apart!Request, Apart!Holds, phases, givens, Given
<1> QED
  BY <1>8 DEF Step, Apart!ConversionsNext

LEMMA CrashApart ==
  ASSUME IInv, Crash
  PROVE  Step
<1>1. /\ at' = [j \in Jobs |-> "idle"] /\ request' = [j \in Jobs |-> NoRequest]
      /\ todo' = [j \in Jobs |-> <<>>] /\ found' = [j \in Jobs |-> [p \in {} |-> NoTrack]]
  BY DEF Crash
<1>2. PICK j \in Jobs : at[j] \notin {"idle", "done"}
  BY DEF Crash, Resting
<1>3. at[j] \in Labels
  BY JobParts DEF Parts, Shape
<1>4. Phase(j) \notin {"idle", "done"}
  BY <1>2, <1>3, PhaseOf DEF Labels, Before
<1>5. \A k \in Jobs : Phase(k)' = "idle" /\ Given(k)' = NoRequest
  BY <1>1, PhaseNext DEF Given
<1>6. Apart!Perish
  BY <1>1, <1>4, <1>5, NothingFound DEF Apart!Perish, Given
<1> QED
  BY <1>6 DEF Step, Apart!ConversionsNext

LEMMA ApartStep == IInv /\ [Next]_vars => [Apart!ConversionsNext]_(Apart!conversionsVars)
<1> SUFFICES ASSUME IInv, [Next]_vars PROVE Step
  BY DEF Step
<1>1. ASSUME NEW j \in Jobs, JobStep(j) PROVE Step
  BY <1>1, EarlyApart, LooksApart, SearchedApart DEF JobStep
<1>2. CASE UNCHANGED jobVars
  BY <1>2, ApartStutters DEF Step
<1> QED
  BY <1>1, <1>2, AskApart, CrashApart, SourceSteps, ItemSteps, SearchSteps DEF Next, Expire, vars

LEMMA ApartInit == Init => Apart!ConversionsInit
<1> SUFFICES ASSUME Init PROVE Apart!ConversionsInit
  OBVIOUS
<1>1. \A j \in Jobs : at[j] = "idle"
  BY DEF Init
<1>2. \A j \in Jobs : Phase(j) = "idle"
  BY <1>1, PhaseOf
<1> QED
  BY <1>1, <1>2, NothingFound DEF Init, Apart!ConversionsInit

\* Whatever the conversions that share the cache do at once, and whatever is or is no
\* longer in it, each of them answers like a conversion that shares nothing: the cache
\* cannot be told from what clients get.
THEOREM Implements_IndependentConversions == Spec => ImplementsIndependentConversions
<1>1. Init => Apart!ConversionsInit
  BY ApartInit
<1>2. IInv /\ [Next]_vars => [Apart!ConversionsNext]_(Apart!conversionsVars)
  BY ApartStep
<1> QED
  BY <1>1, <1>2, Invariant, PTL
     DEF Spec, ImplementsIndependentConversions, Apart!ConversionsSpec
=============================================================================
