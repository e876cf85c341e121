----------------------- MODULE IndependentConversions -----------------------
(***************************************************************************)
(* Conversions of single tracks that have nothing to do with each other:   *)
(* no cache, no keys, no Redis.  A request is answered with the source     *)
(* track as its platform gives it and with tracks of its targets' own,     *)
(* found one target after the other; only a request to a single platform   *)
(* fails with its target, and a search on Spotify strips the artist of the *)
(* source track, once.  This is what a client of the conversion may rely   *)
(* on, whatever others convert at the same time or have converted before.  *)
(***************************************************************************)
EXTENDS Naturals, Sequences

CONSTANTS
  Jobs,       \* conversions that may run at once
  Requests,   \* what may be asked for
  TargetsOf,  \* the platforms a request wants searched, in their order
  Readings,   \* the tracks a request's source track may be given as
  Alone,      \* the requests that fail with their target
  Catalog,    \* the tracks of each platform
  Extracted,  \* what Spotify's search makes of an artist
  None        \* no request

VARIABLES phase, request, source, todo, found

conversionsVars == <<phase, request, source, todo, found>>

Nothing == [p \in {} |-> None]

ConversionsInit ==
  /\ phase = [j \in Jobs |-> "idle"]
  /\ request = [j \in Jobs |-> None]
  /\ source = [j \in Jobs |-> None]
  /\ todo = [j \in Jobs |-> <<>>]
  /\ found = [j \in Jobs |-> Nothing]

\* A conversion holds nothing but its request, or not even that.
Holds(j, r) == /\ request' = [request EXCEPT ![j] = r]
               /\ source' = [source EXCEPT ![j] = None]
               /\ todo' = [todo EXCEPT ![j] = <<>>]
               /\ found' = [found EXCEPT ![j] = Nothing]

Request(j) == /\ phase[j] \in {"idle", "done"}
              /\ phase' = [phase EXCEPT ![j] = "asked"]
              /\ \E r \in Requests : Holds(j, r)

\* The source track is there.
Begin(j) == /\ phase[j] = "asked"
            /\ phase' = [phase EXCEPT ![j] = "searching"]
            /\ \E t \in Readings[request[j]] : source' = [source EXCEPT ![j] = t]
            /\ todo' = [todo EXCEPT ![j] = TargetsOf[request[j]]]
            /\ UNCHANGED <<request, found>>

\* The next target's search ends; on Spotify only after it has stripped the artist.
Searched(j) == /\ \/ phase[j] = "searching" /\ Head(todo[j]) # "spotify"
                  \/ phase[j] = "stripped"
               /\ phase' = [phase EXCEPT ![j] = IF Len(todo[j]) = 1 THEN "done" ELSE "searching"]
               /\ todo' = [todo EXCEPT ![j] = Tail(@)]
               /\ UNCHANGED <<request, source>>

Strip(j) == /\ phase[j] = "searching" /\ Head(todo[j]) = "spotify"
            /\ phase' = [phase EXCEPT ![j] = "stripped"]
            /\ source' = [source EXCEPT ![j].artist = Extracted[@]]
            /\ UNCHANGED <<request, todo, found>>

Find(j) == /\ Searched(j)
           /\ \E t \in Catalog[Head(todo[j])] :
                found' = [found EXCEPT ![j] = [p \in DOMAIN @ \cup {Head(todo[j])} |->
                                                 IF p = Head(todo[j]) THEN t ELSE @[p]]]

Miss(j) == /\ Searched(j)
           /\ request[j] \notin Alone
           /\ UNCHANGED found

\* Without its source track a request fails, and one to a single platform without that
\* platform's track.
Fail(j) == /\ \/ phase[j] = "asked"
              \/ phase[j] \in {"searching", "stripped"} /\ request[j] \in Alone
           /\ phase' = [phase EXCEPT ![j] = "idle"]
           /\ Holds(j, None)

\* The process ends with all its conversions, answered ones included.
Perish == /\ \E j \in Jobs : phase[j] \notin {"idle", "done"}
          /\ phase' = [j \in Jobs |-> "idle"]
          /\ request' = [j \in Jobs |-> None]
          /\ source' = [j \in Jobs |-> None]
          /\ todo' = [j \in Jobs |-> <<>>]
          /\ found' = [j \in Jobs |-> Nothing]

ConversionsNext ==
  \/ \E j \in Jobs : Request(j) \/ Begin(j) \/ Strip(j) \/ Find(j) \/ Miss(j) \/ Fail(j)
  \/ Perish

ConversionsSpec == ConversionsInit /\ [][ConversionsNext]_conversionsVars
=============================================================================
