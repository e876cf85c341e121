------------------------ MODULE SequentialConversion ------------------------
(***************************************************************************)
(* The conversion of a playlist as one loop, with no goroutines, channel,  *)
(* WaitGroup, pages or platforms in it: what the handler that calls        *)
(* AsynqConvertPlaylist and the subscriber of its events may rely on. The  *)
(* playlist is read before its first track is told of; tracks are          *)
(* converted or omitted one by one in the playlist's order, each with its  *)
(* event; the done event ends the loop when all tracks that were read are  *)
(* done with.  On a platform that loses what it reads the playlist is an   *)
(* empty one, however many tracks it has.  An error comes before the first *)
(* event or after the last, and a failure in between takes the whole       *)
(* process along.                                                          *)
(***************************************************************************)
EXTENDS Naturals, Sequences

CONSTANT WebhooksMayFail

VARIABLES
  within,      \* is it a conversion within one platform
  lossy,       \* is it from a platform whose tracks are lost once they are read
  phase,       \* where the conversion is
  read,        \* tracks read
  handled,     \* tracks converted or omitted
  converted,   \* the tracks converted, by their position
  omitted,     \* the tracks omitted
  feed,        \* the events that were accepted
  refused,     \* has an event been refused
  answer       \* what the caller gets

conversionVars == <<within, lossy, phase, read, handled, converted, omitted, feed,
                    refused, answer>>

NoAnswer == [source |-> <<>>, target |-> <<>>]

ConversionInit ==
  /\ within \in BOOLEAN /\ lossy \in BOOLEAN
  /\ phase = "new"
  /\ read = 0 /\ handled = 0
  /\ converted = <<>> /\ omitted = <<>>
  /\ feed = <<>> /\ refused = FALSE
  /\ answer = NoAnswer

Tell(type, track) ==
  \/ feed' = Append(feed, [type |-> type, track |-> track]) /\ UNCHANGED refused
  \/ WebhooksMayFail /\ refused' = TRUE /\ UNCHANGED feed

\* The playlist is there: its metadata is told.
Begin == /\ phase = "new"
         /\ phase' = "converting"
         /\ Tell("metadata", 0)
         /\ UNCHANGED <<within, lossy, read, handled, converted, omitted, answer>>

\* More of the playlist is read.
Read == /\ phase = "converting" /\ handled = 0
        /\ read' \in Nat /\ read' >= read
        /\ UNCHANGED <<within, lossy, phase, handled, converted, omitted, feed, refused, answer>>

\* The next track is found on the target, or is not.
Convert == /\ phase = "converting" /\ ~lossy /\ handled < read
           /\ handled' = handled + 1
           /\ converted' = Append(converted, handled + 1)
           /\ Tell("track", handled + 1)
           /\ UNCHANGED <<within, lossy, phase, read, omitted, answer>>

Omit == /\ phase = "converting" /\ ~lossy /\ handled < read
        /\ handled' = handled + 1
        /\ omitted' = Append(omitted, handled + 1)
        /\ Tell("missing", handled + 1)
        /\ UNCHANGED <<within, lossy, phase, read, converted, answer>>

\* All tracks that were read are done with, or are lost.
Finish == /\ phase = "converting"
          /\ lossy \/ handled = read
          /\ phase' = "told"
          /\ Tell("done", 0)
          /\ UNCHANGED <<within, lossy, read, handled, converted, omitted, answer>>

\* The caller gets the tracks handled and those converted; a conversion within one
\* platform keeps the latter only.
Return == /\ phase = "told"
          /\ phase' = "returned"
          /\ answer' = [source |-> IF within THEN converted ELSE [i \in 1 .. handled |-> i],
                        target |-> converted]
          /\ UNCHANGED <<within, lossy, read, handled, converted, omitted, feed, refused>>

\* The caller gets an error, or a panic that asynq recovers.
Stop == /\ phase' \in IF phase = "new" THEN {"failed", "panicked"} ELSE {"failed"}
        /\ phase \in {"new", "told"}
        /\ UNCHANGED <<within, lossy, read, handled, converted, omitted, feed, refused, answer>>

\* The process ends, and the conversion with it.
Perish == /\ phase # "dead"
          /\ phase' = "dead"
          /\ UNCHANGED <<within, lossy, read, handled, converted, omitted, feed, refused, answer>>

ConversionNext == \/ Begin \/ Read \/ Convert \/ Omit \/ Finish
                  \/ Return \/ Stop \/ Perish

ConversionSpec == ConversionInit /\ [][ConversionNext]_conversionVars
=============================================================================
