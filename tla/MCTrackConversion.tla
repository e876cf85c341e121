------------------------- MODULE MCTrackConversion -------------------------
(***************************************************************************)
(* TrackConversion for an artist the platforms write in two ways and whose *)
(* third, normalized, spelling is one that somebody writes too.  Deezer    *)
(* writes the artist in lower case throughout.                             *)
(***************************************************************************)
EXTENDS TrackConversion, TLC

Track(id, artist, title) == [id |-> id, artist |-> artist, title |-> title]

MCNames       == {"A B", "AB", "ab"}
MCTitles      == {"song", "other"}
MCCatalog     == [p \in Platforms |->
                    IF p = "deezer" THEN {Track("11", "ab", "song"), Track("12", "ab", "other")}
                    ELSE {Track("1", "A B", "song"), Track("2", "ab", "other")}]
MCAlbumArtist == [t \in MCTitles |-> IF t = "song" THEN "A B" ELSE "ab"]
MCFeatured    == [t \in MCTitles |-> {}]
MCNormalized  == [n \in MCNames |-> "ab"]
MCExtracted   == [n \in MCNames |-> IF n = "A B" THEN "AB" ELSE n]

\* The conversions are alike; the properties are safety ones.
JobSymmetry   == Permutations(Jobs)
=============================================================================
