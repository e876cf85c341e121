----------------------- MODULE MCPlaylistConversion -----------------------
(***************************************************************************)
(* PlaylistConversion for every pair of platforms and every playlist of at *)
(* most MaxTracks tracks, read in pages of PageSize.                       *)
(***************************************************************************)
EXTENDS PlaylistConversion
=============================================================================
