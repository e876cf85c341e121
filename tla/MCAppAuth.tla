----------------------------- MODULE MCAppAuth -----------------------------
(***************************************************************************)
(* AppAuth with two apps, of which one lacks credentials of a platform, and *)
(* rows of the first user from before expires_in was added.                *)
(***************************************************************************)
EXTENDS AppAuth, TLC

CONSTANTS u1, u2, a1, a2

MCIntegrated == {<<a1, p>> : p \in Platforms} \cup {<<a2, "tidal">>}
MCLegacyRows == ("old1" :> [user |-> u1, app |-> a1, platform |-> "deezer"])
             @@ ("old2" :> [user |-> u1, app |-> a1, platform |-> "applemusic"])
=============================================================================
