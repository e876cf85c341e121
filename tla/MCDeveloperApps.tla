-------------------------- MODULE MCDeveloperApps --------------------------
(***************************************************************************)
(* DeveloperApps with requests and URLs that are interchangeable.           *)
(***************************************************************************)
EXTENDS DeveloperApps, TLC

Symmetry == Permutations(Requests) \cup Permutations(Urls)
=============================================================================
