-------------------------- MODULE MCConversionTask --------------------------
(***************************************************************************)
(* ConversionTask on small instances: the tasks and the instances are      *)
(* interchangeable, so TLC may treat states that differ by a permutation   *)
(* as one when it checks safety.                                           *)
(***************************************************************************)
EXTENDS ConversionTask, TLC

Symmetry == Permutations(Tasks) \cup Permutations(Instances)
=============================================================================
