---------------------------- MODULE MCCsiVolumes ----------------------------
(***************************************************************************)
(* The instances of CsiVolumes that TLC checks.                              *)
(***************************************************************************)
EXTENDS CsiVolumes, TLC
CONSTANTS v1, v2, s1, s2, d1, d2, d3

\* Handlers are alike, and so are deployments.
Symmetry == Permutations(Slots) \cup Permutations(Deployments)
=============================================================================
