------------------------------ MODULE MCRootJobs ------------------------------
(***************************************************************************)
(* Small instances of RootJobs.                                             *)
(***************************************************************************)
EXTENDS RootJobs, TLC

CONSTANTS c1, c2

\* Clusters are interchangeable (not used with liveness).
Symmetry == Permutations(Clusters)
===============================================================================
