----------------------------- MODULE MCClusterJobs -----------------------------
(***************************************************************************)
(* Small instances of ClusterJobs.                                          *)
(***************************************************************************)
EXTENDS ClusterJobs, TLC

CONSTANTS i1, i2, n1, n2, th1, th2

\* Instances, workers and threads are interchangeable (not used with liveness).
Symmetry == Permutations(Instances) \cup Permutations(Nodes) \cup Permutations(Threads)
===============================================================================
