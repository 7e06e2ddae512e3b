-------------------------- MODULE MCContainerRuntime --------------------------
(***************************************************************************)
(* Small instances of ContainerRuntime: the messages d1, d2 and u1 are      *)
(* about the first task, d3 and u2 about it too or about a second one.      *)
(***************************************************************************)
EXTENDS ContainerRuntime, TLC

CONSTANTS t1, t2, d1, d2, d3, u1, u2

\* Every message of the instance is about t1.
OneTask == [m \in Deployments \cup Undeployments |-> t1]

\* With one task the messages of each kind are interchangeable (used with
\* invariants only).
Symmetry == Permutations(Deployments) \cup Permutations(Undeployments)

\* d1 and u1 are about t1, the other messages about t2.
TwoTasks == [m \in Deployments \cup Undeployments |-> IF m \in {d1, u1} THEN t1 ELSE t2]
===============================================================================
