-------------------------- MODULE MCUnikernelRuntime --------------------------
(***************************************************************************)
(* A small instance of UnikernelRuntime: two deployments and one undeployment *)
(* of one task.                                                              *)
(***************************************************************************)
EXTENDS UnikernelRuntime
CONSTANTS t1, d1, d2, u1

OneTask == [m \in Deployments \cup Undeployments |-> t1]
===============================================================================
