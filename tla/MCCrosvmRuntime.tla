--------------------------- MODULE MCCrosvmRuntime ----------------------------
(***************************************************************************)
(* Small instances of CrosvmRuntime.                                        *)
(***************************************************************************)
EXTENDS CrosvmRuntime
CONSTANT a
===============================================================================
