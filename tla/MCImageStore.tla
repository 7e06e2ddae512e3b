---------------------------- MODULE MCImageStore ------------------------------
(***************************************************************************)
(* Small instances of ImageStore: one image with and without an initrd.      *)
(***************************************************************************)
EXTENDS ImageStore
CONSTANTS r1, v1, v2, c1, c2, c3
===============================================================================
