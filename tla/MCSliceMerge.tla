---------------------------- MODULE MCSliceMerge -----------------------------
(***************************************************************************)
(* Finite instances of SliceMerge: all pairs of short lists.               *)
(***************************************************************************)
EXTENDS SliceMerge
=============================================================================
