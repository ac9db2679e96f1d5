------------------------- MODULE MC_MultiSliceProofs -------------------------
(***************************************************************************)
(* The inductive invariants of MultiSliceProofs, checked by TLC on the     *)
(* instance of MC_MultiSlice before they were proved.                      *)
(***************************************************************************)
EXTENDS MC_MultiSlice, MultiSliceProofs

=============================================================================
