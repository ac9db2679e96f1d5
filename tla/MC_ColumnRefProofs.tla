------------------------ MODULE MC_ColumnRefProofs --------------------------
(***************************************************************************)
(* The ColumnRef instance of MC_ColumnRef, checking the proof's inductive  *)
(* strengthening IInv as an invariant.                                     *)
(***************************************************************************)
EXTENDS MC_ColumnRef, ColumnRefProofs
=============================================================================
