-------------------------- MODULE MC_SelectorProofs --------------------------
(***************************************************************************)
(* The inductive invariant of SelectorProofs, checked by TLC on the        *)
(* instance of MC_Selector.                                                *)
(***************************************************************************)
EXTENDS MC_Selector, SelectorProofs

=============================================================================
