------------------------ MODULE MC_ConstructProofs -------------------------
(***************************************************************************)
(* The constructor invariant of ConstructProofs, checked by TLC on the     *)
(* instance of MC_MultiSlice before it was proved.                         *)
(***************************************************************************)
EXTENDS MC_MultiSlice, ConstructProofs

=============================================================================
