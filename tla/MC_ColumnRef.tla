---------------------------- MODULE MC_ColumnRef ----------------------------
(***************************************************************************)
(* Instances of ColumnRef for TLC: two threads owning two Columns each, a  *)
(* pool of three ColumnImpls and two contents.                             *)
(***************************************************************************)
EXTENDS ColumnRef

MCOwner == [h \in Handles |-> IF h \in {"h1", "h2"} THEN "t1" ELSE "t2"]

(* Start states in which no ColumnImpl is shared by Columns of different   *)
(* threads: t1's two Columns share i1 (or t1 holds i1 alone), t2 holds i2.  *)
MCInitConfined ==
  { [h \in Handles |-> CASE h \in {"h1", "h2"} -> "i1" [] h = "h3" -> "i2"
                          [] OTHER -> NoImpl],
    [h \in Handles |-> CASE h = "h1" -> "i1" [] h = "h3" -> "i2"
                          [] OTHER -> NoImpl] }

(* One Column of each thread holds the same ColumnImpl i1.                 *)
MCInitShared ==
  {[h \in Handles |-> IF h \in {"h1", "h3"} THEN "i1" ELSE NoImpl]}

MCSizeMod == 8
=============================================================================
