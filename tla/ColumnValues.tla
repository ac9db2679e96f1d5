---------------------------- MODULE ColumnValues ----------------------------
(***************************************************************************)
(* What a Column handle promises its user (spec 4.2, "Ownership/lifecycle"):*)
(* a Column is a value.  Copying a Column gives the copy the same value,   *)
(* dropping it ends it, and casting, transforming or editing it changes    *)
(* that Column alone: no step taken through one handle changes what any    *)
(* other handle sees, however the handles share their storage.            *)
(***************************************************************************)
CONSTANTS
  Handles,   \* the Column objects of the program
  Vals,      \* the logical contents a column may have
  NoVal      \* an empty Column (no ColumnImpl)

VARIABLE val   \* val[h]: the contents seen through handle h

TypeOK == val \in [Handles -> Vals \cup {NoVal}]

Init == TypeOK

(* Column(const Column& other).                                            *)
Copy(src, dst) ==
  /\ val[src] # NoVal /\ val[dst] = NoVal
  /\ val' = [val EXCEPT ![dst] = val[src]]

(* ~Column().                                                              *)
Drop(h) ==
  /\ val[h] # NoVal
  /\ val' = [val EXCEPT ![h] = NoVal]

(* Any operation that gives handle h new contents.                         *)
Set(h, v) ==
  /\ val' = [val EXCEPT ![h] = v]

Next ==
  \/ \E src, dst \in Handles : Copy(src, dst)
  \/ \E h \in Handles : Drop(h)
  \/ \E h \in Handles, v \in Vals : Set(h, v)

Spec == Init /\ [][Next]_val

=============================================================================
