---------------------------- MODULE MC_MultiSlice ----------------------------
(***************************************************************************)
(* Instances of MultiSlice for TLC: small lists of items over frames of 0  *)
(* to 3 rows, with slice bounds up to SliceMax = 4 and NA = -100.          *)
(***************************************************************************)
EXTENDS MultiSlice

MCNA == -100
MCSliceMax == 4
MCSizeMod == 256
MCMaxAlloc == 32

Int_(v) == [kind |-> "int", start |-> v, stop |-> 0, step |-> 0, numeric |-> TRUE]
Range_(a, b, s) == [kind |-> "range", start |-> a, stop |-> b, step |-> s, numeric |-> TRUE]
Slice_(a, b, s) == [kind |-> "slice", start |-> a, stop |-> b, step |-> s, numeric |-> TRUE]
Other_ == [kind |-> "other", start |-> 0, stop |-> 0, step |-> 0, numeric |-> FALSE]
NonNumericSlice == [Other_ EXCEPT !.kind = "slice"]

(* Lists of at most two items drawn from `its`.                             *)
ListsOf(its) == UNION {[1..len -> its] : len \in 0..2}

(* Every kind of item, each path of the constructor and of both passes.   *)
AllItems ==
  { Int_(-2), Int_(0), Int_(2),
    Range_(0, 3, 1), Range_(1, -1, 1), Range_(-3, -1, 1), Range_(2, -1, -1),
    Range_(-1, -4, -1), Range_(0, 4, 3), Range_(-1, 2, 1), Range_(-2, 0, 1),
    Slice_(MCNA, MCNA, MCNA), Slice_(1, MCNA, 2), Slice_(-2, MCNA, 1),
    Slice_(MCNA, MCNA, -1), Slice_(2, 3, 0), Slice_(-1, MCNA, 0),
    NonNumericSlice, Other_ }

MCSelectorsAll == ListsOf(AllItems)
MCNRowsAll == 0..3

(* Zero-step slices and reversed slices only.                               *)
MCSelectorsFill == ListsOf({Slice_(1, 2, 0), Slice_(MCNA, MCNA, -1)})

(* A descending range whose computed stop is -1: range(2, -1, -1).        *)
MCSelectorsRangeStop == ListsOf({Range_(2, -1, -1)})

(* A range ending at 0 from a negative start, next to an int, against 3   *)
(* rows: the wrapped start lies past the unwrapped stop 0.                 *)
MCSelectorsNegCount == ListsOf({Int_(0), Range_(-2, 0, 1)})
MCNRowsThree == {3}

(* range(0, 1) against an empty frame.                                      *)
MCSelectorsZeroRange == ListsOf({Range_(0, 1, 1)})
MCNRowsZero == {0}

(* Reversed slices starting at the row count.                               *)
MCSelectorsReverse == ListsOf({Slice_(2, MCNA, -1)})
MCNRowsTwo == {2}

(* An empty range followed by an invalid item.                              *)
MCSelectorsErrorIndex == ListsOf({Range_(3, 1, 1), Other_})

=============================================================================
