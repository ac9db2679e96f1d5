-------------------------- MODULE MultiSliceProofs --------------------------
(***************************************************************************)
(* Proofs about the multislice selector node, for every value of the      *)
(* constants of MultiSlice.                                                *)
(***************************************************************************)
EXTENDS MultiSlice, SequenceTheorems, TLAPS

(***************************************************************************)
(* TypeOK is not inductive by itself: the fill-loop actions read          *)
(* items[pos] with only `loop` in their guard, so the invariant must say   *)
(* that a running loop is over a stored item of the fill pass.             *)
(***************************************************************************)
LoopInv == loop => phase = "fill" /\ pos \in 1..Len(items)

(* CountRange divides by the step of a stored range.                       *)
RangeStepOK(s) == \A q \in DOMAIN s : s[q].kind = "range" => s[q].step # 0

RangeStepInv == RangeStepOK(items)

(* The inductive invariant behind TypeCorrect: the types of the node's    *)
(* state, a fill loop only over a stored item, and a stored range never    *)
(* with step 0, so that the count pass of execute never divides by zero.   *)
IInv == TypeOK /\ LoopInv /\ RangeStepInv

(***************************************************************************)
(* IntItemsInBounds rests on the estimate of the constructor: an int item  *)
(* not yet normalised needs at most maxNrows rows, and once               *)
(* post_init_check has passed the frame has at least maxNrows rows.        *)
(***************************************************************************)
RawItem(q) == phase \in {"construct", "check"} \/ (phase = "count" /\ q >= pos)

WrappedItem(q) == phase \in {"fill", "done"} \/ (phase = "count" /\ q < pos)

(* Every int item the constructor stored needs at most min_nrows rows      *)
(* until execute wraps it, after which it is a row of the frame, and once   *)
(* post_init_check has passed the frame has at least min_nrows rows.        *)
IntInv ==
  /\ phase \in {"count", "fill", "done"} => maxNrows <= nrows
  /\ \A q \in DOMAIN items :
       items[q].kind = "int" =>
         /\ RawItem(q) => IntRowsNeeded(items[q].start) <= maxNrows
         /\ WrappedItem(q) => items[q].start \in 0..(nrows - 1)

(* The item vector after execute has stored the wrapped bounds of item p.  *)
Normalised(s, p, u, v) == [s EXCEPT ![p].start = u, ![p].stop = v]

-----------------------------------------------------------------------------
(* Helpers on the operators the actions are built from.                    *)

LEMMA CDivInt ==
  ASSUME NEW a \in Int, NEW b \in Int \ {0}
  PROVE  CDiv(a, b) \in Int
BY DEF CDiv, AbsVal

LEMMA RangeCountInt ==
  ASSUME NEW a \in Int, NEW b \in Int, NEW s \in Int \ {0}
  PROVE  RangeCount(a, b, s) \in Int /\ RangeLast(a, b, s) \in Int
<1>1. CDiv(b - a + s - 1, s) \in Int /\ CDiv(a - b - s - 1, -s) \in Int
  BY CDivInt
<1>2. RangeCount(a, b, s) \in Int
  BY <1>1 DEF RangeCount
<1>. QED
  BY <1>2 DEF RangeLast

LEMMA SliceCountInt ==
  ASSUME NEW a \in Int, NEW b \in Int, NEW s \in Int
  PROVE  SliceCount(a, b, s) \in Int
<1>1. s > 0 => CDiv(b - a + s - 1, s) \in Int
  BY CDivInt
<1>2. s < 0 => CDiv(a - b - s - 1, -s) \in Int
  BY CDivInt
<1>. QED
  BY <1>1, <1>2 DEF SliceCount

LEMMA SizeAddRange ==
  ASSUME NEW t \in Int, NEW x \in Int
  PROVE  SizeAdd(t, x) \in 0..(SizeMod - 1)
BY SizeAssumption DEF SizeAdd

LEMMA SelItem ==
  ASSUME TypeOK, pos \in 1..Len(sel)
  PROVE  sel[pos] \in ItemIn
BY SelectorsAssumption, ElementOfSeq DEF TypeOK

LEMMA StoredItem ==
  ASSUME TypeOK, pos \in 1..Len(items)
  PROVE  items[pos] \in VecItem
BY ElementOfSeq DEF TypeOK

LEMMA AppendItem ==
  ASSUME NEW s \in Seq(VecItem), RangeStepOK(s),
         NEW x \in VecItem, x.kind = "range" => x.step # 0
  PROVE  Append(s, x) \in Seq(VecItem) /\ RangeStepOK(Append(s, x))
BY AppendProperties DEF RangeStepOK

(* Normalising the bounds of a stored item keeps its kind and step.        *)
LEMMA NormaliseItem ==
  ASSUME NEW s \in Seq(VecItem), RangeStepOK(s), NEW p \in 1..Len(s),
         NEW u \in Int, NEW v \in Int
  PROVE  /\ Normalised(s, p, u, v) \in Seq(VecItem)
         /\ RangeStepOK(Normalised(s, p, u, v))
         /\ Len(Normalised(s, p, u, v)) = Len(s)
<1>1. s[p] \in VecItem
  BY ElementOfSeq
<1>2. [s[p] EXCEPT !.start = u, !.stop = v] \in VecItem
  BY <1>1 DEF VecItem
<1>3. Normalised(s, p, u, v) = [s EXCEPT ![p] = [s[p] EXCEPT !.start = u, !.stop = v]]
  BY DEF Normalised
<1>4. /\ [s EXCEPT ![p] = [s[p] EXCEPT !.start = u, !.stop = v]] \in Seq(VecItem)
      /\ Len([s EXCEPT ![p] = [s[p] EXCEPT !.start = u, !.stop = v]]) = Len(s)
  BY <1>2, ExceptSeq
<1>5. RangeStepOK([s EXCEPT ![p] = [s[p] EXCEPT !.start = u, !.stop = v]])
  BY <1>1 DEF RangeStepOK, VecItem
<1>. QED
  BY <1>3, <1>4, <1>5

(* The same for the start alone.                                           *)
LEMMA NormaliseStart ==
  ASSUME NEW s \in Seq(VecItem), RangeStepOK(s), NEW p \in 1..Len(s),
         NEW u \in Int
  PROVE  /\ [s EXCEPT ![p].start = u] \in Seq(VecItem)
         /\ RangeStepOK([s EXCEPT ![p].start = u])
         /\ Len([s EXCEPT ![p].start = u]) = Len(s)
<1>1. s[p] \in VecItem
  BY ElementOfSeq
<1>2. [s[p] EXCEPT !.start = u] \in VecItem
  BY <1>1 DEF VecItem
<1>3. [s EXCEPT ![p].start = u] = [s EXCEPT ![p] = [s[p] EXCEPT !.start = u]]
  OBVIOUS
<1>4. /\ [s EXCEPT ![p] = [s[p] EXCEPT !.start = u]] \in Seq(VecItem)
      /\ Len([s EXCEPT ![p] = [s[p] EXCEPT !.start = u]]) = Len(s)
  BY <1>2, ExceptSeq
<1>5. RangeStepOK([s EXCEPT ![p] = [s[p] EXCEPT !.start = u]])
  BY <1>1 DEF RangeStepOK, VecItem
<1>. QED
  BY <1>3, <1>4, <1>5

(* The allocated slots never written, as a sequence.                       *)
LEMMA PadIsSeq ==
  ASSUME NEW m \in Int
  PROVE  [t \in 1..m |-> Uninit] \in Seq(Int \cup {Uninit})
<1> DEFINE n == IF m >= 0 THEN m ELSE 0
<1>1. n \in Nat /\ 1..m = 1..n
  OBVIOUS
<1>2. [t \in 1..m |-> Uninit] \in [1..n -> Int \cup {Uninit}]
  BY <1>1
<1>. QED
  BY <1>1, <1>2, SeqDef

-----------------------------------------------------------------------------
LEMMA InitIInv == Init => IInv
<1> SUFFICES ASSUME Init PROVE IInv
  OBVIOUS
<1>1. << >> \in Seq(VecItem) /\ << >> \in Seq(Int) /\ << >> \in Seq(Int \cup {Uninit})
  BY EmptySeq
<1>2. NoErr \in Err
  BY DEF NoErr, Err, ErrKinds
<1>3. TypeOK
  <2>1. sel \in Selectors /\ nrows \in NRowsSet /\ phase \in Phases
    BY DEF Init, Phases
  <2>2. pos \in Nat \ {0} /\ i \in Nat /\ maxNrows \in Nat /\ k \in Int
    BY DEF Init
  <2>3. total \in 0..(SizeMod - 1)
    BY SizeAssumption DEF Init
  <2>4. loop \in BOOLEAN
    BY DEF Init
  <2>5. items \in Seq(VecItem) /\ out \in Seq(Int) /\ result \in Seq(Int \cup {Uninit})
    BY <1>1 DEF Init
  <2>6. err \in Err
    BY <1>2 DEF Init
  <2>. QED
    BY <2>1, <2>2, <2>3, <2>4, <2>5, <2>6 DEF TypeOK
<1>4. LoopInv /\ RangeStepInv
  BY DEF Init, LoopInv, RangeStepInv, RangeStepOK
<1>. QED
  BY <1>3, <1>4 DEF IInv


-----------------------------------------------------------------------------
(***************************************************************************)
(* Every step preserves IInv: one case per action of Next.                 *)
(***************************************************************************)
LEMMA NextIInv == IInv /\ [Next]_vars => IInv'
<1> SUFFICES ASSUME IInv, [Next]_vars PROVE IInv'
  OBVIOUS
<1>0. /\ TypeOK /\ LoopInv /\ RangeStepInv
      /\ Len(sel) \in Nat /\ Len(items) \in Nat
      /\ NoErr \in Err
  BY SelectorsAssumption, LenProperties DEF IInv, TypeOK, NoErr, Err, ErrKinds
<1>a. nrows \in Nat /\ maxNrows \in Nat /\ pos \in Nat \ {0}
  BY <1>0, NRowsAssumption DEF TypeOK
<1>b. items \in Seq(VecItem) /\ total \in 0..(SizeMod - 1)
  BY <1>0 DEF TypeOK
<1> USE DEF IInv
<1>1. CASE ConstructInt
  <2>1. sel[pos] \in ItemIn
    BY <1>0, <1>1, SelItem DEF ConstructInt, ConstructStep
  <2>2. [kind |-> "int", start |-> sel[pos].start, stop |-> 0, step |-> 0] \in VecItem
    BY <2>1 DEF ItemIn, VecItem
  <2>3. MaxOf(maxNrows, IntRowsNeeded(sel[pos].start)) \in Nat
    <3>1. sel[pos].start \in Int
      BY <2>1 DEF ItemIn
    <3>2. maxNrows \in Nat
      BY <1>0 DEF TypeOK
    <3>. QED
      BY <3>1, <3>2 DEF MaxOf, IntRowsNeeded
  <2>. QED
    BY <1>0, <1>1, <2>2, <2>3, AppendItem
       DEF ConstructInt, ConstructStep, TypeOK, LoopInv, RangeStepInv
<1>2. CASE ConstructRangeEmpty
  BY <1>0, <1>2 DEF ConstructRangeEmpty, ConstructStep, TypeOK, LoopInv, RangeStepInv
<1>3. CASE ConstructRangeWrapError
  BY <1>0, <1>3 DEF ConstructRangeWrapError, ConstructStep, Raise, TypeOK,
                    LoopInv, RangeStepInv, Phases, Err, ErrKinds
<1>4. CASE ConstructRange
  <2> DEFINE r == sel[pos]
             count == RangeCount(r.start, r.stop, r.step)
             last == RangeLast(r.start, r.stop, r.step)
  <2>1. r \in ItemIn /\ r.kind = "range" /\ pos \in 1..Len(sel)
    BY <1>0, <1>4, SelItem DEF ConstructRange, ConstructStep
  <2>2. r.step # 0
    BY <2>1, <1>0, SelectorsAssumption, LenProperties DEF TypeOK
  <2>3. count \in Int /\ last \in Int
    <3>1. r.start \in Int /\ r.stop \in Int /\ r.step \in Int
      BY <2>1 DEF ItemIn
    <3>. QED
      BY <3>1, <2>2, RangeCountInt
  <2>4. [kind |-> "range", start |-> r.start, stop |-> r.start + count * r.step,
         step |-> r.step] \in VecItem
    BY <2>1, <2>3 DEF ItemIn, VecItem
  <2>5. MaxOf(MaxOf(maxNrows, RangeRowsNeeded(r.start)), RangeRowsNeeded(last)) \in Nat
    <3>1. r.start \in Int
      BY <2>1 DEF ItemIn
    <3>. QED
      BY <1>a, <2>3, <3>1 DEF MaxOf, RangeRowsNeeded
  <2>. QED
    BY <1>0, <1>4, <2>2, <2>4, <2>5, AppendItem
       DEF ConstructRange, ConstructStep, TypeOK, LoopInv, RangeStepInv
<1>5. CASE ConstructSliceNonNumeric
  BY <1>0, <1>5 DEF ConstructSliceNonNumeric, ConstructStep, Raise, TypeOK,
                    LoopInv, RangeStepInv, Phases, Err, ErrKinds
<1>6. CASE ConstructSliceZeroStepError
  BY <1>0, <1>6 DEF ConstructSliceZeroStepError, ConstructStep, Raise, TypeOK,
                    LoopInv, RangeStepInv, Phases, Err, ErrKinds
<1>7. CASE ConstructSlice
  <2>1. sel[pos] \in ItemIn
    BY <1>0, <1>7, SelItem DEF ConstructSlice, ConstructStep
  <2>2. SliceDefaults(sel[pos]) \in VecItem /\ SliceDefaults(sel[pos]).kind = "slice"
    BY <2>1, SliceMaxAssumption DEF SliceDefaults, ItemIn, VecItem
  <2>. QED
    BY <1>0, <1>7, <2>2, AppendItem
       DEF ConstructSlice, ConstructStep, TypeOK, LoopInv, RangeStepInv
<1>8. CASE ConstructOther
  BY <1>0, <1>8 DEF ConstructOther, ConstructStep, Raise, TypeOK,
                    LoopInv, RangeStepInv, Phases, Err, ErrKinds
<1>9. CASE ConstructDone
  BY <1>0, <1>9 DEF ConstructDone, TypeOK, LoopInv, RangeStepInv, Phases
<1>10. CASE PostInitCheckFail
  BY <1>0, <1>10 DEF PostInitCheckFail, Raise, TypeOK, LoopInv, RangeStepInv,
                     Phases, Err, ErrKinds
<1>11. CASE PostInitCheckPass
  BY <1>0, <1>11 DEF PostInitCheckPass, TypeOK, LoopInv, RangeStepInv, Phases
<1>12. CASE CountInt
  <2>1. pos \in 1..Len(items)
    BY <1>12 DEF CountInt, CountStep
  <2>2. items[pos] \in VecItem
    BY <1>b, <2>1, ElementOfSeq
  <2>3. Wrap(items[pos].start, nrows) \in Int
    BY <1>a, <2>2 DEF Wrap, VecItem
  <2>4. /\ items' \in Seq(VecItem) /\ RangeStepOK(items')
        /\ Len(items') = Len(items)
    <3>1. items' = [items EXCEPT ![pos].start = Wrap(items[pos].start, nrows)]
      BY <1>12 DEF CountInt
    <3>2. RangeStepOK(items)
      BY <1>0 DEF RangeStepInv
    <3>3. /\ [items EXCEPT ![pos].start = Wrap(items[pos].start, nrows)] \in Seq(VecItem)
          /\ RangeStepOK([items EXCEPT ![pos].start = Wrap(items[pos].start, nrows)])
          /\ Len([items EXCEPT ![pos].start = Wrap(items[pos].start, nrows)]) = Len(items)
      BY <1>b, <2>1, <2>3, <3>2, NormaliseStart
    <3>. QED
      BY <3>1, <3>3
  <2>5. total' \in 0..(SizeMod - 1)
    BY <1>b, <1>12, SizeAddRange DEF CountInt
  <2>. QED
    BY <1>0, <1>12, <2>4, <2>5 DEF CountInt, CountStep, TypeOK, LoopInv, RangeStepInv
<1>13. CASE CountRange
  <2> DEFINE it == items[pos]
             a == Wrap(it.start, nrows)
             b == Wrap(it.stop, nrows)
  <2>1. pos \in 1..Len(items) /\ it.kind = "range"
    BY <1>13 DEF CountRange, CountStep
  <2>2. it \in VecItem
    BY <1>b, <2>1, ElementOfSeq
  <2>3. it.step # 0
    BY <1>0, <2>1 DEF RangeStepInv, RangeStepOK
  <2>4. a \in Int /\ b \in Int /\ it.step \in Int
    BY <1>a, <2>2 DEF Wrap, VecItem
  <2>5. CDiv(b - a, it.step) \in Int
    BY <2>3, <2>4, CDivInt
  <2>6. total' \in 0..(SizeMod - 1)
    BY <1>b, <1>13, <2>5, SizeAddRange DEF CountRange
  <2>7. /\ items' \in Seq(VecItem) /\ RangeStepOK(items')
        /\ Len(items') = Len(items)
    <3>1. items' = Normalised(items, pos, a, b)
      BY <1>13 DEF CountRange, Normalised
    <3>2. RangeStepOK(items)
      BY <1>0 DEF RangeStepInv
    <3>3. /\ Normalised(items, pos, a, b) \in Seq(VecItem)
          /\ RangeStepOK(Normalised(items, pos, a, b))
          /\ Len(Normalised(items, pos, a, b)) = Len(items)
      BY <1>b, <2>1, <2>4, <3>2, NormaliseItem
    <3>. QED
      BY <3>1, <3>3
  <2>. QED
    BY <1>0, <1>13, <2>6, <2>7 DEF CountRange, CountStep, TypeOK, LoopInv, RangeStepInv
<1>14. CASE CountSliceSkip
  <2>1. pos \in 1..Len(items)
    BY <1>14 DEF CountSliceSkip, CountStep
  <2>2. items[pos] \in VecItem
    BY <1>b, <2>1, ElementOfSeq
  <2>3. SliceStart(items[pos].start, nrows) \in Int
    BY <1>a, <2>2 DEF SliceStart, MaxOf, Wrap, VecItem
  <2>4. /\ items' \in Seq(VecItem) /\ RangeStepOK(items')
        /\ Len(items') = Len(items)
    <3>1. items' = [items EXCEPT ![pos].start = SliceStart(items[pos].start, nrows)]
      BY <1>14 DEF CountSliceSkip
    <3>2. RangeStepOK(items)
      BY <1>0 DEF RangeStepInv
    <3>3. /\ [items EXCEPT ![pos].start = SliceStart(items[pos].start, nrows)] \in Seq(VecItem)
          /\ RangeStepOK([items EXCEPT ![pos].start = SliceStart(items[pos].start, nrows)])
          /\ Len([items EXCEPT ![pos].start = SliceStart(items[pos].start, nrows)]) = Len(items)
      BY <1>b, <2>1, <2>3, <3>2, NormaliseStart
    <3>. QED
      BY <3>1, <3>3
  <2>. QED
    BY <1>0, <1>14, <2>4 DEF CountSliceSkip, CountStep, TypeOK, LoopInv, RangeStepInv
<1>15. CASE CountSlice
  <2> DEFINE it == items[pos]
             a == SliceStart(it.start, nrows)
             b == SliceStop(it.stop, nrows)
  <2>1. pos \in 1..Len(items)
    BY <1>15 DEF CountSlice, CountStep
  <2>2. it \in VecItem
    BY <1>b, <2>1, ElementOfSeq
  <2>3. a \in Int /\ b \in Int /\ it.step \in Int
    BY <1>a, <2>2 DEF SliceStart, SliceStop, MaxOf, Wrap, VecItem
  <2>4. SliceCount(a, b, it.step) \in Int
    BY <2>3, SliceCountInt
  <2>5. total' \in 0..(SizeMod - 1)
    BY <1>b, <1>15, <2>4, SizeAddRange DEF CountSlice
  <2>6. /\ items' \in Seq(VecItem) /\ RangeStepOK(items')
        /\ Len(items') = Len(items)
    <3>1. items' = Normalised(items, pos, a, b)
      BY <1>15 DEF CountSlice, Normalised
    <3>2. RangeStepOK(items)
      BY <1>0 DEF RangeStepInv
    <3>3. /\ Normalised(items, pos, a, b) \in Seq(VecItem)
          /\ RangeStepOK(Normalised(items, pos, a, b))
          /\ Len(Normalised(items, pos, a, b)) = Len(items)
      BY <1>b, <2>1, <2>3, <3>2, NormaliseItem
    <3>. QED
      BY <3>1, <3>3
  <2>. QED
    BY <1>0, <1>15, <2>5, <2>6 DEF CountSlice, CountStep, TypeOK, LoopInv, RangeStepInv
<1>16. CASE AllocateFail
  BY <1>0, <1>16 DEF AllocateFail, Raise, TypeOK, LoopInv, RangeStepInv,
                     Phases, Err, ErrKinds
<1>17. CASE Allocate
  BY <1>0, <1>17 DEF Allocate, TypeOK, LoopInv, RangeStepInv, Phases
<1>18. CASE FillInt
  <2>1. items[pos] \in VecItem
    BY <1>0, <1>18, StoredItem DEF FillInt
  <2>2. Append(out, items[pos].start) \in Seq(Int)
    BY <1>0, <2>1, AppendProperties DEF TypeOK, VecItem
  <2>. QED
    BY <1>0, <1>18, <2>2 DEF FillInt, TypeOK, LoopInv, RangeStepInv
<1>19. CASE FillLoopEnter
  <2>1. items[pos] \in VecItem
    BY <1>0, <1>19, StoredItem DEF FillLoopEnter
  <2>. QED
    BY <1>0, <1>19, <2>1 DEF FillLoopEnter, TypeOK, LoopInv, RangeStepInv, VecItem
<1>20. CASE FillForward
  <2>1. items[pos] \in VecItem
    BY <1>0, <1>20, StoredItem DEF FillForward, LoopInv
  <2>2. k \in Int /\ items[pos].step \in Int /\ out \in Seq(Int)
    BY <1>0, <2>1 DEF TypeOK, VecItem
  <2>3. Append(out, k) \in Seq(Int) /\ k + items[pos].step \in Int
    BY <2>2, AppendProperties
  <2>. QED
    BY <1>0, <1>20, <2>3 DEF FillForward, TypeOK, LoopInv, RangeStepInv
<1>21. CASE FillBackward
  <2>1. items[pos] \in VecItem
    BY <1>0, <1>21, StoredItem DEF FillBackward, LoopInv
  <2>2. k \in Int /\ items[pos].step \in Int /\ out \in Seq(Int)
    BY <1>0, <2>1 DEF TypeOK, VecItem
  <2>3. Append(out, k) \in Seq(Int) /\ k + items[pos].step \in Int
    BY <2>2, AppendProperties
  <2>. QED
    BY <1>0, <1>21, <2>3 DEF FillBackward, TypeOK, LoopInv, RangeStepInv
<1>22. CASE FillRepeat
  <2>1. items[pos] \in VecItem
    BY <1>0, <1>22, StoredItem DEF FillRepeat, LoopInv
  <2>2. Append(out, items[pos].start) \in Seq(Int) /\ k + 1 \in Int
    BY <1>0, <2>1, AppendProperties DEF TypeOK, VecItem
  <2>. QED
    BY <1>0, <1>22, <2>2 DEF FillRepeat, TypeOK, LoopInv, RangeStepInv
<1>23. CASE FillLoopExit
  <2>1. pos' \in Nat \ {0} /\ loop' = FALSE
    BY <1>a, <1>23 DEF FillLoopExit
  <2>. QED
    BY <1>0, <1>23, <2>1 DEF FillLoopExit, TypeOK, LoopInv, RangeStepInv
<1>24. CASE FillDone
  <2> DEFINE pad == [t \in 1..(total - Len(out)) |-> Uninit]
  <2>1. out \in Seq(Int)
    BY <1>0 DEF TypeOK
  <2>2. out \in Seq(Int \cup {Uninit}) /\ Len(out) \in Nat
    BY <2>1, SeqMonotonic, LenProperties
  <2>3. total - Len(out) \in Int
    BY <1>b, <2>2
  <2>4. pad \in Seq(Int \cup {Uninit})
    BY <2>3, PadIsSeq
  <2>5. out \o pad \in Seq(Int \cup {Uninit})
    BY <2>2, <2>4, ConcatProperties
  <2>. QED
    BY <1>0, <1>24, <2>5 DEF FillDone, TypeOK, LoopInv, RangeStepInv, Phases
<1>25. CASE UNCHANGED vars
  BY <1>0, <1>25 DEF vars, TypeOK, LoopInv, RangeStepInv
<1>. QED
  BY <1>1, <1>2, <1>3, <1>4, <1>5, <1>6, <1>7, <1>8, <1>9, <1>10, <1>11,
     <1>12, <1>13, <1>14, <1>15, <1>16, <1>17, <1>18, <1>19, <1>20, <1>21,
     <1>22, <1>23, <1>24, <1>25 DEF Next

-----------------------------------------------------------------------------
(***************************************************************************)
(* IntInv is preserved.  Most actions leave items, nrows and maxNrows      *)
(* alone and only move an item from "raw" to "wrapped" or out of both.     *)
(***************************************************************************)
IntPhases == {"count", "fill", "done"}

LEMMA IntInvFrame ==
  ASSUME IntInv,
         items' = items, nrows' = nrows, maxNrows' = maxNrows,
         phase' \in IntPhases => phase \in IntPhases \/ maxNrows <= nrows,
         \A q \in DOMAIN items : RawItem(q)' => RawItem(q),
         \A q \in DOMAIN items : WrappedItem(q)' => WrappedItem(q)
  PROVE  IntInv'
<1>1. phase' \in IntPhases => maxNrows' <= nrows'
  BY DEF IntInv, IntPhases
<1>2. ASSUME NEW q \in DOMAIN items', items'[q].kind = "int"
      PROVE  /\ RawItem(q)' => IntRowsNeeded(items'[q].start) <= maxNrows'
             /\ WrappedItem(q)' => items'[q].start \in 0..(nrows' - 1)
  BY <1>2 DEF IntInv
<1>. QED
  BY <1>1, <1>2 DEF IntInv, IntPhases

(* Appending an item in the constructor, with maxNrows raised to cover it. *)
LEMMA IntInvAppend ==
  ASSUME IInv, IntInv, NEW x \in VecItem,
         items' = Append(items, x), phase = "construct", phase' = "construct",
         nrows' = nrows, maxNrows' \in Int, maxNrows' >= maxNrows,
         x.kind = "int" => IntRowsNeeded(x.start) <= maxNrows'
  PROVE  IntInv'
<1>0. items \in Seq(VecItem) /\ maxNrows \in Nat
  BY DEF IInv, TypeOK
<1>1. /\ Len(items') = Len(items) + 1
      /\ \A q \in 1..Len(items) : items'[q] = items[q]
      /\ items'[Len(items) + 1] = x
      /\ DOMAIN items' = 1..(Len(items) + 1)
  <2>1. items' \in Seq(VecItem)
    BY <1>0, AppendProperties
  <2>. QED
    BY <1>0, <2>1, AppendProperties, LenProperties
<1>2. ASSUME NEW q \in DOMAIN items', items'[q].kind = "int"
      PROVE  IntRowsNeeded(items'[q].start) <= maxNrows'
  <2>1. CASE q \in 1..Len(items)
    <3>1. items'[q] = items[q] /\ q \in DOMAIN items
      BY <1>0, <1>1, <2>1, LenProperties
    <3>2. IntRowsNeeded(items[q].start) <= maxNrows
      BY <1>2, <3>1 DEF IntInv, RawItem
    <3>3. items[q] \in VecItem
      BY <1>0, <2>1, ElementOfSeq
    <3>4. items[q].start \in Int
      BY <3>3 DEF VecItem
    <3>. QED
      BY <3>1, <3>2, <3>4, <1>0 DEF IntRowsNeeded
  <2>2. CASE q = Len(items) + 1
    BY <1>1, <1>2, <2>2
  <2>. QED
    BY <1>0, <1>1, <2>1, <2>2, LenProperties
<1>. QED
  BY <1>2 DEF IntInv, RawItem, WrappedItem

(* One step of execute's first pass, which rewrites item pos alone.        *)
LEMMA IntInvCount ==
  ASSUME IInv, IntInv, phase = "count", pos \in 1..Len(items),
         phase' = "count", pos' = pos + 1, nrows' = nrows, maxNrows' = maxNrows,
         DOMAIN items' = DOMAIN items,
         \A q \in DOMAIN items : q # pos => items'[q] = items[q],
         items'[pos].kind = items[pos].kind,
         items[pos].kind = "int" => items'[pos].start = Wrap(items[pos].start, nrows)
  PROVE  IntInv'
<1>0. /\ items \in Seq(VecItem) /\ nrows \in Nat /\ maxNrows \in Nat
      /\ pos \in Nat \ {0} /\ maxNrows <= nrows
  BY NRowsAssumption DEF IInv, TypeOK, IntInv, IntPhases
<1>1. ASSUME NEW q \in DOMAIN items', items'[q].kind = "int"
      PROVE  /\ RawItem(q)' => IntRowsNeeded(items'[q].start) <= maxNrows'
             /\ WrappedItem(q)' => items'[q].start \in 0..(nrows' - 1)
  <2>0. q \in DOMAIN items /\ q \in Nat
    BY <1>0, <1>1, LenProperties
  <2>1. CASE q = pos
    <3>0. items[pos] \in VecItem
      BY <1>0, ElementOfSeq
    <3>1. items[pos].kind = "int" /\ items[pos].start \in Int
      BY <1>1, <2>1, <3>0 DEF VecItem
    <3>2. IntRowsNeeded(items[pos].start) <= maxNrows
      BY <1>0, <2>0, <2>1, <3>1 DEF IntInv, RawItem
    <3>3. Wrap(items[pos].start, nrows) \in 0..(nrows - 1)
      BY <1>0, <3>1, <3>2 DEF IntRowsNeeded, Wrap
    <3>. QED
      BY <1>0, <2>1, <3>1, <3>3 DEF RawItem, WrappedItem
  <2>2. CASE q # pos
    <3>1. items'[q] = items[q]
      BY <2>0, <2>2
    <3>2. RawItem(q)' => RawItem(q)
      BY <1>0, <2>0 DEF RawItem
    <3>3. WrappedItem(q)' => WrappedItem(q)
      BY <1>0, <2>0, <2>2 DEF WrappedItem
    <3>. QED
      BY <1>1, <2>0, <3>1, <3>2, <3>3 DEF IntInv
  <2>. QED
    BY <2>1, <2>2
<1>. QED
  BY <1>0, <1>1 DEF IntInv, IntPhases

(* What the in-place rewrites of execute's first pass leave alone.        *)
LEMMA NormalisedAt ==
  ASSUME NEW s \in Seq(VecItem), NEW p \in 1..Len(s), NEW u, NEW v
  PROVE  /\ DOMAIN Normalised(s, p, u, v) = DOMAIN s
         /\ \A q \in DOMAIN s : q # p => Normalised(s, p, u, v)[q] = s[q]
         /\ Normalised(s, p, u, v)[p].kind = s[p].kind
<1>1. s[p] \in VecItem /\ p \in DOMAIN s
  BY ElementOfSeq, LenProperties
<1>. QED
  BY <1>1 DEF Normalised, VecItem

LEMMA NormalisedStartAt ==
  ASSUME NEW s \in Seq(VecItem), NEW p \in 1..Len(s), NEW u
  PROVE  /\ DOMAIN [s EXCEPT ![p].start = u] = DOMAIN s
         /\ \A q \in DOMAIN s : q # p => [s EXCEPT ![p].start = u][q] = s[q]
         /\ [s EXCEPT ![p].start = u][p].kind = s[p].kind
         /\ [s EXCEPT ![p].start = u][p].start = u
<1>1. s[p] \in VecItem /\ p \in DOMAIN s
  BY ElementOfSeq, LenProperties
<1>. QED
  BY <1>1 DEF VecItem

LEMMA NextIntInv == IInv /\ IntInv /\ [Next]_vars => IntInv'
<1> SUFFICES ASSUME IInv, IntInv, [Next]_vars PROVE IntInv'
  OBVIOUS
<1>0. /\ items \in Seq(VecItem) /\ Len(items) \in Nat /\ nrows \in Nat
      /\ maxNrows \in Nat /\ pos \in Nat \ {0}
      /\ DOMAIN items = 1..Len(items)
  BY NRowsAssumption, LenProperties DEF IInv, TypeOK
<1>1. CASE \/ ConstructRangeWrapError \/ ConstructSliceNonNumeric
           \/ ConstructSliceZeroStepError \/ ConstructOther
           \/ PostInitCheckFail \/ AllocateFail
  <2>1. items' = items /\ nrows' = nrows /\ maxNrows' = maxNrows /\ phase' = "error"
    BY <1>1 DEF ConstructRangeWrapError, ConstructSliceNonNumeric,
                ConstructSliceZeroStepError, ConstructOther, PostInitCheckFail,
                AllocateFail, Raise
  <2>. QED
    BY <2>1, IntInvFrame DEF RawItem, WrappedItem, IntPhases
<1>2. CASE \/ FillInt \/ FillLoopEnter \/ FillForward \/ FillBackward
           \/ FillRepeat \/ FillLoopExit \/ FillDone
  <2>1. /\ items' = items /\ nrows' = nrows /\ maxNrows' = maxNrows
        /\ phase = "fill" /\ phase' \in {"fill", "done"}
    BY <1>2 DEF FillInt, FillLoopEnter, FillForward, FillBackward, FillRepeat,
                FillLoopExit, FillDone
  <2>. QED
    BY <2>1, IntInvFrame DEF RawItem, WrappedItem, IntPhases
<1>3. CASE ConstructRangeEmpty \/ ConstructDone
  <2>1. /\ items' = items /\ nrows' = nrows /\ maxNrows' = maxNrows
        /\ phase = "construct" /\ phase' \in {"construct", "check"}
    BY <1>3 DEF ConstructRangeEmpty, ConstructDone, ConstructStep
  <2>. QED
    BY <2>1, IntInvFrame DEF RawItem, WrappedItem, IntPhases
<1>4. CASE PostInitCheckPass
  <2>1. /\ items' = items /\ nrows' = nrows /\ maxNrows' = maxNrows
        /\ phase = "check" /\ phase' = "count" /\ pos' = 1
        /\ maxNrows <= nrows
    BY <1>4 DEF PostInitCheckPass
  <2>2. \A q \in DOMAIN items : q \in Nat /\ q >= 1
    BY <1>0
  <2>3. phase' \in IntPhases => phase \in IntPhases \/ maxNrows <= nrows
    BY <2>1
  <2>4. \A q \in DOMAIN items : RawItem(q)' => RawItem(q)
    BY <2>1 DEF RawItem
  <2>5. \A q \in DOMAIN items : WrappedItem(q)' => WrappedItem(q)
    BY <2>1, <2>2 DEF WrappedItem
  <2>. QED
    BY <2>1, <2>3, <2>4, <2>5, IntInvFrame
<1>5. CASE Allocate
  <2>1. /\ items' = items /\ nrows' = nrows /\ maxNrows' = maxNrows
        /\ phase = "count" /\ phase' = "fill" /\ pos = Len(items) + 1
    BY <1>5 DEF Allocate
  <2>2. \A q \in DOMAIN items : q < pos
    BY <1>0, <2>1
  <2>. QED
    BY <2>1, <2>2, IntInvFrame DEF RawItem, WrappedItem, IntPhases
<1>6. CASE ConstructInt
  <2> DEFINE x == [kind |-> "int", start |-> sel[pos].start, stop |-> 0, step |-> 0]
  <2>1. sel[pos] \in ItemIn
    BY <1>6, SelItem DEF ConstructInt, ConstructStep, IInv
  <2>2. x \in VecItem /\ sel[pos].start \in Int
    BY <2>1 DEF ItemIn, VecItem
  <2>3. maxNrows' = MaxOf(maxNrows, IntRowsNeeded(sel[pos].start))
        /\ items' = Append(items, x)
        /\ phase = "construct" /\ phase' = "construct" /\ nrows' = nrows
    BY <1>6 DEF ConstructInt, ConstructStep
  <2>4. maxNrows' \in Int /\ maxNrows' >= maxNrows
        /\ IntRowsNeeded(x.start) <= maxNrows'
    BY <1>0, <2>2, <2>3 DEF MaxOf, IntRowsNeeded
  <2>. QED
    BY <2>2, <2>3, <2>4, IntInvAppend
<1>7. CASE ConstructRange
  <2> DEFINE r == sel[pos]
             x == [kind |-> "range", start |-> r.start,
                   stop |-> r.start + RangeCount(r.start, r.stop, r.step) * r.step,
                   step |-> r.step]
  <2>1. r \in ItemIn /\ pos \in 1..Len(sel)
    BY <1>7, SelItem DEF ConstructRange, ConstructStep, IInv
  <2>2. r.start \in Int /\ r.stop \in Int /\ r.step \in Int /\ r.step # 0
    <3>1. sel \in Selectors
      BY DEF IInv, TypeOK
    <3>2. pos \in DOMAIN sel
      BY <2>1, <3>1, SelectorsAssumption, LenProperties
    <3>0. r.kind = "range"
      BY <1>7 DEF ConstructRange
    <3>3. r.step # 0
      BY <3>0, <3>1, <3>2, SelectorsAssumption
    <3>. QED
      BY <2>1, <3>3 DEF ItemIn
  <2>3. RangeCount(r.start, r.stop, r.step) \in Int
        /\ RangeLast(r.start, r.stop, r.step) \in Int
    BY <2>2, RangeCountInt
  <2>4. x \in VecItem
    BY <2>2, <2>3 DEF VecItem
  <2>5. /\ maxNrows' = MaxOf(MaxOf(maxNrows, RangeRowsNeeded(r.start)),
                             RangeRowsNeeded(RangeLast(r.start, r.stop, r.step)))
        /\ items' = Append(items, x)
        /\ phase = "construct" /\ phase' = "construct" /\ nrows' = nrows
    BY <1>7 DEF ConstructRange, ConstructStep
  <2>6. maxNrows' \in Int /\ maxNrows' >= maxNrows
    <3>1. maxNrows' = MaxOf(MaxOf(maxNrows, RangeRowsNeeded(r.start)),
                            RangeRowsNeeded(RangeLast(r.start, r.stop, r.step)))
      BY <2>5
    <3>2. maxNrows \in Nat /\ r.start \in Int
          /\ RangeLast(r.start, r.stop, r.step) \in Int
      BY <1>0, <2>2, <2>3
    <3>. QED
      BY <3>1, <3>2 DEF MaxOf, RangeRowsNeeded
  <2>. QED
    BY <2>4, <2>5, <2>6, IntInvAppend
<1>8. CASE ConstructSlice
  <2>1. sel[pos] \in ItemIn
    BY <1>8, SelItem DEF ConstructSlice, ConstructStep, IInv
  <2>2. SliceDefaults(sel[pos]) \in VecItem /\ SliceDefaults(sel[pos]).kind = "slice"
    BY <2>1, SliceMaxAssumption DEF SliceDefaults, ItemIn, VecItem
  <2>3. /\ items' = Append(items, SliceDefaults(sel[pos])) /\ maxNrows' = maxNrows
        /\ phase = "construct" /\ phase' = "construct" /\ nrows' = nrows
    BY <1>8 DEF ConstructSlice, ConstructStep
  <2>. QED
    BY <1>0, <2>2, <2>3, IntInvAppend
<1>9. CASE CountInt
  <2> DEFINE w == Wrap(items[pos].start, nrows)
  <2>1. /\ pos \in 1..Len(items) /\ items[pos].kind = "int"
        /\ items' = [items EXCEPT ![pos].start = w]
        /\ phase = "count" /\ phase' = "count" /\ pos' = pos + 1
        /\ nrows' = nrows /\ maxNrows' = maxNrows
    BY <1>9 DEF CountInt, CountStep
  <2>2. /\ DOMAIN [items EXCEPT ![pos].start = w] = DOMAIN items
        /\ \A q \in DOMAIN items : q # pos => [items EXCEPT ![pos].start = w][q] = items[q]
        /\ [items EXCEPT ![pos].start = w][pos].kind = items[pos].kind
        /\ [items EXCEPT ![pos].start = w][pos].start = w
    BY <1>0, <2>1, NormalisedStartAt
  <2>. QED
    BY <2>1, <2>2, IntInvCount
<1>10. CASE CountSliceSkip
  <2> DEFINE w == SliceStart(items[pos].start, nrows)
  <2>1. /\ pos \in 1..Len(items) /\ items[pos].kind = "slice"
        /\ items' = [items EXCEPT ![pos].start = w]
        /\ phase = "count" /\ phase' = "count" /\ pos' = pos + 1
        /\ nrows' = nrows /\ maxNrows' = maxNrows
    BY <1>10 DEF CountSliceSkip, CountStep
  <2>2. /\ DOMAIN [items EXCEPT ![pos].start = w] = DOMAIN items
        /\ \A q \in DOMAIN items : q # pos => [items EXCEPT ![pos].start = w][q] = items[q]
        /\ [items EXCEPT ![pos].start = w][pos].kind = items[pos].kind
    BY <1>0, <2>1, NormalisedStartAt
  <2>. QED
    BY <2>1, <2>2, IntInvCount
<1>11. CASE CountRange
  <2> DEFINE a == Wrap(items[pos].start, nrows)
             b == Wrap(items[pos].stop, nrows)
  <2>1. /\ pos \in 1..Len(items) /\ items[pos].kind = "range"
        /\ items' = Normalised(items, pos, a, b)
        /\ phase = "count" /\ phase' = "count" /\ pos' = pos + 1
        /\ nrows' = nrows /\ maxNrows' = maxNrows
    BY <1>11 DEF CountRange, CountStep, Normalised
  <2>2. /\ DOMAIN Normalised(items, pos, a, b) = DOMAIN items
        /\ \A q \in DOMAIN items : q # pos => Normalised(items, pos, a, b)[q] = items[q]
        /\ Normalised(items, pos, a, b)[pos].kind = items[pos].kind
    <3>1. items \in Seq(VecItem) /\ pos \in 1..Len(items)
      BY <1>0, <2>1
    <3>. QED
      BY <3>1, NormalisedAt
  <2>. QED
    BY <2>1, <2>2, IntInvCount
<1>12. CASE CountSlice
  <2> DEFINE a == SliceStart(items[pos].start, nrows)
             b == SliceStop(items[pos].stop, nrows)
  <2>1. /\ pos \in 1..Len(items) /\ items[pos].kind = "slice"
        /\ items' = Normalised(items, pos, a, b)
        /\ phase = "count" /\ phase' = "count" /\ pos' = pos + 1
        /\ nrows' = nrows /\ maxNrows' = maxNrows
    BY <1>12 DEF CountSlice, CountStep, Normalised
  <2>2. /\ DOMAIN Normalised(items, pos, a, b) = DOMAIN items
        /\ \A q \in DOMAIN items : q # pos => Normalised(items, pos, a, b)[q] = items[q]
        /\ Normalised(items, pos, a, b)[pos].kind = items[pos].kind
    <3>1. items \in Seq(VecItem) /\ pos \in 1..Len(items)
      BY <1>0, <2>1
    <3>. QED
      BY <3>1, NormalisedAt
  <2>. QED
    BY <2>1, <2>2, IntInvCount
<1>13. CASE UNCHANGED vars
  BY <1>13 DEF vars, IntInv, RawItem, WrappedItem
<1>. QED
  BY <1>1, <1>2, <1>3, <1>4, <1>5, <1>6, <1>7, <1>8, <1>9, <1>10, <1>11,
     <1>12, <1>13 DEF Next

-----------------------------------------------------------------------------
(***************************************************************************)
(* Type correctness of the multislice node: in every reachable state of    *)
(* the constructor, post_init_check and the two passes of execute, the     *)
(* item vector holds int/range/slice items with integer bounds, the        *)
(* size_t total stays in [0, SizeMod), and the filled array holds only     *)
(* integers, for every set of selectors and frame sizes.                   *)
(***************************************************************************)
THEOREM TypeCorrect == Spec => []TypeOK
<1>1. Init => IInv
  BY InitIInv
<1>2. IInv /\ [Next]_vars => IInv'
  BY NextIInv
<1>3. IInv => TypeOK
  BY DEF IInv
<1>. QED
  BY <1>1, <1>2, <1>3, PTL DEF Spec

(***************************************************************************)
(* The xassert of multislice_in::execute never fires: whenever execute's   *)
(* first pass has wrapped an int item, and through the fill pass, the item *)
(* is a row of the frame.  This holds for every list and frame size       *)
(* because the constructor's min_nrows estimate covers every int item and  *)
(* post_init_check rejects frames smaller than it.                         *)
(***************************************************************************)
THEOREM IntItemsBounded == Spec => []IntItemsInBounds
<1>1. Init => IInv /\ IntInv
  BY InitIInv DEF Init, IntInv, IntPhases
<1>2. IInv /\ IntInv /\ [Next]_vars => IInv' /\ IntInv'
  BY NextIInv, NextIntInv
<1>3. IntInv => IntItemsInBounds
  BY DEF IntInv, IntItemsInBounds, WrappedItem
<1>. QED
  BY <1>1, <1>2, <1>3, PTL DEF Spec


(***************************************************************************)
(* The two strengthenings hold in every reachable state, for every list    *)
(* and frame size: a fill loop of execute only ever runs over a stored     *)
(* item, no stored range has step 0 (so the count pass never divides by   *)
(* zero), and every int item the constructor stored needs at most          *)
(* min_nrows rows until execute wraps it into a row of the frame.          *)
(***************************************************************************)
THEOREM Strengthenings == Spec => [](IInv /\ IntInv)
<1>1. Init => IInv /\ IntInv
  BY InitIInv DEF Init, IntInv, IntPhases
<1>2. IInv /\ IntInv /\ [Next]_vars => IInv' /\ IntInv'
  BY NextIInv, NextIntInv
<1>. QED
  BY <1>1, <1>2, PTL DEF Spec

=============================================================================
