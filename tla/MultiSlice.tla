----------------------------- MODULE MultiSlice -----------------------------
(***************************************************************************)
(* The multislice `i` selector of datatable (class multislice_in in        *)
(* src/c/expr/i_node.cc): a Python list whose items are ints, ranges and   *)
(* slices, resolved into an ARRAY RowIndex.                                *)
(*                                                                         *)
(* The node's life is one synchronous call: the constructor walks the list *)
(* once (one action per item, early `continue` and each `throw` included), *)
(* post_init_check compares the frame's row count with the estimate the   *)
(* constructor made, and execute makes two passes over the stored items:   *)
(* the first normalises each item in place and sums the element counts,   *)
(* the array is allocated with that sum, and the second pass writes the    *)
(* indices, one loop iteration per step.  The written array `out` is kept  *)
(* apart from the allocated size `total`, so that the model sees a write   *)
(* past the allocation, or an allocated slot never written, as a state.   *)
(***************************************************************************)
EXTENDS Integers, Sequences, PyIndex

CONSTANTS
  Selectors,  \* the lists that may be given as `i` (each item an ItemIn)
  NRowsSet,   \* the row counts of the frame the selector is applied to
  NA,         \* py::oslice::NA, the int64 that marks an absent slice bound
  SliceMax,   \* py::oslice::MAX, the default bound of an open slice
  SizeMod,    \* 2^(width of size_t): size_t arithmetic is modulo SizeMod
  MaxAlloc,   \* the largest index array an allocation can obtain
  Uninit      \* the content of an allocated slot that was never written

ItemKinds == {"int", "range", "slice", "other"}

(* A list item as the constructor sees it through py::robj: an int (its   *)
(* value in start), a range, a slice (bounds possibly NA, `numeric` is    *)
(* is_numeric()), or any other object.                                     *)
ItemIn == [kind: ItemKinds, start: Int, stop: Int, step: Int, numeric: BOOLEAN]

ASSUME SliceMaxAssumption == SliceMax \in Nat
ASSUME NAAssumption == NA \in Int /\ NA < -SliceMax
ASSUME SizeAssumption == SizeMod \in Nat \ {0} /\ MaxAlloc \in 0..(SizeMod - 1)
ASSUME NRowsAssumption ==
  NRowsSet \subseteq 0..SliceMax /\ NRowsSet # {}
ASSUME SelectorsAssumption ==
  /\ Selectors \subseteq Seq(ItemIn) /\ Selectors # {}
  \* Python refuses range(a, b, 0), so a range item never has step 0.
  /\ \A s \in Selectors : \A q \in DOMAIN s : s[q].kind = "range" => s[q].step # 0
ASSUME UninitAssumption == Uninit \notin Int

VARIABLES
  sel,       \* the list given as `i`
  nrows,     \* wf.nrows()
  phase,     \* where the node is in its life (constructor, check, passes)
  pos,       \* the list item, or the stored item, the current pass is at
  i,         \* the constructor's item counter `i`
  items,     \* std::vector<item> items
  maxNrows,  \* max_nrows, which becomes min_nrows
  total,     \* total_count, a size_t
  k,         \* the loop variable of the current fill loop
  loop,      \* whether a fill loop over items[pos] is running
  out,       \* the indices written so far, ind[0 .. j-1]
  result,    \* the RowIndex applied to the workframe
  err        \* the exception thrown, if one was

vars == <<sel, nrows, phase, pos, i, items, maxNrows, total, k, loop, out,
          result, err>>

Phases == {"construct", "check", "count", "fill", "done", "error"}
ErrKinds == {"none", "TypeError", "ValueError", "MemoryError"}
NoErr == [kind |-> "none", stage |-> "none", at |-> -1]
Err == [kind: ErrKinds, stage: {"none", "construct", "check", "execute"}, at: Int]

(* A stored item: struct item { start, stop, step, kind }.                 *)
VecItem == [kind: {"int", "range", "slice"}, start: Int, stop: Int, step: Int]

MaxOf(a, b) == IF a >= b THEN a ELSE b

(* C++ integer division of int64_t: the quotient is truncated toward 0.   *)
CDiv(a, b) ==
  LET q == AbsVal(a) \div AbsVal(b)
  IN  IF (a < 0) = (b < 0) THEN q ELSE -q

(* Mutant: the count added as a signed integer, without size_t wrapping.   *)
SizeAddSigned(t, x) == t + x

(* static_cast<size_t>(x) added to a size_t.                               *)
SizeAdd(t, x) == (t + x) % SizeMod

Raise(kind, stage) ==
  /\ phase' = "error"
  /\ err' = [kind |-> kind, stage |-> stage, at |-> i]

-----------------------------------------------------------------------------
(***************************************************************************)
(* Constructor, one action per outcome of one iteration of the loop over   *)
(* the list; the loop ends with min_nrows = max_nrows.                     *)
(***************************************************************************)
Init ==
  /\ sel \in Selectors
  /\ nrows \in NRowsSet
  /\ phase = "construct"
  /\ pos = 1
  /\ i = 0
  /\ items = << >>
  /\ maxNrows = 0
  /\ total = 0
  /\ k = 0
  /\ loop = FALSE
  /\ out = << >>
  /\ result = << >>
  /\ err = NoErr

ConstructStep == phase = "construct" /\ pos \in 1..Len(sel)

(* Mutant: the +1 for a non-negative value dropped.                        *)
IntRowsNeededOffByOne(v) == IF v >= 0 THEN v ELSE -v

(* n = value + 1 for value >= 0, -value otherwise.                         *)
IntRowsNeeded(v) == IF v >= 0 THEN v + 1 ELSE -v

ConstructInt ==
  /\ ConstructStep
  /\ sel[pos].kind = "int"
  /\ maxNrows' = MaxOf(maxNrows, IntRowsNeeded(sel[pos].start))
  /\ items' = Append(items, [kind |-> "int", start |-> sel[pos].start,
                             stop |-> 0, step |-> 0])
  /\ i' = i + 1
  /\ pos' = pos + 1
  /\ UNCHANGED <<sel, nrows, phase, total, k, loop, out, result, err>>

(* Mutant: the ceiling division written without its - 1.                  *)
RangeCountNoCeil(a, b, s) ==
  IF s > 0 THEN CDiv(b - a + s, s) ELSE CDiv(a - b - s, -s)

(* The element count of range(a, b, s) by the constructor's formula.      *)
RangeCount(a, b, s) ==
  IF s > 0 THEN CDiv(b - a + s - 1, s) ELSE CDiv(a - b - s - 1, -s)

RangeLast(a, b, s) == a + (RangeCount(a, b, s) - 1) * s

(* n1, n2 = start > 0 ? start + 1 : -start (and the same for last).        *)
RangeRowsNeeded(x) == IF x > 0 THEN x + 1 ELSE -x

(* An empty range is skipped by `continue`, before `i++`.                  *)
ConstructRangeEmpty ==
  /\ ConstructStep
  /\ sel[pos].kind = "range"
  /\ RangeCount(sel[pos].start, sel[pos].stop, sel[pos].step) <= 0
  /\ pos' = pos + 1
  /\ UNCHANGED <<sel, nrows, phase, i, items, maxNrows, total, k, loop, out,
                 result, err>>

ConstructRangeWrapError ==
  /\ ConstructStep
  /\ sel[pos].kind = "range"
  /\ LET r == sel[pos] IN
       /\ RangeCount(r.start, r.stop, r.step) > 0
       /\ (r.start >= 0) # (RangeLast(r.start, r.stop, r.step) >= 0)
  /\ Raise("ValueError", "construct")
  /\ UNCHANGED <<sel, nrows, pos, i, items, maxNrows, total, k, loop, out,
                 result>>

ConstructRange ==
  /\ ConstructStep
  /\ sel[pos].kind = "range"
  /\ LET r     == sel[pos]
         count == RangeCount(r.start, r.stop, r.step)
         last  == RangeLast(r.start, r.stop, r.step)
     IN  /\ count > 0
         /\ (r.start >= 0) = (last >= 0)
         /\ maxNrows' = MaxOf(MaxOf(maxNrows, RangeRowsNeeded(r.start)),
                              RangeRowsNeeded(last))
         /\ items' = Append(items, [kind |-> "range", start |-> r.start,
                                    stop |-> r.start + count * r.step,
                                    step |-> r.step])
  /\ i' = i + 1
  /\ pos' = pos + 1
  /\ UNCHANGED <<sel, nrows, phase, total, k, loop, out, result, err>>

ConstructSliceNonNumeric ==
  /\ ConstructStep
  /\ sel[pos].kind = "slice"
  /\ ~sel[pos].numeric
  /\ Raise("TypeError", "construct")
  /\ UNCHANGED <<sel, nrows, pos, i, items, maxNrows, total, k, loop, out,
                 result>>

ZeroStepMalformed(s) == s.stop < 0 \/ s.start = NA \/ s.stop = NA

ConstructSliceZeroStepError ==
  /\ ConstructStep
  /\ sel[pos].kind = "slice"
  /\ sel[pos].numeric
  /\ sel[pos].step = 0
  /\ ZeroStepMalformed(sel[pos])
  /\ Raise("ValueError", "construct")
  /\ UNCHANGED <<sel, nrows, pos, i, items, maxNrows, total, k, loop, out,
                 result>>

(* A nonzero step fills in the absent step, start and stop.               *)
SliceDefaults(s) ==
  IF s.step = 0 THEN [kind |-> "slice", start |-> s.start, stop |-> s.stop, step |-> 0]
  ELSE LET st == IF s.step = NA THEN 1 ELSE s.step
       IN  [kind  |-> "slice",
            start |-> IF s.start = NA THEN (IF st > 0 THEN 0 ELSE SliceMax)
                                      ELSE s.start,
            stop  |-> IF s.stop = NA THEN (IF st > 0 THEN SliceMax ELSE -SliceMax)
                                     ELSE s.stop,
            step  |-> st]

ConstructSlice ==
  /\ ConstructStep
  /\ sel[pos].kind = "slice"
  /\ sel[pos].numeric
  /\ sel[pos].step = 0 => ~ZeroStepMalformed(sel[pos])
  /\ items' = Append(items, SliceDefaults(sel[pos]))
  /\ i' = i + 1
  /\ pos' = pos + 1
  /\ UNCHANGED <<sel, nrows, phase, maxNrows, total, k, loop, out, result, err>>

ConstructOther ==
  /\ ConstructStep
  /\ sel[pos].kind = "other"
  /\ Raise("TypeError", "construct")
  /\ UNCHANGED <<sel, nrows, pos, i, items, maxNrows, total, k, loop, out,
                 result>>

ConstructDone ==
  /\ phase = "construct"
  /\ pos = Len(sel) + 1
  /\ phase' = "check"
  /\ UNCHANGED <<sel, nrows, pos, i, items, maxNrows, total, k, loop, out,
                 result, err>>

-----------------------------------------------------------------------------
(***************************************************************************)
(* post_init_check.                                                        *)
(***************************************************************************)
PostInitCheckFail ==
  /\ phase = "check"
  /\ nrows < maxNrows
  /\ Raise("ValueError", "check")
  /\ UNCHANGED <<sel, nrows, pos, i, items, maxNrows, total, k, loop, out,
                 result>>

PostInitCheckPass ==
  /\ phase = "check"
  /\ nrows >= maxNrows
  /\ phase' = "count"
  /\ pos' = 1
  /\ UNCHANGED <<sel, nrows, i, items, maxNrows, total, k, loop, out, result,
                 err>>

-----------------------------------------------------------------------------
(***************************************************************************)
(* execute, first pass: each stored item is normalised in place against   *)
(* nrows and its element count is added to total_count.                    *)
(***************************************************************************)
CountStep == phase = "count" /\ pos \in 1..Len(items)

CountInt ==
  /\ CountStep
  /\ items[pos].kind = "int"
  /\ items' = [items EXCEPT ![pos].start = Wrap(@, nrows)]
  /\ total' = SizeAdd(total, 1)
  /\ pos' = pos + 1
  /\ UNCHANGED <<sel, nrows, phase, i, maxNrows, k, loop, out, result, err>>

CountRange ==
  /\ CountStep
  /\ items[pos].kind = "range"
  /\ LET it == items[pos]
         a  == Wrap(it.start, nrows)
         b  == Wrap(it.stop, nrows)
     IN  /\ items' = [items EXCEPT ![pos].start = a, ![pos].stop = b]
         /\ total' = SizeAdd(total, CDiv(b - a, it.step))
  /\ pos' = pos + 1
  /\ UNCHANGED <<sel, nrows, phase, i, maxNrows, k, loop, out, result, err>>

(* The start of a slice item: wrapped, then raised to 0.                    *)
SliceStart(x, n) == MaxOf(Wrap(x, n), 0)

(* Mutant: the clamp of the stop to nrows dropped.                         *)
SliceStopNoClamp(x, n) == LET y == Wrap(x, n) IN IF y < 0 THEN -1 ELSE y

(* The stop of a slice item: wrapped, then clamped into [-1, n].            *)
SliceStop(x, n) ==
  LET y == Wrap(x, n) IN IF y < 0 THEN -1 ELSE IF y > n THEN n ELSE y

(* The count of a normalised slice item; 0 for step 0.                     *)
SliceCount(a, b, s) ==
  IF s > 0 /\ b > a THEN CDiv(b - a + s - 1, s)
  ELSE IF s < 0 /\ b < a THEN CDiv(a - b - s - 1, -s)
  ELSE 0

(* A start beyond the frame leaves the item by `continue`: the new start   *)
(* is stored, the stop is left as the constructor made it.                 *)
CountSliceSkip ==
  /\ CountStep
  /\ items[pos].kind = "slice"
  /\ SliceStart(items[pos].start, nrows) > nrows
  /\ items' = [items EXCEPT ![pos].start = SliceStart(@, nrows)]
  /\ pos' = pos + 1
  /\ UNCHANGED <<sel, nrows, phase, i, maxNrows, total, k, loop, out, result,
                 err>>

CountSlice ==
  /\ CountStep
  /\ items[pos].kind = "slice"
  /\ SliceStart(items[pos].start, nrows) <= nrows
  /\ LET it == items[pos]
         a  == SliceStart(it.start, nrows)
         b  == SliceStop(it.stop, nrows)
     IN  /\ items' = [items EXCEPT ![pos].start = a, ![pos].stop = b]
         /\ total' = SizeAdd(total, SliceCount(a, b, it.step))
  /\ pos' = pos + 1
  /\ UNCHANGED <<sel, nrows, phase, i, maxNrows, k, loop, out, result, err>>

(* arr32_t indices(total_count): an allocation larger than memory throws.  *)
AllocateFail ==
  /\ phase = "count"
  /\ pos = Len(items) + 1
  /\ total > MaxAlloc
  /\ Raise("MemoryError", "execute")
  /\ UNCHANGED <<sel, nrows, pos, i, items, maxNrows, total, k, loop, out,
                 result>>

Allocate ==
  /\ phase = "count"
  /\ pos = Len(items) + 1
  /\ total <= MaxAlloc
  /\ phase' = "fill"
  /\ pos' = 1
  /\ UNCHANGED <<sel, nrows, i, items, maxNrows, total, k, loop, out, result,
                 err>>

-----------------------------------------------------------------------------
(***************************************************************************)
(* execute, second pass: ind[j++] = ... for every stored item, then the    *)
(* array becomes RowIndex(indices) and is applied to the workframe, whose  *)
(* RowIndex is ALL at this point, so that the result is the array itself.  *)
(***************************************************************************)
FillInt ==
  /\ phase = "fill" /\ pos \in 1..Len(items) /\ ~loop
  /\ items[pos].kind = "int"
  /\ out' = Append(out, items[pos].start)
  /\ pos' = pos + 1
  /\ UNCHANGED <<sel, nrows, phase, i, items, maxNrows, total, k, loop, result,
                 err>>

(* The loop variable starts at start, or at 0 for a zero step.             *)
FillLoopEnter ==
  /\ phase = "fill" /\ pos \in 1..Len(items) /\ ~loop
  /\ items[pos].kind # "int"
  /\ k' = IF items[pos].step = 0 THEN 0 ELSE items[pos].start
  /\ loop' = TRUE
  /\ UNCHANGED <<sel, nrows, phase, pos, i, items, maxNrows, total, out, result,
                 err>>

(* The condition of the running loop: k < stop, k > stop, or k < stop.    *)
LoopCond(it, x) == IF it.step < 0 THEN x > it.stop ELSE x < it.stop

FillForward ==
  /\ phase = "fill" /\ loop
  /\ items[pos].step > 0
  /\ LoopCond(items[pos], k)
  /\ out' = Append(out, k)
  /\ k' = k + items[pos].step
  /\ UNCHANGED <<sel, nrows, phase, pos, i, items, maxNrows, total, loop, result,
                 err>>

FillBackward ==
  /\ phase = "fill" /\ loop
  /\ items[pos].step < 0
  /\ LoopCond(items[pos], k)
  /\ out' = Append(out, k)
  /\ k' = k + items[pos].step
  /\ UNCHANGED <<sel, nrows, phase, pos, i, items, maxNrows, total, loop, result,
                 err>>

FillRepeat ==
  /\ phase = "fill" /\ loop
  /\ items[pos].step = 0
  /\ LoopCond(items[pos], k)
  /\ out' = Append(out, items[pos].start)
  /\ k' = k + 1
  /\ UNCHANGED <<sel, nrows, phase, pos, i, items, maxNrows, total, loop, result,
                 err>>

FillLoopExit ==
  /\ phase = "fill" /\ loop
  /\ ~LoopCond(items[pos], k)
  /\ loop' = FALSE
  /\ pos' = pos + 1
  /\ UNCHANGED <<sel, nrows, phase, i, items, maxNrows, total, k, out, result,
                 err>>

(* Slots that were allocated but never written hold Uninit.                *)
FillDone ==
  /\ phase = "fill" /\ ~loop
  /\ pos = Len(items) + 1
  /\ result' = out \o [t \in 1..(total - Len(out)) |-> Uninit]
  /\ phase' = "done"
  /\ UNCHANGED <<sel, nrows, pos, i, items, maxNrows, total, k, loop, out, err>>

Next ==
  \/ ConstructInt \/ ConstructRangeEmpty \/ ConstructRangeWrapError
  \/ ConstructRange \/ ConstructSliceNonNumeric \/ ConstructSliceZeroStepError
  \/ ConstructSlice \/ ConstructOther \/ ConstructDone
  \/ PostInitCheckFail \/ PostInitCheckPass
  \/ CountInt \/ CountRange \/ CountSliceSkip \/ CountSlice
  \/ AllocateFail \/ Allocate
  \/ FillInt \/ FillLoopEnter \/ FillForward \/ FillBackward \/ FillRepeat
  \/ FillLoopExit \/ FillDone

Spec == Init /\ [][Next]_vars

-----------------------------------------------------------------------------
(***************************************************************************)
(* Properties.                                                             *)
(***************************************************************************)
TypeOK ==
  /\ sel \in Selectors
  /\ nrows \in NRowsSet
  /\ phase \in Phases
  /\ pos \in Nat \ {0}
  /\ i \in Nat
  /\ items \in Seq(VecItem)
  /\ maxNrows \in Nat
  /\ total \in 0..(SizeMod - 1)
  /\ k \in Int
  /\ loop \in BOOLEAN
  /\ out \in Seq(Int)
  /\ result \in Seq(Int \cup {Uninit})
  /\ err \in Err

(* A list item a Python user may give, and the error its rejection raises. *)
ValidItem(it) ==
  CASE it.kind = "int"   -> TRUE
    [] it.kind = "range" ->
         LET len == PyRangeLen(it.start, it.stop, it.step)
         IN  len = 0 \/ ((it.start >= 0) = (it.start + it.step * (len - 1) >= 0))
    [] it.kind = "slice" ->
         it.numeric /\ (it.step = 0 => it.start # NA /\ it.stop # NA /\ it.stop >= 0)
    [] OTHER -> FALSE

ErrorOf(it) ==
  IF it.kind = "range" \/ (it.kind = "slice" /\ it.numeric) THEN "ValueError"
  ELSE "TypeError"

(* The constructor rejects a list exactly when one of its items is        *)
(* invalid, and then with the error of the first invalid item: an empty   *)
(* range never raises, whatever its bounds (spec section 8), and a range  *)
(* raises only when its first and last elements, as Python enumerates     *)
(* them, have opposite signs.  Checks the ceiling divisions, the `count <= *)
(* 0` skip and the sign test of multislice_in::multislice_in.              *)
ConstructAcceptsExactlyValid ==
  phase # "construct" =>
    IF \E q \in DOMAIN sel : ~ValidItem(sel[q])
    THEN LET f == CHOOSE q \in DOMAIN sel :
                    ~ValidItem(sel[q]) /\ \A r \in 1..(q - 1) : ValidItem(sel[r])
         IN  err.stage = "construct" /\ err.kind = ErrorOf(sel[f])
    ELSE err.stage # "construct"

(* Whenever execute's first pass has normalised an int item, it is a row  *)
(* of the frame: the xassert of multislice_in::execute never fires,        *)
(* because post_init_check demanded the rows the constructor estimated.    *)
IntItemsInBounds ==
  \A q \in DOMAIN items :
    /\ items[q].kind = "int"
    /\ phase \in {"fill", "done"} \/ (phase = "count" /\ q < pos)
    => items[q].start \in 0..(nrows - 1)

(* An item read forwards from inside the frame: an int, a slice with       *)
(* positive step whose start is not past the last row, or a range with     *)
(* positive step over non-negative positions.                              *)
Forward(it, n) ==
  \/ it.kind = "int"
  \/ /\ it.kind = "slice"
     /\ it.step > 0 \/ it.step = NA
     /\ it.start = NA \/ Wrap(it.start, n) <= n
  \/ it.kind = "range" /\ it.step > 0 /\ it.start >= 0

(* A list of such items that resolves selects exactly the rows Python      *)
(* gives for it: both passes of multislice_in::execute agree with          *)
(* slice.indices(n) and with range enumeration.                            *)
ForwardListsResolvePython ==
  phase = "done" /\ (\A q \in DOMAIN sel : Forward(sel[q], nrows))
    => result = PyListRows(sel, nrows, NA)

(* Every list that resolves selects exactly the rows Python gives for it  *)
(* (spec section 8: multislice yields the flat index sequence).            *)
ResultIsPython ==
  phase = "done" => result = PyListRows(sel, nrows, NA)

(* The fill pass never writes past the array the count pass allocated.    *)
FillWithinAllocation == Len(out) <= total

(* Every index of a resolved list is a row of the frame (spec section 3:  *)
(* an index of a RowIndex lies in [0, nrows)).                             *)
IndicesInBounds ==
  phase = "done" => \A t \in DOMAIN result : result[t] \in 0..(nrows - 1)

(* "Invalid item ... at index i" names the item's position in the list.   *)
ReportedIndexIsPosition ==
  err.stage = "construct" => err.at = pos - 1

=============================================================================
