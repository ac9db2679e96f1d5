-------------------------- MODULE ConstructProofs ---------------------------
(***************************************************************************)
(* Proof that the constructor of multislice_in rejects a list exactly when *)
(* one of its items is invalid for Python, and then with the error of the  *)
(* first invalid item (ConstructAcceptsExactlyValid), for every value of   *)
(* the constants of MultiSlice.                                            *)
(*                                                                         *)
(* The constructor decides a range with its own ceiling-division formula   *)
(* (RangeCount, RangeLast), while ValidItem counts the elements Python     *)
(* enumerates (PyRangeLen).  The heart of the proof is that the two agree: *)
(* the offsets Python counts are exactly 0 .. RangeCount - 1.             *)
(***************************************************************************)
EXTENDS MultiSliceProofs, FiniteSetTheorems

(* Every item before the constructor's position is one Python accepts.     *)
PrefixValid(p) == \A q \in 1..(p - 1) : ValidItem(sel[q])

(* Item f is the first invalid item of the list.                           *)
FirstInvalid(f) == f \in DOMAIN sel /\ ~ValidItem(sel[f]) /\ PrefixValid(f)

(* The constructor's loop invariant, and what it leaves behind: while the  *)
(* loop runs, the items it has passed are valid and nothing was thrown; a  *)
(* constructor error stops at the first invalid item with that item's      *)
(* error; once the loop is over, every item is valid, and only             *)
(* post_init_check or execute may have thrown since.                       *)
CInv ==
  /\ phase = "construct" =>
       /\ pos \in 1..(Len(sel) + 1)
       /\ PrefixValid(pos)
       /\ err = NoErr
  /\ phase \in {"check", "count", "fill", "done"} =>
       PrefixValid(Len(sel) + 1) /\ err = NoErr
  /\ phase = "error" /\ err.stage = "construct" =>
       FirstInvalid(pos) /\ err.kind = ErrorOf(sel[pos])
  /\ phase = "error" /\ err.stage # "construct" =>
       PrefixValid(Len(sel) + 1)

(* The inductive invariant behind ConstructAccepts.                        *)
CCInv == IInv /\ CInv


-----------------------------------------------------------------------------
(***************************************************************************)
(* The constructor's count of a range is Python's.                         *)
(***************************************************************************)

(* Euclid's division by a positive divisor, as the provers see \div.       *)
LEMMA DivBounds ==
  ASSUME NEW n \in Int, NEW d \in Nat \ {0}
  PROVE  /\ n \div d \in Int
         /\ d * (n \div d) <= n
         /\ n < d * (n \div d) + d
BY Z3

(* The t >= 0 with d * t < x are 0 .. c-1 for c the ceiling of x / d, as   *)
(* the constructor computes it with CDiv(x + d - 1, d).                    *)
LEMMA CeilOffsets ==
  ASSUME NEW x \in Int, NEW d \in Nat \ {0}
  PROVE  {t \in 0..AbsVal(x) : d * t < x} = 0..(CDiv(x + d - 1, d) - 1)
<1>. DEFINE c == CDiv(x + d - 1, d)
<1>1. CASE x <= 0
  <2>1. c <= 0
    <3>1. CASE x + d - 1 >= 0
      <4>1. c = (x + d - 1) \div d
        BY <3>1 DEF CDiv, AbsVal
      <4>2. d * ((x + d - 1) \div d) <= x + d - 1 /\ (x + d - 1) \div d \in Int
        BY DivBounds
      <4>3. (x + d - 1) \div d <= 0
        BY <1>1, <4>2
      <4>. QED
        BY <4>1, <4>3
    <3>2. CASE x + d - 1 < 0
      <4>1. c = -((1 - x - d) \div d)
        BY <3>2 DEF CDiv, AbsVal
      <4>2. (1 - x - d) \div d \in Nat
        BY <3>2, DivBounds
      <4>. QED
        BY <4>1, <4>2
    <3>. QED
      BY <3>1, <3>2
  <2>2. \A t \in Nat : ~(d * t < x)
    BY <1>1
  <2>3. c \in Int
    BY CDivInt
  <2>. QED
    BY <2>1, <2>2, <2>3 DEF AbsVal
<1>2. CASE x > 0
  <2>. DEFINE q == (x + d - 1) \div d
  <2>1. c = q
    BY <1>2 DEF CDiv, AbsVal
  <2>2. q \in Int /\ d * q <= x + d - 1 /\ x + d - 1 < d * q + d
    BY DivBounds
  <2>3. ASSUME NEW t \in Nat, t <= q - 1 PROVE d * t < x
    <3>1. d * t <= d * (q - 1)
      BY <2>2, <2>3
    <3>. QED
      BY <2>2, <3>1
  <2>4. ASSUME NEW t \in Nat, t >= q PROVE ~(d * t < x)
    <3>1. d * t >= d * q
      BY <2>2, <2>4
    <3>. QED
      BY <2>2, <3>1
  <2>5. q - 1 <= x
    <3>1. CASE q - 1 >= 0
      <4>1. q - 1 <= d * (q - 1)
        BY <2>2, <3>1
      <4>2. d * (q - 1) < x
        BY <2>2, <3>1, <2>3
      <4>. QED
        BY <4>1, <4>2, <2>2
    <3>2. CASE q - 1 < 0
      BY <1>2, <2>2, <3>2
    <3>. QED
      BY <3>1, <3>2, <2>2
  <2>. QED
    BY <1>2, <2>1, <2>2, <2>3, <2>4, <2>5 DEF AbsVal
<1>. QED
  BY <1>1, <1>2


(* len(range(a, b, s)) is the constructor's count where that is positive,  *)
(* and 0 otherwise.                                                        *)
LEMMA RangeLenCount ==
  ASSUME NEW a \in Int, NEW b \in Int, NEW s \in Int \ {0}
  PROVE  PyRangeLen(a, b, s) = IF RangeCount(a, b, s) <= 0 THEN 0
                               ELSE RangeCount(a, b, s)
<1>. DEFINE Off == {t \in 0..AbsVal(b - a) :
                      IF s > 0 THEN a + s * t < b ELSE a + s * t > b}
<1>1. Off = 0..(RangeCount(a, b, s) - 1)
  <2>1. CASE s > 0
    <3>1. Off = {t \in 0..AbsVal(b - a) : s * t < b - a}
      BY <2>1
    <3>2. {t \in 0..AbsVal(b - a) : s * t < b - a}
            = 0..(CDiv((b - a) + s - 1, s) - 1)
      BY <2>1, CeilOffsets
    <3>3. RangeCount(a, b, s) = CDiv((b - a) + s - 1, s)
      BY <2>1 DEF RangeCount
    <3>. QED
      BY <3>1, <3>2, <3>3
  <2>2. CASE s < 0
    <3>1. AbsVal(b - a) = AbsVal(a - b)
      BY DEF AbsVal
    <3>2. Off = {t \in 0..AbsVal(a - b) : (-s) * t < a - b}
      BY <2>2, <3>1
    <3>3. {t \in 0..AbsVal(a - b) : (-s) * t < a - b}
            = 0..(CDiv((a - b) + (-s) - 1, -s) - 1)
      BY <2>2, CeilOffsets
    <3>4. RangeCount(a, b, s) = CDiv((a - b) + (-s) - 1, -s)
      BY <2>2 DEF RangeCount
    <3>. QED
      BY <3>2, <3>3, <3>4
  <2>. QED
    BY <2>1, <2>2
<1>2. RangeCount(a, b, s) \in Int
  BY RangeCountInt
<1>3. Cardinality(0..(RangeCount(a, b, s) - 1))
        = IF 0 > RangeCount(a, b, s) - 1 THEN 0 ELSE RangeCount(a, b, s) - 1 - 0 + 1
  BY <1>2, FS_Interval
<1>4. PyRangeLen(a, b, s) = Cardinality(Off)
  BY DEF PyRangeLen
<1>5. Cardinality(Off) = Cardinality(0..(RangeCount(a, b, s) - 1))
  BY <1>1, Zenon
<1>. QED
  BY <1>2, <1>3, <1>4, <1>5

(* The constructor throws for a range exactly when Python's enumeration of *)
(* it is non-empty and its first and last elements differ in sign.         *)
LEMMA RangeValid ==
  ASSUME NEW it \in ItemIn, it.kind = "range", it.step # 0
  PROVE  ValidItem(it) <=>
           ~ /\ RangeCount(it.start, it.stop, it.step) > 0
             /\ (it.start >= 0) # (RangeLast(it.start, it.stop, it.step) >= 0)
<1>. DEFINE a == it.start  b == it.stop  s == it.step
            len == PyRangeLen(a, b, s)  c == RangeCount(a, b, s)
<1>1. a \in Int /\ b \in Int /\ s \in Int \ {0}
  BY DEF ItemIn
<1>2. len = IF c <= 0 THEN 0 ELSE c
  BY <1>1, RangeLenCount
<1>3. c \in Int
  BY <1>1, RangeCountInt
<1>4. ValidItem(it) <=> (len = 0 \/ ((a >= 0) = (a + s * (len - 1) >= 0)))
  BY DEF ValidItem
<1>5. RangeLast(a, b, s) = a + (c - 1) * s
  BY DEF RangeLast
<1>6. c > 0 => s * (c - 1) = (c - 1) * s
  BY <1>1, <1>3
<1>. QED
  BY <1>2, <1>3, <1>4, <1>5, <1>6


-----------------------------------------------------------------------------
(***************************************************************************)
(* CInv, step by step.                                                     *)
(***************************************************************************)

LEMMA ItemFacts ==
  ASSUME IInv, pos \in 1..Len(sel)
  PROVE  /\ sel[pos] \in ItemIn
         /\ sel[pos].kind = "range" => sel[pos].step # 0
<1>1. sel \in Selectors
  BY DEF IInv, TypeOK
<1>. QED
  BY <1>1, SelItem, SelectorsAssumption DEF IInv

(* One more valid item extends the valid prefix.                           *)
LEMMA PrefixStep ==
  ASSUME NEW p \in Nat, PrefixValid(p), ValidItem(sel[p])
  PROVE  PrefixValid(p + 1)
BY DEF PrefixValid

(* A loop iteration that accepts the item at pos and moves on.             *)
LEMMA ConstructAdvance ==
  ASSUME IInv, CInv, phase = "construct", pos \in 1..Len(sel),
         ValidItem(sel[pos]),
         phase' = "construct", pos' = pos + 1, UNCHANGED <<sel, err>>
  PROVE  CInv'
<1>1. PrefixValid(pos) /\ err = NoErr
  BY DEF CInv
<1>2. PrefixValid(pos + 1)
  BY <1>1, PrefixStep
<1>3. PrefixValid(pos)'
  BY <1>2 DEF PrefixValid
<1>4. pos' \in 1..(Len(sel') + 1)
  <2>1. Len(sel) \in Nat
    BY SelectorsAssumption, LenProperties DEF IInv, TypeOK
  <2>. QED
    BY <2>1
<1>. QED
  BY <1>1, <1>3, <1>4 DEF CInv

(* A loop iteration that throws the error of the item at pos.              *)
LEMMA ConstructRaise ==
  ASSUME IInv, CInv, phase = "construct", pos \in 1..Len(sel),
         ~ValidItem(sel[pos]),
         NEW kd, kd = ErrorOf(sel[pos]), Raise(kd, "construct"),
         UNCHANGED <<sel, pos>>
  PROVE  CInv'
<1>1. PrefixValid(pos)
  BY DEF CInv
<1>2. FirstInvalid(pos)
  BY <1>1 DEF FirstInvalid
<1>3. phase' = "error" /\ err'.stage = "construct"
      /\ err'.kind = ErrorOf(sel[pos])
  BY DEF Raise
<1>4. FirstInvalid(pos)'
  BY <1>2 DEF FirstInvalid, PrefixValid
<1>. QED
  BY <1>3, <1>4 DEF CInv

(* post_init_check and execute: the list and its verdict are settled, and  *)
(* what they throw is theirs.                                              *)
LEMMA LaterSteps ==
  ASSUME CInv, phase \in {"check", "count", "fill"}, UNCHANGED sel,
         \/ phase' \in {"check", "count", "fill", "done"} /\ UNCHANGED err
         \/ phase' = "error" /\ err'.stage \in {"check", "execute"}
  PROVE  CInv'
<1>1. PrefixValid(Len(sel) + 1) /\ err = NoErr
  BY DEF CInv
<1>2. PrefixValid(Len(sel) + 1)'
  BY <1>1 DEF PrefixValid
<1>. QED
  BY <1>1, <1>2 DEF CInv


LEMMA InitCInv == Init => CInv
<1> SUFFICES ASSUME Init PROVE CInv
  OBVIOUS
<1>1. Len(sel) \in Nat
  BY SelectorsAssumption, LenProperties DEF Init
<1>. QED
  BY <1>1 DEF Init, CInv, PrefixValid

(* Every step keeps CInv: the constructor accepts exactly the valid items, *)
(* throws the error ErrorOf names for the first invalid one, and the later *)
(* stages never touch the list.                                            *)
LEMMA NextCInv == IInv /\ CInv /\ [Next]_vars => CInv'
<1> SUFFICES ASSUME IInv, CInv, [Next]_vars PROVE CInv'
  OBVIOUS
<1>0. phase \in Phases
  BY DEF IInv, TypeOK
<1>1. CASE ConstructInt
  <2>1. ValidItem(sel[pos])
    BY <1>1 DEF ConstructInt, ValidItem
  <2>. QED
    BY <1>1, <2>1, ConstructAdvance DEF ConstructInt, ConstructStep
<1>2. CASE ConstructRangeEmpty
  <2>1. pos \in 1..Len(sel) /\ sel[pos].kind = "range"
    BY <1>2 DEF ConstructRangeEmpty, ConstructStep
  <2>2. sel[pos] \in ItemIn /\ sel[pos].step # 0
    BY <2>1, ItemFacts
  <2>3. ValidItem(sel[pos])
    <3>1. ValidItem(sel[pos]) <=>
            ~ /\ RangeCount(sel[pos].start, sel[pos].stop, sel[pos].step) > 0
              /\ (sel[pos].start >= 0)
                   # (RangeLast(sel[pos].start, sel[pos].stop, sel[pos].step) >= 0)
      BY <2>1, <2>2, RangeValid
    <3>0. RangeCount(sel[pos].start, sel[pos].stop, sel[pos].step) \in Int
      BY <2>2, RangeCountInt DEF ItemIn
    <3>2. RangeCount(sel[pos].start, sel[pos].stop, sel[pos].step) <= 0
      BY <1>2 DEF ConstructRangeEmpty
    <3>. QED
      BY <3>0, <3>1, <3>2
  <2>. QED
    BY <1>2, <2>1, <2>3, ConstructAdvance DEF ConstructRangeEmpty, ConstructStep
<1>3. CASE ConstructRange
  <2>1. pos \in 1..Len(sel) /\ sel[pos].kind = "range"
    BY <1>3 DEF ConstructRange, ConstructStep
  <2>2. sel[pos] \in ItemIn /\ sel[pos].step # 0
    BY <2>1, ItemFacts
  <2>3. ValidItem(sel[pos])
    <3>1. ValidItem(sel[pos]) <=>
            ~ /\ RangeCount(sel[pos].start, sel[pos].stop, sel[pos].step) > 0
              /\ (sel[pos].start >= 0)
                   # (RangeLast(sel[pos].start, sel[pos].stop, sel[pos].step) >= 0)
      BY <2>1, <2>2, RangeValid
    <3>0. RangeCount(sel[pos].start, sel[pos].stop, sel[pos].step) \in Int
      BY <2>2, RangeCountInt DEF ItemIn
    <3>2. /\ RangeCount(sel[pos].start, sel[pos].stop, sel[pos].step) > 0
          /\ (sel[pos].start >= 0)
               = (RangeLast(sel[pos].start, sel[pos].stop, sel[pos].step) >= 0)
      BY <1>3 DEF ConstructRange
    <3>. QED
      BY <3>0, <3>1, <3>2
  <2>. QED
    BY <1>3, <2>1, <2>3, ConstructAdvance DEF ConstructRange, ConstructStep
<1>4. CASE ConstructSlice
  <2>0. pos \in 1..Len(sel)
    BY <1>4 DEF ConstructSlice, ConstructStep
  <2>a. sel[pos] \in ItemIn
    BY <2>0, ItemFacts
  <2>1. ValidItem(sel[pos])
    BY <1>4, <2>a DEF ConstructSlice, ZeroStepMalformed, ValidItem, ItemIn
  <2>. QED
    BY <1>4, <2>1, ConstructAdvance DEF ConstructSlice, ConstructStep
<1>5. CASE ConstructRangeWrapError
  <2>1. pos \in 1..Len(sel) /\ sel[pos].kind = "range"
    BY <1>5 DEF ConstructRangeWrapError, ConstructStep
  <2>2. sel[pos] \in ItemIn /\ sel[pos].step # 0
    BY <2>1, ItemFacts
  <2>3. ~ValidItem(sel[pos])
    BY <1>5, <2>1, <2>2, RangeValid DEF ConstructRangeWrapError
  <2>4. ErrorOf(sel[pos]) = "ValueError"
    BY <2>1 DEF ErrorOf
  <2>. QED
    BY <1>5, <2>1, <2>3, <2>4, ConstructRaise DEF ConstructRangeWrapError, ConstructStep
<1>6. CASE ConstructSliceNonNumeric
  <2>1. pos \in 1..Len(sel) /\ ~ValidItem(sel[pos])
        /\ ErrorOf(sel[pos]) = "TypeError"
    BY <1>6 DEF ConstructSliceNonNumeric, ConstructStep, ValidItem, ErrorOf
  <2>. QED
    BY <1>6, <2>1, ConstructRaise DEF ConstructSliceNonNumeric, ConstructStep
<1>7. CASE ConstructSliceZeroStepError
  <2>0. pos \in 1..Len(sel) /\ sel[pos].kind = "slice" /\ sel[pos].numeric
        /\ sel[pos].step = 0 /\ ZeroStepMalformed(sel[pos])
    BY <1>7 DEF ConstructSliceZeroStepError, ConstructStep
  <2>a. sel[pos] \in ItemIn
    BY <2>0, ItemFacts
  <2>b. ~(sel[pos].start # NA /\ sel[pos].stop # NA /\ sel[pos].stop >= 0)
    BY <2>0, <2>a DEF ZeroStepMalformed, ItemIn
  <2>1. pos \in 1..Len(sel) /\ ~ValidItem(sel[pos])
        /\ ErrorOf(sel[pos]) = "ValueError"
    BY <2>0, <2>b DEF ValidItem, ErrorOf
  <2>. QED
    BY <1>7, <2>1, ConstructRaise DEF ConstructSliceZeroStepError, ConstructStep
<1>8. CASE ConstructOther
  <2>1. pos \in 1..Len(sel) /\ ~ValidItem(sel[pos])
        /\ ErrorOf(sel[pos]) = "TypeError"
    BY <1>8 DEF ConstructOther, ConstructStep, ValidItem, ErrorOf
  <2>. QED
    BY <1>8, <2>1, ConstructRaise DEF ConstructOther, ConstructStep
<1>9. CASE ConstructDone
  BY <1>9 DEF ConstructDone, CInv, PrefixValid
<1>10. CASE \/ PostInitCheckPass \/ CountInt \/ CountRange \/ CountSliceSkip
            \/ CountSlice \/ Allocate \/ FillInt \/ FillLoopEnter
            \/ FillForward \/ FillBackward \/ FillRepeat \/ FillLoopExit
            \/ FillDone
  <2>1. phase \in {"check", "count", "fill"} /\ UNCHANGED sel
        /\ phase' \in {"check", "count", "fill", "done"} /\ UNCHANGED err
    BY <1>10, <1>0 DEF PostInitCheckPass, CountInt, CountRange, CountSliceSkip,
       CountSlice, Allocate, FillInt, FillLoopEnter, FillForward, FillBackward,
       FillRepeat, FillLoopExit, FillDone, CountStep, IInv, LoopInv
  <2>. QED
    BY <2>1, LaterSteps
<1>11. CASE PostInitCheckFail \/ AllocateFail
  <2>1. phase \in {"check", "count", "fill"} /\ UNCHANGED sel
        /\ phase' = "error" /\ err'.stage \in {"check", "execute"}
    BY <1>11 DEF PostInitCheckFail, AllocateFail, Raise
  <2>. QED
    BY <2>1, LaterSteps
<1>12. CASE UNCHANGED vars
  BY <1>12 DEF vars, CInv, PrefixValid, FirstInvalid
<1>. QED
  BY <1>1, <1>2, <1>3, <1>4, <1>5, <1>6, <1>7, <1>8, <1>9, <1>10, <1>11,
     <1>12 DEF Next


(* A list has at most one first invalid item.                              *)
LEMMA FirstInvalidUnique ==
  ASSUME sel \in Seq(ItemIn), NEW f, NEW g, FirstInvalid(f), FirstInvalid(g)
  PROVE  f = g
<1>1. f \in 1..Len(sel) /\ g \in 1..Len(sel)
  BY DEF FirstInvalid
<1>2. ~(f < g) /\ ~(g < f)
  BY <1>1 DEF FirstInvalid, PrefixValid
<1>. QED
  BY <1>1, <1>2

(* For every list and frame size, once multislice_in's constructor is      *)
(* done, it has thrown exactly when an item of the list is not one Python  *)
(* accepts (an int, a range whose elements keep one sign, a numeric slice, *)
(* a zero-step slice with a start and a non-negative count), and then with *)
(* the error of the first such item: the ceiling divisions of RangeCount  *)
(* and RangeLast, the `count <= 0` skip of an empty range and the sign     *)
(* test agree with Python's enumeration of the range (RangeLenCount).      *)
THEOREM ConstructAccepts == Spec => []ConstructAcceptsExactlyValid
<1>1. Init => CCInv
  BY InitIInv, InitCInv DEF CCInv
<1>2. CCInv /\ [Next]_vars => CCInv'
  BY NextIInv, NextCInv DEF CCInv
<1>3. CCInv => ConstructAcceptsExactlyValid
  <2>. SUFFICES ASSUME CCInv, phase # "construct"
                PROVE  ConstructAcceptsExactlyValid
    BY DEF ConstructAcceptsExactlyValid
  <2>0. /\ sel \in Seq(ItemIn) /\ DOMAIN sel = 1..Len(sel)
        /\ phase \in Phases /\ NoErr.stage = "none"
    BY SelectorsAssumption DEF CCInv, IInv, TypeOK, NoErr
  <2>1. CASE phase = "error" /\ err.stage = "construct"
    <3>1. FirstInvalid(pos) /\ err.kind = ErrorOf(sel[pos])
      BY <2>1 DEF CCInv, CInv
    <3>2. \E q \in DOMAIN sel : ~ValidItem(sel[q])
      BY <3>1 DEF FirstInvalid
    <3>. DEFINE f == CHOOSE q \in DOMAIN sel :
                       ~ValidItem(sel[q]) /\ \A r \in 1..(q - 1) : ValidItem(sel[r])
    <3>3. FirstInvalid(f)
      BY <3>1 DEF FirstInvalid, PrefixValid
    <3>4. f = pos
      BY <2>0, <3>1, <3>3, FirstInvalidUnique
    <3>. QED
      BY <2>1, <3>1, <3>2, <3>4 DEF ConstructAcceptsExactlyValid
  <2>2. CASE ~(phase = "error" /\ err.stage = "construct")
    <3>1. PrefixValid(Len(sel) + 1) /\ err.stage # "construct"
      BY <2>0, <2>2 DEF CCInv, CInv, Phases
    <3>2. ~\E q \in DOMAIN sel : ~ValidItem(sel[q])
      BY <2>0, <3>1 DEF PrefixValid
    <3>. QED
      BY <3>1, <3>2 DEF ConstructAcceptsExactlyValid
  <2>. QED
    BY <2>1, <2>2
<1>. QED
  BY <1>1, <1>2, <1>3, PTL DEF Spec

=============================================================================
