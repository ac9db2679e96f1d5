------------------------------ MODULE PyIndex ------------------------------
(***************************************************************************)
(* Reference semantics of Python row selectors, used to judge what the     *)
(* selector nodes of i_node.cc compute.  Nothing here translates the C++:  *)
(* these are the definitions a Python user relies on (range objects,       *)
(* slice.indices(n), negative indices counting from the end), written      *)
(* without the ceiling-division formulas the code uses, so that they are   *)
(* an independent yardstick.                                               *)
(***************************************************************************)
EXTENDS Integers, Sequences, FiniteSets

AbsVal(x) == IF x < 0 THEN -x ELSE x

(* A Python index counts from the end when it is negative.                 *)
Wrap(x, n) == IF x < 0 THEN x + n ELSE x

(* len(range(a, b, s)) for s # 0: the number of t >= 0 with a + s*t       *)
(* strictly before b in the direction of s.  No such t exceeds |b - a|.   *)
PyRangeLen(a, b, s) ==
  Cardinality({t \in 0..AbsVal(b - a) :
                 IF s > 0 THEN a + s * t < b ELSE a + s * t > b})

(* list(range(a, b, s)).                                                   *)
PyRange(a, b, s) == [t \in 1..PyRangeLen(a, b, s) |-> a + s * (t - 1)]

(* slice(a, b, s).indices(n) followed by range(): CPython's               *)
(* PySlice_AdjustIndices.  An absent bound is `na`; an absent step is 1.   *)
PySliceStep(s, na) == IF s = na THEN 1 ELSE s

PyClip(x, n, s) ==
  LET lo == IF s > 0 THEN 0 ELSE -1
      hi == IF s > 0 THEN n ELSE n - 1
      y  == IF x < 0 THEN x + n ELSE x
  IN  IF y < lo THEN lo ELSE IF y > hi THEN hi ELSE y

PySlice(a, b, s0, n, na) ==
  LET s  == PySliceStep(s0, na)
      a1 == IF a = na THEN (IF s > 0 THEN 0 ELSE n - 1) ELSE PyClip(a, n, s)
      b1 == IF b = na THEN (IF s > 0 THEN n ELSE -1) ELSE PyClip(b, n, s)
  IN  PyRange(a1, b1, s)

(* The rows a list item of an `i` selector stands for, against a frame of *)
(* n rows: an int is one (wrapped) row, a range its (wrapped) elements, a *)
(* slice its Python elements, and a zero-step slice(a, c, 0) the row a    *)
(* repeated c times (datatable's own extension of slices).                *)
PyItemRows(it, n, na) ==
  CASE it.kind = "int"   -> << Wrap(it.start, n) >>
    [] it.kind = "range" ->
         LET r == PyRange(it.start, it.stop, it.step)
         IN  [t \in DOMAIN r |-> Wrap(r[t], n)]
    [] it.kind = "slice" /\ it.step = 0 ->
         [t \in 1..it.stop |-> Wrap(it.start, n)]
    [] OTHER -> PySlice(it.start, it.stop, it.step, n, na)

(* The rows of a whole list: the concatenation of its items' rows.         *)
PyListRows(sel, n, na) ==
  LET acc[q \in 0..Len(sel)] ==
        IF q = 0 THEN << >> ELSE acc[q - 1] \o PyItemRows(sel[q], n, na)
  IN  acc[Len(sel)]

=============================================================================
