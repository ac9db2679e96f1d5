------------------------------ MODULE Selector ------------------------------
(***************************************************************************)
(* The `i` selector pipeline of src/c/expr/i_node.cc for one selector       *)
(* value: the factory _make (i_node::make) picks a node by testing the      *)
(* value's shape in a fixed order, the node's constructor validates it,     *)
(* post_init_check validates it against the frame's row count, and execute  *)
(* applies the node's RowIndex to the workframe, whose RowIndex is ALL      *)
(* before the call.  A list selector becomes a multislice_in node, whose    *)
(* work is modelled in MultiSlice; here it ends in phase "delegated".       *)
(*                                                                         *)
(* A selector value is abstracted to the shape predicates it satisfies     *)
(* (is_slice, is_frame, is_iterable, ...) and the data the nodes read: the  *)
(* bounds of a slice or range, the integer, the column of a Frame or of a   *)
(* converted numpy array, the stype of an expression.                      *)
(***************************************************************************)
EXTENDS Integers, Sequences, FiniteSets, PyIndex

CONSTANTS
  Values,     \* the selector values the caller may pass
  NRowsSet,   \* the row counts of the frame
  NA          \* py::oslice::NA, an absent slice bound

Preds == {"slice", "trivial", "numeric", "expr", "frame", "int", "none",
          "ellipsis", "nparray", "range", "iterable", "bool"}
STypes == {"bool", "int", "float"}
Dtypes == {"bool", "int64", "float64"}

(* A single-column (or not) Frame: number of columns, stype of column 0,   *)
(* its values (a boolean column holds 0 and 1).                            *)
Col == [ncols: Nat, stype: STypes, vals: Seq(Int)]

SelVal == [preds: SUBSET Preds, a: Int, b: Int, s: Int, col: Col,
           dims: Seq(Nat), dtype: Dtypes]

ASSUME NAAssumption == NA \in Int /\ NA < 0
ASSUME NRowsAssumption == NRowsSet \subseteq Nat /\ NRowsSet # {}
ASSUME ValuesAssumption == Values \subseteq SelVal /\ Values # {}

VARIABLES
  sel,     \* the selector value passed to i_node::make
  nrows,   \* wf.nrows()
  phase,   \* "make", "check", "execute", "done", "error", "delegated", "null"
  node,    \* the i_node the factory built
  ri,      \* the workframe's RowIndex
  err      \* the exception thrown, with the stage that threw it

vars == <<sel, nrows, phase, node, ri, err>>

NodeKinds == {"null", "allrows", "onerow", "slice", "expr", "frame", "multislice"}
Node == [kind: NodeKinds, irow: Int, a: Int, b: Int, s: Int, isSlice: BOOLEAN,
         col: Col, stype: STypes]
NullNode == [kind |-> "null", irow |-> 0, a |-> 0, b |-> 0, s |-> 0,
             isSlice |-> FALSE, col |-> [ncols |-> 0, stype |-> "int", vals |-> << >>],
             stype |-> "int"]
MkNode(kind) == [NullNode EXCEPT !.kind = kind]

(* A RowIndex: ALL, or the list of rows it selects (-1 is a null row).     *)
RowIdx == [all: BOOLEAN, rows: Seq(Int)]
AllRows == [all |-> TRUE, rows |-> << >>]
Rows(s) == [all |-> FALSE, rows |-> s]

ErrKinds == {"none", "TypeError", "ValueError"}
Err == [kind: ErrKinds, stage: {"none", "construct", "check", "execute"}]
NoErr == [kind |-> "none", stage |-> "none"]

Raise(kind, stage) ==
  /\ phase' = "error"
  /\ err' = [kind |-> kind, stage |-> stage]

-----------------------------------------------------------------------------
(***************************************************************************)
(* _make: the first test of this order that the value passes decides.      *)
(***************************************************************************)
(* Mutant: the None/Ellipsis test dropped from _make.                      *)
RuleNoNone(r, v) ==
  CASE r = "slice"    -> "slice" \in v.preds
    [] r = "expr"     -> "expr" \in v.preds
    [] r = "frame"    -> "frame" \in v.preds
    [] r = "int"      -> "int" \in v.preds
    [] r = "noneell"  -> FALSE
    [] r = "nparray"  -> "nparray" \in v.preds
    [] r = "range"    -> "range" \in v.preds
    [] r = "iterable" -> "iterable" \in v.preds
    [] r = "bool"     -> "bool" \in v.preds

Rule(r, v) ==
  CASE r = "slice"    -> "slice" \in v.preds
    [] r = "expr"     -> "expr" \in v.preds
    [] r = "frame"    -> "frame" \in v.preds
    [] r = "int"      -> "int" \in v.preds
    [] r = "noneell"  -> ("none" \in v.preds \/ "ellipsis" \in v.preds)
    [] r = "nparray"  -> "nparray" \in v.preds
    [] r = "range"    -> "range" \in v.preds
    [] r = "iterable" -> "iterable" \in v.preds
    [] r = "bool"     -> "bool" \in v.preds

MakeOrder == <<"slice", "expr", "frame", "int", "noneell", "nparray", "range",
               "iterable", "bool">>

(* The rule that fires, or "unmatched" when none does.                     *)
FirstRule(v) ==
  IF \E q \in DOMAIN MakeOrder : Rule(MakeOrder[q], v)
  THEN LET q == CHOOSE q \in DOMAIN MakeOrder :
                  Rule(MakeOrder[q], v) /\ \A p \in 1..(q - 1) : ~Rule(MakeOrder[p], v)
       IN  MakeOrder[q]
  ELSE "unmatched"

MakeStep(r) == phase = "make" /\ FirstRule(sel) = r

Built(n) ==
  /\ node' = n
  /\ phase' = "check"
  /\ UNCHANGED err

MakeAllRowsSlice ==
  /\ MakeStep("slice") /\ "trivial" \in sel.preds
  /\ Built(MkNode("allrows"))
  /\ UNCHANGED <<sel, nrows, ri>>

MakeSlice ==
  /\ MakeStep("slice") /\ "trivial" \notin sel.preds /\ "numeric" \in sel.preds
  /\ Built([MkNode("slice") EXCEPT !.a = sel.a, !.b = sel.b, !.s = sel.s,
                                   !.isSlice = TRUE])
  /\ UNCHANGED <<sel, nrows, ri>>

MakeSliceTypeError ==
  /\ MakeStep("slice") /\ "trivial" \notin sel.preds /\ "numeric" \notin sel.preds
  /\ Raise("TypeError", "construct")
  /\ UNCHANGED <<sel, nrows, node, ri>>

MakeExpr ==
  /\ MakeStep("expr")
  /\ Built([MkNode("expr") EXCEPT !.stype = sel.col.stype])
  /\ UNCHANGED <<sel, nrows, ri>>

(* Mutant: the stype test of the frame_in constructor dropped.             *)
NewFrameInNoStype(c) ==
  \/ /\ c.ncols # 1
     /\ Raise("ValueError", "construct") /\ UNCHANGED node
  \/ /\ c.ncols = 1
     /\ Built([MkNode("frame") EXCEPT !.col = c])

(* frame_in::frame_in: one column, of a boolean or integer stype.          *)
NewFrameIn(c) ==
  \/ /\ c.ncols # 1
     /\ Raise("ValueError", "construct") /\ UNCHANGED node
  \/ /\ c.ncols = 1 /\ c.stype \notin {"bool", "int"}
     /\ Raise("TypeError", "construct") /\ UNCHANGED node
  \/ /\ c.ncols = 1 /\ c.stype \in {"bool", "int"}
     /\ Built([MkNode("frame") EXCEPT !.col = c])

MakeFrame ==
  /\ MakeStep("frame")
  /\ NewFrameIn(sel.col)
  /\ UNCHANGED <<sel, nrows, ri>>

MakeOneRow ==
  /\ MakeStep("int")
  /\ Built([MkNode("onerow") EXCEPT !.irow = sel.a])
  /\ UNCHANGED <<sel, nrows, ri>>

MakeAllRows ==
  /\ MakeStep("noneell")
  /\ Built(MkNode("allrows"))
  /\ UNCHANGED <<sel, nrows, ri>>

(* _from_nparray: a 2-D array with an axis of length 1 is reshaped to 1-D. *)
Squeeze(d) ==
  IF Len(d) = 2 /\ (d[1] = 1 \/ d[2] = 1) THEN << d[1] * d[2] >> ELSE d

(* dtype_str.compare(0, n, p) is 0 when the dtype starts with p, so these  *)
(* flags are true when the dtype does NOT start with "bool" / "int".       *)
IsBoolFlag(dt) == dt # "bool"
IsIntFlag(dt) == dt # "int64"

(* Frame(array): one column whose stype follows the dtype.                 *)
ArrayFrame(v) ==
  [ncols |-> 1,
   stype |-> CASE v.dtype = "bool" -> "bool" [] v.dtype = "int64" -> "int"
               [] OTHER -> "float",
   vals  |-> v.col.vals]

MakeNpArrayShapeError ==
  /\ MakeStep("nparray")
  /\ Len(Squeeze(sel.dims)) # 1
  /\ Raise("ValueError", "construct")
  /\ UNCHANGED <<sel, nrows, node, ri>>

MakeNpArray ==
  /\ MakeStep("nparray")
  /\ Len(Squeeze(sel.dims)) = 1
  /\ IsBoolFlag(sel.dtype) \/ IsIntFlag(sel.dtype)   \* never false: no throw
  /\ NewFrameIn(ArrayFrame(sel))
  /\ UNCHANGED <<sel, nrows, ri>>

MakeRange ==
  /\ MakeStep("range")
  /\ Built([MkNode("slice") EXCEPT !.a = sel.a, !.b = sel.b, !.s = sel.s,
                                   !.isSlice = FALSE])
  /\ UNCHANGED <<sel, nrows, ri>>

(* multislice_in takes over; its construction and execution are MultiSlice. *)
MakeMultislice ==
  /\ MakeStep("iterable")
  /\ node' = MkNode("multislice")
  /\ phase' = "delegated"
  /\ UNCHANGED <<sel, nrows, ri, err>>

MakeBoolError ==
  /\ MakeStep("bool")
  /\ Raise("TypeError", "construct")
  /\ UNCHANGED <<sel, nrows, node, ri>>

(* return nullptr: i_node::make hands an empty iptr to its caller.         *)
MakeNull ==
  /\ MakeStep("unmatched")
  /\ node' = NullNode
  /\ phase' = "null"
  /\ UNCHANGED <<sel, nrows, ri, err>>

-----------------------------------------------------------------------------
(***************************************************************************)
(* post_init_check: onerow_in and frame_in override the empty default.     *)
(***************************************************************************)
CheckStep(kind) == phase = "check" /\ node.kind = kind

(* Mutant: irow > inrows instead of irow >= inrows.                        *)
OneRowInvalidOffByOne(r, n) == r < -n \/ r > n

OneRowInvalid(r, n) == r < -n \/ r >= n

CheckOneRowFail ==
  /\ CheckStep("onerow")
  /\ OneRowInvalid(node.irow, nrows)
  /\ Raise("ValueError", "check")
  /\ UNCHANGED <<sel, nrows, node, ri>>

(* A valid negative row is wrapped in place: execute reads the new irow.   *)
CheckOneRowPass ==
  /\ CheckStep("onerow")
  /\ ~OneRowInvalid(node.irow, nrows)
  /\ node' = [node EXCEPT !.irow = IF @ < 0 THEN @ + nrows ELSE @]
  /\ phase' = "execute"
  /\ UNCHANGED <<sel, nrows, ri, err>>

(* min_int64() < -1 or max_int64() >= nrows of an integer column.          *)
IntMaskInvalid(c, n) == \E t \in DOMAIN c.vals : c.vals[t] < -1 \/ c.vals[t] >= n

FrameMaskInvalid(c, n) ==
  IF c.stype = "bool" THEN Len(c.vals) # n ELSE IntMaskInvalid(c, n)

CheckFrameFail ==
  /\ CheckStep("frame")
  /\ FrameMaskInvalid(node.col, nrows)
  /\ Raise("ValueError", "check")
  /\ UNCHANGED <<sel, nrows, node, ri>>

CheckFramePass ==
  /\ CheckStep("frame")
  /\ ~FrameMaskInvalid(node.col, nrows)
  /\ phase' = "execute"
  /\ UNCHANGED <<sel, nrows, node, ri, err>>

CheckDefault ==
  /\ phase = "check" /\ node.kind \in {"allrows", "slice", "expr"}
  /\ phase' = "execute"
  /\ UNCHANGED <<sel, nrows, node, ri, err>>

-----------------------------------------------------------------------------
(***************************************************************************)
(* execute: each node applies its RowIndex to the workframe.  The RowIndex *)
(* constructors and the normalisation of slices and ranges (py::oslice,    *)
(* py::orange) are not under src/ and are taken from the spec.             *)
(***************************************************************************)
ExecStep(kind) == phase = "execute" /\ node.kind = kind

Done(r) ==
  /\ ri' = r
  /\ phase' = "done"
  /\ UNCHANGED <<sel, nrows, node, err>>

(* The 0-based positions of the true entries of a boolean column, in order. *)
TruePositions(m) ==
  LET P == {t \in DOMAIN m : m[t] = 1}
  IN  [j \in 1..Cardinality(P) |->
         (CHOOSE t \in P : Cardinality({u \in P : u <= t}) = j) - 1]

(* RowIndex of a Column: the true positions of a boolean column, the values   *)
(* of an integer one (-1 a null row).                                      *)
ColumnRows(c) == IF c.stype = "bool" THEN TruePositions(c.vals) ELSE c.vals

(* py::orange::normalize succeeds when the range is empty, or when its     *)
(* first and last elements have one sign and all of it fits the frame.    *)
RangeFits(a, b, s, n) ==
  LET r == PyRange(a, b, s)
  IN  IF Len(r) = 0 THEN TRUE
      ELSE /\ (r[1] >= 0) = (r[Len(r)] >= 0)
           /\ \A t \in DOMAIN r : Wrap(r[t], n) \in 0..(n - 1)

RangeRows(a, b, s, n) ==
  LET r == PyRange(a, b, s) IN [t \in DOMAIN r |-> Wrap(r[t], n)]

ExecAllRows ==
  /\ ExecStep("allrows")
  /\ Done(ri)

(* RowIndex(start, 1, 1) with start = irow, which post_init_check wrapped. *)
ExecOneRow ==
  /\ ExecStep("onerow")
  /\ Done(Rows(<< node.irow >>))

ExecSlice ==
  /\ ExecStep("slice") /\ node.isSlice
  /\ Done(Rows(PySlice(node.a, node.b, node.s, nrows, NA)))

ExecRangeError ==
  /\ ExecStep("slice") /\ ~node.isSlice
  /\ ~RangeFits(node.a, node.b, node.s, nrows)
  /\ Raise("ValueError", "execute")
  /\ UNCHANGED <<sel, nrows, node, ri>>

ExecRange ==
  /\ ExecStep("slice") /\ ~node.isSlice
  /\ RangeFits(node.a, node.b, node.s, nrows)
  /\ Done(Rows(RangeRows(node.a, node.b, node.s, nrows)))

ExecExprTypeError ==
  /\ ExecStep("expr")
  /\ node.stype # "bool"
  /\ Raise("TypeError", "execute")
  /\ UNCHANGED <<sel, nrows, node, ri>>

(* evaluate_eager computes some boolean column of nrows rows.              *)
ExecExpr ==
  /\ ExecStep("expr")
  /\ node.stype = "bool"
  /\ \E m \in [1..nrows -> {0, 1}] : Done(Rows(TruePositions(m)))

ExecFrame ==
  /\ ExecStep("frame")
  /\ Done(Rows(ColumnRows(node.col)))

-----------------------------------------------------------------------------
Init ==
  /\ sel \in Values
  /\ nrows \in NRowsSet
  /\ phase = "make"
  /\ node = NullNode
  /\ ri = AllRows
  /\ err = NoErr

Next ==
  \/ MakeAllRowsSlice \/ MakeSlice \/ MakeSliceTypeError \/ MakeExpr
  \/ MakeFrame \/ MakeOneRow \/ MakeAllRows \/ MakeNpArrayShapeError
  \/ MakeNpArray \/ MakeRange \/ MakeMultislice \/ MakeBoolError \/ MakeNull
  \/ CheckOneRowFail \/ CheckOneRowPass \/ CheckFrameFail \/ CheckFramePass
  \/ CheckDefault
  \/ ExecAllRows \/ ExecOneRow \/ ExecSlice \/ ExecRangeError \/ ExecRange
  \/ ExecExprTypeError \/ ExecExpr \/ ExecFrame

Spec == Init /\ [][Next]_vars

-----------------------------------------------------------------------------
(***************************************************************************)
(* Properties.                                                             *)
(***************************************************************************)
Phases == {"make", "check", "execute", "done", "error", "delegated", "null"}

(* Type invariant.                                                         *)
TypeOK ==
  /\ sel \in Values
  /\ nrows \in NRowsSet
  /\ phase \in Phases
  /\ node \in Node
  /\ ri \in RowIdx
  /\ err \in Err

(* Spec section 3: every non-null index of a resolved RowIndex is a row of *)
(* the frame; -1 (a null row) only comes from an integer column selector.  *)
IndicesInBounds ==
  phase = "done" /\ ~ri.all =>
    \A t \in DOMAIN ri.rows :
      \/ ri.rows[t] \in 0..(nrows - 1)
      \/ ri.rows[t] = -1 /\ node.kind = "frame" /\ node.col.stype = "int"

(* Spec 4.1, per node: the selectors a frame of n rows accepts.            *)
MaskAccepted(c, n) ==
  /\ c.ncols = 1
  /\ \/ c.stype = "bool" /\ Len(c.vals) = n
     \/ c.stype = "int" /\ \A t \in DOMAIN c.vals : c.vals[t] \in -1..(n - 1)

(* Spec 4.1's dispatch table, rules 1 to 11, as the spec states it.       *)
SpecRule(v) ==
  IF "slice" \in v.preds THEN "slice"
  ELSE IF "expr" \in v.preds THEN "expr"
  ELSE IF "frame" \in v.preds THEN "frame"
  ELSE IF "int" \in v.preds THEN "int"
  ELSE IF "none" \in v.preds \/ "ellipsis" \in v.preds THEN "noneell"
  ELSE IF "nparray" \in v.preds THEN "nparray"
  ELSE IF "range" \in v.preds THEN "range"
  ELSE IF "iterable" \in v.preds THEN "iterable"
  ELSE IF "bool" \in v.preds THEN "bool"
  ELSE "unsupported"

SpecAccepts(v, n) ==
  CASE SpecRule(v) = "slice"   -> "trivial" \in v.preds \/ "numeric" \in v.preds
    [] SpecRule(v) = "expr"    -> v.col.stype = "bool"
    [] SpecRule(v) = "frame"   -> MaskAccepted(v.col, n)
    [] SpecRule(v) = "int"     -> v.a \in -n..(n - 1)
    [] SpecRule(v) = "noneell" -> TRUE
    [] SpecRule(v) = "nparray" -> /\ Len(Squeeze(v.dims)) = 1
                                  /\ v.dtype \in {"bool", "int64"}
                                  /\ MaskAccepted(ArrayFrame(v), n)
    [] SpecRule(v) = "range"   -> RangeFits(v.a, v.b, v.s, n)
    [] OTHER                   -> FALSE

(* The pipeline resolves a non-list selector exactly when spec 4.1 says    *)
(* it is valid for the frame, whichever of _make's order, the node's        *)
(* constructor, post_init_check and execute rejects it (a nullptr from      *)
(* _make counts as a rejection); in particular a float numpy array is      *)
(* rejected although _from_nparray's own dtype test never fires.            *)
AcceptsExactlySpec ==
  phase \in {"done", "error", "null"} => (phase = "done" <=> SpecAccepts(sel, nrows))

=============================================================================
