--------------------------- MODULE SelectorProofs ---------------------------
(***************************************************************************)
(* Proofs about the single-value selector nodes of i_node.cc, for every   *)
(* set of selector values and every set of frame row counts.               *)
(***************************************************************************)
EXTENDS Selector, FiniteSetTheorems, TLAPS

(***************************************************************************)
(* IndicesInBounds speaks of the state after execute, but execute only     *)
(* applies what make and post_init_check established: the node execute     *)
(* runs is one of the five that have an execute, a onerow_in's offset has  *)
(* been wrapped into the frame, and a frame_in's column has one of the two *)
(* accepted stypes and passed the mask test.  Until execute the workframe  *)
(* keeps its RowIndex ALL.                                                 *)
(***************************************************************************)
ExecKinds == {"allrows", "onerow", "slice", "expr", "frame"}

NodeInv ==
  /\ phase \in {"check", "execute"} => node.kind \in ExecKinds
  /\ phase \in {"check", "execute"} /\ node.kind = "frame" =>
       node.col.stype \in {"bool", "int"}
  /\ phase = "execute" /\ node.kind = "onerow" => node.irow \in 0..(nrows - 1)
  /\ phase = "execute" /\ node.kind = "frame" => ~FrameMaskInvalid(node.col, nrows)

RowIndexInv == phase \in {"make", "check", "execute"} => ri = AllRows

(* The inductive invariant behind IndicesInBound.                          *)
IInv == TypeOK /\ NodeInv /\ RowIndexInv /\ IndicesInBounds

(***************************************************************************)
(* AcceptsExactlySpec speaks of the end of the pipeline.  Before the end   *)
(* the node must already carry the spec's verdict: what is left for        *)
(* post_init_check and execute to test is exactly what spec 4.1 still      *)
(* requires of the value.                                                  *)
(***************************************************************************)
Accepted == SpecAccepts(sel, nrows)

Running == phase \in {"check", "execute"}

AccInv ==
  /\ phase = "done" => Accepted
  /\ phase \in {"error", "null"} => ~Accepted
  /\ Running /\ node.kind = "allrows" => Accepted
  /\ Running /\ node.kind = "slice" /\ node.isSlice => Accepted
  /\ Running /\ node.kind = "slice" /\ ~node.isSlice =>
       (Accepted <=> RangeFits(node.a, node.b, node.s, nrows))
  /\ Running /\ node.kind = "expr" => (Accepted <=> node.stype = "bool")
  /\ phase = "check" /\ node.kind = "onerow" =>
       (Accepted <=> ~OneRowInvalid(node.irow, nrows))
  /\ phase = "execute" /\ node.kind = "onerow" => Accepted
  /\ Running /\ node.kind = "frame" =>
       (Accepted <=> ~FrameMaskInvalid(node.col, nrows))

(* The inductive invariant behind AcceptsExactlySpec.                      *)
AInv == IInv /\ AccInv

-----------------------------------------------------------------------------
(***************************************************************************)
(* What PyRange returns.  len(range(a, b, s)) counts a set of offsets t    *)
(* that is closed downwards (if offset t is before the stop, so is every   *)
(* smaller one), and a downward-closed set of naturals with c elements is  *)
(* 0..c-1: so each element of the list lies between a and b.               *)
(***************************************************************************)

(* A finite, downward-closed set of naturals holds every number below its  *)
(* cardinality.                                                            *)
LEMMA DownClosedPrefix ==
  ASSUME NEW S \in SUBSET Nat, IsFiniteSet(S),
         \A x \in S, y \in Nat : y <= x => y \in S
  PROVE  \A j \in 0..(Cardinality(S) - 1) : j \in S
<1>. SUFFICES ASSUME NEW j \in 0..(Cardinality(S) - 1), j \notin S PROVE FALSE
  OBVIOUS
<1>1. Cardinality(S) \in Nat
  BY FS_CardinalityType
<1>2. S \subseteq 0..(j - 1)
  OBVIOUS
<1>3. IsFiniteSet(0..(j - 1)) /\ Cardinality(0..(j - 1)) = j
  <2>1. j \in Nat
    BY <1>1
  <2>2. IsFiniteSet(0..(j - 1))
        /\ Cardinality(0..(j - 1)) = IF 0 > j - 1 THEN 0 ELSE (j - 1) - 0 + 1
    BY <2>1, FS_Interval
  <2>. QED
    BY <2>1, <2>2
<1>4. Cardinality(S) <= j
  <2>1. Cardinality(S) <= Cardinality(0..(j - 1))
    BY <1>2, <1>3, FS_Subset, Zenon
  <2>. QED
    BY <1>3, <2>1
<1>. QED
  BY <1>1, <1>4

(* The offsets PyRangeLen counts.                                          *)
RangeOffsets(a, b, s) ==
  {t \in 0..AbsVal(b - a) : IF s > 0 THEN a + s * t < b ELSE a + s * t > b}

LEMMA RangeOffsetsPrefix ==
  ASSUME NEW a \in Int, NEW b \in Int, NEW s \in Int
  PROVE  /\ IsFiniteSet(RangeOffsets(a, b, s))
         /\ PyRangeLen(a, b, s) = Cardinality(RangeOffsets(a, b, s))
         /\ PyRangeLen(a, b, s) \in Nat
         /\ \A j \in 0..(PyRangeLen(a, b, s) - 1) : j \in RangeOffsets(a, b, s)
<1>. DEFINE S == RangeOffsets(a, b, s)
<1>1. AbsVal(b - a) \in Nat
  BY DEF AbsVal
<1>2. S \subseteq 0..AbsVal(b - a)
  BY DEF RangeOffsets
<1>3. IsFiniteSet(S)
  <2>1. IsFiniteSet(0..AbsVal(b - a))
    BY <1>1, FS_Interval
  <2>. QED
    BY <1>2, <2>1, FS_Subset
<1>4. PyRangeLen(a, b, s) = Cardinality(S)
  BY DEF PyRangeLen, RangeOffsets
<1>5. \A x \in S, y \in Nat : y <= x => y \in S
  <2>. SUFFICES ASSUME NEW x \in S, NEW y \in Nat, y <= x PROVE y \in S
    OBVIOUS
  <2>1. x \in 0..AbsVal(b - a) /\ y \in 0..AbsVal(b - a)
    BY <1>1, <1>2
  <2>2. s > 0 => s * y <= s * x
    BY <2>1
  <2>3. s <= 0 => s * y >= s * x
    BY <2>1
  <2>. QED
    BY <2>1, <2>2, <2>3 DEF RangeOffsets
<1>. QED
  BY <1>2, <1>3, <1>4, <1>5, DownClosedPrefix, FS_CardinalityType

(* Every element of range(a, b, s) lies from a towards b, b excluded.      *)
LEMMA PyRangeElems ==
  ASSUME NEW a \in Int, NEW b \in Int, NEW s \in Int
  PROVE  /\ PyRange(a, b, s) \in Seq(Int)
         /\ DOMAIN PyRange(a, b, s) = 1..PyRangeLen(a, b, s)
         /\ \A t \in DOMAIN PyRange(a, b, s) :
              IF s > 0 THEN a <= PyRange(a, b, s)[t] /\ PyRange(a, b, s)[t] < b
                       ELSE b < PyRange(a, b, s)[t] /\ PyRange(a, b, s)[t] <= a
<1>1. PyRangeLen(a, b, s) \in Nat
  BY RangeOffsetsPrefix
<1>2. PyRange(a, b, s) \in Seq(Int)
  BY <1>1 DEF PyRange
<1>3. ASSUME NEW t \in 1..PyRangeLen(a, b, s)
      PROVE  IF s > 0 THEN a <= a + s * (t - 1) /\ a + s * (t - 1) < b
                      ELSE b < a + s * (t - 1) /\ a + s * (t - 1) <= a
  <2>0. t - 1 \in 0..(PyRangeLen(a, b, s) - 1)
    BY <1>1
  <2>1. t - 1 \in RangeOffsets(a, b, s)
    BY <2>0, RangeOffsetsPrefix
  <2>2. t - 1 \in Nat
    BY <1>1
  <2>3. s > 0 => s * (t - 1) >= 0
    BY <2>2
  <2>4. s <= 0 => s * (t - 1) <= 0
    BY <2>2
  <2>. QED
    BY <2>1, <2>3, <2>4 DEF RangeOffsets
<1>. QED
  BY <1>1, <1>2, <1>3 DEF PyRange

(* slice.indices(n) clips a bound to 0..n for a positive step and to       *)
(* -1..n-1 otherwise.                                                      *)
LEMMA PyClipRange ==
  ASSUME NEW x \in Int, NEW n \in Nat, NEW s \in Int
  PROVE  /\ s > 0 => PyClip(x, n, s) \in 0..n
         /\ s <= 0 => PyClip(x, n, s) \in -1..(n - 1)
BY DEF PyClip

(* Every element of a Python slice of a frame of n rows is one of its      *)
(* rows, whatever the bounds and the step.                                 *)
LEMMA PySliceInBounds ==
  ASSUME NEW a \in Int, NEW b \in Int, NEW s0 \in Int, NEW n \in Nat,
         NEW na \in Int
  PROVE  /\ PySlice(a, b, s0, n, na) \in Seq(Int)
         /\ \A t \in DOMAIN PySlice(a, b, s0, n, na) :
              PySlice(a, b, s0, n, na)[t] \in 0..(n - 1)
<1>. DEFINE s  == PySliceStep(s0, na)
            a1 == IF a = na THEN (IF s > 0 THEN 0 ELSE n - 1) ELSE PyClip(a, n, s)
            b1 == IF b = na THEN (IF s > 0 THEN n ELSE -1) ELSE PyClip(b, n, s)
<1>1. s \in Int
  BY DEF PySliceStep
<1>2. PySlice(a, b, s0, n, na) = PyRange(a1, b1, s)
  BY DEF PySlice
<1>a. /\ s > 0 => PyClip(a, n, s) \in 0..n /\ PyClip(b, n, s) \in 0..n
      /\ s <= 0 => PyClip(a, n, s) \in -1..(n - 1) /\ PyClip(b, n, s) \in -1..(n - 1)
  BY <1>1, PyClipRange
<1>3. s > 0 => a1 \in 0..n /\ b1 \in 0..n
  BY <1>1, <1>a
<1>4. s <= 0 => a1 \in -1..(n - 1) /\ b1 \in -1..(n - 1)
  BY <1>1, <1>a
<1>5. a1 \in Int /\ b1 \in Int
  BY <1>1, <1>3, <1>4
<1>6. /\ PyRange(a1, b1, s) \in Seq(Int)
      /\ \A t \in DOMAIN PyRange(a1, b1, s) :
           IF s > 0 THEN a1 <= PyRange(a1, b1, s)[t] /\ PyRange(a1, b1, s)[t] < b1
                    ELSE b1 < PyRange(a1, b1, s)[t] /\ PyRange(a1, b1, s)[t] <= a1
  BY <1>1, <1>5, PyRangeElems
<1>7. \A t \in DOMAIN PyRange(a1, b1, s) : PyRange(a1, b1, s)[t] \in 0..(n - 1)
  <2>. SUFFICES ASSUME NEW t \in DOMAIN PyRange(a1, b1, s)
                PROVE  PyRange(a1, b1, s)[t] \in 0..(n - 1)
    OBVIOUS
  <2>1. PyRange(a1, b1, s)[t] \in Int
    BY <1>6
  <2>2. CASE s > 0
    <3>1. a1 <= PyRange(a1, b1, s)[t] /\ PyRange(a1, b1, s)[t] < b1
      BY <1>6, <2>2
    <3>. QED
      BY <1>3, <2>1, <2>2, <3>1
  <2>3. CASE ~(s > 0)
    <3>1. b1 < PyRange(a1, b1, s)[t] /\ PyRange(a1, b1, s)[t] <= a1
      BY <1>6, <2>3
    <3>. QED
      BY <1>1, <1>4, <2>1, <2>3, <3>1
  <2>. QED
    BY <2>2, <2>3
<1>. QED
  BY <1>2, <1>6, <1>7

-----------------------------------------------------------------------------
(***************************************************************************)
(* _make's first match over MakeOrder is the rule of spec 4.1's table.     *)
(***************************************************************************)

LEMMA MakeOrderFacts ==
  /\ DOMAIN MakeOrder = 1..9
  /\ MakeOrder[1] = "slice"
  /\ MakeOrder[2] = "expr"
  /\ MakeOrder[3] = "frame"
  /\ MakeOrder[4] = "int"
  /\ MakeOrder[5] = "noneell"
  /\ MakeOrder[6] = "nparray"
  /\ MakeOrder[7] = "range"
  /\ MakeOrder[8] = "iterable"
  /\ MakeOrder[9] = "bool"
BY DEF MakeOrder

(* The test of each rule of _make.                                         *)
LEMMA RuleFacts ==
  ASSUME NEW v
  PROVE  /\ Rule("slice", v) <=> "slice" \in v.preds
         /\ Rule("expr", v) <=> "expr" \in v.preds
         /\ Rule("frame", v) <=> "frame" \in v.preds
         /\ Rule("int", v) <=> "int" \in v.preds
         /\ Rule("noneell", v) <=> ("none" \in v.preds \/ "ellipsis" \in v.preds)
         /\ Rule("nparray", v) <=> "nparray" \in v.preds
         /\ Rule("range", v) <=> "range" \in v.preds
         /\ Rule("iterable", v) <=> "iterable" \in v.preds
         /\ Rule("bool", v) <=> "bool" \in v.preds
BY DEF Rule

(* The first rule that matches is the one _make takes.                     *)
LEMMA FirstRuleAt ==
  ASSUME NEW v, NEW q0 \in 1..9, Rule(MakeOrder[q0], v),
         \A p \in 1..(q0 - 1) : ~Rule(MakeOrder[p], v)
  PROVE  FirstRule(v) = MakeOrder[q0]
<1>. DEFINE P(q) == Rule(MakeOrder[q], v) /\ \A p \in 1..(q - 1) : ~Rule(MakeOrder[p], v)
<1>1. DOMAIN MakeOrder = 1..9
  BY MakeOrderFacts
<1>2. P(q0)
  OBVIOUS
<1>3. \A q \in 1..9 : P(q) => q = q0
  <2>. SUFFICES ASSUME NEW q \in 1..9, P(q) PROVE q = q0
    OBVIOUS
  <2>1. ~(q < q0)
    OBVIOUS
  <2>2. ~(q0 < q)
    OBVIOUS
  <2>. QED
    BY <2>1, <2>2
<1>4. (CHOOSE q \in DOMAIN MakeOrder : P(q)) = q0
  BY <1>1, <1>2, <1>3
<1>5. \E q \in DOMAIN MakeOrder : Rule(MakeOrder[q], v)
  BY <1>1, <1>2
<1>. QED
  BY <1>4, <1>5 DEF FirstRule

(* Spec 4.1's rule of a value, in _make's names.                           *)
MakeRuleOf(v) == IF SpecRule(v) = "unsupported" THEN "unmatched" ELSE SpecRule(v)

LEMMA FirstRuleSpec ==
  ASSUME NEW v
  PROVE  FirstRule(v) = MakeRuleOf(v)
<1>1. CASE SpecRule(v) = "slice"
  <2>1. Rule(MakeOrder[1], v) /\ \A p \in 1..0 : ~Rule(MakeOrder[p], v)
    BY <1>1, RuleFacts, MakeOrderFacts DEF SpecRule
  <2>. QED
    BY <1>1, <2>1, FirstRuleAt, MakeOrderFacts DEF MakeRuleOf
<1>2. CASE SpecRule(v) = "expr"
  <2>1. Rule(MakeOrder[2], v) /\ \A p \in 1..1 : ~Rule(MakeOrder[p], v)
    BY <1>2, RuleFacts, MakeOrderFacts DEF SpecRule
  <2>. QED
    BY <1>2, <2>1, FirstRuleAt, MakeOrderFacts DEF MakeRuleOf
<1>3. CASE SpecRule(v) = "frame"
  <2>1. Rule(MakeOrder[3], v) /\ \A p \in 1..2 : ~Rule(MakeOrder[p], v)
    BY <1>3, RuleFacts, MakeOrderFacts DEF SpecRule
  <2>. QED
    BY <1>3, <2>1, FirstRuleAt, MakeOrderFacts DEF MakeRuleOf
<1>4. CASE SpecRule(v) = "int"
  <2>1. Rule(MakeOrder[4], v) /\ \A p \in 1..3 : ~Rule(MakeOrder[p], v)
    BY <1>4, RuleFacts, MakeOrderFacts DEF SpecRule
  <2>. QED
    BY <1>4, <2>1, FirstRuleAt, MakeOrderFacts DEF MakeRuleOf
<1>5. CASE SpecRule(v) = "noneell"
  <2>1. Rule(MakeOrder[5], v) /\ \A p \in 1..4 : ~Rule(MakeOrder[p], v)
    BY <1>5, RuleFacts, MakeOrderFacts DEF SpecRule
  <2>. QED
    BY <1>5, <2>1, FirstRuleAt, MakeOrderFacts DEF MakeRuleOf
<1>6. CASE SpecRule(v) = "nparray"
  <2>1. Rule(MakeOrder[6], v) /\ \A p \in 1..5 : ~Rule(MakeOrder[p], v)
    BY <1>6, RuleFacts, MakeOrderFacts DEF SpecRule
  <2>. QED
    BY <1>6, <2>1, FirstRuleAt, MakeOrderFacts DEF MakeRuleOf
<1>7. CASE SpecRule(v) = "range"
  <2>1. Rule(MakeOrder[7], v) /\ \A p \in 1..6 : ~Rule(MakeOrder[p], v)
    BY <1>7, RuleFacts, MakeOrderFacts DEF SpecRule
  <2>. QED
    BY <1>7, <2>1, FirstRuleAt, MakeOrderFacts DEF MakeRuleOf
<1>8. CASE SpecRule(v) = "iterable"
  <2>1. Rule(MakeOrder[8], v) /\ \A p \in 1..7 : ~Rule(MakeOrder[p], v)
    BY <1>8, RuleFacts, MakeOrderFacts DEF SpecRule
  <2>. QED
    BY <1>8, <2>1, FirstRuleAt, MakeOrderFacts DEF MakeRuleOf
<1>9. CASE SpecRule(v) = "bool"
  <2>1. Rule(MakeOrder[9], v) /\ \A p \in 1..8 : ~Rule(MakeOrder[p], v)
    BY <1>9, RuleFacts, MakeOrderFacts DEF SpecRule
  <2>. QED
    BY <1>9, <2>1, FirstRuleAt, MakeOrderFacts DEF MakeRuleOf
<1>10. CASE SpecRule(v) = "unsupported"
  <2>1. ~\E q \in DOMAIN MakeOrder : Rule(MakeOrder[q], v)
    BY <1>10, RuleFacts, MakeOrderFacts DEF SpecRule
  <2>. QED
    BY <1>10, <2>1 DEF FirstRule, MakeRuleOf
<1>. QED
  BY <1>1, <1>2, <1>3, <1>4, <1>5, <1>6, <1>7, <1>8, <1>9, <1>10 DEF SpecRule

-----------------------------------------------------------------------------
(***************************************************************************)
(* What TruePositions returns.  The j-th true position is the t whose rank *)
(* (the number of true positions up to t) is j.  Such a t exists for every *)
(* j up to the number of true positions: the rank is injective on the true *)
(* positions and ranges over 1..c, a set of the same size, so it is onto.  *)
(***************************************************************************)

(* The rank of position t among the true positions P.                      *)
RankIn(P, t) == Cardinality({u \in P : u <= t})

LEMMA RankFacts ==
  ASSUME NEW P \in SUBSET Int, IsFiniteSet(P), NEW t \in P
  PROVE  /\ RankIn(P, t) \in 1..Cardinality(P)
         /\ \A w \in P : t < w => RankIn(P, t) < RankIn(P, w)
<1>. DEFINE Up(x) == {u \in P : u <= x}
<1>1. Up(t) \subseteq P /\ IsFiniteSet(Up(t)) /\ Cardinality(Up(t)) <= Cardinality(P)
  BY FS_Subset
<1>2. Cardinality(Up(t)) \in Nat /\ Cardinality(P) \in Nat
  BY <1>1, FS_CardinalityType
<1>3. Cardinality(Up(t)) # 0
  <2>1. t \in Up(t)
    OBVIOUS
  <2>. QED
    BY <1>1, <2>1, FS_EmptySet
<1>4. RankIn(P, t) \in 1..Cardinality(P)
  BY <1>1, <1>2, <1>3 DEF RankIn
<1>5. ASSUME NEW w \in P, t < w PROVE RankIn(P, t) < RankIn(P, w)
  <2>0. Up(t) \subseteq Up(w)
    <3>. SUFFICES ASSUME NEW u \in P, u <= t PROVE u <= w
      OBVIOUS
    <3>. QED
      BY <1>5
  <2>1. Up(t) \subseteq Up(w) /\ IsFiniteSet(Up(w))
    BY <2>0, FS_Subset
  <2>2. Cardinality(Up(t)) <= Cardinality(Up(w))
        /\ (Cardinality(Up(w)) = Cardinality(Up(t)) => Up(w) = Up(t))
    BY <2>1, FS_Subset
  <2>3. w \in Up(w) /\ w \notin Up(t)
    BY <1>5
  <2>4. Cardinality(Up(w)) \in Nat
    BY <2>1, FS_CardinalityType
  <2>. QED
    BY <1>2, <2>2, <2>3, <2>4 DEF RankIn
<1>. QED
  BY <1>4, <1>5

(* Every rank 1..c is the rank of some true position.                      *)
LEMMA RankOnto ==
  ASSUME NEW P \in SUBSET Int, IsFiniteSet(P),
         NEW j \in 1..Cardinality(P)
  PROVE  \E t \in P : RankIn(P, t) = j
<1>. DEFINE f == [t \in P |-> RankIn(P, t)]
            c == Cardinality(P)
<1>1. c \in Nat
  BY FS_CardinalityType
<1>2. f \in [P -> 1..c]
  BY RankFacts
<1>3. IsInjective(f)
  <2>. SUFFICES ASSUME NEW x \in P, NEW y \in P, f[x] = f[y] PROVE x = y
    BY DEF IsInjective
  <2>1. x < y => RankIn(P, x) < RankIn(P, y)
    BY RankFacts
  <2>2. y < x => RankIn(P, y) < RankIn(P, x)
    BY RankFacts
  <2>3. RankIn(P, x) \in Int /\ RankIn(P, y) \in Int
    BY RankFacts
  <2>. QED
    BY <2>1, <2>2, <2>3
<1>4. f \in Injection(P, 1..c)
  BY <1>2, <1>3 DEF Injection
<1>5. IsFiniteSet(1..c) /\ Cardinality(1..c) = c
  BY <1>1, FS_Interval
<1>6. f \in Surjection(P, 1..c)
  BY <1>4, <1>5, FS_Injection
<1>. QED
  BY <1>6 DEF Surjection

(* The true positions of a mask of k entries are rows 0..k-1.              *)
(* The j-th true position of P, as TruePositions picks it.                 *)
PickRank(P, j) == CHOOSE t \in P : Cardinality({u \in P : u <= t}) = j

LEMMA TruePositionsInBounds ==
  ASSUME NEW m, NEW k \in Nat, DOMAIN m = 1..k
  PROVE  TruePositions(m) \in Seq(0..(k - 1))
<1>. DEFINE P == {t \in DOMAIN m : m[t] = 1}
<1>1. P \subseteq 1..k /\ IsFiniteSet(P)
  BY FS_Interval, FS_Subset
<1>2. Cardinality(P) \in Nat
  BY <1>1, FS_CardinalityType
<1>3. \A j \in 1..Cardinality(P) : PickRank(P, j) \in 1..k
  <2>. SUFFICES ASSUME NEW j \in 1..Cardinality(P)
                PROVE  PickRank(P, j) \in 1..k
    OBVIOUS
  <2>1. \E t \in P : Cardinality({u \in P : u <= t}) = j
    BY <1>1, RankOnto DEF RankIn
  <2>2. PickRank(P, j) \in P
    BY <2>1 DEF PickRank
  <2>. QED
    BY <1>1, <2>2
<1>4. TruePositions(m) = [j \in 1..Cardinality(P) |-> PickRank(P, j) - 1]
  BY DEF TruePositions, PickRank
<1>5. [j \in 1..Cardinality(P) |-> PickRank(P, j) - 1]
        \in [1..Cardinality(P) -> 0..(k - 1)]
  BY <1>3
<1>. QED
  BY <1>2, <1>4, <1>5

-----------------------------------------------------------------------------
(***************************************************************************)
(* The three ways a step of the pipeline ends: a node is built, an         *)
(* exception is raised, or execute hands its RowIndex to the workframe.    *)
(***************************************************************************)

LEMMA SelFacts ==
  ASSUME TypeOK
  PROVE  /\ sel \in SelVal
         /\ sel.a \in Int /\ sel.b \in Int /\ sel.s \in Int
         /\ sel.col \in Col
         /\ nrows \in Nat
BY ValuesAssumption, NRowsAssumption DEF TypeOK, SelVal

LEMMA InitIInv == Init => IInv
<1>. SUFFICES ASSUME Init PROVE IInv
  OBVIOUS
<1>1. NullNode \in Node
  BY DEF NullNode, Node, Col, STypes, NodeKinds
<1>2. AllRows \in RowIdx /\ NoErr \in Err
  BY DEF AllRows, RowIdx, NoErr, Err, ErrKinds
<1>. QED
  BY <1>1, <1>2 DEF Init, IInv, TypeOK, Phases, NodeInv, RowIndexInv, IndicesInBounds

(* make builds a node execute can run; post_init_check is next.            *)
LEMMA BuiltIInv ==
  ASSUME IInv, phase = "make", NEW n \in Node, n.kind \in ExecKinds,
         n.kind = "frame" => n.col.stype \in {"bool", "int"},
         Built(n), UNCHANGED <<sel, nrows, ri>>
  PROVE  IInv'
BY DEF Built, IInv, TypeOK, Phases, NodeInv, RowIndexInv, IndicesInBounds

(* An exception ends the resolution and leaves the workframe as it was.    *)
LEMMA RaiseIInv ==
  ASSUME IInv, phase \in {"make", "check", "execute"},
         NEW k \in {"TypeError", "ValueError"},
         NEW g \in {"construct", "check", "execute"},
         Raise(k, g), UNCHANGED <<sel, nrows, node, ri>>
  PROVE  IInv'
BY DEF Raise, IInv, TypeOK, Phases, Err, ErrKinds, NodeInv, RowIndexInv,
       IndicesInBounds

(* execute applies a RowIndex whose rows are rows of the frame.            *)
LEMMA DoneIInv ==
  ASSUME IInv, phase = "execute", NEW r \in RowIdx,
         ~r.all => \A t \in DOMAIN r.rows :
                     \/ r.rows[t] \in 0..(nrows - 1)
                     \/ r.rows[t] = -1 /\ node.kind = "frame" /\ node.col.stype = "int",
         Done(r)
  PROVE  IInv'
BY DEF Done, IInv, TypeOK, Phases, NodeInv, RowIndexInv, IndicesInBounds

-----------------------------------------------------------------------------
(* The nodes make builds.                                                  *)

LEMMA MkNodeFacts ==
  ASSUME NEW k \in NodeKinds
  PROVE  MkNode(k) \in Node /\ MkNode(k).kind = k
<1>1. NullNode \in Node
  BY DEF NullNode, Node, Col, STypes, NodeKinds
<1>. QED
  BY <1>1 DEF MkNode, Node

(* The slice_in node of a slice (f TRUE) or a range (f FALSE).            *)
SliceNodeOf(a, b, s, f) ==
  [MkNode("slice") EXCEPT !.a = a, !.b = b, !.s = s, !.isSlice = f]

LEMMA SliceNode ==
  ASSUME NEW a \in Int, NEW b \in Int, NEW s \in Int, NEW f \in BOOLEAN
  PROVE  SliceNodeOf(a, b, s, f) \in Node /\ SliceNodeOf(a, b, s, f).kind = "slice"
<1>1. MkNode("slice") \in Node /\ MkNode("slice").kind = "slice"
  BY MkNodeFacts DEF NodeKinds
<1>. QED
  BY <1>1 DEF Node, SliceNodeOf

LEMMA SliceNodeIsSlice ==
  ASSUME NEW a, NEW b, NEW s
  PROVE  /\ SliceNodeOf(a, b, s, TRUE).isSlice
         /\ ~SliceNodeOf(a, b, s, FALSE).isSlice
<1>1. MkNode("slice") \in Node
  BY MkNodeFacts DEF NodeKinds
<1>. QED
  BY <1>1 DEF Node, SliceNodeOf

LEMMA ExprNode ==
  ASSUME NEW st \in STypes
  PROVE  LET n == [MkNode("expr") EXCEPT !.stype = st]
         IN  n \in Node /\ n.kind = "expr" /\ n.stype = st
<1>1. MkNode("expr") \in Node /\ MkNode("expr").kind = "expr"
  BY MkNodeFacts DEF NodeKinds
<1>. QED
  BY <1>1 DEF Node

LEMMA OneRowNode ==
  ASSUME NEW i \in Int
  PROVE  LET n == [MkNode("onerow") EXCEPT !.irow = i]
         IN  n \in Node /\ n.kind = "onerow" /\ n.irow = i
<1>1. MkNode("onerow") \in Node /\ MkNode("onerow").kind = "onerow"
  BY MkNodeFacts DEF NodeKinds
<1>. QED
  BY <1>1 DEF Node

LEMMA FrameNode ==
  ASSUME NEW c \in Col
  PROVE  LET n == [MkNode("frame") EXCEPT !.col = c]
         IN  n \in Node /\ n.kind = "frame" /\ n.col = c
<1>1. MkNode("frame") \in Node /\ MkNode("frame").kind = "frame"
  BY MkNodeFacts DEF NodeKinds
<1>. QED
  BY <1>1 DEF Node

(* frame_in's constructor either throws or builds a node of an accepted    *)
(* stype, for the column of a Frame and for a converted numpy array.       *)
LEMMA NewFrameInIInv ==
  ASSUME IInv, phase = "make", NEW c \in Col, NewFrameIn(c),
         UNCHANGED <<sel, nrows, ri>>
  PROVE  IInv'
<1>1. CASE c.ncols # 1 /\ Raise("ValueError", "construct") /\ UNCHANGED node
  BY <1>1, RaiseIInv
<1>2. CASE c.ncols = 1 /\ c.stype \notin {"bool", "int"}
           /\ Raise("TypeError", "construct") /\ UNCHANGED node
  BY <1>2, RaiseIInv
<1>3. CASE c.ncols = 1 /\ c.stype \in {"bool", "int"}
           /\ Built([MkNode("frame") EXCEPT !.col = c])
  <2>1. [MkNode("frame") EXCEPT !.col = c] \in Node
        /\ [MkNode("frame") EXCEPT !.col = c].kind = "frame"
        /\ [MkNode("frame") EXCEPT !.col = c].col = c
    BY FrameNode
  <2>. QED
    BY <1>3, <2>1, BuiltIInv DEF ExecKinds
<1>. QED
  BY <1>1, <1>2, <1>3 DEF NewFrameIn

LEMMA ArrayFrameCol ==
  ASSUME NEW v \in SelVal
  PROVE  ArrayFrame(v) \in Col
BY DEF ArrayFrame, SelVal, Col, STypes

(* Every branch of _make keeps the invariant.                              *)
LEMMA MakeIInv ==
  ASSUME IInv,
         \/ MakeAllRowsSlice \/ MakeSlice \/ MakeSliceTypeError \/ MakeExpr
         \/ MakeFrame \/ MakeOneRow \/ MakeAllRows \/ MakeNpArrayShapeError
         \/ MakeNpArray \/ MakeRange \/ MakeMultislice \/ MakeBoolError
         \/ MakeNull
  PROVE  IInv'
<1>0. /\ sel \in SelVal /\ sel.a \in Int /\ sel.b \in Int /\ sel.s \in Int
      /\ sel.col \in Col
  BY SelFacts DEF IInv
<1>1. CASE MakeAllRowsSlice
  BY <1>1, MkNodeFacts, BuiltIInv DEF MakeAllRowsSlice, MakeStep, NodeKinds, ExecKinds
<1>2. CASE MakeSlice
  <2>1. Built(SliceNodeOf(sel.a, sel.b, sel.s, TRUE))
    BY <1>2 DEF MakeSlice, SliceNodeOf
  <2>2. phase = "make" /\ UNCHANGED <<sel, nrows, ri>>
    BY <1>2 DEF MakeSlice, MakeStep
  <2>3. SliceNodeOf(sel.a, sel.b, sel.s, TRUE) \in Node
        /\ SliceNodeOf(sel.a, sel.b, sel.s, TRUE).kind = "slice"
    BY <1>0, SliceNode
  <2>. QED
    BY <2>1, <2>2, <2>3, BuiltIInv DEF ExecKinds
<1>3. CASE MakeSliceTypeError
  BY <1>3, RaiseIInv DEF MakeSliceTypeError, MakeStep
<1>4. CASE MakeExpr
  <2>1. sel.col.stype \in STypes
    BY <1>0 DEF Col
  <2>2. LET n == [MkNode("expr") EXCEPT !.stype = sel.col.stype]
        IN  n \in Node /\ n.kind = "expr"
    BY <2>1, ExprNode
  <2>. QED
    BY <1>4, <2>2, BuiltIInv DEF MakeExpr, MakeStep, ExecKinds
<1>5. CASE MakeFrame
  BY <1>0, <1>5, NewFrameInIInv DEF MakeFrame, MakeStep
<1>6. CASE MakeOneRow
  <2>1. LET n == [MkNode("onerow") EXCEPT !.irow = sel.a]
        IN  n \in Node /\ n.kind = "onerow"
    BY <1>0, OneRowNode
  <2>. QED
    BY <1>6, <2>1, BuiltIInv DEF MakeOneRow, MakeStep, ExecKinds
<1>7. CASE MakeAllRows
  BY <1>7, MkNodeFacts, BuiltIInv DEF MakeAllRows, MakeStep, NodeKinds, ExecKinds
<1>8. CASE MakeNpArrayShapeError
  BY <1>8, RaiseIInv DEF MakeNpArrayShapeError, MakeStep
<1>9. CASE MakeNpArray
  BY <1>0, <1>9, ArrayFrameCol, NewFrameInIInv DEF MakeNpArray, MakeStep
<1>10. CASE MakeRange
  <2>1. Built(SliceNodeOf(sel.a, sel.b, sel.s, FALSE))
    BY <1>10 DEF MakeRange, SliceNodeOf
  <2>2. phase = "make" /\ UNCHANGED <<sel, nrows, ri>>
    BY <1>10 DEF MakeRange, MakeStep
  <2>3. SliceNodeOf(sel.a, sel.b, sel.s, FALSE) \in Node
        /\ SliceNodeOf(sel.a, sel.b, sel.s, FALSE).kind = "slice"
    BY <1>0, SliceNode
  <2>. QED
    BY <2>1, <2>2, <2>3, BuiltIInv DEF ExecKinds
<1>11. CASE MakeMultislice
  <2>1. MkNode("multislice") \in Node
    BY MkNodeFacts DEF NodeKinds
  <2>. QED
    BY <1>11, <2>1 DEF MakeMultislice, MakeStep, IInv, TypeOK, Phases, NodeInv,
                       RowIndexInv, IndicesInBounds
<1>12. CASE MakeBoolError
  BY <1>12, RaiseIInv DEF MakeBoolError, MakeStep
<1>13. CASE MakeNull
  <2>1. NullNode \in Node
    BY DEF NullNode, Node, Col, STypes, NodeKinds
  <2>. QED
    BY <1>13, <2>1 DEF MakeNull, MakeStep, IInv, TypeOK, Phases, NodeInv,
                       RowIndexInv, IndicesInBounds
<1>. QED
  BY <1>1, <1>2, <1>3, <1>4, <1>5, <1>6, <1>7, <1>8, <1>9, <1>10, <1>11,
     <1>12, <1>13

-----------------------------------------------------------------------------
(* post_init_check.                                                        *)

(* The onerow_in node after post_init_check has wrapped its offset.        *)
WrappedOneRow(nd, n) ==
  [nd EXCEPT !.irow = IF nd.irow < 0 THEN nd.irow + n ELSE nd.irow]

LEMMA WrappedOneRowFacts ==
  ASSUME NEW nd \in Node, NEW n \in Int
  PROVE  /\ WrappedOneRow(nd, n) \in Node
         /\ WrappedOneRow(nd, n).kind = nd.kind
         /\ WrappedOneRow(nd, n).irow = IF nd.irow < 0 THEN nd.irow + n ELSE nd.irow
BY DEF WrappedOneRow, Node

LEMMA CheckIInv ==
  ASSUME IInv,
         \/ CheckOneRowFail \/ CheckOneRowPass \/ CheckFrameFail \/ CheckFramePass
         \/ CheckDefault
  PROVE  IInv'
<1>0. node \in Node /\ nrows \in Nat
  BY SelFacts DEF IInv, TypeOK
<1>1. CASE CheckOneRowFail
  BY <1>1, RaiseIInv DEF CheckOneRowFail, CheckStep
<1>2. CASE CheckOneRowPass
  <2>1. node' = WrappedOneRow(node, nrows)
    BY <1>2 DEF CheckOneRowPass, WrappedOneRow
  <2>2. phase = "check" /\ node.kind = "onerow" /\ ~OneRowInvalid(node.irow, nrows)
        /\ phase' = "execute" /\ UNCHANGED <<sel, nrows, ri, err>>
    BY <1>2 DEF CheckOneRowPass, CheckStep
  <2>3. WrappedOneRow(node, nrows) \in Node
        /\ WrappedOneRow(node, nrows).kind = "onerow"
        /\ WrappedOneRow(node, nrows).irow \in 0..(nrows - 1)
    <3>1. node.irow \in Int
      BY <1>0 DEF Node
    <3>2. WrappedOneRow(node, nrows) \in Node
          /\ WrappedOneRow(node, nrows).kind = node.kind
          /\ WrappedOneRow(node, nrows).irow
               = IF node.irow < 0 THEN node.irow + nrows ELSE node.irow
      BY <1>0, WrappedOneRowFacts
    <3>. QED
      BY <1>0, <2>2, <3>1, <3>2 DEF OneRowInvalid
  <2>. QED
    BY <2>1, <2>2, <2>3 DEF IInv, TypeOK, Phases, NodeInv, RowIndexInv,
                            IndicesInBounds, ExecKinds
<1>3. CASE CheckFrameFail
  BY <1>3, RaiseIInv DEF CheckFrameFail, CheckStep
<1>4. CASE CheckFramePass
  BY <1>4 DEF CheckFramePass, CheckStep, IInv, TypeOK, Phases, NodeInv,
              RowIndexInv, IndicesInBounds
<1>5. CASE CheckDefault
  BY <1>5 DEF CheckDefault, IInv, TypeOK, Phases, NodeInv, RowIndexInv,
              IndicesInBounds, ExecKinds
<1>. QED
  BY <1>1, <1>2, <1>3, <1>4, <1>5

-----------------------------------------------------------------------------
(* execute.                                                                *)

(* A sequence of integers all in S is a sequence over S.                   *)
LEMMA SeqNarrow ==
  ASSUME NEW x \in Seq(Int), NEW S, \A t \in DOMAIN x : x[t] \in S
  PROVE  x \in Seq(S)
OBVIOUS

LEMMA RowsFacts ==
  ASSUME NEW x \in Seq(Int)
  PROVE  Rows(x) \in RowIdx /\ ~Rows(x).all /\ Rows(x).rows = x
BY DEF Rows, RowIdx

(* A sequence of rows of the frame is a RowIndex execute may apply.        *)
LEMMA InBoundsRows ==
  ASSUME IInv, phase = "execute", NEW n \in Nat, nrows = n,
         NEW x \in Seq(0..(n - 1)), Done(Rows(x))
  PROVE  IInv'
<1>1. x \in Seq(Int)
  OBVIOUS
<1>2. \A t \in DOMAIN x : x[t] \in 0..(n - 1)
  OBVIOUS
<1>. QED
  BY <1>1, <1>2, RowsFacts, DoneIInv

(* The elements of range(a, b, s) that RangeFits lets through are rows.    *)
LEMMA RangeRowsInBounds ==
  ASSUME NEW a \in Int, NEW b \in Int, NEW s \in Int, NEW n \in Nat,
         RangeFits(a, b, s, n)
  PROVE  RangeRows(a, b, s, n) \in Seq(0..(n - 1))
<1>1. PyRange(a, b, s) \in Seq(Int)
  BY PyRangeElems
<1>2. \A t \in DOMAIN PyRange(a, b, s) : Wrap(PyRange(a, b, s)[t], n) \in 0..(n - 1)
  BY <1>1 DEF RangeFits
<1>. QED
  BY <1>1, <1>2 DEF RangeRows

(* The RowIndex of an accepted mask column: the true positions of a        *)
(* boolean one, or the values of an integer one, -1 included.              *)
LEMMA ColumnRowsInBounds ==
  ASSUME NEW c \in Col, NEW n \in Nat, c.stype \in {"bool", "int"},
         ~FrameMaskInvalid(c, n)
  PROVE  /\ ColumnRows(c) \in Seq(Int)
         /\ \A t \in DOMAIN ColumnRows(c) :
              \/ ColumnRows(c)[t] \in 0..(n - 1)
              \/ ColumnRows(c)[t] = -1 /\ c.stype = "int"
<1>1. c.vals \in Seq(Int)
  BY DEF Col
<1>2. CASE c.stype = "bool"
  <2>1. Len(c.vals) = n
    BY <1>2 DEF FrameMaskInvalid
  <2>2. DOMAIN c.vals = 1..n
    BY <1>1, <2>1
  <2>3. TruePositions(c.vals) \in Seq(0..(n - 1))
    BY <2>2, TruePositionsInBounds
  <2>. QED
    BY <1>2, <2>3 DEF ColumnRows
<1>3. CASE c.stype = "int"
  <2>1. \A t \in DOMAIN c.vals : c.vals[t] \in -1..(n - 1)
    BY <1>1, <1>3 DEF FrameMaskInvalid, IntMaskInvalid
  <2>. QED
    BY <1>1, <1>3, <2>1 DEF ColumnRows
<1>. QED
  BY <1>2, <1>3

LEMMA ExecIInv ==
  ASSUME IInv,
         \/ ExecAllRows \/ ExecOneRow \/ ExecSlice \/ ExecRangeError \/ ExecRange
         \/ ExecExprTypeError \/ ExecExpr \/ ExecFrame
  PROVE  IInv'
<1>0. node \in Node /\ nrows \in Nat
  BY SelFacts DEF IInv, TypeOK
<1>a. /\ node.a \in Int /\ node.b \in Int /\ node.s \in Int /\ node.irow \in Int
      /\ node.col \in Col
  BY <1>0 DEF Node
<1>1. CASE ExecAllRows
  <2>1. ri = AllRows /\ AllRows \in RowIdx /\ AllRows.all
    BY <1>1 DEF ExecAllRows, ExecStep, IInv, RowIndexInv, AllRows, RowIdx
  <2>. QED
    BY <1>1, <2>1, DoneIInv DEF ExecAllRows, ExecStep
<1>2. CASE ExecOneRow
  <2>1. node.irow \in 0..(nrows - 1)
    BY <1>2 DEF ExecOneRow, ExecStep, IInv, NodeInv
  <2>2. << node.irow >> \in Seq(0..(nrows - 1))
    BY <2>1
  <2>. QED
    BY <1>0, <1>2, <2>2, InBoundsRows DEF ExecOneRow, ExecStep
<1>3. CASE ExecSlice
  <2>1. PySlice(node.a, node.b, node.s, nrows, NA) \in Seq(0..(nrows - 1))
    <3>1. /\ PySlice(node.a, node.b, node.s, nrows, NA) \in Seq(Int)
          /\ \A t \in DOMAIN PySlice(node.a, node.b, node.s, nrows, NA) :
               PySlice(node.a, node.b, node.s, nrows, NA)[t] \in 0..(nrows - 1)
      BY <1>0, <1>a, NAAssumption, PySliceInBounds
    <3>. QED
      BY <3>1, SeqNarrow
  <2>. QED
    BY <1>0, <1>3, <2>1, InBoundsRows DEF ExecSlice, ExecStep
<1>4. CASE ExecRangeError
  BY <1>4, RaiseIInv DEF ExecRangeError, ExecStep
<1>5. CASE ExecRange
  <2>1. RangeRows(node.a, node.b, node.s, nrows) \in Seq(0..(nrows - 1))
    BY <1>0, <1>a, <1>5, RangeRowsInBounds DEF ExecRange
  <2>. QED
    BY <1>0, <1>5, <2>1, InBoundsRows DEF ExecRange, ExecStep
<1>6. CASE ExecExprTypeError
  BY <1>6, RaiseIInv DEF ExecExprTypeError, ExecStep
<1>7. CASE ExecExpr
  <2>1. PICK m \in [1..nrows -> {0, 1}] : Done(Rows(TruePositions(m)))
    BY <1>7 DEF ExecExpr
  <2>2. TruePositions(m) \in Seq(0..(nrows - 1))
    BY <1>0, TruePositionsInBounds
  <2>. QED
    BY <1>0, <1>7, <2>1, <2>2, InBoundsRows DEF ExecExpr, ExecStep
<1>8. CASE ExecFrame
  <2>1. phase = "execute" /\ node.kind = "frame"
        /\ node.col.stype \in {"bool", "int"} /\ ~FrameMaskInvalid(node.col, nrows)
    BY <1>8 DEF ExecFrame, ExecStep, IInv, NodeInv
  <2>2. /\ ColumnRows(node.col) \in Seq(Int)
        /\ \A t \in DOMAIN ColumnRows(node.col) :
             \/ ColumnRows(node.col)[t] \in 0..(nrows - 1)
             \/ ColumnRows(node.col)[t] = -1 /\ node.col.stype = "int"
    BY <1>0, <1>a, <2>1, ColumnRowsInBounds
  <2>3. Rows(ColumnRows(node.col)) \in RowIdx
        /\ ~Rows(ColumnRows(node.col)).all
        /\ Rows(ColumnRows(node.col)).rows = ColumnRows(node.col)
    BY <2>2, RowsFacts
  <2>. QED
    BY <1>8, <2>1, <2>2, <2>3, DoneIInv DEF ExecFrame
<1>. QED
  BY <1>1, <1>2, <1>3, <1>4, <1>5, <1>6, <1>7, <1>8

-----------------------------------------------------------------------------
LEMMA NextIInv == IInv /\ [Next]_vars => IInv'
<1>. SUFFICES ASSUME IInv, [Next]_vars PROVE IInv'
  OBVIOUS
<1>1. CASE UNCHANGED vars
  BY <1>1 DEF vars, IInv, TypeOK, NodeInv, RowIndexInv, IndicesInBounds,
              FrameMaskInvalid, IntMaskInvalid
<1>2. CASE \/ MakeAllRowsSlice \/ MakeSlice \/ MakeSliceTypeError \/ MakeExpr
           \/ MakeFrame \/ MakeOneRow \/ MakeAllRows \/ MakeNpArrayShapeError
           \/ MakeNpArray \/ MakeRange \/ MakeMultislice \/ MakeBoolError
           \/ MakeNull
  BY <1>2, MakeIInv
<1>3. CASE \/ CheckOneRowFail \/ CheckOneRowPass \/ CheckFrameFail
           \/ CheckFramePass \/ CheckDefault
  BY <1>3, CheckIInv
<1>4. CASE \/ ExecAllRows \/ ExecOneRow \/ ExecSlice \/ ExecRangeError
           \/ ExecRange \/ ExecExprTypeError \/ ExecExpr \/ ExecFrame
  BY <1>4, ExecIInv
<1>. QED
  BY <1>1, <1>2, <1>3, <1>4 DEF Next

(* For every set of selector values and every set of frame row counts,     *)
(* each index of the RowIndex that allrows_in, onerow_in, slice_in (slice  *)
(* and range), expr_in and frame_in (Frame or numpy array) hand to the     *)
(* workframe is a row of the frame, or -1 from an integer mask column:     *)
(* the wrap of post_init_check, the clipping of slice.indices, the range   *)
(* check and the mask checks leave no index out of bounds (spec 3).        *)
THEOREM SelectorIndicesInBounds == Spec => []IndicesInBounds
<1>1. Init => IInv
  BY InitIInv
<1>2. IInv /\ [Next]_vars => IInv'
  BY NextIInv
<1>3. IInv => IndicesInBounds
  BY DEF IInv
<1>. QED
  BY <1>1, <1>2, <1>3, PTL DEF Spec

-----------------------------------------------------------------------------
(***************************************************************************)
(* AccInv, step by step.                                                   *)
(***************************************************************************)

(* Spec 4.1's verdict on a value, rule by rule.                            *)
LEMMA SpecAcceptsCases ==
  ASSUME NEW v, NEW n
  PROVE  /\ SpecRule(v) = "slice" =>
              (SpecAccepts(v, n) <=> "trivial" \in v.preds \/ "numeric" \in v.preds)
         /\ SpecRule(v) = "expr" => (SpecAccepts(v, n) <=> v.col.stype = "bool")
         /\ SpecRule(v) = "frame" => (SpecAccepts(v, n) <=> MaskAccepted(v.col, n))
         /\ SpecRule(v) = "int" => (SpecAccepts(v, n) <=> v.a \in -n..(n - 1))
         /\ SpecRule(v) = "noneell" => SpecAccepts(v, n)
         /\ SpecRule(v) = "nparray" =>
              (SpecAccepts(v, n) <=> /\ Len(Squeeze(v.dims)) = 1
                                     /\ v.dtype \in {"bool", "int64"}
                                     /\ MaskAccepted(ArrayFrame(v), n))
         /\ SpecRule(v) = "range" => (SpecAccepts(v, n) <=> RangeFits(v.a, v.b, v.s, n))
         /\ SpecRule(v) \in {"iterable", "bool", "unsupported"} => ~SpecAccepts(v, n)
BY DEF SpecAccepts

(* The two mask tests agree on a one-column Frame of an accepted stype:    *)
(* post_init_check rejects exactly the masks spec 4.1 rejects.             *)
LEMMA MaskEquiv ==
  ASSUME NEW c \in Col, NEW n \in Nat, c.ncols = 1, c.stype \in {"bool", "int"}
  PROVE  MaskAccepted(c, n) <=> ~FrameMaskInvalid(c, n)
<1>1. c.vals \in Seq(Int)
  BY DEF Col
<1>. QED
  BY <1>1 DEF MaskAccepted, FrameMaskInvalid, IntMaskInvalid

(* The rule of _make is the rule of spec 4.1.                              *)
LEMMA MakeRule ==
  ASSUME NEW r, FirstRule(sel) = r
  PROVE  /\ r # "unmatched" => SpecRule(sel) = r
         /\ r = "unmatched" => SpecRule(sel) = "unsupported"
<1>1. FirstRule(sel) = MakeRuleOf(sel)
  BY FirstRuleSpec
<1>2. "unmatched" \notin {"slice", "expr", "frame", "int", "noneell", "nparray",
                          "range", "iterable", "bool", "unsupported"}
  OBVIOUS
<1>3. SpecRule(sel) \in {"slice", "expr", "frame", "int", "noneell", "nparray",
                         "range", "iterable", "bool", "unsupported"}
  BY DEF SpecRule
<1>. QED
  BY <1>1, <1>2, <1>3 DEF MakeRuleOf

(* No step changes the value or the frame, so none changes the verdict.    *)
LEMMA AcceptedUnchanged ==
  ASSUME UNCHANGED <<sel, nrows>>
  PROVE  Accepted' <=> Accepted
BY DEF Accepted

(* A numpy array becomes a column of an accepted stype exactly when its    *)
(* dtype is bool or int64.                                                 *)
LEMMA ArrayFrameStype ==
  ASSUME NEW v \in SelVal
  PROVE  /\ ArrayFrame(v).ncols = 1
         /\ ArrayFrame(v).stype \in {"bool", "int"} <=> v.dtype \in {"bool", "int64"}
BY DEF ArrayFrame, SelVal, Dtypes

(* frame_in's constructor on a column whose verdict is that of spec 4.1's *)
(* mask test: the node throws exactly on what the spec rejects outright,   *)
(* and otherwise leaves the rest of the verdict to post_init_check.        *)
LEMMA NewFrameInAcc ==
  ASSUME phase = "make", NEW c \in Col, nrows \in Nat,
         Accepted <=> MaskAccepted(c, nrows),
         NewFrameIn(c), UNCHANGED <<sel, nrows, ri>>
  PROVE  AccInv'
<1>0. Accepted' <=> Accepted
  BY AcceptedUnchanged
<1>1. CASE c.ncols # 1 /\ Raise("ValueError", "construct") /\ UNCHANGED node
  <2>1. ~Accepted
    BY <1>1 DEF MaskAccepted
  <2>2. phase' = "error"
    BY <1>1 DEF Raise
  <2>. QED
    BY <1>0, <2>1, <2>2 DEF AccInv, Running
<1>2. CASE c.ncols = 1 /\ c.stype \notin {"bool", "int"}
           /\ Raise("TypeError", "construct") /\ UNCHANGED node
  <2>1. ~Accepted
    BY <1>2 DEF MaskAccepted
  <2>2. phase' = "error"
    BY <1>2 DEF Raise
  <2>. QED
    BY <1>0, <2>1, <2>2 DEF AccInv, Running
<1>3. CASE c.ncols = 1 /\ c.stype \in {"bool", "int"}
           /\ Built([MkNode("frame") EXCEPT !.col = c])
  <2>1. [MkNode("frame") EXCEPT !.col = c].kind = "frame"
        /\ [MkNode("frame") EXCEPT !.col = c].col = c
    BY FrameNode
  <2>2. node'.kind = "frame" /\ node'.col = c /\ phase' = "check"
    BY <1>3, <2>1 DEF Built
  <2>3. Accepted <=> ~FrameMaskInvalid(c, nrows)
    BY <1>3, MaskEquiv
  <2>. QED
    BY <1>0, <2>2, <2>3 DEF AccInv, Running
<1>. QED
  BY <1>1, <1>2, <1>3 DEF NewFrameIn

(* Every branch of _make builds a node that carries spec 4.1's verdict, or *)
(* ends the resolution with that verdict.                                  *)
LEMMA MakeAInv ==
  ASSUME AInv,
         \/ MakeAllRowsSlice \/ MakeSlice \/ MakeSliceTypeError \/ MakeExpr
         \/ MakeFrame \/ MakeOneRow \/ MakeAllRows \/ MakeNpArrayShapeError
         \/ MakeNpArray \/ MakeRange \/ MakeMultislice \/ MakeBoolError
         \/ MakeNull
  PROVE  AccInv'
<1>0. /\ sel \in SelVal /\ sel.a \in Int /\ sel.b \in Int /\ sel.s \in Int
      /\ sel.col \in Col /\ nrows \in Nat
  BY SelFacts DEF AInv, IInv
<1>1. CASE MakeAllRowsSlice
  <2>1. SpecRule(sel) = "slice" /\ "trivial" \in sel.preds
    BY <1>1, MakeRule DEF MakeAllRowsSlice, MakeStep
  <2>2. Accepted
    BY <2>1, SpecAcceptsCases DEF Accepted
  <2>3. phase' = "check" /\ node'.kind = "allrows" /\ UNCHANGED <<sel, nrows>>
    BY <1>1, MkNodeFacts DEF MakeAllRowsSlice, Built, NodeKinds
  <2>. QED
    BY <2>2, <2>3, AcceptedUnchanged DEF AccInv, Running
<1>2. CASE MakeSlice
  <2>1. SpecRule(sel) = "slice" /\ "numeric" \in sel.preds
    BY <1>2, MakeRule DEF MakeSlice, MakeStep
  <2>2. Accepted
    BY <2>1, SpecAcceptsCases DEF Accepted
  <2>3. node' = SliceNodeOf(sel.a, sel.b, sel.s, TRUE)
        /\ phase' = "check" /\ UNCHANGED <<sel, nrows>>
    BY <1>2 DEF MakeSlice, Built, SliceNodeOf
  <2>4. SliceNodeOf(sel.a, sel.b, sel.s, TRUE).kind = "slice"
        /\ SliceNodeOf(sel.a, sel.b, sel.s, TRUE).isSlice = TRUE
    <3>1. SliceNodeOf(sel.a, sel.b, sel.s, TRUE).kind = "slice"
      BY <1>0, SliceNode
    <3>2. SliceNodeOf(sel.a, sel.b, sel.s, TRUE).isSlice = TRUE
      BY SliceNodeIsSlice
    <3>. QED
      BY <3>1, <3>2
  <2>. QED
    BY <2>2, <2>3, <2>4, AcceptedUnchanged DEF AccInv, Running
<1>3. CASE MakeSliceTypeError
  <2>1. SpecRule(sel) = "slice"
        /\ "trivial" \notin sel.preds /\ "numeric" \notin sel.preds
    BY <1>3, MakeRule DEF MakeSliceTypeError, MakeStep
  <2>2. ~Accepted
    BY <2>1, SpecAcceptsCases DEF Accepted
  <2>3. phase' = "error" /\ UNCHANGED <<sel, nrows>>
    BY <1>3 DEF MakeSliceTypeError, Raise
  <2>4. Accepted' <=> Accepted
    BY <2>3, AcceptedUnchanged
  <2>. QED
    BY <2>2, <2>3, <2>4 DEF AccInv, Running
<1>4. CASE MakeExpr
  <2>1. SpecRule(sel) = "expr"
    BY <1>4, MakeRule DEF MakeExpr, MakeStep
  <2>2. Accepted <=> sel.col.stype = "bool"
    BY <2>1, SpecAcceptsCases DEF Accepted
  <2>3. sel.col.stype \in STypes
    BY <1>0 DEF Col
  <2>4. node'.kind = "expr" /\ node'.stype = sel.col.stype
        /\ phase' = "check" /\ UNCHANGED <<sel, nrows>>
    BY <1>4, <2>3, ExprNode DEF MakeExpr, Built
  <2>. QED
    BY <2>2, <2>4, AcceptedUnchanged DEF AccInv, Running
<1>5. CASE MakeFrame
  <2>1. SpecRule(sel) = "frame"
    BY <1>5, MakeRule DEF MakeFrame, MakeStep
  <2>2. Accepted <=> MaskAccepted(sel.col, nrows)
    BY <2>1, SpecAcceptsCases DEF Accepted
  <2>. QED
    BY <1>0, <1>5, <2>2, NewFrameInAcc DEF MakeFrame, MakeStep
<1>6. CASE MakeOneRow
  <2>1. SpecRule(sel) = "int"
    BY <1>6, MakeRule DEF MakeOneRow, MakeStep
  <2>2. Accepted <=> ~OneRowInvalid(sel.a, nrows)
    BY <1>0, <2>1, SpecAcceptsCases DEF Accepted, OneRowInvalid
  <2>3. node'.kind = "onerow" /\ node'.irow = sel.a
        /\ phase' = "check" /\ UNCHANGED <<sel, nrows>>
    BY <1>0, <1>6, OneRowNode DEF MakeOneRow, Built
  <2>. QED
    BY <2>2, <2>3, AcceptedUnchanged DEF AccInv, Running
<1>7. CASE MakeAllRows
  <2>1. SpecRule(sel) = "noneell"
    BY <1>7, MakeRule DEF MakeAllRows, MakeStep
  <2>2. Accepted
    BY <2>1, SpecAcceptsCases DEF Accepted
  <2>3. phase' = "check" /\ node'.kind = "allrows" /\ UNCHANGED <<sel, nrows>>
    BY <1>7, MkNodeFacts DEF MakeAllRows, Built, NodeKinds
  <2>. QED
    BY <2>2, <2>3, AcceptedUnchanged DEF AccInv, Running
<1>8. CASE MakeNpArrayShapeError
  <2>1. SpecRule(sel) = "nparray" /\ Len(Squeeze(sel.dims)) # 1
    BY <1>8, MakeRule DEF MakeNpArrayShapeError, MakeStep
  <2>2. ~Accepted
    BY <2>1, SpecAcceptsCases DEF Accepted
  <2>3. phase' = "error" /\ UNCHANGED <<sel, nrows>>
    BY <1>8 DEF MakeNpArrayShapeError, Raise
  <2>4. Accepted' <=> Accepted
    BY <2>3, AcceptedUnchanged
  <2>. QED
    BY <2>2, <2>3, <2>4 DEF AccInv, Running
<1>9. CASE MakeNpArray
  <2>1. SpecRule(sel) = "nparray" /\ Len(Squeeze(sel.dims)) = 1
    BY <1>9, MakeRule DEF MakeNpArray, MakeStep
  <2>2. Accepted <=> /\ sel.dtype \in {"bool", "int64"}
                     /\ MaskAccepted(ArrayFrame(sel), nrows)
    BY <2>1, SpecAcceptsCases DEF Accepted
  <2>3. /\ ArrayFrame(sel).ncols = 1
        /\ ArrayFrame(sel).stype \in {"bool", "int"} <=> sel.dtype \in {"bool", "int64"}
    BY <1>0, ArrayFrameStype
  <2>4. Accepted <=> MaskAccepted(ArrayFrame(sel), nrows)
    BY <2>2, <2>3 DEF MaskAccepted
  <2>. QED
    BY <1>0, <1>9, <2>4, ArrayFrameCol, NewFrameInAcc DEF MakeNpArray, MakeStep
<1>10. CASE MakeRange
  <2>1. SpecRule(sel) = "range"
    BY <1>10, MakeRule DEF MakeRange, MakeStep
  <2>2. Accepted <=> RangeFits(sel.a, sel.b, sel.s, nrows)
    BY <2>1, SpecAcceptsCases DEF Accepted
  <2>3. node' = SliceNodeOf(sel.a, sel.b, sel.s, FALSE)
        /\ phase' = "check" /\ UNCHANGED <<sel, nrows>>
    BY <1>10 DEF MakeRange, Built, SliceNodeOf
  <2>4. /\ SliceNodeOf(sel.a, sel.b, sel.s, FALSE).kind = "slice"
        /\ ~SliceNodeOf(sel.a, sel.b, sel.s, FALSE).isSlice
        /\ SliceNodeOf(sel.a, sel.b, sel.s, FALSE).a = sel.a
        /\ SliceNodeOf(sel.a, sel.b, sel.s, FALSE).b = sel.b
        /\ SliceNodeOf(sel.a, sel.b, sel.s, FALSE).s = sel.s
    <3>1. SliceNodeOf(sel.a, sel.b, sel.s, FALSE).kind = "slice"
      BY <1>0, SliceNode
    <3>2. ~SliceNodeOf(sel.a, sel.b, sel.s, FALSE).isSlice
      BY SliceNodeIsSlice, Zenon
    <3>3. /\ SliceNodeOf(sel.a, sel.b, sel.s, FALSE).a = sel.a
          /\ SliceNodeOf(sel.a, sel.b, sel.s, FALSE).b = sel.b
          /\ SliceNodeOf(sel.a, sel.b, sel.s, FALSE).s = sel.s
      <4>1. MkNode("slice") \in Node
        BY MkNodeFacts DEF NodeKinds
      <4>. QED
        BY <4>1 DEF Node, SliceNodeOf
    <3>. QED
      BY <3>1, <3>2, <3>3
  <2>. QED
    BY <2>2, <2>3, <2>4, AcceptedUnchanged DEF AccInv, Running
<1>11. CASE MakeMultislice
  BY <1>11 DEF MakeMultislice, AccInv, Running
<1>12. CASE MakeBoolError
  <2>1. SpecRule(sel) = "bool"
    BY <1>12, MakeRule DEF MakeBoolError, MakeStep
  <2>2. ~Accepted
    BY <2>1, SpecAcceptsCases DEF Accepted
  <2>3. phase' = "error" /\ UNCHANGED <<sel, nrows>>
    BY <1>12 DEF MakeBoolError, Raise
  <2>4. Accepted' <=> Accepted
    BY <2>3, AcceptedUnchanged
  <2>. QED
    BY <2>2, <2>3, <2>4 DEF AccInv, Running
<1>13. CASE MakeNull
  <2>1. SpecRule(sel) = "unsupported"
    BY <1>13, MakeRule DEF MakeNull, MakeStep
  <2>2. ~Accepted
    BY <2>1, SpecAcceptsCases DEF Accepted
  <2>3. phase' = "null" /\ UNCHANGED <<sel, nrows>>
    BY <1>13 DEF MakeNull
  <2>4. Accepted' <=> Accepted
    BY <2>3, AcceptedUnchanged
  <2>. QED
    BY <2>2, <2>3, <2>4 DEF AccInv, Running
<1>. QED
  BY <1>1, <1>2, <1>3, <1>4, <1>5, <1>6, <1>7, <1>8, <1>9, <1>10, <1>11,
     <1>12, <1>13


-----------------------------------------------------------------------------
(* post_init_check and execute.                                            *)

(* A step that ends the resolution keeps the verdict in force: a returned  *)
(* RowIndex only where the spec accepts, an exception only where it does   *)
(* not.                                                                    *)
LEMMA DoneAcc ==
  ASSUME Accepted, NEW r, Done(r)
  PROVE  AccInv'
<1>1. Accepted' /\ phase' = "done"
  BY AcceptedUnchanged DEF Done
<1>. QED
  BY <1>1 DEF AccInv, Running

LEMMA RaiseAcc ==
  ASSUME ~Accepted, NEW k, NEW st, Raise(k, st), UNCHANGED <<sel, nrows>>
  PROVE  AccInv'
<1>1. ~Accepted' /\ phase' = "error"
  BY AcceptedUnchanged DEF Raise
<1>. QED
  BY <1>1 DEF AccInv, Running

(* post_init_check raises exactly on the rows and masks the spec rejects,  *)
(* and passes the rest on to execute with the verdict unchanged.          *)
LEMMA CheckAInv ==
  ASSUME AInv,
         \/ CheckOneRowFail \/ CheckOneRowPass \/ CheckFrameFail \/ CheckFramePass
         \/ CheckDefault
  PROVE  AccInv'
<1>0. node \in Node /\ nrows \in Nat
  BY SelFacts DEF AInv, IInv, TypeOK
<1>1. CASE CheckOneRowFail
  <2>1. ~Accepted
    BY <1>1 DEF CheckOneRowFail, CheckStep, AInv, AccInv
  <2>. QED
    BY <1>1, <2>1, RaiseAcc DEF CheckOneRowFail
<1>2. CASE CheckOneRowPass
  <2>1. Accepted
    BY <1>2 DEF CheckOneRowPass, CheckStep, AInv, AccInv
  <2>2. node' = WrappedOneRow(node, nrows)
    BY <1>2 DEF CheckOneRowPass, WrappedOneRow
  <2>3. WrappedOneRow(node, nrows).kind = "onerow"
    BY <1>0, <1>2, WrappedOneRowFacts DEF CheckOneRowPass, CheckStep
  <2>4. phase' = "execute" /\ UNCHANGED <<sel, nrows>>
    BY <1>2 DEF CheckOneRowPass
  <2>. QED
    BY <2>1, <2>2, <2>3, <2>4, AcceptedUnchanged DEF AccInv, Running
<1>3. CASE CheckFrameFail
  <2>1. ~Accepted
    BY <1>3 DEF CheckFrameFail, CheckStep, AInv, AccInv, Running
  <2>. QED
    BY <1>3, <2>1, RaiseAcc DEF CheckFrameFail
<1>4. CASE CheckFramePass
  <2>1. Accepted
    BY <1>4 DEF CheckFramePass, CheckStep, AInv, AccInv, Running
  <2>2. Accepted' /\ phase' = "execute" /\ node' = node /\ nrows' = nrows
    BY <1>4, <2>1, AcceptedUnchanged DEF CheckFramePass
  <2>. QED
    BY <1>4, <2>2 DEF CheckFramePass, CheckStep, AccInv, Running
<1>5. CASE CheckDefault
  <2>1. (Accepted' <=> Accepted) /\ phase' = "execute" /\ node' = node
        /\ nrows' = nrows /\ phase = "check"
        /\ node.kind \in {"allrows", "slice", "expr"}
    BY <1>5, AcceptedUnchanged DEF CheckDefault
  <2>. QED
    BY <2>1 DEF AInv, AccInv, Running
<1>. QED
  BY <1>1, <1>2, <1>3, <1>4, <1>5

(* execute returns a RowIndex only for selectors the spec accepts, and     *)
(* throws only for those it rejects.                                       *)
LEMMA ExecAInv ==
  ASSUME AInv,
         \/ ExecAllRows \/ ExecOneRow \/ ExecSlice \/ ExecRangeError \/ ExecRange
         \/ ExecExprTypeError \/ ExecExpr \/ ExecFrame
  PROVE  AccInv'
<1>1. CASE ExecAllRows
  BY <1>1, DoneAcc DEF ExecAllRows, ExecStep, AInv, AccInv, Running
<1>2. CASE ExecOneRow
  BY <1>2, DoneAcc DEF ExecOneRow, ExecStep, AInv, AccInv
<1>3. CASE ExecSlice
  BY <1>3, DoneAcc DEF ExecSlice, ExecStep, AInv, AccInv, Running
<1>4. CASE ExecRangeError
  <2>1. ~Accepted
    BY <1>4 DEF ExecRangeError, ExecStep, AInv, AccInv, Running
  <2>. QED
    BY <1>4, <2>1, RaiseAcc DEF ExecRangeError
<1>5. CASE ExecRange
  BY <1>5, DoneAcc DEF ExecRange, ExecStep, AInv, AccInv, Running
<1>6. CASE ExecExprTypeError
  <2>1. ~Accepted
    BY <1>6 DEF ExecExprTypeError, ExecStep, AInv, AccInv, Running
  <2>. QED
    BY <1>6, <2>1, RaiseAcc DEF ExecExprTypeError
<1>7. CASE ExecExpr
  <2>1. Accepted
    BY <1>7 DEF ExecExpr, ExecStep, AInv, AccInv, Running
  <2>2. PICK m \in [1..nrows -> {0, 1}] : Done(Rows(TruePositions(m)))
    BY <1>7 DEF ExecExpr
  <2>. QED
    BY <2>1, <2>2, DoneAcc
<1>8. CASE ExecFrame
  <2>1. Accepted
    BY <1>8 DEF ExecFrame, ExecStep, AInv, IInv, NodeInv, AccInv, Running
  <2>. QED
    BY <1>8, <2>1, DoneAcc DEF ExecFrame
<1>. QED
  BY <1>1, <1>2, <1>3, <1>4, <1>5, <1>6, <1>7, <1>8


LEMMA InitAInv == Init => AInv
<1>. SUFFICES ASSUME Init PROVE AInv
  OBVIOUS
<1>1. IInv
  BY InitIInv
<1>2. AccInv
  BY DEF Init, AccInv, Running
<1>. QED
  BY <1>1, <1>2 DEF AInv

LEMMA NextAInv == AInv /\ [Next]_vars => AInv'
<1>. SUFFICES ASSUME AInv, [Next]_vars PROVE AInv'
  OBVIOUS
<1>0. IInv'
  BY NextIInv DEF AInv
<1>1. CASE UNCHANGED vars
  <2>1. (Accepted' <=> Accepted) /\ UNCHANGED <<phase, node, nrows>>
    BY <1>1, AcceptedUnchanged DEF vars
  <2>. QED
    BY <1>0, <2>1 DEF AInv, AccInv, Running
<1>2. CASE \/ MakeAllRowsSlice \/ MakeSlice \/ MakeSliceTypeError \/ MakeExpr
           \/ MakeFrame \/ MakeOneRow \/ MakeAllRows \/ MakeNpArrayShapeError
           \/ MakeNpArray \/ MakeRange \/ MakeMultislice \/ MakeBoolError
           \/ MakeNull
  BY <1>0, <1>2, MakeAInv DEF AInv
<1>3. CASE \/ CheckOneRowFail \/ CheckOneRowPass \/ CheckFrameFail
           \/ CheckFramePass \/ CheckDefault
  BY <1>0, <1>3, CheckAInv DEF AInv
<1>4. CASE \/ ExecAllRows \/ ExecOneRow \/ ExecSlice \/ ExecRangeError
           \/ ExecRange \/ ExecExprTypeError \/ ExecExpr \/ ExecFrame
  BY <1>0, <1>4, ExecAInv DEF AInv
<1>. QED
  BY <1>1, <1>2, <1>3, <1>4 DEF Next

(* For every set of selector values and every set of frame row counts, the *)
(* pipeline _make, the node's constructor, post_init_check and execute     *)
(* returns a RowIndex exactly for the values spec 4.1 accepts for the      *)
(* frame, and raises (or gets a nullptr from _make) exactly for the rest,  *)
(* although each check sits in a different stage: the order of _make's    *)
(* tests agrees with the spec's rule order (FirstRuleSpec), and each stage *)
(* hands the verdict it leaves open on to the next (AccInv).               *)
THEOREM SelectorAcceptsExactlySpec == Spec => []AcceptsExactlySpec
<1>1. Init => AInv
  BY InitAInv
<1>2. AInv /\ [Next]_vars => AInv'
  BY NextAInv
<1>3. AInv => AcceptsExactlySpec
  BY DEF AInv, AccInv, Accepted, AcceptsExactlySpec
<1>. QED
  BY <1>1, <1>2, <1>3, PTL DEF Spec

=============================================================================
