# Formal models of datatable's `i` selector resolution and Column ownership

This directory holds TLA+ models of two parts of the repository, the TLC
configurations that check them, and TLAPS proofs about both:
- the row-selector code in `src/c/expr/i_node.cc`;
- the Column/ColumnImpl ownership protocol declared in
  `src/src/core/column/column_impl.h`: the refcount, copy-on-write, the stats
  cache, `cast_replace` and the transforms.

## The system

`dt[i, ...]` turns the Python value `i` into a RowIndex in three steps, all
synchronous:

1. `i_node::make` → `_make` (i_node.cc:457-501) tests the value's shape in a
   fixed order and builds a node:
   - a slice becomes `allrows_in` if trivial, `slice_in` if numeric, and raises
     TypeError otherwise;
   - an expression becomes `expr_in`;
   - a Frame becomes `frame_in`;
   - an int becomes `onerow_in`;
   - None and Ellipsis become `allrows_in`;
   - a numpy array goes through `_from_nparray`;
   - a range becomes `slice_in` with `is_slice = false`;
   - any other iterable becomes `multislice_in`;
   - a bool raises TypeError;
   - anything else returns `nullptr`.
2. `post_init_check(wf)` validates the node against the frame's row count. It
   is overridden by `onerow_in` (bounds check, and it wraps a negative `irow`
   in place), `frame_in` (mask length, integer range) and `multislice_in`
   (`min_nrows`).
3. `execute(wf)` builds a RowIndex and applies it to the workframe.

`multislice_in` (i_node.cc:288-443) is the largest and hardest node:
- its constructor walks the list, stores each int/range/slice item and
  estimates the minimum row count;
- `execute` makes two passes over the stored items. The count pass normalises
  each item in place against `nrows` and sums `total_count` as a `size_t`. The
  fill pass writes `ind[j++]` into an `arr32_t` allocated with `total_count`
  slots.

The ColumnImpl contract (column_impl.h) covers:
- clone;
- typed element access;
- buffer exposure;
- materialize;
- structural transforms;
- `cast_replace`;
- a non-atomic `refcount_`;
- a lazily created `stats_` cache.

Only the declarations are under `src/`. The behaviour of these operations is
taken from the header's comments and from spec §4.2/§5. A `Column` is a handle
that points to a `ColumnImpl`. Handles share a ColumnImpl by reference
counting, and an edit through a shared handle clones the ColumnImpl first. The
two parts of the system do not interact in the code under `src/`, so they are
modelled separately.

## Modules

| Module | Models | Source |
|---|---|---|
| `PyIndex` | Python's reference semantics: `range`, `slice.indices(n)`, negative indices, the rows a list selects. It is the yardstick, not a translation. | (Python semantics) |
| `MultiSlice` | `multislice_in`: the constructor, `post_init_check`, the count pass, the allocation and the fill pass | i_node.cc:288-443 |
| `Selector` | `_make`, and the constructors, `post_init_check` and `execute` of every other node, with `_from_nparray` | i_node.cc:43-279, 454-501 |
| `MultiSliceProofs` | the inductive invariants and the TLAPS proofs about `MultiSlice` | |
| `ConstructProofs` | the TLAPS proof that `multislice_in`'s constructor rejects exactly the lists Python rejects | |
| `SelectorProofs` | the inductive invariants and the TLAPS proofs about `Selector`: indices in bounds, and acceptance exactly as spec 4.1 says | |
| `ColumnValues` | the abstract contract of a Column: handles are independent values | spec §4.2 |
| `ColumnRef` | threads copying, dropping, editing, casting and transforming Columns over a pool of ColumnImpls, with a non-atomic refcount and the stats cache | column_impl.h:52-151 (spec-modelled) |
| `ColumnRefProofs` | the refcount accounting invariant and the TLAPS proof that confined use never frees a held ColumnImpl | |
| `MC_MultiSlice`, `MC_Selector`, `MC_MultiSliceProofs`, `MC_ConstructProofs`, `MC_SelectorProofs`, `MC_ColumnRef`, `MC_ColumnRefProofs` | the instances for TLC | |

### MultiSlice

State:
- `sel`: the list;
- `nrows`;
- `phase`: construct, check, count, fill, done or error;
- `pos`: the list or vector position;
- `i`: the constructor's counter;
- `items`: the `std::vector<item>`;
- `maxNrows`;
- `total`: `total_count`, kept modulo `SizeMod`;
- `k`: the fill loop variable;
- `loop`;
- `out`: `ind[0..j-1]`;
- `result`: the allocated array, with slots never written holding `Uninit`;
- `err`: kind, stage and the reported index.

Actions, one per outcome of one step of the code:
- constructor: one action per branch and error of one loop iteration;
- `post_init_check`: pass and fail;
- count pass: one action per item kind, plus the slice `continue`;
- allocation: success and failure (`MemoryError`);
- fill pass: the int write, loop entry, one loop step per step sign, loop exit,
  and the final `RowIndex` of the array.

The workframe's RowIndex is ALL before `execute`, so the applied RowIndex is the
array itself.

### Selector

A selector value is abstracted to:
- the set of shape predicates it satisfies;
- its bounds or integer;
- its Frame column (column count, stype, values);
- for an array, its shape and dtype;
- for an expression, its result stype.

The first matching rule is computed from `_make`'s order (`FirstRule`). Each
factory branch is an action, and so is each `post_init_check` and `execute`
outcome. A list ends in phase `delegated`, because `MultiSlice` is its model.
The comparison flags of `_from_nparray` keep their inverted sense
(`compare` returns 0 on a match). The code's dtype guard therefore never fails,
and it is kept as a conjunct that is always true.

Code outside `src/` is taken from the spec. These definitions are marked
`spec_modelled` in `PROJECT.json`:
- `py::oslice::normalize` as `PySlice`;
- `py::orange::normalize` as `RangeFits`/`RangeRows`;
- the RowIndex of a boolean or integer column (`TruePositions`, `ColumnRows`);
- `workframe::apply_rowindex` (`Done`).

The expression evaluator returns an arbitrary boolean column of `nrows` rows.

### ColumnRef and ColumnValues

State of `ColumnRef`:
- `hnd[h]`: the ColumnImpl that Column `h` points to, or `NoImpl`;
- `alive`: the ColumnImpls allocated and not deleted;
- `rc`: each ColumnImpl's `refcount_`, kept modulo `SizeMod` (the `size_t` range);
- `data`: each ColumnImpl's logical contents;
- `stats`: each ColumnImpl's `stats_`, holding the contents it was computed
  from, or `NoStats`;
- `pc`, `tmp`, `tgt`: per thread, the step inside a copy or a drop, the
  refcount value it loaded, and the ColumnImpl it is updating;
- `ops`: the operations started so far, up to `MaxOps`.

`refcount_` is a plain `mutable size_t` (line 57). The model therefore splits
`++` and `--` into a load and a store:
- `CopyStart`/`CopyStore` model the copy constructor;
- `DropStart`/`DropStore` model the destructor, followed by `Delete` when the
  stored count is 0;
- the other thread may take any number of steps between the load and the store.

The other operations:
- `MutateInPlace` edits a ColumnImpl held once and clears its stats.
- `MutateClone` clones a shared ColumnImpl (`clone()`, line 70), edits the
  clone and releases the original.
- `CastReplace` always writes a new ColumnImpl into `thiscol`, because the
  method is const (lines 138-151).
- `Transform` writes a new ColumnImpl into an empty output Column (lines
  130-135).
- `ComputeStats` fills the lazy cache (line 105).
- New ColumnImpls come from a finite pool, `Impls \ alive`.

Each thread acts only through the Columns it owns (`Owner`). The start states
come from `InitHnds`, with each refcount equal to the number of holders.

`ColumnValues` has one variable, `val[h]`, and the actions `Copy`, `Drop` and
`Set`. `ColumnRef` implements it under the refinement mapping
`val <- ColumnVal`, where `ColumnVal[h]` is the data of `h`'s ColumnImpl. The
mapping says that sharing is invisible: a step taken through one handle changes
only that handle's value.

## Runs

| Run | Checks | Result |
|---|---|---|
| `ms_resolution` | `TypeOK`, `IntItemsInBounds`, `ConstructAcceptsExactlyValid`, `ForwardListsResolvePython` | pass (10136 states) |
| `ms_fill`, `ms_negcount` | `FillWithinAllocation` | violation |
| `ms_rangestop` | `ResultIsPython` | violation |
| `ms_zerorange`, `ms_reverse` | `IndicesInBounds` | violation |
| `ms_errindex` | `ReportedIndexIsPosition` | violation |
| `sel_resolution` | `IndicesInBounds`, `AcceptsExactlySpec` | pass (388 states, all 26 actions) |
| `col_confined` | `NoUseAfterFree`, `ImplementsColumnValues` (refinement), `NoLeak` (liveness) | pass (40064 states, all 11 actions) |
| `col_shared` | `NoUseAfterFree` | violation |

What the passing runs establish on their instances:
- The constructor accepts a list exactly when every item is valid by Python's
  enumeration of ranges, and otherwise raises the error of the first invalid
  item. An empty range never raises.
- Every int item is a row once it has been wrapped, so the `xassert` at line
  388 holds.
- A list of forward items (ints, positive-step slices, non-negative
  positive-step ranges) selects exactly Python's rows.
- A non-list selector resolves exactly when the spec's rules (§4.1) accept it,
  whichever of the factory, constructor, `post_init_check` or `execute`
  rejects it.
- Every selected row lies in `[0, nrows)`, or is -1 from an integer column.
- When Columns are confined to threads:
  - no Column points to a deleted ColumnImpl;
  - the protocol refines `ColumnValues`, so copy-on-write, `cast_replace` and
    the transforms never change what another Column sees;
  - every ColumnImpl that no Column holds is eventually deleted.

The violation runs are the findings in `PROJECT.json`:
1. A zero-step slice, and an open negative-step slice skipped by `continue`,
   make the fill pass write past the allocated array (heap overflow).
2. `ms_negcount`: in `[0, range(-2, 0)]` against 3 rows, execute wraps the
   range's start -2 to 1 but leaves its computed stop 0, so `icount` is -1.
   Cast to `size_t`, it wraps `total_count` to 0, and the fill pass writes
   the int's index into an empty array.
3. `ms_rangestop`: `range(2, -1, -1)` against 3 rows selects no rows, because
   its computed stop -1 is wrapped as an index, to 2.
4. `range(0, 1)` is accepted against an empty frame.
5. `slice(2, None, -1)` yields the row `nrows`.
6. The error message's index drifts after an empty range.
7. `col_shared`: when two threads' Columns share a ColumnImpl, the following
   happens in 7 steps:
   - thread 1's drop loads refcount 2;
   - thread 2 copies its Column and stores 3;
   - thread 1 stores 1, which loses thread 2's increment;
   - thread 2's drop stores 0 and deletes the ColumnImpl while thread 2's copy
     still holds it.
   Spec §5 asks for atomic refcount mutation when Columns are shared across
   threads, and `refcount_` has none.

Each property of a passing run has a mutant in `PROJECT.json`: a one-definition
bug that TLC then catches. Examples are `SizeAdd` without size_t wrap, the
`value + 1` of the int path dropped, the range count without its ceiling,
no clamp of a slice stop, `irow > n` for `irow >= n`, and `frame_in` without
its stype test. For `ColumnRef` the mutants are:
- a destructor that deletes at count 1;
- a cast written into the receiver;
- a clone that never releases the shared ColumnImpl.

### Bounds

`MultiSlice` bounds:
- lists of at most 2 items, drawn from 19 items that reach every constructor
  branch, both signs of every bound, zero-step, open and reversed slices,
  wrap-around ranges and empty ranges;
- frames of 0 to 3 rows;
- `SliceMax = 4` in place of `py::oslice::MAX`, which keeps open slices past
  the frame;
- `NA = -100`;
- `SizeMod = 256`, which keeps the `size_t` wrap of a negative count observable;
- `MaxAlloc = 32`.

Two items are enough for every bug in the list above: each one involves one
item, or one item followed by a second.

`Selector` uses 29 values that cover every rule of `_make`, every constructor
error, both masks, every `post_init_check` outcome and every `execute` path,
against 0 to 3 rows.

`ColumnRef` bounds:
- 2 threads, 4 Columns (2 per thread), 3 ColumnImpls and 2 contents;
- `SizeMod = 8`;
- `MaxOps = 3`.
The confined start states have thread 1's two Columns sharing one ColumnImpl
(or one Column holding it) and thread 2 holding another. Three operations
reach a copy followed by an edit (copy-on-write), a clone followed by both
drops (deletion), and a pool exhausted by fresh ColumnImpls. The race needs
three operations: two threads, one drop and one copy, then the drop that frees.

### Fairness and deadlock

Resolution is one synchronous call with no waiting (spec §5). A behaviour ends
in `done`, `error`, `delegated` or `null`, and stops there. The cfgs therefore
set `CHECK_DEADLOCK FALSE`. No fairness is assumed for selectors.

`ColumnRef` assumes weak fairness of `Finish(t)`, for every thread: the store
of a copy or a drop, and the delete. A thread that has entered a copy
constructor or a destructor runs it to the end, because nothing in either can
block. No fairness is assumed for starting operations, since a program may
stop using its Columns. Under this assumption `NoLeak` holds: a ColumnImpl that
no Column holds is eventually deleted. The threads stop after `MaxOps`
operations, so `CHECK_DEADLOCK FALSE`.

## Proofs (TLAPS, `MultiSliceProofs`)

- `TypeCorrect == Spec => []TypeOK`.
  - The inductive invariant is `IInv == TypeOK /\ LoopInv /\ RangeStepInv`.
  - `TypeOK` alone is not inductive. The fill-loop actions read `items[pos]`
    guarded only by `loop`, which needs `LoopInv`. `CountRange` divides by a
    stored range's step, which needs `RangeStepInv` (no stored range has step
    0). That fact comes from the assumption that Python never builds
    `range(a, b, 0)`.
  - The proof shows `InitIInv` and `NextIInv`, with one case per action, and
    rests on lemmas about `CDiv`, `RangeCount`, `SliceCount`, the `size_t`
    addition and item normalisation.
- `IntItemsBounded == Spec => []IntItemsInBounds`.
  - The strengthening is `IntInv`:
    - once `post_init_check` has passed, `maxNrows <= nrows`;
    - an int item not yet wrapped needs at most `maxNrows` rows;
    - a wrapped int item is a row.
  - `NextIntInv` proves that every action preserves it.
  - This shows, for every list and frame size, that the constructor's
    `min_nrows` estimate makes the `xassert` at i_node.cc:388 unreachable.

- `Strengthenings == Spec => [](IInv /\ IntInv)` states the two
  strengthenings themselves as invariants, a by-product of the two proofs.
  TLC checks them with `tlc -config MC_MultiSliceProofs.cfg
  MC_MultiSliceProofs` on the `ms_resolution` instance.

The proofs assume only the `ASSUME`s of `MultiSlice`:
- `NA < -SliceMax`;
- `SizeMod > 0` and `MaxAlloc < SizeMod`;
- row counts up to `SliceMax`;
- lists of well-formed items with range steps not 0;
- `Uninit` is not an integer.

## Proofs (TLAPS, `ConstructProofs`)

`ConstructAccepts == Spec => []ConstructAcceptsExactlyValid`, for every list
and every frame size. Once the constructor of `multislice_in` is done, it has
thrown exactly when some item is one Python rejects, and then with the error
of the first such item.

The difficulty is that the two sides count a range differently:
- the constructor uses the ceiling divisions `RangeCount` and `RangeLast`,
  which is C++ integer division;
- `ValidItem` uses `PyRangeLen`, the number of offsets Python enumerates.

The lemmas that connect them:
- `DivBounds`: what `\div` by a positive divisor satisfies.
- `CeilOffsets`: the `t >= 0` with `d * t < x` are exactly
  `0 .. CDiv(x + d - 1, d) - 1`.
- `RangeLenCount`: `len(range(a, b, s))` is `RangeCount` where that is
  positive, and 0 otherwise. A negative step is the positive case with `a`
  and `b` swapped.
- `RangeValid`: the constructor throws for a range exactly when Python
  enumerates some element and the first and last elements differ in sign.
  So the `count <= 0` skip and the sign test judge the range Python means.

The proof's inductive invariant is `CCInv == IInv /\ CInv`. `CInv` is the
constructor's loop invariant:
- while the loop runs, every item before `pos` is valid and nothing has been
  thrown;
- a constructor error stops at the first invalid item (`FirstInvalid(pos)`),
  with that item's error;
- after the loop, every item is valid, and only `post_init_check` or
  `execute` can have thrown.

The CHOOSE in the property picks `pos`, because a list has only one first
invalid item (`FirstInvalidUnique`).

TLC checks `CInv` and the property first:
`tlc -config MC_ConstructProofs.cfg MC_ConstructProofs` passes, with 10136
distinct states. The proof uses only the `ASSUME`s of `MultiSlice`. The one
it needs is that a range item never has step 0: Python refuses
`range(a, b, 0)`.

## Proofs (TLAPS, `ColumnRefProofs`)

Three theorems, for any number of threads, Columns and ColumnImpls. Their only
assumptions are the `ASSUME`s of `ColumnRef`:
- the Columns are finitely many and fewer than the `size_t` range;
- `NoImpl` is neither a ColumnImpl nor a value;
- the start maps are typed.

1. `ConfinedNoUseAfterFree == Spec /\ Confined => []NoUseAfterFree`. The
   hypothesis `Confined` says that, in the start state, all Columns sharing a
   ColumnImpl belong to one thread.
2. `ConfinedRefinement == Spec /\ Confined => ImplementsColumnValues` (that is, `Abstract!Spec`): `ColumnRef`
   implements `ColumnValues` under `val <- ColumnVal`.
   - Each start action maps to an abstract step:
     - `CopyStart` to `Copy`;
     - `DropStart` to `Drop`;
     - the edits, the clone, the cast and the transforms to `Set`.
   - The stores, the delete and the stats computation leave `ColumnVal`
     unchanged.
   - The step that needs the invariant is the edit in place.
     `MutateInPlace` sees `refcount_ = 1`. `RcInv` then says that the Column
     is its ColumnImpl's only holder (`FS_Singleton`), so no other Column's
     view changes.
   - The clone, the cast and the transforms write a ColumnImpl from the free
     pool, which no Column holds, by `NoUseAfterFree`.
`TypeOK` is proved inductive on its own (`NextTypeOK`); a refcount of 1
fits because there is at least one Column.

Both theorems rest on the strengthening `IInv`.

`IInv` consists of:
- `TypeOK`, `Confined` and `NoUseAfterFree`;
- `RcInv`: a live ColumnImpl that no thread is working on has a refcount equal
  to its number of holders;
- `ThreadInv(t)`, for a thread inside a copy or a drop:
  - its target is live;
  - every holder of the target belongs to it;
  - no other thread works on the same ColumnImpl;
  - the value it loaded is still the stored one;
  - the holders number one more than the count (copy) or one less (drop);
  - a thread about to delete targets a ColumnImpl with count 0 and no holders.

These conjuncts are what make the load-store split harmless under confinement.
No other thread can hold the ColumnImpl, so none can store a count in between.
`NoUseAfterFree` alone is not inductive, because it says nothing about the
count.

`NextIInv` has one lemma per action. The clone and the cast share the lemma
`ReplaceIInv`. The cardinality steps use `FS_AddElement`, `FS_RemoveElement`,
`FS_Singleton` and `FS_EmptySet`.

TLC also checks `IInv` on the confined instance:
`tlc -config MC_ColumnRefProofs.cfg MC_ColumnRefProofs` passes, with 40064
states. The shared instance (`col_shared`) shows that the hypothesis is
needed.

## Proofs (TLAPS, `SelectorProofs`)

Two theorems, for every set of selector values and every set of frame row
counts. They assume only the `ASSUME`s of `Selector`: `NA` is a negative
integer, the row counts are naturals, and the values are well-formed
selectors (`SelVal`).

1. `SelectorIndicesInBounds == Spec => []IndicesInBounds`.
   - The inductive invariant is `IInv == TypeOK /\ NodeInv /\ RowIndexInv /\ IndicesInBounds`.
   - `NodeInv` carries what `execute` relies on from earlier stages: the node
     kind is one `execute` handles; a frame node's column is bool or int; a
     onerow node in `execute` holds a wrapped row in `0..nrows-1`; a frame
     node in `execute` passed the mask check. `RowIndexInv` says the RowIndex
     is still ALL before `execute`.
   - The lemmas behind `execute`:
     - `PyRangeElems`: every element of `range(a, b, s)` lies between `a`
       and `b`. `len(range)` counts a set of offsets closed downwards, and
       such a set of `c` naturals is `0..c-1` (`DownClosedPrefix`).
     - `PySliceInBounds`: after `slice.indices(n)` clipping, every index is a
       row.
     - `TruePositionsInBounds`: the true positions of a boolean column are
       its rows. The rank of a position among the true ones is an injection
       onto `1..k` (`RankFacts`, `RankOnto`, with `FS_Injection` and
       `FS_Interval`).
2. `SelectorAcceptsExactlySpec == Spec => []AcceptsExactlySpec`.
   - The inductive invariant is `AInv == IInv /\ AccInv`.
   - `AccInv` says, for every phase and node kind, what spec 4.1's verdict
     `SpecAccepts(sel, nrows)` is in terms of the node, i.e. what the stages
     still to run will decide. For example:
     - for a range node, the verdict is `RangeFits`;
     - for an expr node, it is "the stype is bool";
     - for a onerow node in check, it is "the row is valid";
     - for a frame node, it is "the mask passes".
   - `FirstRuleSpec` shows that the test order of `_make` (`FirstRule`) picks
     the rule the spec's order picks (`SpecRule`), one case per rule.
   - `MakeAInv`, `CheckAInv` and `ExecAInv` show that each stage keeps
     `AccInv`. A step that throws does so only where the verdict is false
     (`RaiseAcc`). A step that returns a RowIndex does so only where it is
     true (`DoneAcc`).
   - `NewFrameInAcc` covers `frame_in`'s constructor, shared by Frames and
     numpy arrays. A float numpy array is rejected there, by the column's
     stype, although `_from_nparray`'s own dtype test never fires.

TLC checks both strengthenings on the `sel_resolution` instance:
`tlc -config MC_SelectorProofs.cfg MC_SelectorProofs` passes, with 388
distinct states.

## What stays with TLC

These results stay with TLC:
- **Agreement with Python's semantics for lists** (`ForwardListsResolvePython`).
  It is about what the recursive function `PyListRows` computes over a whole
  list. Proving it needs induction over data, and the prover cannot do
  induction over an operator parameter. `Selector`'s single values need no
  such induction, so its `AcceptsExactlySpec` is proved.
- **Liveness and ENABLED.** `NoLeak` is checked by TLC only.
- **Anything about modules that reach RECURSIVE operators.** `PyIndex` uses a
  recursive function rather than a RECURSIVE operator, so that `MultiSlice`
  stays provable.

## Not modelled

- **The rest of ColumnImpl**: element access, data buffers, `materialize`,
  Jay and Arrow export, `rbind_impl` and `sort_grouped`. They do not change
  ownership or the stats cache.
- **Lazy creation of `stats_` by parallel readers** of one ColumnImpl.
  Spec §5 permits parallel reads when `allow_parallel_access()` is true. The
  body of `stats()` is not under `src/`, so whether creation is synchronised
  cannot be read from the code. `ComputeStats` is therefore one step of the
  thread that owns the Column.
- **The memory ownership of `expr_in`'s evaluated column**, which leaks when
  `RowIndex(col)` or `apply_rowindex` throws.
- **Integer widths beyond the instance**: `INT64_MAX + 1` at line 313, and the
  `int32_t` narrowing at line 423.

## Plan for later work

1. A proof that `NoLeak` follows from `IInv` and the weak fairness of
   `Finish`. This is liveness, which stays with TLC for now.
2. Composing `Selector` with `MultiSlice`, so that a list handed off in phase
   `delegated` continues into the list node.
3. An abstract RowIndex specification with a refinement mapping from the
   node-level models.
4. A stand-alone theorem for `Selector`'s `TypeOK`, which is today a conjunct
   of the proved `IInv`.
