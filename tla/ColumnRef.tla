------------------------------ MODULE ColumnRef ------------------------------
(***************************************************************************)
(* The shared-ownership protocol between Column handles and the ColumnImpl *)
(* they point to (src/src/core/column/column_impl.h and spec 4.2, 5).      *)
(*                                                                         *)
(*  - refcount_ (column_impl.h:57) is a plain `mutable size_t`: copying a  *)
(*    Column loads it, adds one and stores it back; dropping one loads it, *)
(*    subtracts one, stores it, and deletes the ColumnImpl when the result *)
(*    is 0.  The load and the store are separate steps of the thread, and  *)
(*    the arithmetic is modulo 2^64 (SizeMod).                              *)
(*  - A mutation through a handle edits the ColumnImpl in place when its   *)
(*    refcount is 1, and otherwise clones it (clone(), line 70) and edits  *)
(*    the clone (copy-on-write).  An edit clears the stats cache (line 58).*)
(*  - cast_replace (lines 138-151) and the structural transforms (lines    *)
(*    130-135) leave the receiver unmodified and store a new ColumnImpl in *)
(*    their output Column.                                                 *)
(*  - stats() (line 105) creates the stats of a ColumnImpl lazily.         *)
(*                                                                         *)
(* The bodies of these operations are not under src/; they are taken from  *)
(* the contract the header and the spec state.  Each thread acts only on   *)
(* the Column handles it owns; ColumnImpls are taken from a finite pool.   *)
(***************************************************************************)
EXTENDS Integers, FiniteSets

CONSTANTS
  Threads,   \* the threads of the program
  Handles,   \* the Column objects
  Owner,     \* Owner[h]: the thread that uses Column h
  Impls,     \* the ColumnImpl objects memory can hold
  Vals,      \* the logical contents of a column
  NoImpl,    \* an empty Column
  NoStats,   \* stats_ == nullptr
  SizeMod,   \* 2^(width of size_t)
  MaxOps,    \* the number of Column operations the threads start
  InitHnds   \* the handle-to-impl maps the program may start from

ASSUME OwnerAssumption == Owner \in [Handles -> Threads]
ASSUME ImplsAssumption ==
  NoImpl \notin Impls /\ NoImpl \notin Vals /\ NoStats \notin Vals
ASSUME SizeAssumption == SizeMod \in Nat \ {0}
ASSUME MaxOpsAssumption == MaxOps \in Nat
ASSUME HandlesAssumption ==
  IsFiniteSet(Handles) /\ Cardinality(Handles) < SizeMod
ASSUME InitAssumption ==
  InitHnds \subseteq [Handles -> Impls \cup {NoImpl}] /\ InitHnds # {}

VARIABLES
  hnd,     \* hnd[h]: the ColumnImpl Column h points to
  alive,   \* the ColumnImpls allocated and not deleted
  rc,      \* rc[i]: refcount_ of ColumnImpl i
  data,    \* data[i]: the logical contents of ColumnImpl i
  stats,   \* stats[i]: stats_ of ColumnImpl i (the contents it summarises)
  pc,      \* pc[t]: where thread t is inside a copy or a drop
  tmp,     \* tmp[t]: the refcount value thread t loaded
  tgt,     \* tgt[t]: the ColumnImpl whose refcount thread t is updating
  ops      \* the Column operations started so far

vars == <<hnd, alive, rc, data, stats, pc, tmp, tgt, ops>>

PCs == {"idle", "copyStore", "dropStore", "delete"}

(* The handles that point to ColumnImpl i.                                  *)
Holders(i) == {h \in Handles : hnd[h] = i}

Init ==
  /\ hnd \in InitHnds
  /\ alive = {hnd[h] : h \in {g \in Handles : hnd[g] # NoImpl}}
  /\ rc = [i \in Impls |-> Cardinality(Holders(i))]
  /\ data \in [Impls -> Vals]
  /\ stats = [i \in Impls |-> NoStats]
  /\ pc = [t \in Threads |-> "idle"]
  /\ tmp = [t \in Threads |-> 0]
  /\ tgt = [t \in Threads |-> NoImpl]
  /\ ops = 0

(* A thread between two Column operations starts a new one.                 *)
Start(t, h) == pc[t] = "idle" /\ Owner[h] = t /\ ops < MaxOps

-----------------------------------------------------------------------------
(* Column(const Column& other): share other's ColumnImpl, then             *)
(* refcount_++ as a load and a store.                                      *)
CopyStart(t, src, dst) ==
  /\ Start(t, src) /\ Owner[dst] = t
  /\ hnd[src] # NoImpl /\ hnd[dst] = NoImpl
  /\ hnd' = [hnd EXCEPT ![dst] = hnd[src]]
  /\ tmp' = [tmp EXCEPT ![t] = rc[hnd[src]]]
  /\ tgt' = [tgt EXCEPT ![t] = hnd[src]]
  /\ pc' = [pc EXCEPT ![t] = "copyStore"]
  /\ ops' = ops + 1
  /\ UNCHANGED <<alive, rc, data, stats>>

CopyStore(t) ==
  /\ pc[t] = "copyStore"
  /\ rc' = [rc EXCEPT ![tgt[t]] = (tmp[t] + 1) % SizeMod]
  /\ pc' = [pc EXCEPT ![t] = "idle"]
  /\ UNCHANGED <<hnd, alive, data, stats, tmp, tgt, ops>>

(* Release the ColumnImpl a handle held: load refcount_ (the store and the *)
(* delete follow).  Shared by ~Column and by every operation that replaces *)
(* a Column's ColumnImpl.                                                  *)
Release(t, i) ==
  /\ tmp' = [tmp EXCEPT ![t] = rc[i]]
  /\ tgt' = [tgt EXCEPT ![t] = i]
  /\ pc' = [pc EXCEPT ![t] = "dropStore"]

(* ~Column().                                                              *)
DropStart(t, h) ==
  /\ Start(t, h)
  /\ hnd[h] # NoImpl
  /\ hnd' = [hnd EXCEPT ![h] = NoImpl]
  /\ Release(t, hnd[h])
  /\ ops' = ops + 1
  /\ UNCHANGED <<alive, rc, data, stats>>

(* Mutant: the destructor deletes when the count it leaves is at most 1.  *)
DropStoreEarly(t) ==
  /\ pc[t] = "dropStore"
  /\ rc' = [rc EXCEPT ![tgt[t]] = (tmp[t] - 1) % SizeMod]
  /\ pc' = [pc EXCEPT ![t] = IF (tmp[t] - 1) % SizeMod <= 1 THEN "delete" ELSE "idle"]
  /\ UNCHANGED <<hnd, alive, data, stats, tmp, tgt, ops>>

(* Store the decremented refcount; delete when it reached 0.               *)
DropStore(t) ==
  /\ pc[t] = "dropStore"
  /\ rc' = [rc EXCEPT ![tgt[t]] = (tmp[t] - 1) % SizeMod]
  /\ pc' = [pc EXCEPT ![t] = IF (tmp[t] - 1) % SizeMod = 0 THEN "delete" ELSE "idle"]
  /\ UNCHANGED <<hnd, alive, data, stats, tmp, tgt, ops>>

(* delete impl: the memory returns to the pool, with its stats_.           *)
Delete(t) ==
  /\ pc[t] = "delete"
  /\ alive' = alive \ {tgt[t]}
  /\ stats' = [stats EXCEPT ![tgt[t]] = NoStats]
  /\ pc' = [pc EXCEPT ![t] = "idle"]
  /\ UNCHANGED <<hnd, rc, data, tmp, tgt, ops>>

-----------------------------------------------------------------------------
(* A new ColumnImpl j with contents v now held by handle h alone.          *)
Fresh(h, j, v) ==
  /\ j \in Impls \ alive
  /\ alive' = alive \cup {j}
  /\ hnd' = [hnd EXCEPT ![h] = j]
  /\ rc' = [rc EXCEPT ![j] = 1]
  /\ data' = [data EXCEPT ![j] = v]
  /\ stats' = [stats EXCEPT ![j] = NoStats]

(* An edit through an exclusively owned Column: in place, stats cleared.   *)
MutateInPlace(t, h, v) ==
  /\ Start(t, h)
  /\ hnd[h] # NoImpl /\ rc[hnd[h]] = 1
  /\ data' = [data EXCEPT ![hnd[h]] = v]
  /\ stats' = [stats EXCEPT ![hnd[h]] = NoStats]
  /\ ops' = ops + 1
  /\ UNCHANGED <<hnd, alive, rc, pc, tmp, tgt>>

(* Mutant: the clone replaces the Column's ColumnImpl without releasing    *)
(* the shared one.                                                         *)
MutateCloneNoRelease(t, h, v) ==
  /\ Start(t, h)
  /\ hnd[h] # NoImpl /\ rc[hnd[h]] # 1
  /\ \E j \in Impls : Fresh(h, j, v)
  /\ ops' = ops + 1
  /\ UNCHANGED <<pc, tmp, tgt>>

(* An edit through a shared Column: clone, edit the clone, release the     *)
(* shared ColumnImpl.                                                      *)
MutateClone(t, h, v) ==
  /\ Start(t, h)
  /\ hnd[h] # NoImpl /\ rc[hnd[h]] # 1
  /\ \E j \in Impls : Fresh(h, j, v)
  /\ Release(t, hnd[h])
  /\ ops' = ops + 1

(* Mutant: the cast converts the receiver's data in place, without the     *)
(* clone the contract of cast_replace demands.                             *)
CastReplaceInPlace(t, h, v) ==
  /\ Start(t, h)
  /\ hnd[h] # NoImpl
  /\ data' = [data EXCEPT ![hnd[h]] = v]
  /\ stats' = [stats EXCEPT ![hnd[h]] = NoStats]
  /\ ops' = ops + 1
  /\ UNCHANGED <<hnd, alive, rc, pc, tmp, tgt>>

(* cast_replace(new_type, thiscol): const on the receiver; the result, a   *)
(* new ColumnImpl, is stored in thiscol, which releases the old one.       *)
CastReplace(t, h, v) ==
  /\ Start(t, h)
  /\ hnd[h] # NoImpl
  /\ \E j \in Impls : Fresh(h, j, v)
  /\ Release(t, hnd[h])
  /\ ops' = ops + 1

(* repeat / na_pad / truncate / apply_rowindex / replace_values(..., out): *)
(* the receiver is unmodified and the result goes to an empty Column out.  *)
Transform(t, h, out, v) ==
  /\ Start(t, h) /\ Owner[out] = t
  /\ hnd[h] # NoImpl /\ hnd[out] = NoImpl
  /\ \E j \in Impls : Fresh(out, j, v)
  /\ ops' = ops + 1
  /\ UNCHANGED <<pc, tmp, tgt>>

(* stats(): created on first use from the column's contents.              *)
ComputeStats(t, h) ==
  /\ pc[t] = "idle" /\ Owner[h] = t
  /\ hnd[h] # NoImpl /\ stats[hnd[h]] = NoStats
  /\ stats' = [stats EXCEPT ![hnd[h]] = data[hnd[h]]]
  /\ UNCHANGED <<hnd, alive, rc, data, pc, tmp, tgt, ops>>

-----------------------------------------------------------------------------
(* The steps that finish an operation a thread has begun.                  *)
Finish(t) == CopyStore(t) \/ DropStore(t) \/ Delete(t)

Next ==
  \E t \in Threads :
    \/ Finish(t)
    \/ \E h \in Handles :
         \/ DropStart(t, h)
         \/ ComputeStats(t, h)
         \/ \E g \in Handles : CopyStart(t, h, g)
         \/ \E v \in Vals :
              \/ MutateInPlace(t, h, v) \/ MutateClone(t, h, v)
              \/ CastReplace(t, h, v)
              \/ \E g \in Handles : Transform(t, h, g, v)

(* A thread inside a copy constructor or a destructor runs it to the end: *)
(* nothing in them blocks.                                                 *)
Fairness == \A t \in Threads : WF_vars(Finish(t))

Spec == Init /\ [][Next]_vars /\ Fairness

-----------------------------------------------------------------------------
(***************************************************************************)
(* Properties.                                                             *)
(***************************************************************************)
TypeOK ==
  /\ hnd \in [Handles -> Impls \cup {NoImpl}]
  /\ alive \subseteq Impls
  /\ rc \in [Impls -> 0..(SizeMod - 1)]
  /\ data \in [Impls -> Vals]
  /\ stats \in [Impls -> Vals \cup {NoStats}]
  /\ pc \in [Threads -> PCs]
  /\ tmp \in [Threads -> Int]
  /\ tgt \in [Threads -> Impls \cup {NoImpl}]
  /\ ops \in 0..MaxOps

(* Columns are confined to threads: the handles that share a ColumnImpl   *)
(* all belong to one thread.  This is the use spec 5 allows of a           *)
(* non-atomic refcount.                                                    *)
Confined ==
  \A h, g \in Handles :
    hnd[h] # NoImpl /\ hnd[h] = hnd[g] => Owner[h] = Owner[g]

(* No Column points to a deleted ColumnImpl: refcount_ never reaches 0    *)
(* while a handle still holds the ColumnImpl (no use after free).          *)
NoUseAfterFree == \A h \in Handles : hnd[h] # NoImpl => hnd[h] \in alive

(* An empty Column shows no contents.                                      *)
NoVal == NoImpl

(* The contents each Column shows: its ColumnImpl's, or none.              *)
ColumnVal == [h \in Handles |-> IF hnd[h] = NoImpl THEN NoVal ELSE data[hnd[h]]]

Abstract == INSTANCE ColumnValues WITH val <- ColumnVal

(* Sharing ColumnImpls is invisible: the handles behave as independent    *)
(* values, so copy-on-write, cast_replace and the transforms never change  *)
(* what another Column sees.                                               *)
ImplementsColumnValues == Abstract!Spec

(* A ColumnImpl that no Column holds any longer is eventually deleted:     *)
(* the refcount reaches 0 and nothing leaks.                               *)
NoLeak ==
  \A i \in Impls :
    (i \in alive /\ Holders(i) = {}) ~> (i \notin alive)

=============================================================================
