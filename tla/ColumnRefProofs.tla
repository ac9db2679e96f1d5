--------------------------- MODULE ColumnRefProofs ---------------------------
(***************************************************************************)
(* Proofs about the Column/ColumnImpl ownership protocol of ColumnRef:     *)
(* when the program starts with every ColumnImpl's handles owned by one    *)
(* thread, the non-atomic refcount_ (column_impl.h:57) never lets a        *)
(* ColumnImpl be deleted while a Column still holds it, for any number of  *)
(* threads, Columns and ColumnImpls.                                       *)
(***************************************************************************)
EXTENDS ColumnRef, FiniteSetTheorems, TLAPS

(* Thread t is inside a copy constructor or a destructor.                  *)
Busy(t) == pc[t] # "idle"

(* What a thread inside a copy or a drop owes the refcount of its target:  *)
(* the handles of the target are its own, no other thread works on the    *)
(* same ColumnImpl, and the refcount it loaded is still the stored one,   *)
(* one short of (copy) or one above (drop) the number of holders; a       *)
(* thread about to delete holds a ColumnImpl that nobody holds.           *)
ThreadInv(t) ==
  Busy(t) =>
    /\ tgt[t] \in alive
    /\ \A h \in Holders(tgt[t]) : Owner[h] = t
    /\ \A u \in Threads \ {t} : Busy(u) => tgt[u] # tgt[t]
    /\ pc[t] \in {"copyStore", "dropStore"} => tmp[t] = rc[tgt[t]]
    /\ pc[t] = "copyStore" => Cardinality(Holders(tgt[t])) = rc[tgt[t]] + 1
    /\ pc[t] = "dropStore" => Cardinality(Holders(tgt[t])) = rc[tgt[t]] - 1
    /\ pc[t] = "delete" => rc[tgt[t]] = 0 /\ Holders(tgt[t]) = {}

(* A live ColumnImpl no thread is working on has the refcount of its      *)
(* holders.                                                                *)
RcInv ==
  \A i \in alive :
    (\A t \in Threads : Busy(t) => tgt[t] # i) => rc[i] = Cardinality(Holders(i))

(* The inductive strengthening of NoUseAfterFree.                          *)
IInv ==
  /\ TypeOK
  /\ Confined
  /\ NoUseAfterFree
  /\ RcInv
  /\ \A t \in Threads : ThreadInv(t)

-----------------------------------------------------------------------------
(* Every set of Columns is finite and smaller than the size_t range.       *)
LEMMA HoldersFinite ==
  ASSUME NEW i
  PROVE  /\ IsFiniteSet(Holders(i))
         /\ Cardinality(Holders(i)) \in Nat
         /\ Cardinality(Holders(i)) < SizeMod
<1>1. Holders(i) \in SUBSET Handles
  BY DEF Holders
<1>2. IsFiniteSet(Holders(i)) /\ Cardinality(Holders(i)) <= Cardinality(Handles)
  BY <1>1, HandlesAssumption, FS_Subset
<1>3. Cardinality(Holders(i)) \in Nat
  BY <1>2, FS_CardinalityType
<1>4. Cardinality(Handles) \in Nat
  BY HandlesAssumption, FS_CardinalityType
<1>. QED
  BY <1>2, <1>3, <1>4, HandlesAssumption, SizeAssumption

(* A ColumnImpl with a holder has a holder count of at least 1.           *)
LEMMA HeldCard ==
  ASSUME NEW i, NEW h \in Holders(i)
  PROVE  Cardinality(Holders(i)) >= 1
<1>1. IsFiniteSet(Holders(i)) /\ Cardinality(Holders(i)) \in Nat
  BY HoldersFinite
<1>2. Holders(i) # {}
  OBVIOUS
<1>3. Cardinality(Holders(i)) # 0
  BY <1>1, <1>2, FS_EmptySet
<1>. QED
  BY <1>1, <1>3

(* A thread can start an operation only on a ColumnImpl no other thread is *)
(* inside a copy or a drop of: that thread owns all its holders.           *)
LEMMA NotOthersTarget ==
  ASSUME IInv, NEW t \in Threads, NEW h \in Handles, Owner[h] = t,
         hnd[h] # NoImpl, NEW u \in Threads \ {t}, Busy(u)
  PROVE  tgt[u] # hnd[h]
BY DEF IInv, ThreadInv, Holders

(* A ColumnImpl outside the pool's live set has no holders and no thread   *)
(* works on it: Fresh may take it.                                         *)
LEMMA FreeImpl ==
  ASSUME IInv, NEW j \in Impls \ alive
  PROVE  /\ Holders(j) = {}
         /\ \A u \in Threads : Busy(u) => tgt[u] # j
<1>1. Holders(j) = {}
  BY ImplsAssumption DEF IInv, Holders, NoUseAfterFree
<1>2. \A u \in Threads : Busy(u) => tgt[u] # j
  BY DEF IInv, ThreadInv
<1>. QED
  BY <1>1, <1>2

(* The start states satisfy the strengthening when they are confined.     *)
LEMMA InitIInv == Init /\ Confined => IInv
<1>. SUFFICES ASSUME Init, Confined PROVE IInv
  OBVIOUS
<1>1. hnd \in [Handles -> Impls \cup {NoImpl}]
  BY InitAssumption DEF Init
<1>2. rc \in [Impls -> 0..(SizeMod - 1)]
  <2>1. \A i \in Impls : Cardinality(Holders(i)) \in 0..(SizeMod - 1)
    BY HoldersFinite, SizeAssumption
  <2>. QED
    BY <2>1 DEF Init
<1>3. TypeOK
  BY <1>1, <1>2, MaxOpsAssumption, SizeAssumption DEF Init, TypeOK, PCs
<1>4. NoUseAfterFree
  BY DEF Init, NoUseAfterFree
<1>5. RcInv
  BY <1>1 DEF Init, RcInv
<1>6. \A t \in Threads : ThreadInv(t)
  BY DEF Init, ThreadInv, Busy
<1>. QED
  BY <1>3, <1>4, <1>5, <1>6 DEF IInv

-----------------------------------------------------------------------------
(* A step that changes only contents, stats and the operation count keeps  *)
(* the strengthening, once it keeps the types.                             *)
LEMMA FrameIInv ==
  ASSUME IInv, TypeOK', UNCHANGED <<hnd, alive, rc, pc, tmp, tgt>>
  PROVE  IInv'
<1>1. Confined' /\ NoUseAfterFree'
  BY DEF IInv, Confined, NoUseAfterFree
<1>2. \A i : Holders(i)' = Holders(i)
  BY DEF Holders
<1>3. RcInv'
  BY <1>2 DEF IInv, RcInv, Busy
<1>4. \A t \in Threads : ThreadInv(t)'
  BY <1>2 DEF IInv, ThreadInv, Busy
<1>. QED
  BY <1>1, <1>3, <1>4 DEF IInv

(* The in-place edit of an exclusively owned ColumnImpl.                   *)
LEMMA MutateInPlaceIInv ==
  ASSUME IInv, NEW t \in Threads, NEW h \in Handles, NEW v \in Vals,
         MutateInPlace(t, h, v)
  PROVE  IInv'
<1>1. hnd[h] \in Impls
  BY DEF IInv, TypeOK, MutateInPlace
<1>2. data' \in [Impls -> Vals]
  BY <1>1 DEF IInv, TypeOK, MutateInPlace
<1>3. stats' \in [Impls -> Vals \cup {NoStats}]
  BY <1>1 DEF IInv, TypeOK, MutateInPlace
<1>4. ops' \in 0..MaxOps
  BY MaxOpsAssumption DEF IInv, TypeOK, MutateInPlace, Start
<1>5. TypeOK'
  BY <1>2, <1>3, <1>4 DEF IInv, TypeOK, MutateInPlace
<1>. QED
  BY <1>5, FrameIInv DEF MutateInPlace

(* The lazy creation of stats_.                                            *)
LEMMA ComputeStatsIInv ==
  ASSUME IInv, NEW t \in Threads, NEW h \in Handles, ComputeStats(t, h)
  PROVE  IInv'
<1>1. TypeOK'
  BY DEF IInv, TypeOK, ComputeStats
<1>. QED
  BY <1>1, FrameIInv DEF ComputeStats

-----------------------------------------------------------------------------
(* Column(const Column&): the copy holds the ColumnImpl before its         *)
(* refcount_ is stored, and the copying thread owes it one increment.      *)
LEMMA CopyStartIInv ==
  ASSUME IInv, NEW t \in Threads, NEW src \in Handles, NEW dst \in Handles,
         CopyStart(t, src, dst)
  PROVE  IInv'
<1> DEFINE i == hnd[src]
<1>1. /\ pc[t] = "idle" /\ Owner[src] = t /\ Owner[dst] = t
      /\ i # NoImpl /\ hnd[dst] = NoImpl
  BY DEF CopyStart, Start
<1>2. i \in Impls /\ i \in alive
  BY <1>1 DEF IInv, TypeOK, NoUseAfterFree
<1>3. Holders(i)' = Holders(i) \cup {dst} /\ dst \notin Holders(i)
  BY <1>1 DEF CopyStart, Holders, IInv, TypeOK
<1>4. \A k \in Impls : k # i => Holders(k)' = Holders(k)
  BY <1>1, ImplsAssumption DEF CopyStart, Holders, IInv, TypeOK
<1>5. Cardinality(Holders(i)') = Cardinality(Holders(i)) + 1
  BY <1>3, HoldersFinite, FS_AddElement
<1>6. \A u \in Threads : Busy(u) => tgt[u] # i
  BY <1>1, NotOthersTarget DEF Busy
<1>7. rc[i] = Cardinality(Holders(i))
  BY <1>2, <1>6 DEF IInv, RcInv
<1>8. \A h \in Holders(i) : Owner[h] = t
  BY <1>1 DEF IInv, Confined, Holders
<1>9. TypeOK'
  <2>1. hnd' \in [Handles -> Impls \cup {NoImpl}]
    BY <1>2 DEF IInv, TypeOK, CopyStart
  <2>2. pc' \in [Threads -> PCs] /\ tmp' \in [Threads -> Int]
    BY DEF IInv, TypeOK, CopyStart, PCs
  <2>3. tgt' \in [Threads -> Impls \cup {NoImpl}] /\ ops' \in 0..MaxOps
    BY <1>2, MaxOpsAssumption DEF IInv, TypeOK, CopyStart, Start
  <2>. QED
    BY <2>1, <2>2, <2>3 DEF IInv, TypeOK, CopyStart
<1>10. Confined' /\ NoUseAfterFree'
  BY <1>1, <1>2 DEF IInv, Confined, NoUseAfterFree, CopyStart
<1>11. RcInv'
  <2>. SUFFICES ASSUME NEW k \in alive',
                      \A u \in Threads : Busy(u)' => tgt'[u] # k
               PROVE  rc'[k] = Cardinality(Holders(k)')
    BY DEF RcInv
  <2>1. k # i /\ k \in alive
    BY DEF CopyStart, Busy, IInv, TypeOK
  <2>2. \A u \in Threads : Busy(u) => tgt[u] # k
    BY <1>1 DEF CopyStart, Busy
  <2>. QED
    BY <2>1, <2>2, <1>4 DEF IInv, TypeOK, RcInv, CopyStart
<1>12. ThreadInv(t)'
  <2>1. tgt'[t] = i /\ pc'[t] = "copyStore" /\ tmp'[t] = rc'[i] /\ rc' = rc
    BY <1>7 DEF CopyStart, IInv, TypeOK
  <2>2. \A h \in Holders(i)' : Owner[h] = t
    BY <1>1, <1>3, <1>8
  <2>3. \A u \in Threads \ {t} : Busy(u)' => tgt'[u] # i
    BY <1>6 DEF CopyStart, Busy
  <2>. QED
    BY <1>2, <1>5, <1>7, <2>1, <2>2, <2>3 DEF ThreadInv, Busy, CopyStart
<1>13. ASSUME NEW u \in Threads \ {t} PROVE ThreadInv(u)'
  <2>. SUFFICES ASSUME Busy(u)' PROVE ThreadInv(u)'
    BY DEF ThreadInv
  <2>1. Busy(u) /\ tgt'[u] = tgt[u] /\ pc'[u] = pc[u] /\ tgt[u] # i
    BY <1>6 DEF CopyStart, Busy
  <2>2. Holders(tgt[u])' = Holders(tgt[u])
    <3>1. tgt[u] \in Impls
      BY <2>1 DEF IInv, ThreadInv, TypeOK
    <3>. QED
      BY <3>1, <2>1, <1>4
  <2>3. \A w \in Threads \ {u} : Busy(w)' => tgt'[w] # tgt'[u]
    BY <2>1 DEF IInv, TypeOK, ThreadInv, CopyStart, Busy
  <2>. QED
    BY <2>1, <2>2, <2>3 DEF IInv, ThreadInv, CopyStart, Busy
<1>. QED
  BY <1>9, <1>10, <1>11, <1>12, <1>13 DEF IInv

-----------------------------------------------------------------------------
(* The facts every finishing step of thread t starts from.                 *)
LEMMA BusyTarget ==
  ASSUME IInv, NEW t \in Threads, Busy(t)
  PROVE  /\ tgt[t] \in alive /\ tgt[t] \in Impls
         /\ rc[tgt[t]] \in 0..(SizeMod - 1)
         /\ \A u \in Threads \ {t} : Busy(u) => tgt[u] # tgt[t]
BY DEF IInv, ThreadInv, TypeOK

(* The store of refcount_++ : the loaded value is still the stored one, so *)
(* the count becomes the number of holders, which size_t holds.            *)
LEMMA CopyStoreIInv ==
  ASSUME IInv, NEW t \in Threads, CopyStore(t)
  PROVE  IInv'
<1> DEFINE i == tgt[t]
<1>1. Busy(t) /\ pc[t] = "copyStore"
  BY DEF CopyStore, Busy
<1>2. /\ i \in alive /\ i \in Impls /\ rc[i] \in 0..(SizeMod - 1)
      /\ \A u \in Threads \ {t} : Busy(u) => tgt[u] # i
  BY <1>1, BusyTarget
<1>3. tmp[t] = rc[i] /\ Cardinality(Holders(i)) = rc[i] + 1
  BY <1>1 DEF IInv, ThreadInv
<1>4. (tmp[t] + 1) % SizeMod = Cardinality(Holders(i))
  <2>1. Cardinality(Holders(i)) < SizeMod
    BY HoldersFinite
  <2>. QED
    BY <1>2, <1>3, <2>1, SizeAssumption
<1>5. rc' = [rc EXCEPT ![i] = Cardinality(Holders(i))]
  BY <1>4 DEF CopyStore
<1>6. \A k : Holders(k)' = Holders(k)
  BY DEF CopyStore, Holders
<1>7. TypeOK'
  BY <1>2, <1>5, HoldersFinite, SizeAssumption
     DEF IInv, TypeOK, CopyStore, PCs
<1>8. Confined' /\ NoUseAfterFree'
  BY DEF IInv, Confined, NoUseAfterFree, CopyStore
<1>9. RcInv'
  <2>. SUFFICES ASSUME NEW k \in alive',
                      \A u \in Threads : Busy(u)' => tgt'[u] # k
               PROVE  rc'[k] = Cardinality(Holders(k)')
    BY DEF RcInv
  <2>1. CASE k = i
    BY <2>1, <1>5, <1>6, <1>2 DEF IInv, TypeOK
  <2>2. CASE k # i
    <3>1. \A u \in Threads : Busy(u) => tgt[u] # k
      BY <2>2 DEF CopyStore, Busy, IInv, TypeOK
    <3>. QED
      BY <2>2, <3>1, <1>5, <1>6 DEF IInv, TypeOK, RcInv, CopyStore
  <2>. QED
    BY <2>1, <2>2
<1>10. \A u \in Threads : ThreadInv(u)'
  <2>. SUFFICES ASSUME NEW u \in Threads, Busy(u)' PROVE ThreadInv(u)'
    BY DEF ThreadInv
  <2>1. u # t /\ Busy(u) /\ tgt[u] # i
    BY <1>2 DEF CopyStore, Busy, IInv, TypeOK
  <2>2. tgt[u] \in Impls
    BY <2>1 DEF IInv, ThreadInv, TypeOK
  <2>3. rc'[tgt[u]] = rc[tgt[u]]
    BY <2>1, <2>2, <1>5
  <2>. QED
    BY <2>1, <2>3, <1>6 DEF IInv, TypeOK, ThreadInv, Busy, CopyStore
<1>. QED
  BY <1>7, <1>8, <1>9, <1>10 DEF IInv

(* The store of refcount_-- : the count becomes the number of holders, and *)
(* the thread goes on to delete exactly when nobody holds the ColumnImpl.  *)
LEMMA DropStoreIInv ==
  ASSUME IInv, NEW t \in Threads, DropStore(t)
  PROVE  IInv'
<1> DEFINE i == tgt[t]
<1>1. Busy(t) /\ pc[t] = "dropStore"
  BY DEF DropStore, Busy
<1>2. /\ i \in alive /\ i \in Impls /\ rc[i] \in 0..(SizeMod - 1)
      /\ \A u \in Threads \ {t} : Busy(u) => tgt[u] # i
  BY <1>1, BusyTarget
<1>3. tmp[t] = rc[i] /\ Cardinality(Holders(i)) = rc[i] - 1
  BY <1>1 DEF IInv, ThreadInv
<1>4. (tmp[t] - 1) % SizeMod = Cardinality(Holders(i))
  <2>1. Cardinality(Holders(i)) \in Nat
    BY HoldersFinite
  <2>. QED
    BY <1>2, <1>3, <2>1, SizeAssumption
<1>5. rc' = [rc EXCEPT ![i] = Cardinality(Holders(i))]
  BY <1>4 DEF DropStore
<1>6. pc' = [pc EXCEPT ![t] = IF Cardinality(Holders(i)) = 0
                               THEN "delete" ELSE "idle"]
  BY <1>4 DEF DropStore
<1>7. Cardinality(Holders(i)) = 0 <=> Holders(i) = {}
  BY HoldersFinite, FS_EmptySet
<1>8. \A k : Holders(k)' = Holders(k)
  BY DEF DropStore, Holders
<1>9. TypeOK'
  BY <1>2, <1>5, <1>6, HoldersFinite, SizeAssumption
     DEF IInv, TypeOK, DropStore, PCs
<1>10. Confined' /\ NoUseAfterFree'
  BY DEF IInv, Confined, NoUseAfterFree, DropStore
<1>11. RcInv'
  <2>. SUFFICES ASSUME NEW k \in alive',
                      \A u \in Threads : Busy(u)' => tgt'[u] # k
               PROVE  rc'[k] = Cardinality(Holders(k)')
    BY DEF RcInv
  <2>1. CASE k = i
    BY <2>1, <1>5, <1>8, <1>2 DEF IInv, TypeOK
  <2>2. CASE k # i
    <3>1. \A u \in Threads : Busy(u) => tgt[u] # k
      BY <2>2, <1>6 DEF DropStore, Busy, IInv, TypeOK
    <3>. QED
      BY <2>2, <3>1, <1>5, <1>8 DEF IInv, TypeOK, RcInv, DropStore
  <2>. QED
    BY <2>1, <2>2
<1>12. ThreadInv(t)'
  <2>. SUFFICES ASSUME Busy(t)' PROVE ThreadInv(t)'
    BY DEF ThreadInv
  <2>1. pc'[t] = "delete" /\ Holders(i) = {} /\ rc'[i] = 0
    BY <1>5, <1>6, <1>7, <1>2 DEF Busy, IInv, TypeOK
  <2>2. \A u \in Threads \ {t} : Busy(u)' => tgt'[u] # tgt'[t]
    BY <1>2, <1>6 DEF DropStore, Busy, IInv, TypeOK
  <2>. QED
    BY <2>1, <2>2, <1>2, <1>8 DEF ThreadInv, DropStore
<1>13. ASSUME NEW u \in Threads \ {t} PROVE ThreadInv(u)'
  <2>. SUFFICES ASSUME Busy(u)' PROVE ThreadInv(u)'
    BY DEF ThreadInv
  <2>1. Busy(u) /\ tgt[u] # i /\ pc'[u] = pc[u]
    BY <1>2, <1>6 DEF DropStore, Busy, IInv, TypeOK
  <2>2. tgt[u] \in Impls
    BY <2>1 DEF IInv, ThreadInv, TypeOK
  <2>3. rc'[tgt[u]] = rc[tgt[u]]
    BY <2>1, <2>2, <1>5
  <2>4. \A w \in Threads \ {u} : Busy(w)' => tgt'[w] # tgt'[u]
    BY <2>1, <1>6 DEF IInv, TypeOK, ThreadInv, DropStore, Busy
  <2>. QED
    BY <2>1, <2>3, <2>4, <1>8 DEF IInv, TypeOK, ThreadInv, Busy, DropStore
<1>. QED
  BY <1>9, <1>10, <1>11, <1>12, <1>13 DEF IInv

(* delete impl: nobody holds it, so no Column is left dangling.            *)
LEMMA DeleteIInv ==
  ASSUME IInv, NEW t \in Threads, Delete(t)
  PROVE  IInv'
<1> DEFINE i == tgt[t]
<1>1. Busy(t) /\ pc[t] = "delete"
  BY DEF Delete, Busy
<1>2. /\ i \in alive /\ i \in Impls
      /\ \A u \in Threads \ {t} : Busy(u) => tgt[u] # i
  BY <1>1, BusyTarget
<1>3. Holders(i) = {}
  BY <1>1 DEF IInv, ThreadInv
<1>4. \A k : Holders(k)' = Holders(k)
  BY DEF Delete, Holders
<1>5. TypeOK'
  BY <1>2 DEF IInv, TypeOK, Delete, PCs
<1>6. Confined'
  BY DEF IInv, Confined, Delete
<1>7. NoUseAfterFree'
  BY <1>3 DEF IInv, NoUseAfterFree, Delete, Holders
<1>8. RcInv'
  <2>. SUFFICES ASSUME NEW k \in alive',
                      \A u \in Threads : Busy(u)' => tgt'[u] # k
               PROVE  rc'[k] = Cardinality(Holders(k)')
    BY DEF RcInv
  <2>1. k # i /\ \A u \in Threads : Busy(u) => tgt[u] # k
    BY DEF Delete, Busy, IInv, TypeOK
  <2>. QED
    BY <2>1, <1>4 DEF IInv, RcInv, Delete
<1>9. \A u \in Threads : ThreadInv(u)'
  <2>. SUFFICES ASSUME NEW u \in Threads, Busy(u)' PROVE ThreadInv(u)'
    BY DEF ThreadInv
  <2>1. u # t /\ Busy(u) /\ tgt[u] # i
    BY <1>2 DEF Delete, Busy, IInv, TypeOK
  <2>. QED
    BY <2>1, <1>4 DEF IInv, TypeOK, ThreadInv, Busy, Delete
<1>. QED
  BY <1>5, <1>6, <1>7, <1>8, <1>9 DEF IInv

-----------------------------------------------------------------------------
(* The facts a thread has when it starts an operation on Column h.  The    *)
(* ColumnImpl's refcount is exact: no thread is working on it.            *)
LEMMA StartFacts ==
  ASSUME IInv, NEW t \in Threads, NEW h \in Handles, Start(t, h),
         hnd[h] # NoImpl
  PROVE  LET i == hnd[h] IN
         /\ i \in alive /\ i \in Impls /\ ~Busy(t)
         /\ \A u \in Threads : Busy(u) => tgt[u] # i
         /\ rc[i] = Cardinality(Holders(i))
         /\ \A g \in Holders(i) : Owner[g] = t
         /\ h \in Holders(i)
<1> DEFINE i == hnd[h]
<1>1. i \in alive /\ i \in Impls /\ ~Busy(t) /\ Owner[h] = t
  BY DEF IInv, TypeOK, NoUseAfterFree, Start, Busy
<1>2. \A u \in Threads : Busy(u) => tgt[u] # i
  BY <1>1, NotOthersTarget
<1>3. rc[i] = Cardinality(Holders(i))
  BY <1>1, <1>2 DEF IInv, RcInv
<1>4. \A g \in Holders(i) : Owner[g] = t
  BY <1>1 DEF IInv, Confined, Holders
<1>. QED
  BY <1>1, <1>2, <1>3, <1>4 DEF Holders

(* ~Column(): the Column lets go of its ColumnImpl before refcount_-- is    *)
(* stored, and the thread owes it one decrement.                           *)
LEMMA DropStartIInv ==
  ASSUME IInv, NEW t \in Threads, NEW h \in Handles, DropStart(t, h)
  PROVE  IInv'
<1>0. PICK i \in Impls : i = hnd[h]
  BY DEF IInv, TypeOK, NoUseAfterFree, DropStart
<1>1. /\ i \in alive /\ i \in Impls /\ ~Busy(t)
      /\ \A u \in Threads : Busy(u) => tgt[u] # i
      /\ rc[i] = Cardinality(Holders(i))
      /\ \A g \in Holders(i) : Owner[g] = t
      /\ h \in Holders(i)
  BY <1>0, StartFacts DEF DropStart
<1>2. Holders(i)' = Holders(i) \ {h}
  BY <1>0, <1>1 DEF DropStart, Holders, IInv, TypeOK
<1>3. \A k \in Impls : k # i => Holders(k)' = Holders(k)
  BY <1>0, ImplsAssumption DEF DropStart, Holders, IInv, TypeOK
<1>4. Cardinality(Holders(i)') = Cardinality(Holders(i)) - 1
  BY <1>0, <1>1, <1>2, HoldersFinite, FS_RemoveElement
<1>5. TypeOK'
  BY <1>0, <1>1, MaxOpsAssumption DEF IInv, TypeOK, DropStart, Release, Start, PCs
<1>6. Confined' /\ NoUseAfterFree'
  BY <1>0 DEF IInv, Confined, NoUseAfterFree, DropStart
<1>7. RcInv'
  <2>. SUFFICES ASSUME NEW k \in alive',
                      \A u \in Threads : Busy(u)' => tgt'[u] # k
               PROVE  rc'[k] = Cardinality(Holders(k)')
    BY <1>0 DEF RcInv
  <2>1. k # i /\ k \in alive /\ k \in Impls
    BY <1>0 DEF DropStart, Release, Busy, IInv, TypeOK
  <2>2. \A u \in Threads : Busy(u) => tgt[u] # k
    BY <1>0, <1>1 DEF DropStart, Release, Busy, IInv, TypeOK
  <2>. QED
    BY <1>0, <2>1, <2>2, <1>3 DEF IInv, RcInv, DropStart
<1>8. ThreadInv(t)'
  <2>1. tgt'[t] = i /\ pc'[t] = "dropStore" /\ tmp'[t] = rc'[i]
    BY <1>0 DEF DropStart, Release, IInv, TypeOK
  <2>2. \A g \in Holders(i)' : Owner[g] = t
    BY <1>0, <1>1, <1>2
  <2>3. \A u \in Threads \ {t} : Busy(u)' => tgt'[u] # i
    BY <1>0, <1>1 DEF DropStart, Release, Busy, IInv, TypeOK
  <2>. QED
    BY <1>0, <1>1, <1>4, <2>1, <2>2, <2>3 DEF ThreadInv, Busy, DropStart
<1>9. ASSUME NEW u \in Threads \ {t} PROVE ThreadInv(u)'
  <2>. SUFFICES ASSUME Busy(u)' PROVE ThreadInv(u)'
    BY <1>0 DEF ThreadInv
  <2>1. Busy(u) /\ tgt'[u] = tgt[u] /\ pc'[u] = pc[u] /\ tgt[u] # i
    BY <1>0, <1>1 DEF DropStart, Release, Busy, IInv, TypeOK
  <2>2. Holders(tgt[u])' = Holders(tgt[u])
    <3>1. tgt[u] \in Impls
      BY <1>0, <2>1 DEF IInv, ThreadInv, TypeOK
    <3>. QED
      BY <1>0, <3>1, <2>1, <1>3
  <2>3. \A w \in Threads \ {u} : Busy(w)' => tgt'[w] # tgt'[u]
    BY <1>0, <2>1 DEF IInv, TypeOK, ThreadInv, DropStart, Release, Busy
  <2>. QED
    BY <1>0, <2>1, <2>2, <2>3 DEF IInv, TypeOK, ThreadInv, DropStart, Release, Busy
<1>. QED
  BY <1>0, <1>5, <1>6, <1>7, <1>8, <1>9 DEF IInv

(* The common shape of clone-on-write and cast_replace: Column h moves to  *)
(* a new ColumnImpl j and releases its old one i.                          *)
Replace(t, h, j, v) ==
  /\ Start(t, h)
  /\ hnd[h] # NoImpl
  /\ Fresh(h, j, v)
  /\ Release(t, hnd[h])
  /\ ops' = ops + 1

LEMMA ReplaceIInv ==
  ASSUME IInv, NEW t \in Threads, NEW h \in Handles, NEW j \in Impls,
         NEW v \in Vals, Replace(t, h, j, v)
  PROVE  IInv'
<1>0. PICK i \in Impls : i = hnd[h]
  BY DEF IInv, TypeOK, Replace
<1>1. /\ i \in alive /\ ~Busy(t)
      /\ \A u \in Threads : Busy(u) => tgt[u] # i
      /\ rc[i] = Cardinality(Holders(i))
      /\ \A g \in Holders(i) : Owner[g] = t
      /\ h \in Holders(i)
  BY <1>0, StartFacts DEF Replace
<1>2. j \notin alive /\ Holders(j) = {} /\ \A u \in Threads : Busy(u) => tgt[u] # j
  BY FreeImpl DEF Replace, Fresh
<1>3. j # i
  BY <1>1, <1>2
<1>4. /\ Holders(i)' = Holders(i) \ {h}
      /\ Holders(j)' = {h}
      /\ \A k \in Impls : k \notin {i, j} => Holders(k)' = Holders(k)
  BY <1>0, <1>2, <1>3, ImplsAssumption DEF Replace, Fresh, Holders, IInv, TypeOK
<1>5. Cardinality(Holders(i)') = Cardinality(Holders(i)) - 1
  BY <1>1, <1>4, HoldersFinite, FS_RemoveElement
<1>6. Cardinality(Holders(j)') = 1
  BY <1>4, FS_Singleton
<1>7. 1 < SizeMod
  <2>1. Cardinality(Holders(i)) >= 1
    BY <1>1, HeldCard
  <2>2. Cardinality(Holders(i)) \in Nat /\ Cardinality(Holders(i)) < SizeMod
    BY HoldersFinite
  <2>. QED
    BY <2>1, <2>2, SizeAssumption
<1>8. rc' = [rc EXCEPT ![j] = 1] /\ rc'[i] = rc[i]
  BY <1>3 DEF Replace, Fresh, IInv, TypeOK
<1>9. TypeOK'
  <2>1. hnd' \in [Handles -> Impls \cup {NoImpl}] /\ alive' \subseteq Impls
    BY DEF Replace, Fresh, IInv, TypeOK
  <2>2. rc' \in [Impls -> 0..(SizeMod - 1)]
    BY <1>7, <1>8, SizeAssumption DEF IInv, TypeOK
  <2>3. data' \in [Impls -> Vals] /\ stats' \in [Impls -> Vals \cup {NoStats}]
    BY DEF Replace, Fresh, IInv, TypeOK
  <2>4. /\ pc' \in [Threads -> PCs] /\ tmp' \in [Threads -> Int]
        /\ tgt' \in [Threads -> Impls \cup {NoImpl}] /\ ops' \in 0..MaxOps
    BY <1>0, MaxOpsAssumption DEF Replace, Release, Start, IInv, TypeOK, PCs
  <2>. QED
    BY <2>1, <2>2, <2>3, <2>4 DEF TypeOK
<1>10. Confined'
  BY <1>2 DEF IInv, Confined, Replace, Fresh, Holders, TypeOK
<1>11. NoUseAfterFree'
  BY DEF IInv, NoUseAfterFree, Replace, Fresh, TypeOK
<1>12. RcInv'
  <2>. SUFFICES ASSUME NEW k \in alive',
                      \A u \in Threads : Busy(u)' => tgt'[u] # k
               PROVE  rc'[k] = Cardinality(Holders(k)')
    BY DEF RcInv
  <2>1. k # i
    BY <1>0 DEF Replace, Release, Busy, IInv, TypeOK
  <2>2. CASE k = j
    BY <2>2, <1>6, <1>8 DEF IInv, TypeOK
  <2>3. CASE k # j
    <3>1. k \in alive /\ k \in Impls /\ \A u \in Threads : Busy(u) => tgt[u] # k
      BY <1>0, <1>1, <2>1, <2>3 DEF Replace, Fresh, Release, Busy, IInv, TypeOK
    <3>2. rc'[k] = rc[k]
      BY <3>1, <2>3, <1>8
    <3>. QED
      BY <3>1, <3>2, <2>1, <2>3, <1>4 DEF IInv, RcInv
  <2>. QED
    BY <2>2, <2>3
<1>13. ThreadInv(t)'
  <2>1. tgt'[t] = i /\ pc'[t] = "dropStore" /\ tmp'[t] = rc'[i] /\ i \in alive'
    BY <1>0, <1>1, <1>8 DEF Replace, Fresh, Release, IInv, TypeOK
  <2>2. \A g \in Holders(i)' : Owner[g] = t
    BY <1>1, <1>4
  <2>3. \A u \in Threads \ {t} : Busy(u)' => tgt'[u] # i
    BY <1>0, <1>1 DEF Replace, Release, Busy, IInv, TypeOK
  <2>. QED
    BY <1>1, <1>5, <1>8, <2>1, <2>2, <2>3 DEF ThreadInv, Busy
<1>14. ASSUME NEW u \in Threads \ {t} PROVE ThreadInv(u)'
  <2>. SUFFICES ASSUME Busy(u)' PROVE ThreadInv(u)'
    BY DEF ThreadInv
  <2>1. /\ Busy(u) /\ tgt'[u] = tgt[u] /\ pc'[u] = pc[u] /\ tmp'[u] = tmp[u]
        /\ tgt[u] # i /\ tgt[u] # j
    BY <1>0, <1>1, <1>2 DEF Replace, Release, Busy, IInv, TypeOK
  <2>2. tgt[u] \in Impls /\ tgt[u] \in alive'
    BY <2>1 DEF IInv, ThreadInv, TypeOK, Replace, Fresh
  <2>3. Holders(tgt[u])' = Holders(tgt[u]) /\ rc'[tgt[u]] = rc[tgt[u]]
    BY <2>1, <2>2, <1>4, <1>8
  <2>4. \A w \in Threads \ {u} : Busy(w)' => tgt'[w] # tgt'[u]
    BY <1>0, <2>1 DEF IInv, TypeOK, ThreadInv, Replace, Release, Busy
  <2>. QED
    BY <2>1, <2>2, <2>3, <2>4 DEF IInv, ThreadInv, Busy
<1>. QED
  BY <1>9, <1>10, <1>11, <1>12, <1>13, <1>14 DEF IInv

(* A structural transform: an empty Column out receives a new ColumnImpl j *)
(* with refcount 1; the receiver's ColumnImpl is untouched.                *)
LEMMA TransformIInv ==
  ASSUME IInv, NEW t \in Threads, NEW h \in Handles, NEW out \in Handles,
         NEW v \in Vals, NEW j \in Impls,
         Start(t, h), Owner[out] = t, hnd[h] # NoImpl, hnd[out] = NoImpl,
         Fresh(out, j, v), ops' = ops + 1, UNCHANGED <<pc, tmp, tgt>>
  PROVE  IInv'
<1>1. j \notin alive /\ Holders(j) = {} /\ \A u \in Threads : Busy(u) => tgt[u] # j
  BY FreeImpl DEF Fresh
<1>2. /\ Holders(j)' = {out}
      /\ \A k \in Impls : k # j => Holders(k)' = Holders(k)
  BY <1>1, ImplsAssumption DEF Fresh, Holders, IInv, TypeOK
<1>3. Cardinality(Holders(j)') = 1
  BY <1>2, FS_Singleton
<1>4. 1 < SizeMod
  <2>1. PICK i \in Impls : i = hnd[h]
    BY DEF IInv, TypeOK
  <2>2. h \in Holders(i)
    BY <2>1 DEF Holders
  <2>4. Cardinality(Holders(i)) >= 1
    BY <2>2, HeldCard
  <2>3. Cardinality(Holders(i)) \in Nat /\ Cardinality(Holders(i)) < SizeMod
    BY HoldersFinite
  <2>. QED
    BY <2>4, <2>3, SizeAssumption
<1>5. rc' = [rc EXCEPT ![j] = 1]
  BY DEF Fresh
<1>6. TypeOK'
  BY <1>4, <1>5, SizeAssumption, MaxOpsAssumption
     DEF Fresh, Start, IInv, TypeOK
<1>7. Confined'
  BY <1>1 DEF IInv, Confined, Fresh, Holders, TypeOK
<1>8. NoUseAfterFree'
  BY DEF IInv, NoUseAfterFree, Fresh, TypeOK
<1>9. RcInv'
  <2>. SUFFICES ASSUME NEW k \in alive',
                      \A u \in Threads : Busy(u)' => tgt'[u] # k
               PROVE  rc'[k] = Cardinality(Holders(k)')
    BY DEF RcInv
  <2>1. CASE k = j
    BY <2>1, <1>3, <1>5 DEF IInv, TypeOK
  <2>2. CASE k # j
    <3>1. k \in alive /\ k \in Impls /\ \A u \in Threads : Busy(u) => tgt[u] # k
      BY <2>2 DEF Fresh, Busy, IInv, TypeOK
    <3>. QED
      BY <3>1, <2>2, <1>2, <1>5 DEF IInv, RcInv
  <2>. QED
    BY <2>1, <2>2
<1>10. \A u \in Threads : ThreadInv(u)'
  <2>. SUFFICES ASSUME NEW u \in Threads, Busy(u)' PROVE ThreadInv(u)'
    BY DEF ThreadInv
  <2>1. Busy(u) /\ tgt[u] # j /\ tgt[u] \in Impls /\ tgt[u] \in alive'
    BY <1>1 DEF Busy, IInv, ThreadInv, TypeOK, Fresh
  <2>2. Holders(tgt[u])' = Holders(tgt[u]) /\ rc'[tgt[u]] = rc[tgt[u]]
    BY <2>1, <1>2, <1>5
  <2>. QED
    BY <2>1, <2>2 DEF IInv, ThreadInv, Busy
<1>. QED
  BY <1>6, <1>7, <1>8, <1>9, <1>10 DEF IInv

-----------------------------------------------------------------------------
(* Every step of the protocol keeps the strengthening.                     *)
LEMMA NextIInv == IInv /\ [Next]_vars => IInv'
<1>. SUFFICES ASSUME IInv, [Next]_vars PROVE IInv'
  OBVIOUS
<1>1. CASE UNCHANGED vars
  BY <1>1, FrameIInv DEF vars, IInv, TypeOK
<1>2. ASSUME NEW t \in Threads, Finish(t) PROVE IInv'
  BY <1>2, CopyStoreIInv, DropStoreIInv, DeleteIInv DEF Finish
<1>3. ASSUME NEW t \in Threads, NEW h \in Handles, NEW v \in Vals,
             MutateClone(t, h, v) \/ CastReplace(t, h, v)
      PROVE  IInv'
  <2>1. \E j \in Impls : Replace(t, h, j, v)
    BY <1>3 DEF MutateClone, CastReplace, Replace
  <2>. QED
    BY <2>1, ReplaceIInv
<1>4. ASSUME NEW t \in Threads, NEW h \in Handles, NEW out \in Handles,
             NEW v \in Vals, Transform(t, h, out, v)
      PROVE  IInv'
  BY <1>4, TransformIInv DEF Transform
<1>. QED
  BY <1>1, <1>2, <1>3, <1>4, DropStartIInv, ComputeStatsIInv,
     CopyStartIInv, MutateInPlaceIInv DEF Next

(* The protocol never frees a ColumnImpl a Column still holds, whatever the *)
(* number of threads, Columns and ColumnImpls, provided that it starts     *)
(* with every ColumnImpl's Columns in one thread: this is the use of a     *)
(* plain size_t refcount_ (column_impl.h:57) that spec 5 permits.          *)
THEOREM ConfinedNoUseAfterFree == Spec /\ Confined => []NoUseAfterFree
<1>1. Init /\ Confined => IInv
  BY InitIInv
<1>2. IInv /\ [Next]_vars => IInv'
  BY NextIInv
<1>3. IInv => NoUseAfterFree
  BY DEF IInv
<1>. QED
  BY <1>1, <1>2, <1>3, PTL DEF Spec

-----------------------------------------------------------------------------
(***************************************************************************)
(* Refinement: under confinement every step of ColumnRef is a step of      *)
(* ColumnValues under the mapping val <- ColumnVal, or leaves ColumnVal    *)
(* unchanged.                                                              *)
(***************************************************************************)

(* The contents seen through the handles form a function of the right type.*)
LEMMA ColumnValType ==
  ASSUME TypeOK
  PROVE  ColumnVal \in [Handles -> Vals \cup {NoVal}]
BY DEF TypeOK, ColumnVal

(* A step that keeps every handle's ColumnImpl and the data of every held  *)
(* ColumnImpl leaves ColumnVal unchanged.                                  *)
LEMMA SameView ==
  ASSUME hnd' = hnd,
         \A h \in Handles : hnd[h] # NoImpl => data'[hnd[h]] = data[hnd[h]]
  PROVE  ColumnVal' = ColumnVal
BY DEF ColumnVal

(* A step that changes only what handle h sees, to w.                      *)
LEMMA UpdateView ==
  ASSUME TypeOK, TypeOK', NEW h \in Handles, NEW w,
         ColumnVal'[h] = w,
         \A g \in Handles \ {h} : ColumnVal'[g] = ColumnVal[g]
  PROVE  ColumnVal' = [ColumnVal EXCEPT ![h] = w]
<1>1. ColumnVal \in [Handles -> Vals \cup {NoVal}]
  BY ColumnValType
<1>2. ColumnVal' \in [Handles -> Vals \cup {NoVal}]
  BY DEF TypeOK, ColumnVal
<1>. QED
  BY <1>1, <1>2

(* In the shared start states the abstract Init holds.                     *)
LEMMA InitRefines == Init => Abstract!Init
<1>. SUFFICES ASSUME Init PROVE ColumnVal \in [Handles -> Vals \cup {NoVal}]
  BY DEF Abstract!Init, Abstract!TypeOK
<1>1. hnd \in [Handles -> Impls \cup {NoImpl}] /\ data \in [Impls -> Vals]
  BY InitAssumption DEF Init
<1>. QED
  BY <1>1 DEF ColumnVal

(* A copy constructor is the abstract Copy.                                *)
LEMMA CopyStartRefines ==
  ASSUME IInv, IInv', NEW t \in Threads, NEW src \in Handles,
         NEW dst \in Handles, CopyStart(t, src, dst)
  PROVE  Abstract!Copy(src, dst)
<1>1. hnd[src] \in Impls /\ hnd[dst] = NoImpl /\ src # dst
  BY ImplsAssumption DEF CopyStart, IInv, TypeOK
<1>2. ColumnVal[src] # NoVal /\ ColumnVal[dst] = NoVal
  BY <1>1, ImplsAssumption DEF ColumnVal, IInv, TypeOK, NoVal
<1>3. ColumnVal'[dst] = ColumnVal[src]
  BY <1>1 DEF CopyStart, ColumnVal, IInv, TypeOK
<1>4. \A g \in Handles \ {dst} : ColumnVal'[g] = ColumnVal[g]
  BY DEF CopyStart, ColumnVal, IInv, TypeOK
<1>. QED
  BY <1>2, <1>3, <1>4, UpdateView DEF Abstract!Copy, IInv

(* A destructor is the abstract Drop.                                      *)
LEMMA DropStartRefines ==
  ASSUME IInv, IInv', NEW t \in Threads, NEW h \in Handles, DropStart(t, h)
  PROVE  Abstract!Drop(h)
<1>1. ColumnVal[h] # NoVal
  BY ImplsAssumption DEF DropStart, ColumnVal, IInv, TypeOK, NoVal
<1>2. ColumnVal'[h] = NoVal
  BY DEF DropStart, ColumnVal, IInv, TypeOK, NoVal
<1>3. \A g \in Handles \ {h} : ColumnVal'[g] = ColumnVal[g]
  BY DEF DropStart, ColumnVal, IInv, TypeOK
<1>. QED
  BY <1>1, <1>2, <1>3, UpdateView DEF Abstract!Drop, IInv

(* An edit in place happens only when refcount_ is 1, and then the edited  *)
(* Column is the ColumnImpl's only holder: the abstract Set.               *)
LEMMA MutateInPlaceRefines ==
  ASSUME IInv, IInv', NEW t \in Threads, NEW h \in Handles, NEW v \in Vals,
         MutateInPlace(t, h, v)
  PROVE  Abstract!Set(h, v)
<1>0. PICK i \in Impls : i = hnd[h]
  BY DEF IInv, TypeOK, MutateInPlace
<1>1. rc[i] = Cardinality(Holders(i)) /\ h \in Holders(i) /\ rc[i] = 1
  BY <1>0, StartFacts DEF MutateInPlace
<1>2. Holders(i) = {h}
  <2>1. IsFiniteSet(Holders(i)) /\ Cardinality(Holders(i)) = 1
    BY <1>1, HoldersFinite
  <2>2. PICK x : Holders(i) = {x}
    BY <2>1, FS_Singleton
  <2>. QED
    BY <1>1, <2>2
<1>3. \A g \in Handles \ {h} : hnd[g] # i
  BY <1>2 DEF Holders
<1>4. ColumnVal'[h] = v
  BY <1>0 DEF MutateInPlace, ColumnVal, IInv, TypeOK
<1>5. \A g \in Handles \ {h} : ColumnVal'[g] = ColumnVal[g]
  BY <1>0, <1>3 DEF MutateInPlace, ColumnVal, IInv, TypeOK
<1>. QED
  BY <1>4, <1>5, UpdateView DEF Abstract!Set, IInv

(* Clone-on-write and cast_replace give Column h a ColumnImpl nobody else  *)
(* holds: the abstract Set.                                                *)
LEMMA ReplaceRefines ==
  ASSUME IInv, IInv', NEW t \in Threads, NEW h \in Handles, NEW j \in Impls,
         NEW v \in Vals, Replace(t, h, j, v)
  PROVE  Abstract!Set(h, v)
<1>1. Holders(j) = {}
  BY FreeImpl DEF Replace, Fresh
<1>2. \A g \in Handles : hnd[g] # j
  BY <1>1 DEF Holders
<1>3. ColumnVal'[h] = v
  BY ImplsAssumption DEF Replace, Fresh, ColumnVal, IInv, TypeOK
<1>4. \A g \in Handles \ {h} : ColumnVal'[g] = ColumnVal[g]
  BY <1>2 DEF Replace, Fresh, ColumnVal, IInv, TypeOK
<1>. QED
  BY <1>3, <1>4, UpdateView DEF Abstract!Set, IInv

(* A transform fills the empty Column out: the abstract Set.               *)
LEMMA TransformRefines ==
  ASSUME IInv, IInv', NEW t \in Threads, NEW h \in Handles,
         NEW out \in Handles, NEW v \in Vals, Transform(t, h, out, v)
  PROVE  Abstract!Set(out, v)
<1>1. PICK j \in Impls : Fresh(out, j, v)
  BY DEF Transform
<1>2. \A g \in Handles : hnd[g] # j
  BY <1>1, FreeImpl DEF Fresh, Holders
<1>3. ColumnVal'[out] = v
  BY <1>1, ImplsAssumption DEF Fresh, ColumnVal, IInv, TypeOK
<1>4. \A g \in Handles \ {out} : ColumnVal'[g] = ColumnVal[g]
  BY <1>1, <1>2 DEF Fresh, ColumnVal, IInv, TypeOK
<1>. QED
  BY <1>3, <1>4, UpdateView DEF Abstract!Set, IInv

(* Every step maps to an abstract step or leaves the handles' view alone:  *)
(* the refcount stores, the delete and the stats computation are           *)
(* invisible to the user of the Columns.                                   *)
LEMMA StepRefines ==
  ASSUME IInv, IInv', [Next]_vars
  PROVE  [Abstract!Next]_ColumnVal
<1>1. CASE UNCHANGED vars
  BY <1>1, SameView DEF vars
<1>2. ASSUME NEW t \in Threads, Finish(t) PROVE ColumnVal' = ColumnVal
  BY <1>2, SameView DEF Finish, CopyStore, DropStore, Delete
<1>3. ASSUME NEW t \in Threads, NEW h \in Handles, ComputeStats(t, h)
      PROVE  ColumnVal' = ColumnVal
  BY <1>3, SameView DEF ComputeStats
<1>4. ASSUME NEW t \in Threads, NEW h \in Handles, NEW v \in Vals,
             MutateClone(t, h, v) \/ CastReplace(t, h, v)
      PROVE  Abstract!Set(h, v)
  <2>1. PICK j \in Impls : Replace(t, h, j, v)
    BY <1>4 DEF MutateClone, CastReplace, Replace
  <2>. QED
    BY <2>1, ReplaceRefines
<1>5. \A h \in Handles, v \in Vals : Abstract!Set(h, v) => Abstract!Next
  BY DEF Abstract!Next
<1>6. \A h \in Handles : Abstract!Drop(h) => Abstract!Next
  BY DEF Abstract!Next
<1>7. \A src, dst \in Handles : Abstract!Copy(src, dst) => Abstract!Next
  BY DEF Abstract!Next
<1>. QED
  BY <1>1, <1>2, <1>3, <1>4, <1>5, <1>6, <1>7,
     CopyStartRefines, DropStartRefines, MutateInPlaceRefines,
     TransformRefines DEF Next

(* Columns confined to threads behave as independent values, for every     *)
(* number of threads, Columns and ColumnImpls: copy-on-write (an edit in   *)
(* place only at refcount_ 1), cast_replace and the transforms never       *)
(* change what another Column sees, although refcount_ is not atomic.      *)
THEOREM ConfinedRefinement == Spec /\ Confined => ImplementsColumnValues
<1>1. Init /\ Confined => IInv /\ Abstract!Init
  BY InitIInv, InitRefines
<1>2. IInv /\ [Next]_vars => IInv'
  BY NextIInv
<1>3. IInv /\ IInv' /\ [Next]_vars => [Abstract!Next]_ColumnVal
  BY StepRefines
<1>. QED
  BY <1>1, <1>2, <1>3, PTL DEF Spec, ImplementsColumnValues, Abstract!Spec

-----------------------------------------------------------------------------
(***************************************************************************)
(* The stats cache, with or without confinement.                           *)
(***************************************************************************)

(* A refcount of 1 fits in size_t as soon as there is one Column.          *)
LEMMA OneFits ==
  ASSUME NEW h \in Handles
  PROVE  1 \in 0..(SizeMod - 1)
<1>1. Cardinality(Handles) \in Nat /\ Cardinality(Handles) # 0
  BY HandlesAssumption, FS_EmptySet, FS_CardinalityType
<1>. QED
  BY <1>1, HandlesAssumption, SizeAssumption

(* Every step keeps the types, whether or not Columns are confined.        *)
LEMMA NextTypeOK == TypeOK /\ [Next]_vars => TypeOK'
<1>. SUFFICES ASSUME TypeOK, [Next]_vars PROVE TypeOK'
  OBVIOUS
<1>1. CASE UNCHANGED vars
  BY <1>1 DEF vars, TypeOK
<1>2. ASSUME NEW t \in Threads, Finish(t) PROVE TypeOK'
  BY <1>2, SizeAssumption DEF Finish, CopyStore, DropStore, Delete, TypeOK, PCs
<1>3. ASSUME NEW t \in Threads, NEW h \in Handles, NEW g \in Handles,
             CopyStart(t, h, g)
      PROVE  TypeOK'
  BY <1>3, MaxOpsAssumption DEF CopyStart, Start, TypeOK, PCs
<1>4. ASSUME NEW t \in Threads, NEW h \in Handles, DropStart(t, h)
      PROVE  TypeOK'
  BY <1>4, MaxOpsAssumption DEF DropStart, Release, Start, TypeOK, PCs
<1>5. ASSUME NEW t \in Threads, NEW h \in Handles, ComputeStats(t, h)
      PROVE  TypeOK'
  BY <1>5 DEF ComputeStats, TypeOK
<1>6. ASSUME NEW t \in Threads, NEW h \in Handles, NEW v \in Vals,
             MutateInPlace(t, h, v)
      PROVE  TypeOK'
  BY <1>6, MaxOpsAssumption DEF MutateInPlace, Start, TypeOK
<1>7. ASSUME NEW t \in Threads, NEW h \in Handles, NEW v \in Vals,
             MutateClone(t, h, v) \/ CastReplace(t, h, v)
      PROVE  TypeOK'
  <2>1. PICK j \in Impls : Replace(t, h, j, v)
    BY <1>7 DEF MutateClone, CastReplace, Replace
  <2>2. 1 \in 0..(SizeMod - 1)
    BY OneFits
  <2>. QED
    BY <2>1, <2>2, MaxOpsAssumption DEF Replace, Fresh, Release, Start, TypeOK, PCs
<1>8. ASSUME NEW t \in Threads, NEW h \in Handles, NEW out \in Handles,
             NEW v \in Vals, Transform(t, h, out, v)
      PROVE  TypeOK'
  <2>1. PICK j \in Impls : Fresh(out, j, v)
    BY <1>8 DEF Transform
  <2>2. 1 \in 0..(SizeMod - 1)
    BY OneFits
  <2>. QED
    BY <1>8, <2>1, <2>2, MaxOpsAssumption DEF Transform, Fresh, Start, TypeOK
<1>. QED
  BY <1>1, <1>2, <1>3, <1>4, <1>5, <1>6, <1>7, <1>8 DEF Next

(* The start states are well typed.                                        *)
LEMMA InitTypeOK == Init => TypeOK
<1>. SUFFICES ASSUME Init PROVE TypeOK
  OBVIOUS
<1>1. \A i \in Impls : Cardinality(Holders(i)) \in 0..(SizeMod - 1)
  BY HoldersFinite, SizeAssumption
<1>. QED
  BY <1>1, InitAssumption, MaxOpsAssumption DEF Init, TypeOK, PCs

=============================================================================
