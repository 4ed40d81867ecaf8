-------------------------- MODULE BridgePoolsProofs --------------------------
(***************************************************************************)
(* Proofs about BridgePools: for any number of threads, owners and slots,  *)
(* the reference counts are exact, nothing touches a deleted pool, no slot *)
(* has two owners, and the runtime is initialised once.                    *)
(***************************************************************************)
EXTENDS BridgePools, FiniteSetTheorems, TLAPS

Places == {"idle", "create", "fill", "send", "release", "unref", "delete"}
Holding == {"fill", "send", "release"}

\* What a thread's place says of the reference its operation is about.
ThreadsFit ==
    \A t \in Threads :
        /\ pc[t] \in Holding => at[t] \in inUse \ handles
        /\ pc[t] \in {"unref", "delete"} => PoolOf(at[t]) \in Owners
        /\ pc[t] = "create" =>
              \E o \in Owners : /\ at[t] = OwnRef(o) /\ pool[o] = "none"
                                /\ Validates(Config[o])
                                /\ Config[o].path # NoPath => runtime # NoPath

\* No two threads hold the same slot.
HoldersDiffer ==
    \A t, u \in Threads :
        pc[t] \in Holding /\ pc[u] \in Holding /\ at[t] = at[u] => t = u

\* No two threads make the same owner.
MakersDiffer ==
    \A t, u \in Threads :
        pc[t] = "create" /\ pc[u] = "create" /\ at[t] = at[u] => t = u

\* What was there when a pool was made.
MadeOnce ==
    \A o \in Owners :
        pool[o] # "none" =>
            /\ Validates(Config[o])
            /\ Config[o].path # NoPath => runtime # NoPath

\* The inductive invariant.
IInv ==
    /\ TypeOK
    /\ \A o \in Owners : IsFiniteSet(InUseOf(o))
    /\ handles \subseteq inUse \cap data
    /\ ThreadsFit
    /\ HoldersDiffer
    /\ MakersDiffer
    /\ MadeOnce
    /\ RefsAreExact

Bit(b) == IF b THEN 1 ELSE 0

-----------------------------------------------------------------------------
(* References *)

\* The pool of a slot is an owner's.
LEMMA SlotPool ==
    ASSUME NEW s \in Slot
    PROVE  PoolOf(s) \in Owners /\ s # NoRef /\ \A o \in Owners : s # OwnRef(o)
<1>1. PICK o \in Owners : s \in {o} \X (1..Config[o].maxSamples)
  BY DEF Slot
<1>2. PICK i \in 1..Config[o].maxSamples : s = <<o, i>>
  BY <1>1
<1>3. i # 0
  BY <1>2, ConstantsAssumption DEF Configuration
<1> QED
  BY <1>2, <1>3, ConstantsAssumption DEF PoolOf, NoRef, OwnRef

\* The slots of an owner's pool.
LEMMA SlotOf ==
    ASSUME NEW o \in Owners, NEW i \in 1..Config[o].maxSamples
    PROVE  <<o, i>> \in Slot /\ PoolOf(<<o, i>>) = o
<1>1. <<o, i>> \in {o} \X (1..Config[o].maxSamples)
  OBVIOUS
<1> QED
  BY <1>1 DEF Slot, PoolOf

\* An owner has one reference of its own, or none.
LEMMA LiveCount ==
    ASSUME NEW S, NEW o
    PROVE  Cardinality(S \cap {o}) = Bit(o \in S)
<1>1. CASE o \in S
  <2>1. S \cap {o} = {o}
    BY <1>1
  <2> QED
    BY <1>1, <2>1, FS_Singleton DEF Bit
<1>2. CASE o \notin S
  <2>1. S \cap {o} = {}
    BY <1>2
  <2> QED
    BY <1>2, <2>1, FS_EmptySet DEF Bit
<1> QED
  BY <1>1, <1>2

\* The counts of threads are numbers.
LEMMA ThreadCounts ==
    ASSUME NEW o
    PROVE  /\ IsFiniteSet(Unrefing(o)) /\ Cardinality(Unrefing(o)) \in Nat
           /\ IsFiniteSet(Deleting(o)) /\ Cardinality(Deleting(o)) \in Nat
<1>1. Unrefing(o) \in SUBSET Threads /\ Deleting(o) \in SUBSET Threads
  BY DEF Unrefing, Deleting
<1> QED
  BY <1>1, ConstantsAssumption, FS_Subset, FS_CardinalityType

\* What moving thread t does to the counts of threads.
LEMMA MoveCounts ==
    ASSUME TypeOK, NEW t \in Threads, NEW place, NEW o, NEW ref, Go(t, place, o, ref),
           NEW p
    PROVE  /\ Cardinality(Unrefing(p))' = Cardinality(Unrefing(p)) - Bit(t \in Unrefing(p))
                                          + Bit(place = "unref" /\ PoolOf(ref) = p)
           /\ Cardinality(Deleting(p))' = Cardinality(Deleting(p)) - Bit(t \in Deleting(p))
                                          + Bit(place = "delete" /\ PoolOf(ref) = p)
<1>1. \A u \in Threads : /\ pc'[u] = IF u = t THEN place ELSE pc[u]
                         /\ at'[u] = IF u = t THEN ref ELSE at[u]
  BY DEF Go, TypeOK
<1>2. ASSUME NEW S, NEW T, IsFiniteSet(S), NEW b \in BOOLEAN,
             T = IF b THEN (S \ {t}) \cup {t} ELSE S \ {t}
      PROVE  Cardinality(T) = Cardinality(S) - Bit(t \in S) + Bit(b)
  <2>1. /\ IsFiniteSet(S \ {t})
        /\ Cardinality(S \ {t}) = Cardinality(S) - Bit(t \in S)
        /\ Cardinality(S) \in Nat /\ Cardinality(S \ {t}) \in Nat
    BY <1>2, FS_RemoveElement, FS_CardinalityType DEF Bit
  <2>2. Cardinality((S \ {t}) \cup {t}) = Cardinality(S \ {t}) + 1
    BY <2>1, FS_AddElement
  <2> QED
    BY <1>2, <2>1, <2>2 DEF Bit
<1>3. Unrefing(p)' = IF place = "unref" /\ PoolOf(ref) = p
                     THEN (Unrefing(p) \ {t}) \cup {t} ELSE Unrefing(p) \ {t}
  BY <1>1 DEF Unrefing
<1>4. Deleting(p)' = IF place = "delete" /\ PoolOf(ref) = p
                     THEN (Deleting(p) \ {t}) \cup {t} ELSE Deleting(p) \ {t}
  BY <1>1 DEF Deleting
<1>5. (place = "unref" /\ PoolOf(ref) = p) \in BOOLEAN
      /\ (place = "delete" /\ PoolOf(ref) = p) \in BOOLEAN
  OBVIOUS
<1> QED
  BY <1>2, <1>3, <1>4, <1>5, ThreadCounts

\* What taking a free slot, and giving one back, does to the count of slots.
LEMMA TakeSlot ==
    ASSUME NEW s, s \notin inUse, inUse' = inUse \cup {s}, NEW p, IsFiniteSet(InUseOf(p))
    PROVE  /\ IsFiniteSet(InUseOf(p))'
           /\ Cardinality(InUseOf(p))' = Cardinality(InUseOf(p)) + Bit(PoolOf(s) = p)
<1>1. CASE PoolOf(s) = p
  <2>1. InUseOf(p)' = InUseOf(p) \cup {s} /\ s \notin InUseOf(p)
    BY <1>1 DEF InUseOf
  <2> QED
    BY <1>1, <2>1, FS_AddElement DEF Bit
<1>2. CASE PoolOf(s) # p
  <2>1. InUseOf(p)' = InUseOf(p)
    BY <1>2 DEF InUseOf
  <2> QED
    BY <1>2, <2>1, FS_CardinalityType DEF Bit
<1> QED
  BY <1>1, <1>2

\* The same for a slot that is given back.
LEMMA GiveSlot ==
    ASSUME NEW s \in inUse, inUse' = inUse \ {s}, NEW p, IsFiniteSet(InUseOf(p))
    PROVE  /\ IsFiniteSet(InUseOf(p))'
           /\ Cardinality(InUseOf(p))' = Cardinality(InUseOf(p)) - Bit(PoolOf(s) = p)
<1>1. CASE PoolOf(s) = p
  <2>1. InUseOf(p)' = InUseOf(p) \ {s} /\ s \in InUseOf(p)
    BY <1>1 DEF InUseOf
  <2> QED
    BY <1>1, <2>1, FS_RemoveElement DEF Bit
<1>2. CASE PoolOf(s) # p
  <2>1. InUseOf(p)' = InUseOf(p)
    BY <1>2 DEF InUseOf
  <2> QED
    BY <1>2, <2>1, FS_CardinalityType DEF Bit
<1> QED
  BY <1>1, <1>2

\* RefsAreExact of one pool, in numbers.
Counted(p) ==
    /\ refs[p] = Bit(p \in live) + Cardinality(InUseOf(p)) + Cardinality(Unrefing(p))
    /\ IF refs[p] > 0 THEN Cardinality(Deleting(p)) = 0 /\ pool[p] = "made"
       ELSE Cardinality(Deleting(p)) = Bit(pool[p] = "made")

\* RefsAreExact is a fact about numbers of every pool.
LEMMA InNumbers ==
    RefsAreExact <=> \A p \in Owners : Counted(p)
<1>1. ASSUME NEW p
      PROVE  Deleting(p) = {} <=> Cardinality(Deleting(p)) = 0
  BY ThreadCounts, FS_EmptySet
<1>2. ASSUME NEW p
      PROVE  Cardinality(live \cap {p}) = Bit(p \in live)
  BY LiveCount
<1> QED
  BY <1>1, <1>2 DEF RefsAreExact, Counted, Bit

\* The same of the next state.
LEMMA NumbersNext ==
    (\A p \in Owners : Counted(p)') => RefsAreExact'
<1>1. (\A p \in Owners : Counted(p))' => RefsAreExact'
  BY InNumbers, PTL
<1> QED
  BY <1>1

\* What the counts are made of.
LEMMA Numbers ==
    ASSUME IInv, NEW p \in Owners
    PROVE  /\ Counted(p)
           /\ refs[p] \in Nat
           /\ Cardinality(InUseOf(p)) \in Nat
           /\ Cardinality(Unrefing(p)) \in Nat
           /\ Cardinality(Deleting(p)) \in Nat
BY InNumbers, ThreadCounts, FS_CardinalityType DEF IInv, TypeOK

-----------------------------------------------------------------------------
(* The counts stay exact *)

\* A thread that neither takes, drops nor releases a reference.
LEMMA QuietExact ==
    ASSUME IInv, NEW t \in Threads, NEW place, NEW o, NEW ref, Go(t, place, o, ref),
           pc[t] \notin {"unref", "delete"}, place \notin {"unref", "delete"},
           UNCHANGED <<live, pool, inUse, refs>>
    PROVE  RefsAreExact'
<1> SUFFICES ASSUME NEW p \in Owners PROVE Counted(p)'
  BY NumbersNext
<1>1. t \notin Unrefing(p) /\ t \notin Deleting(p)
  BY DEF Unrefing, Deleting
<1>2. TypeOK
  BY DEF IInv
<1>3. /\ Cardinality(Unrefing(p))' = Cardinality(Unrefing(p))
      /\ Cardinality(Deleting(p))' = Cardinality(Deleting(p))
  BY <1>1, <1>2, MoveCounts, Numbers DEF Bit
<1>4. InUseOf(p)' = InUseOf(p)
  BY DEF InUseOf
<1> QED
  BY <1>3, <1>4, Numbers DEF Counted

\* A slot and its reference are taken.
LEMMA AcquireExact ==
    ASSUME IInv, NEW t \in Threads, NEW o \in Owners, Acquire(t, o)
    PROVE  RefsAreExact'
<1> SUFFICES ASSUME NEW p \in Owners PROVE Counted(p)'
  BY NumbersNext
<1>1. PICK i \in 1..Config[o].maxSamples :
        /\ <<o, i>> \notin inUse
        /\ inUse' = inUse \cup {<<o, i>>}
        /\ Go(t, "fill", o, <<o, i>>)
  BY DEF Acquire, FirstFree
<1>2. PoolOf(<<o, i>>) = o
  BY DEF PoolOf
<1>3. pc[t] = "idle" /\ TypeOK
  BY DEF Acquire, Idle, IInv
<1>4. t \notin Unrefing(p) /\ t \notin Deleting(p)
  BY <1>3 DEF Unrefing, Deleting
<1>5. /\ Cardinality(Unrefing(p))' = Cardinality(Unrefing(p))
      /\ Cardinality(Deleting(p))' = Cardinality(Deleting(p))
  BY <1>1, <1>3, <1>4, MoveCounts, Numbers DEF Bit
<1>6. Cardinality(InUseOf(p))' = Cardinality(InUseOf(p)) + Bit(p = o)
  BY <1>1, <1>2, TakeSlot DEF IInv
<1>7. refs'[p] = refs[p] + Bit(p = o) /\ o \in live /\ live' = live /\ pool' = pool
  BY <1>3, Numbers DEF Acquire, Bit, TypeOK
<1> QED
  BY <1>5, <1>6, <1>7, Numbers DEF Counted, Bit

\* A slot is released; its reference is next.
LEMMA ReleaseExact ==
    ASSUME IInv, NEW t \in Threads, NEW o,
           pc[t] \in Holding, inUse' = inUse \ {at[t]}, Go(t, "unref", o, at[t]),
           UNCHANGED <<live, pool, refs>>
    PROVE  RefsAreExact'
<1> SUFFICES ASSUME NEW p \in Owners PROVE Counted(p)'
  BY NumbersNext
<1>1. at[t] \in inUse /\ TypeOK
  BY DEF IInv, ThreadsFit
<1>2. t \notin Unrefing(p) /\ t \notin Deleting(p)
  BY DEF Unrefing, Deleting, Holding
<1>3. /\ Cardinality(Unrefing(p))' = Cardinality(Unrefing(p)) + Bit(PoolOf(at[t]) = p)
      /\ Cardinality(Deleting(p))' = Cardinality(Deleting(p))
  BY <1>1, <1>2, MoveCounts, Numbers DEF Bit
<1>4. Cardinality(InUseOf(p))' = Cardinality(InUseOf(p)) - Bit(PoolOf(at[t]) = p)
  BY <1>1, GiveSlot DEF IInv
<1> QED
  BY <1>3, <1>4, Numbers DEF Counted, Bit

\* The owner a thread makes has no pool yet, and none of its references are there.
LEMMA Made ==
    ASSUME IInv, NEW t \in Threads, pc[t] = "create"
    PROVE  /\ PoolOf(at[t]) \in Owners /\ at[t] = OwnRef(PoolOf(at[t]))
           /\ pool[PoolOf(at[t])] = "none"
           /\ refs[PoolOf(at[t])] = 0
<1>1. PICK o \in Owners : at[t] = OwnRef(o) /\ pool[o] = "none"
  BY DEF IInv, ThreadsFit
<1>2. PoolOf(at[t]) = o
  BY <1>1 DEF PoolOf, OwnRef
<1> QED
  BY <1>1, <1>2, Numbers DEF Counted

\* An owner is made with its reference to the new pool.
LEMMA CreatedExact ==
    ASSUME IInv, NEW t \in Threads, Created(t)
    PROVE  RefsAreExact'
<1> SUFFICES ASSUME NEW p \in Owners PROVE Counted(p)'
  BY NumbersNext
<1> DEFINE o == PoolOf(at[t])
<1>1. pc[t] = "create" /\ TypeOK /\ Go(t, "idle", NoOwner, NoRef)
  BY DEF Created, Return, IInv
<1>2. o \in Owners /\ pool[o] = "none" /\ refs[o] = 0
  BY <1>1, Made
<1>3. t \notin Unrefing(p) /\ t \notin Deleting(p)
  BY <1>1 DEF Unrefing, Deleting
<1>4. /\ Cardinality(Unrefing(p))' = Cardinality(Unrefing(p))
      /\ Cardinality(Deleting(p))' = Cardinality(Deleting(p))
  BY <1>1, <1>3, MoveCounts, Numbers DEF Bit
<1>5. /\ refs'[p] = IF p = o THEN 1 ELSE refs[p]
      /\ pool'[p] = IF p = o THEN "made" ELSE pool[p]
      /\ p \in live' <=> p \in live \/ p = o
      /\ InUseOf(p)' = InUseOf(p)
  BY <1>1, <1>2 DEF Created, TypeOK, InUseOf
<1>6. CASE p # o
  BY <1>4, <1>5, <1>6, Numbers DEF Counted, Bit
<1>7. CASE p = o
  BY <1>2, <1>4, <1>5, <1>7, Numbers DEF Counted, Bit
<1> QED
  BY <1>6, <1>7

\* An owner that could not be made still has its reference to the new pool.
LEMMA UndoneExact ==
    ASSUME IInv, NEW t \in Threads, CreateUndone(t)
    PROVE  RefsAreExact'
<1> SUFFICES ASSUME NEW p \in Owners PROVE Counted(p)'
  BY NumbersNext
<1> DEFINE o == PoolOf(at[t])
<1>1. pc[t] = "create" /\ TypeOK /\ Go(t, "unref", NoOwner, at[t])
  BY DEF CreateUndone, IInv
<1>2. o \in Owners /\ pool[o] = "none" /\ refs[o] = 0
  BY <1>1, Made
<1>3. t \notin Unrefing(p) /\ t \notin Deleting(p)
  BY <1>1 DEF Unrefing, Deleting
<1>4. /\ Cardinality(Unrefing(p))' = Cardinality(Unrefing(p)) + Bit(o = p)
      /\ Cardinality(Deleting(p))' = Cardinality(Deleting(p))
  BY <1>1, <1>3, MoveCounts, Numbers DEF Bit
<1>5. /\ refs'[p] = IF p = o THEN 1 ELSE refs[p]
      /\ pool'[p] = IF p = o THEN "made" ELSE pool[p]
      /\ live' = live
      /\ InUseOf(p)' = InUseOf(p)
  BY <1>1, <1>2 DEF CreateUndone, TypeOK, InUseOf
<1>6. CASE p = o
  <2>1. /\ Bit(p \in live) = 0 /\ Cardinality(InUseOf(p)) = 0
        /\ Cardinality(Unrefing(p)) = 0 /\ Cardinality(Deleting(p)) = 0
    <3>1. Counted(p) /\ pool[p] = "none" /\ refs[p] = 0
      BY <1>2, <1>6, Numbers
    <3>2. Bit(p \in live) \in Nat
      BY DEF Bit
    <3>3. Bit(p \in live) + Cardinality(InUseOf(p)) + Cardinality(Unrefing(p)) = 0
          /\ Cardinality(Deleting(p)) = 0
      BY <3>1 DEF Counted, Bit
    <3> QED
      BY <3>2, <3>3, Numbers
  <2> QED
    BY <1>4, <1>5, <1>6, <2>1 DEF Counted, Bit
<1>7. CASE p # o
  BY <1>4, <1>5, <1>7, Numbers DEF Counted, Bit
<1> QED
  BY <1>6, <1>7

\* An owner is gone; its reference is next.
LEMMA DestroyExact ==
    ASSUME IInv, NEW t \in Threads, NEW o \in Owners, DestroyOwner(t, o)
    PROVE  RefsAreExact'
<1> SUFFICES ASSUME NEW p \in Owners PROVE Counted(p)'
  BY NumbersNext
<1>1. pc[t] = "idle" /\ TypeOK /\ Go(t, "unref", NoOwner, OwnRef(o))
  BY DEF DestroyOwner, Idle, IInv
<1>2. PoolOf(OwnRef(o)) = o
  BY DEF PoolOf, OwnRef
<1>3. t \notin Unrefing(p) /\ t \notin Deleting(p)
  BY <1>1 DEF Unrefing, Deleting
<1>4. /\ Cardinality(Unrefing(p))' = Cardinality(Unrefing(p)) + Bit(o = p)
      /\ Cardinality(Deleting(p))' = Cardinality(Deleting(p))
  BY <1>1, <1>2, <1>3, MoveCounts, Numbers DEF Bit
<1>5. /\ UNCHANGED <<refs, pool>>
      /\ o \in live /\ (p \in live' <=> p \in live /\ p # o)
      /\ InUseOf(p)' = InUseOf(p)
  BY DEF DestroyOwner, slots, InUseOf
<1> QED
  BY <1>4, <1>5, Numbers DEF Counted, Bit

\* A reference is dropped; whoever dropped the last deletes the pool.
LEMMA UnrefExact ==
    ASSUME IInv, NEW t \in Threads, Unref(t)
    PROVE  RefsAreExact'
<1> SUFFICES ASSUME NEW p \in Owners PROVE Counted(p)'
  BY NumbersNext
<1> DEFINE o == PoolOf(at[t])
           last == refs[o] = 1
<1>1. pc[t] = "unref" /\ TypeOK /\ o \in Owners
  BY DEF Unref, IInv, ThreadsFit
<1>2. (t \in Unrefing(p) <=> p = o) /\ t \notin Deleting(p)
  BY <1>1 DEF Unrefing, Deleting
<1>3. /\ Cardinality(Unrefing(p))' = Cardinality(Unrefing(p)) - Bit(p = o)
      /\ Cardinality(Deleting(p))' = Cardinality(Deleting(p)) + Bit(last /\ p = o)
  <2>1. CASE last
    <3>1. Go(t, "delete", NoOwner, at[t])
      BY <2>1 DEF Unref
    <3> QED
      BY <1>1, <1>2, <2>1, <3>1, MoveCounts, Numbers DEF Bit
  <2>2. CASE ~last
    <3>1. Go(t, "idle", NoOwner, NoRef)
      BY <2>2 DEF Unref, Return
    <3> QED
      BY <1>1, <1>2, <2>2, <3>1, MoveCounts, Numbers DEF Bit
  <2> QED
    BY <2>1, <2>2
<1>4. /\ refs'[p] = refs[p] - Bit(p = o)
      /\ UNCHANGED <<live, pool>>
      /\ InUseOf(p)' = InUseOf(p)
  BY <1>1, Numbers DEF Unref, TypeOK, InUseOf, Bit
<1>5. p = o => Cardinality(Unrefing(p)) > 0
  <2>1. p = o => Unrefing(p) # {}
    BY <1>2
  <2> QED
    BY <2>1, ThreadCounts, FS_EmptySet
<1> QED
  BY <1>3, <1>4, <1>5, Numbers DEF Counted, Bit

\* The pool is deleted, by the one thread that was to.
LEMMA DeleteExact ==
    ASSUME IInv, NEW t \in Threads, Delete(t)
    PROVE  RefsAreExact'
<1> SUFFICES ASSUME NEW p \in Owners PROVE Counted(p)'
  BY NumbersNext
<1> DEFINE o == PoolOf(at[t])
<1>1. /\ pc[t] = "delete" /\ TypeOK /\ o \in Owners
      /\ Go(t, "idle", NoOwner, NoRef)
  BY DEF Delete, Return, IInv, ThreadsFit
<1>2. t \notin Unrefing(p) /\ (t \in Deleting(p) <=> p = o)
  BY <1>1 DEF Unrefing, Deleting
<1>3. /\ Cardinality(Unrefing(p))' = Cardinality(Unrefing(p))
      /\ Cardinality(Deleting(p))' = Cardinality(Deleting(p)) - Bit(p = o)
  BY <1>1, <1>2, MoveCounts, Numbers DEF Bit
<1>4. /\ pool'[p] = IF p = o THEN "deleted" ELSE pool[p]
      /\ UNCHANGED <<live, refs>>
      /\ InUseOf(p)' = InUseOf(p)
  BY <1>1 DEF Delete, TypeOK, slots, InUseOf
<1>5. p = o => Cardinality(Deleting(p)) > 0
  <2>1. p = o => Deleting(p) # {}
    BY <1>2
  <2> QED
    BY <2>1, ThreadCounts, FS_EmptySet
<1> QED
  BY <1>3, <1>4, <1>5, Numbers DEF Counted, Bit

-----------------------------------------------------------------------------
(* The rest of the invariant *)

\* The types of what Go assigns.
LEMMA MoveTypes ==
    ASSUME TypeOK, NEW t \in Threads, NEW place \in Places,
           NEW o \in Owners \cup {NoOwner}, NEW ref \in Ref, Go(t, place, o, ref)
    PROVE  /\ pc' \in [Threads -> Places]
           /\ on' \in [Threads -> Owners \cup {NoOwner}]
           /\ at' \in [Threads -> Ref]
BY DEF TypeOK, Go, Places

\* References that a thread may refer to.
LEMMA SomeRefs ==
    /\ NoRef \in Ref
    /\ \A o \in Owners : OwnRef(o) \in Ref /\ PoolOf(OwnRef(o)) = o
    /\ Slot \subseteq Ref
BY DEF Ref, OwnRef, PoolOf

\* Thread t moves, and what it and the others refer to is as it should be.
LEMMA MoveFits ==
    ASSUME IInv, NEW t \in Threads, NEW place, NEW o, NEW ref, Go(t, place, o, ref),
           place \in Holding => ref \in inUse' \ handles',
           place \in {"unref", "delete"} => PoolOf(ref) \in Owners,
           place # "create",
           \A u \in Threads \ {t} :
              /\ pc[u] \in Holding => at[u] \in inUse' \ handles'
              /\ pc[u] = "create" => pool'[PoolOf(at[u])] = "none",
           runtime' = runtime
    PROVE  ThreadsFit'
<1>1. \A u \in Threads : /\ pc'[u] = IF u = t THEN place ELSE pc[u]
                         /\ at'[u] = IF u = t THEN ref ELSE at[u]
  BY DEF Go, IInv, TypeOK
<1> SUFFICES ASSUME NEW u \in Threads
             PROVE  /\ pc'[u] \in Holding => at'[u] \in inUse' \ handles'
                    /\ pc'[u] \in {"unref", "delete"} => PoolOf(at'[u]) \in Owners
                    /\ pc'[u] = "create" =>
                          \E p \in Owners :
                             /\ at'[u] = OwnRef(p) /\ pool'[p] = "none"
                             /\ Validates(Config[p])
                             /\ Config[p].path # NoPath => runtime' # NoPath
  BY DEF ThreadsFit
<1>2. CASE u = t
  BY <1>1, <1>2
<1>3. CASE u # t
  <2>1. /\ pc'[u] \in Holding => at'[u] \in inUse' \ handles'
        /\ pc'[u] \in {"unref", "delete"} => PoolOf(at'[u]) \in Owners
    BY <1>1, <1>3 DEF IInv, ThreadsFit
  <2>2. ASSUME pc'[u] = "create"
        PROVE  \E p \in Owners : /\ at'[u] = OwnRef(p) /\ pool'[p] = "none"
                                 /\ Validates(Config[p])
                                 /\ Config[p].path # NoPath => runtime' # NoPath
    <3>1. PICK p \in Owners : /\ at[u] = OwnRef(p) /\ Validates(Config[p])
                              /\ Config[p].path # NoPath => runtime # NoPath
      BY <1>1, <1>3, <2>2 DEF IInv, ThreadsFit
    <3>2. pool'[p] = "none"
      BY <1>1, <1>3, <2>2, <3>1, SomeRefs
    <3> QED
      BY <1>1, <1>3, <3>1, <3>2
  <2> QED
    BY <2>1, <2>2
<1> QED
  BY <1>2, <1>3

\* Thread t moves, and holds nothing that another thread holds.
LEMMA MoveDiffers ==
    ASSUME IInv, NEW t \in Threads, NEW place, NEW o, NEW ref, Go(t, place, o, ref),
           \A u \in Threads \ {t} :
              /\ place \in Holding /\ pc[u] \in Holding => at[u] # ref
              /\ place = "create" /\ pc[u] = "create" => at[u] # ref
    PROVE  HoldersDiffer' /\ MakersDiffer'
<1>1. \A u \in Threads : /\ pc'[u] = IF u = t THEN place ELSE pc[u]
                         /\ at'[u] = IF u = t THEN ref ELSE at[u]
  BY DEF Go, IInv, TypeOK
<1>2. HoldersDiffer'
  BY <1>1 DEF IInv, HoldersDiffer
<1>3. MakersDiffer'
  BY <1>1 DEF IInv, MakersDiffer
<1> QED
  BY <1>2, <1>3

\* What the others hold and make is not what thread t does.
LEMMA Others ==
    ASSUME IInv, NEW t \in Threads, NEW u \in Threads \ {t}
    PROVE  /\ pc[u] \in Holding => at[u] \in inUse \ handles
           /\ pc[u] \in Holding /\ pc[t] \in Holding => at[u] # at[t]
           /\ pc[u] = "create" => pool[PoolOf(at[u])] = "none"
           /\ pc[u] = "create" /\ pc[t] = "create" => PoolOf(at[u]) # PoolOf(at[t])
<1>1. pc[u] \in Holding => at[u] \in inUse \ handles
  BY DEF IInv, ThreadsFit
<1>2. pc[u] \in Holding /\ pc[t] \in Holding => at[u] # at[t]
  BY DEF IInv, HoldersDiffer
<1>3. pc[u] = "create" => pool[PoolOf(at[u])] = "none"
  BY Made
<1>4. ASSUME pc[u] = "create", pc[t] = "create" PROVE PoolOf(at[u]) # PoolOf(at[t])
  <2>1. at[u] # at[t]
    BY <1>4 DEF IInv, MakersDiffer
  <2> QED
    BY <1>4, <2>1, Made
<1> QED
  BY <1>1, <1>2, <1>3, <1>4

\* Steps that leave the slots alone.
LEMMA FiniteStays ==
    ASSUME IInv, inUse' = inUse
    PROVE  \A o \in Owners : IsFiniteSet(InUseOf(o))'
<1>1. \A o \in Owners : InUseOf(o)' = InUseOf(o)
  BY DEF InUseOf
<1> QED
  BY <1>1 DEF IInv

\* An owner's making begins: the runtime is one that has a file if the owner names one.
LEMMA InitializeRuntimeKeeps ==
    ASSUME IInv, NEW t \in Threads, NEW o \in Owners, InitializeRuntime(t, o)
    PROVE  IInv'
<1>1. /\ pc[t] = "idle" /\ pool[o] = "none" /\ Validates(Config[o])
      /\ Go(t, "create", NoOwner, OwnRef(o))
      /\ UNCHANGED <<live, pool, inUse, data, refs, handles>>
  BY DEF InitializeRuntime, CanCreate, Idle, slots
<1>2. /\ Config[o].path # NoPath => runtime' # NoPath
      /\ runtime # NoPath => runtime' # NoPath
      /\ runtime' \in Paths \cup {NoPath}
  BY ConstantsAssumption DEF InitializeRuntime, IInv, TypeOK, Configuration
<1>3. TypeOK'
  <2>1. /\ pc' \in [Threads -> Places]
        /\ on' \in [Threads -> Owners \cup {NoOwner}]
        /\ at' \in [Threads -> Ref]
    BY <1>1, MoveTypes, SomeRefs DEF IInv, Places
  <2> QED
    BY <1>1, <1>2, <2>1 DEF IInv, TypeOK, Places
<1>4. \A u \in Threads : /\ pc'[u] = IF u = t THEN "create" ELSE pc[u]
                         /\ at'[u] = IF u = t THEN OwnRef(o) ELSE at[u]
  BY <1>1 DEF Go, IInv, TypeOK
<1>5. ThreadsFit'
  BY <1>1, <1>2, <1>4 DEF IInv, ThreadsFit, Holding
<1>6. HoldersDiffer' /\ MakersDiffer'
  <2>1. ASSUME NEW u \in Threads, pc[u] = "create" PROVE at[u] # OwnRef(o)
    <3>1. PoolOf(at[u]) \in Creating
      BY <2>1 DEF Creating
    <3> QED
      BY <3>1, SomeRefs DEF InitializeRuntime, CanCreate
  <2> QED
    BY <1>1, <2>1, MoveDiffers DEF Holding
<1>7. RefsAreExact'
  BY <1>1, QuietExact
<1>8. MadeOnce' /\ handles' \subseteq inUse' \cap data'
  BY <1>1, <1>2 DEF IInv, MadeOnce
<1> QED
  BY <1>1, <1>3, <1>5, <1>6, <1>7, <1>8, FiniteStays DEF IInv

\* A transport is not made, and has no pool.
LEMMA CreateFailsKeeps ==
    ASSUME IInv, NEW t \in Threads, CreateFails(t)
    PROVE  IInv'
<1>1. /\ pc[t] = "create" /\ Go(t, "idle", NoOwner, NoRef)
      /\ UNCHANGED <<runtime, live, pool, inUse, data, refs, handles>>
  BY DEF CreateFails, Return, slots
<1>2. TypeOK'
  BY <1>1, MoveTypes, SomeRefs DEF IInv, TypeOK, Places
<1>3. ThreadsFit'
  BY <1>1, Others, MoveFits DEF Holding
<1>4. HoldersDiffer' /\ MakersDiffer'
  BY <1>1, MoveDiffers DEF Holding
<1>5. RefsAreExact'
  BY <1>1, QuietExact
<1>6. MadeOnce' /\ handles' \subseteq inUse' \cap data'
  BY <1>1 DEF IInv, MadeOnce
<1> QED
  BY <1>1, <1>2, <1>3, <1>4, <1>5, <1>6, FiniteStays DEF IInv

\* The pool of the owner that thread t makes is made.
LEMMA MakesPool ==
    ASSUME IInv, NEW t \in Threads, pc[t] = "create",
           pool' = [pool EXCEPT ![PoolOf(at[t])] = "made"], runtime' = runtime
    PROVE  /\ MadeOnce'
           /\ \A u \in Threads \ {t} :
                 pc[u] = "create" => pool'[PoolOf(at[u])] = "none"
<1>1. PICK o \in Owners : /\ at[t] = OwnRef(o) /\ Validates(Config[o])
                          /\ Config[o].path # NoPath => runtime # NoPath
  BY DEF IInv, ThreadsFit
<1>2. PoolOf(at[t]) = o
  BY <1>1, SomeRefs
<1>3. MadeOnce'
  BY <1>1, <1>2 DEF IInv, TypeOK, MadeOnce
<1>4. ASSUME NEW u \in Threads \ {t}, pc[u] = "create"
      PROVE  pool'[PoolOf(at[u])] = "none"
  BY <1>4, Others, Made DEF IInv, TypeOK
<1> QED
  BY <1>3, <1>4

\* An owner is made.
LEMMA CreatedKeeps ==
    ASSUME IInv, NEW t \in Threads, Created(t)
    PROVE  IInv'
<1>1. /\ pc[t] = "create" /\ Go(t, "idle", NoOwner, NoRef)
      /\ PoolOf(at[t]) \in Owners
      /\ live' = live \cup {PoolOf(at[t])}
      /\ pool' = [pool EXCEPT ![PoolOf(at[t])] = "made"]
      /\ refs' = [refs EXCEPT ![PoolOf(at[t])] = 1]
      /\ UNCHANGED <<runtime, inUse, data, handles>>
  BY Made DEF Created, Return
<1>2. TypeOK'
  BY <1>1, MoveTypes, SomeRefs DEF IInv, TypeOK, Places
<1>3. MadeOnce' /\ \A u \in Threads \ {t} :
                      pc[u] = "create" => pool'[PoolOf(at[u])] = "none"
  BY <1>1, MakesPool
<1>4. ThreadsFit'
  BY <1>1, <1>3, Others, MoveFits DEF Holding
<1>5. HoldersDiffer' /\ MakersDiffer'
  BY <1>1, MoveDiffers DEF Holding
<1>6. RefsAreExact'
  BY CreatedExact
<1>7. handles' \subseteq inUse' \cap data'
  BY <1>1 DEF IInv
<1> QED
  BY <1>1, <1>2, <1>3, <1>4, <1>5, <1>6, <1>7, FiniteStays DEF IInv

\* An owner is not made, and its pool is to be deleted.
LEMMA CreateUndoneKeeps ==
    ASSUME IInv, NEW t \in Threads, CreateUndone(t)
    PROVE  IInv'
<1>1. /\ pc[t] = "create" /\ Go(t, "unref", NoOwner, at[t])
      /\ PoolOf(at[t]) \in Owners
      /\ pool' = [pool EXCEPT ![PoolOf(at[t])] = "made"]
      /\ refs' = [refs EXCEPT ![PoolOf(at[t])] = 1]
      /\ UNCHANGED <<runtime, live, inUse, data, handles>>
  BY Made DEF CreateUndone
<1>2. TypeOK'
  <2>1. at[t] \in Ref
    BY DEF IInv, TypeOK
  <2> QED
    BY <1>1, <2>1, MoveTypes DEF IInv, TypeOK, Places
<1>3. MadeOnce' /\ \A u \in Threads \ {t} :
                      pc[u] = "create" => pool'[PoolOf(at[u])] = "none"
  BY <1>1, MakesPool
<1>4. ThreadsFit'
  BY <1>1, <1>3, Others, MoveFits DEF Holding
<1>5. HoldersDiffer' /\ MakersDiffer'
  BY <1>1, MoveDiffers DEF Holding
<1>6. RefsAreExact'
  BY UndoneExact
<1>7. handles' \subseteq inUse' \cap data'
  BY <1>1 DEF IInv
<1> QED
  BY <1>1, <1>2, <1>3, <1>4, <1>5, <1>6, <1>7, FiniteStays DEF IInv

\* A slot that was free has one owner, the call.
LEMMA AcquireKeeps ==
    ASSUME IInv, NEW t \in Threads, NEW o \in Owners, Acquire(t, o)
    PROVE  IInv'
<1>1. PICK i \in 1..Config[o].maxSamples :
        /\ <<o, i>> \notin inUse
        /\ inUse' = inUse \cup {<<o, i>>}
        /\ Go(t, "fill", o, <<o, i>>)
  BY DEF Acquire, FirstFree
<1>2. /\ pc[t] = "idle" /\ refs' = [refs EXCEPT ![o] = @ + 1]
      /\ UNCHANGED <<runtime, live, pool, data, handles>>
  BY DEF Acquire, Idle
<1>3. <<o, i>> \in Slot
  BY SlotOf
<1>4. TypeOK'
  <2>1. refs' \in [Owners -> Nat]
    BY <1>2 DEF IInv, TypeOK
  <2> QED
    BY <1>1, <1>2, <1>3, <2>1, MoveTypes, SomeRefs DEF IInv, TypeOK, Places
<1>5. handles' \subseteq inUse' \cap data' /\ <<o, i>> \notin handles
  BY <1>1, <1>2 DEF IInv
<1>6. ThreadsFit'
  BY <1>1, <1>2, <1>5, Others, MoveFits DEF Holding
<1>7. HoldersDiffer' /\ MakersDiffer'
  BY <1>1, Others, MoveDiffers DEF Holding
<1>8. RefsAreExact'
  BY AcquireExact
<1>9. MadeOnce' /\ \A p \in Owners : IsFiniteSet(InUseOf(p))'
  BY <1>1, <1>2, TakeSlot DEF IInv, MadeOnce
<1> QED
  BY <1>4, <1>5, <1>6, <1>7, <1>8, <1>9 DEF IInv

\* The slot of a call becomes a handle's.
LEMMA FillKeeps ==
    ASSUME IInv, NEW t \in Threads, Fill(t)
    PROVE  IInv'
<1>1. /\ pc[t] = "fill" /\ Go(t, "idle", NoOwner, NoRef)
      /\ data' = data \cup {at[t]} /\ handles' = handles \cup {at[t]}
      /\ UNCHANGED <<runtime, live, pool, inUse, refs>>
  BY DEF Fill, Return
<1>2. at[t] \in inUse
  BY <1>1 DEF IInv, ThreadsFit, Holding
<1>3. TypeOK'
  BY <1>1, <1>2, MoveTypes, SomeRefs DEF IInv, TypeOK, Places
<1>4. ThreadsFit'
  BY <1>1, Others, MoveFits DEF Holding
<1>5. HoldersDiffer' /\ MakersDiffer'
  BY <1>1, MoveDiffers DEF Holding
<1>6. RefsAreExact'
  BY <1>1, QuietExact
<1>7. MadeOnce' /\ handles' \subseteq inUse' \cap data'
  BY <1>1, <1>2 DEF IInv, MadeOnce
<1> QED
  BY <1>1, <1>3, <1>4, <1>5, <1>6, <1>7, FiniteStays DEF IInv

\* FillFails, Send and Release: a slot is given back.
LEMMA GiveBackKeeps ==
    ASSUME IInv, NEW t \in Threads, FillFails(t) \/ Send(t) \/ Release(t)
    PROVE  IInv'
<1>1. PICK o \in Owners \cup {NoOwner} : Go(t, "unref", o, at[t])
  BY DEF FillFails, Send, Release, IInv, TypeOK
<1>2. /\ pc[t] \in Holding
      /\ inUse' = inUse \ {at[t]} /\ data' \in {data, data \ {at[t]}}
      /\ UNCHANGED <<runtime, live, pool, refs, handles>>
  BY DEF FillFails, Send, Release, Holding
<1>3. at[t] \in inUse /\ at[t] \notin handles /\ at[t] \in Slot
  BY <1>2 DEF IInv, ThreadsFit, TypeOK
<1>4. PoolOf(at[t]) \in Owners /\ at[t] \in Ref
  BY <1>3, SlotPool, SomeRefs
<1>5. TypeOK'
  <2>1. /\ pc' \in [Threads -> Places]
        /\ on' \in [Threads -> Owners \cup {NoOwner}]
        /\ at' \in [Threads -> Ref]
    BY <1>1, <1>4, MoveTypes DEF IInv, Places
  <2> QED
    BY <1>2, <2>1 DEF IInv, TypeOK, Places
<1>6. handles' \subseteq inUse' \cap data'
  BY <1>2, <1>3 DEF IInv
<1>7. ThreadsFit'
  BY <1>1, <1>2, <1>4, Others, MoveFits DEF Holding
<1>8. HoldersDiffer' /\ MakersDiffer'
  BY <1>1, MoveDiffers DEF Holding
<1>9. RefsAreExact'
  BY <1>1, <1>2, ReleaseExact
<1>10. MadeOnce' /\ \A p \in Owners : IsFiniteSet(InUseOf(p))'
  BY <1>2, <1>3, GiveSlot DEF IInv, MadeOnce
<1> QED
  BY <1>5, <1>6, <1>7, <1>8, <1>9, <1>10 DEF IInv

\* SendOwn and DropHandle: a handle is taken.
LEMMA ConsumeKeeps ==
    ASSUME IInv, NEW t \in Threads, NEW s \in handles, SendOwn(t, s) \/ DropHandle(t, s)
    PROVE  IInv'
<1>1. s \in Slot /\ s \in inUse /\ PoolOf(s) \in Owners
  BY SlotPool DEF IInv, TypeOK
<1>2. PICK place \in {"send", "release"}, o \in Owners \cup {NoOwner} :
        Go(t, place, o, s)
  BY <1>1 DEF SendOwn, DropHandle
<1>3. /\ pc[t] = "idle" /\ handles' = handles \ {s}
      /\ UNCHANGED <<runtime, live, pool, inUse, data, refs>>
  BY DEF SendOwn, DropHandle, Idle
<1>4. TypeOK'
  <2>1. /\ pc' \in [Threads -> Places]
        /\ on' \in [Threads -> Owners \cup {NoOwner}]
        /\ at' \in [Threads -> Ref]
    BY <1>1, <1>2, MoveTypes, SomeRefs DEF IInv, Places
  <2> QED
    BY <1>3, <2>1 DEF IInv, TypeOK, Places
<1>5. ThreadsFit'
  BY <1>1, <1>2, <1>3, Others, MoveFits DEF Holding
<1>6. HoldersDiffer' /\ MakersDiffer'
  BY <1>2, Others, MoveDiffers DEF Holding
<1>7. RefsAreExact'
  BY <1>2, <1>3, QuietExact
<1>8. MadeOnce' /\ handles' \subseteq inUse' \cap data'
  BY <1>3 DEF IInv, MadeOnce
<1> QED
  BY <1>3, <1>4, <1>5, <1>6, <1>7, <1>8, FiniteStays DEF IInv

\* Steps that change nothing but handles.
LEMMA StillExact ==
    ASSUME IInv, UNCHANGED <<live, pool, inUse, refs, pc, at>>
    PROVE  RefsAreExact'
BY DEF IInv, RefsAreExact, InUseOf, Unrefing, Deleting

\* A loan refused by a foreign transport loses its handle and nothing else.
LEMMA SendForeignKeeps ==
    ASSUME IInv, NEW t \in Threads, NEW s, NEW o, SendForeign(t, s, o)
    PROVE  IInv'
<1>1. /\ handles' = handles \ {s}
      /\ UNCHANGED <<runtime, live, pool, inUse, data, refs, pc, on, at>>
  BY DEF SendForeign
<1>2. TypeOK' /\ handles' \subseteq inUse' \cap data'
  BY <1>1 DEF IInv, TypeOK
<1>3. ThreadsFit' /\ HoldersDiffer' /\ MakersDiffer' /\ MadeOnce'
  BY <1>1 DEF IInv, ThreadsFit, HoldersDiffer, MakersDiffer, MadeOnce
<1> QED
  BY <1>1, <1>2, <1>3, StillExact, FiniteStays DEF IInv

\* Calls that are refused change nothing.
LEMMA StutterKeeps ==
    ASSUME IInv, UNCHANGED vars
    PROVE  IInv'
<1>1. UNCHANGED <<runtime, live, pool, inUse, data, refs, handles, pc, on, at>>
  BY DEF vars, slots
<1>2. TypeOK' /\ handles' \subseteq inUse' \cap data'
  BY <1>1 DEF IInv, TypeOK
<1>3. ThreadsFit' /\ HoldersDiffer' /\ MakersDiffer' /\ MadeOnce'
  BY <1>1 DEF IInv, ThreadsFit, HoldersDiffer, MakersDiffer, MadeOnce
<1> QED
  BY <1>1, <1>2, <1>3, StillExact, FiniteStays DEF IInv

\* An owner is dropped.
LEMMA DestroyKeeps ==
    ASSUME IInv, NEW t \in Threads, NEW o \in Owners, DestroyOwner(t, o)
    PROVE  IInv'
<1>1. /\ live' = live \ {o} /\ Go(t, "unref", NoOwner, OwnRef(o))
      /\ UNCHANGED <<runtime, pool, inUse, data, refs, handles>>
  BY DEF DestroyOwner, slots
<1>2. OwnRef(o) \in Ref /\ PoolOf(OwnRef(o)) = o
  BY SomeRefs
<1>3. TypeOK'
  BY <1>1, <1>2, MoveTypes DEF IInv, TypeOK, Places
<1>4. ThreadsFit'
  BY <1>1, <1>2, Others, MoveFits DEF Holding
<1>5. HoldersDiffer' /\ MakersDiffer'
  BY <1>1, MoveDiffers DEF Holding
<1>6. RefsAreExact'
  BY DestroyExact
<1>7. MadeOnce' /\ handles' \subseteq inUse' \cap data'
  BY <1>1 DEF IInv, MadeOnce
<1> QED
  BY <1>1, <1>3, <1>4, <1>5, <1>6, <1>7, FiniteStays DEF IInv

\* A reference is dropped; there is one to drop.
LEMMA UnrefKeeps ==
    ASSUME IInv, NEW t \in Threads, Unref(t)
    PROVE  IInv'
<1> DEFINE o == PoolOf(at[t])
<1>1. /\ pc[t] = "unref" /\ refs' = [refs EXCEPT ![o] = @ - 1]
      /\ UNCHANGED <<runtime, live, pool, inUse, data, handles>>
  BY DEF Unref
<1>2. o \in Owners /\ at[t] \in Ref
  BY <1>1 DEF IInv, ThreadsFit, TypeOK
<1>3. PICK place \in {"delete", "idle"}, ref \in {at[t], NoRef} :
        /\ Go(t, place, NoOwner, ref)
        /\ place = "delete" => ref = at[t]
  BY DEF Unref, Return
<1>4. refs[o] > 0
  <2>1. Cardinality(Unrefing(o)) # 0
    <3>1. t \in Unrefing(o)
      BY <1>1 DEF Unrefing
    <3> QED
      BY <3>1, ThreadCounts, FS_EmptySet
  <2> QED
    BY <1>2, <2>1, Numbers DEF Counted, Bit
<1>5. TypeOK'
  <2>1. refs' \in [Owners -> Nat]
    BY <1>1, <1>2, <1>4 DEF IInv, TypeOK
  <2>2. /\ pc' \in [Threads -> Places]
        /\ on' \in [Threads -> Owners \cup {NoOwner}]
        /\ at' \in [Threads -> Ref]
    <3>1. place \in Places /\ ref \in Ref
      BY <1>2, SomeRefs DEF Places
    <3> QED
      BY <1>3, <3>1, MoveTypes DEF IInv
  <2> QED
    BY <1>1, <2>1, <2>2 DEF IInv, TypeOK, Places
<1>6. ThreadsFit'
  BY <1>1, <1>2, <1>3, Others, MoveFits DEF Holding
<1>7. HoldersDiffer' /\ MakersDiffer'
  BY <1>3, MoveDiffers DEF Holding
<1>8. RefsAreExact'
  BY UnrefExact
<1>9. MadeOnce' /\ handles' \subseteq inUse' \cap data'
  BY <1>1 DEF IInv, MadeOnce
<1> QED
  BY <1>1, <1>5, <1>6, <1>7, <1>8, <1>9, FiniteStays DEF IInv

\* The pool that a thread deletes was made.
LEMMA DeletesMade ==
    ASSUME IInv, NEW t \in Threads, pc[t] = "delete"
    PROVE  PoolOf(at[t]) \in Owners /\ pool[PoolOf(at[t])] = "made"
<1>1. PoolOf(at[t]) \in Owners
  BY DEF IInv, ThreadsFit
<1>2. t \in Deleting(PoolOf(at[t]))
  BY DEF Deleting
<1>3. Cardinality(Deleting(PoolOf(at[t]))) # 0
  BY <1>2, ThreadCounts, FS_EmptySet
<1> QED
  BY <1>1, <1>3, Numbers DEF Counted, Bit

\* A pool is deleted; nobody makes its owner meanwhile.
LEMMA DeleteKeeps ==
    ASSUME IInv, NEW t \in Threads, Delete(t)
    PROVE  IInv'
<1> DEFINE o == PoolOf(at[t])
<1>1. /\ pc[t] = "delete" /\ Go(t, "idle", NoOwner, NoRef)
      /\ pool' = [pool EXCEPT ![o] = "deleted"]
      /\ UNCHANGED <<runtime, live, inUse, data, refs, handles>>
  BY DEF Delete, Return, slots
<1>2. o \in Owners /\ pool[o] = "made"
  BY <1>1, DeletesMade
<1>3. TypeOK'
  BY <1>1, MoveTypes, SomeRefs DEF IInv, TypeOK, Places
<1>4. \A u \in Threads \ {t} : pc[u] = "create" => pool'[PoolOf(at[u])] = "none"
  BY <1>1, <1>2, Others, Made DEF IInv, TypeOK
<1>5. ThreadsFit'
  BY <1>1, <1>4, Others, MoveFits DEF Holding
<1>6. HoldersDiffer' /\ MakersDiffer'
  BY <1>1, MoveDiffers DEF Holding
<1>7. RefsAreExact'
  BY DeleteExact
<1>8. MadeOnce' /\ handles' \subseteq inUse' \cap data'
  BY <1>1, <1>2 DEF IInv, MadeOnce, TypeOK
<1> QED
  BY <1>1, <1>3, <1>5, <1>6, <1>7, <1>8, FiniteStays DEF IInv

-----------------------------------------------------------------------------
(* The theorems *)

\* There is nothing yet.
LEMMA InitIInv ==
    ASSUME Init
    PROVE  IInv
<1>1. TypeOK
  BY SomeRefs, ConstantsAssumption DEF Init, TypeOK
<1>2. ThreadsFit /\ HoldersDiffer /\ MakersDiffer /\ MadeOnce
  BY DEF Init, ThreadsFit, HoldersDiffer, MakersDiffer, MadeOnce, Holding
<1>3. handles \subseteq inUse \cap data
  BY DEF Init
<1>4. \A o \in Owners : IsFiniteSet(InUseOf(o)) /\ Counted(o)
  <2> TAKE o \in Owners
  <2>1. InUseOf(o) = {} /\ Unrefing(o) = {} /\ Deleting(o) = {}
    BY DEF Init, InUseOf, Unrefing, Deleting
  <2>2. refs[o] = 0 /\ o \notin live /\ pool[o] = "none"
    BY DEF Init
  <2> QED
    BY <2>1, <2>2, FS_EmptySet DEF Counted, Bit
<1>5. RefsAreExact
  BY <1>4, InNumbers
<1> QED
  BY <1>1, <1>2, <1>3, <1>4, <1>5 DEF IInv

\* Every action keeps the invariant.
LEMMA NextKeeps ==
    ASSUME IInv, [Next]_vars
    PROVE  IInv'
<1>1. CASE UNCHANGED vars
  BY <1>1, StutterKeeps
<1>2. ASSUME NEW t \in Threads, Step(t) PROVE IInv'
  <2>1. CASE CreateFails(t)
    BY <2>1, CreateFailsKeeps
  <2>2. CASE Created(t)
    BY <2>2, CreatedKeeps
  <2>3. CASE CreateUndone(t)
    BY <2>3, CreateUndoneKeeps
  <2>4. CASE Fill(t)
    BY <2>4, FillKeeps
  <2>5. CASE FillFails(t) \/ Send(t) \/ Release(t)
    BY <2>5, GiveBackKeeps
  <2>6. CASE Unref(t)
    BY <2>6, UnrefKeeps
  <2>7. CASE Delete(t)
    BY <2>7, DeleteKeeps
  <2> QED
    BY <1>2, <2>1, <2>2, <2>3, <2>4, <2>5, <2>6, <2>7 DEF Step
<1>3. ASSUME NEW t \in Threads, NEW o \in Owners,
             \/ CreateRefused(t, o) \/ InitializeRuntime(t, o)
             \/ Acquire(t, o) \/ AcquireNothing(t, o) \/ DestroyOwner(t, o)
      PROVE  IInv'
  <2>1. CASE CreateRefused(t, o) \/ AcquireNothing(t, o)
    BY <2>1, StutterKeeps DEF CreateRefused, AcquireNothing
  <2>2. CASE InitializeRuntime(t, o)
    BY <2>2, InitializeRuntimeKeeps
  <2>3. CASE Acquire(t, o)
    BY <2>3, AcquireKeeps
  <2>4. CASE DestroyOwner(t, o)
    BY <2>4, DestroyKeeps
  <2> QED
    BY <1>3, <2>1, <2>2, <2>3, <2>4
<1>4. ASSUME NEW t \in Threads, NEW s \in handles, SendOwn(t, s) \/ DropHandle(t, s)
      PROVE  IInv'
  BY <1>4, ConsumeKeeps
<1>5. ASSUME NEW t \in Threads, NEW s \in handles, NEW o \in TxOwners, SendForeign(t, s, o)
      PROVE  IInv'
  BY <1>5, SendForeignKeeps
<1> QED
  BY <1>1, <1>2, <1>3, <1>4, <1>5 DEF Next

\* The invariant holds of every behaviour.
LEMMA Invariance == Spec => []IInv
BY InitIInv, NextKeeps, PTL DEF Spec

\* The types of the variables, whatever the interleaving of calls and drops.
THEOREM TypesHold == Spec => []TypeOK
<1>1. IInv => TypeOK
  BY DEF IInv
<1> QED
  BY <1>1, Invariance, PTL

\* For any number of threads, owners and slots, a pool's count is the number of
\* its references, and only the thread that dropped the last deletes it.
THEOREM RefsStayExact == Spec => []RefsAreExact
<1>1. IInv => RefsAreExact
  BY DEF IInv
<1> QED
  BY <1>1, Invariance, PTL

\* A pool with nobody's reference has no slot in use, and nobody is in it.
LEMMA NoRefsNoUse ==
    ASSUME IInv, NEW o \in Owners, pool[o] # "made"
    PROVE  /\ o \notin live /\ InUseOf(o) = {}
           /\ Unrefing(o) = {} /\ Deleting(o) = {}
<1>1. Counted(o) /\ Bit(o \in live) \in Nat
  BY Numbers DEF Bit
<1>2. ~(refs[o] > 0) /\ Cardinality(Deleting(o)) = 0
  BY <1>1 DEF Counted, Bit
<1>3. refs[o] = 0
  BY <1>2, Numbers
<1>4. /\ Bit(o \in live) = 0 /\ Cardinality(InUseOf(o)) = 0
      /\ Cardinality(Unrefing(o)) = 0
  <2>1. Bit(o \in live) + Cardinality(InUseOf(o)) + Cardinality(Unrefing(o)) = 0
    BY <1>1, <1>3 DEF Counted
  <2> QED
    BY <1>1, <2>1, Numbers
<1> QED
  BY <1>2, <1>4, ThreadCounts, FS_EmptySet DEF IInv, Bit

\* A deleted pool has no owner and no handle, and no thread is in an operation on
\* it: what drops the last reference is the last to touch the pool.
THEOREM NeverUsedAfterFree == Spec => []NoUseAfterFree
<1>1. ASSUME IInv PROVE NoUseAfterFree
  <2> SUFFICES ASSUME NEW o \in Owners, pool[o] = "deleted"
               PROVE  /\ o \notin live
                      /\ \A s \in handles : PoolOf(s) # o
                      /\ \A t \in Threads : ~Idle(t) => PoolOf(at[t]) # o
    BY DEF NoUseAfterFree
  <2>1. /\ o \notin live /\ InUseOf(o) = {}
        /\ Unrefing(o) = {} /\ Deleting(o) = {}
    BY <1>1, NoRefsNoUse
  <2>2. \A s \in handles : PoolOf(s) # o
    BY <1>1, <2>1 DEF IInv, InUseOf
  <2>3. ASSUME NEW t \in Threads, pc[t] # "idle" PROVE PoolOf(at[t]) # o
    <3>1. CASE pc[t] \in Holding
      BY <1>1, <2>1, <3>1 DEF IInv, ThreadsFit, InUseOf
    <3>2. CASE pc[t] = "create"
      BY <1>1, <3>2, Made
    <3>3. CASE pc[t] \in {"unref", "delete"}
      BY <2>1, <3>3 DEF Unrefing, Deleting
    <3> QED
      BY <1>1, <2>3, <3>1, <3>2, <3>3 DEF IInv, TypeOK, Holding
  <2> QED
    BY <2>1, <2>2, <2>3 DEF Idle
<1> QED
  BY <1>1, Invariance, PTL

\* A slot in use is a handle's or one operation's, never two: nothing is loaned,
\* sent or released twice, and a handle always has its data.
THEOREM SlotsHaveOneOwner == Spec => []SlotHasOneOwner
<1>1. ASSUME IInv PROVE SlotHasOneOwner
  <2> SUFFICES ASSUME NEW s \in Slot
               PROVE  /\ Cardinality(Users(s)) + Cardinality({s} \cap handles) <= 1
                      /\ (Users(s) # {} \/ s \in handles) => s \in inUse
                      /\ s \in handles => HasData(s)
    BY DEF SlotHasOneOwner
  <2>1. \A t \in Users(s) : s \in inUse \ handles
    BY <1>1 DEF Users, IInv, ThreadsFit, Holding
  <2>2. \A t, u \in Users(s) : t = u
    BY <1>1 DEF Users, IInv, HoldersDiffer, Holding
  <2>3. Cardinality({s} \cap handles) = Bit(s \in handles)
    <3>1. {s} \cap handles = handles \cap {s}
      OBVIOUS
    <3> QED
      BY <3>1, LiveCount
  <2>4. Cardinality(Users(s)) + Cardinality({s} \cap handles) <= 1
    <3>1. CASE Users(s) = {}
      BY <2>3, <3>1, FS_EmptySet DEF Bit
    <3>2. CASE Users(s) # {}
      <4>1. PICK t \in Users(s) : Users(s) = {t}
        BY <2>2, <3>2
      <4>2. Cardinality(Users(s)) = 1
        BY <4>1, FS_Singleton
      <4>3. Cardinality({s} \cap handles) = 0
        BY <2>1, <2>3, <3>2 DEF Bit
      <4> QED
        BY <4>2, <4>3
    <3> QED
      BY <3>1, <3>2
  <2>5. ASSUME s \in handles PROVE HasData(s)
    <3>1. s \in inUse \cap data /\ PoolOf(s) \in Owners
      BY <1>1, <2>5, SlotPool DEF IInv
    <3>2. InUseOf(PoolOf(s)) # {}
      BY <3>1 DEF InUseOf
    <3>3. pool[PoolOf(s)] = "made"
      BY <1>1, <3>1, <3>2, NoRefsNoUse
    <3> QED
      BY <1>1, <3>1, <3>3 DEF IInv, MadeOnce, Validates, HasData
  <2> QED
    BY <1>1, <2>1, <2>4, <2>5 DEF IInv
<1> QED
  BY <1>1, Invariance, PTL

\* Under an owner that names a configuration file the runtime is not initialised
\* again, however many others are made.
THEOREM RuntimeStays == Spec => RuntimeIsKept
<1> DEFINE Kept == \A o \in live \cup Creating :
                     Config[o].path # NoPath => runtime # NoPath /\ runtime' = runtime
<1>1. ASSUME IInv, [Next]_vars PROVE [Kept]_vars
  <2>1. runtime # NoPath => runtime' = runtime
    BY <1>1 DEF Next, Step, CreateRefused, InitializeRuntime, CreateFails, Created,
                CreateUndone, Acquire, AcquireNothing, Fill, FillFails, SendOwn,
                SendForeign, Send, DropHandle, Release, DestroyOwner, Unref, Delete, vars
  <2>2. ASSUME NEW o \in live \cup Creating, Config[o].path # NoPath
        PROVE  runtime # NoPath
    <3>1. CASE o \in live
      BY <1>1, <2>2, <3>1, NoRefsNoUse DEF IInv, MadeOnce, TypeOK
    <3>2. CASE o \in Creating
      <4>1. PICK t \in Threads : pc[t] = "create" /\ o = PoolOf(at[t])
        BY <3>2 DEF Creating
      <4> QED
        BY <1>1, <2>2, <4>1, SomeRefs DEF IInv, ThreadsFit
    <3> QED
      BY <3>1, <3>2
  <2> QED
    BY <2>1, <2>2
<1> QED
  BY <1>1, Invariance, PTL DEF Spec, RuntimeIsKept
=============================================================================
