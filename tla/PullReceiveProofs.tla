-------------------------- MODULE PullReceiveProofs --------------------------
(***************************************************************************)
(* Proofs about PullReceive: type correctness, that a deployment whose RX  *)
(* pool covers the mismatch queue and the leases never exhausts it, and    *)
(* what fills the pool when a smaller one is exhausted.                    *)
(***************************************************************************)
EXTENDS PullReceive, SequenceLemmas, FiniteSetTheorems

LEMMA Reasons == \A reason \in {"dropped", "rejected", "cancelled", "exhausted", "unreadable",
                                "malformed", "unsubscribed"} : reason \in LossReasons
BY DEF LossReasons

LEMMA Results == \A result \in {"none", "OK", "NOT_FOUND", "RESOURCE_EXHAUSTED",
                                "INTERNAL", "INVALID_ARGUMENT", "cancelled"} : result \in Statuses
BY DEF Statuses

\* Losing a sample keeps the type of the loss history.
LEMMA LoseType ==
    ASSUME lost \in [LossReasons -> SUBSET Sample],
           NEW reason \in LossReasons, NEW s \in Sample, Lose(reason, s)
    PROVE  lost' \in [LossReasons -> SUBSET Sample]
BY DEF Lose

CallTypeOK ==
    /\ pc \in [Receivers -> {"idle", "pop", "next", "first", "queue"}]
    /\ filter \in [Receivers -> Filter]
    /\ hand \in [Receivers -> Sample \cup {NoSample}]
    /\ status \in [Receivers -> Statuses]

\* Ending a call keeps the types of its variables.
LEMMA ReturnType ==
    ASSUME CallTypeOK, NEW r \in Receivers, NEW result \in Statuses,
           Return(r, result)
    PROVE  CallTypeOK'
<1>1. {} \in Filter
  BY DEF Filter
<1> QED
  BY <1>1 DEF CallTypeOK, Return

\* A call owns a sample exactly while it waits to retain it.
HandOwned == \A r \in Receivers : hand[r] # NoSample <=> pc[r] = "queue"

\* The initial state has the right types.
LEMMA InitTypeOK == Init => TypeOK
<1> SUFFICES ASSUME Init PROVE TypeOK
  OBVIOUS
<1>0. subscribed \in BOOLEAN
  BY Zenon DEF Init
<1>1. sent \in 0..MaxSent /\ dropped \in Nat /\ rejected \in Nat
  BY ConstantsAssumption DEF Init
<1>2. pending \in Seq(Sample) /\ queue \in Seq(Sample)
  BY EmptySeq DEF Init
<1>3. CallTypeOK
  BY DEF Init, CallTypeOK, Statuses, Filter
<1>4. /\ leases \in SUBSET Sample /\ delivered \in SUBSET Sample
      /\ lost \in [LossReasons -> SUBSET Sample]
  BY DEF Init
<1> QED
  BY <1>0, <1>1, <1>2, <1>3, <1>4 DEF TypeOK, CallTypeOK

\* Every step of the pull path keeps the types.
LEMMA NextTypeOK == TypeOK /\ HandOwned /\ [Next]_vars => TypeOK'
<1> SUFFICES ASSUME TypeOK, HandOwned, [Next]_vars
             PROVE  TypeOK'
  OBVIOUS
<1> USE DEF TypeOK, diagnostics, call, app
<1>0. CallTypeOK /\ (CallTypeOK' <=> /\ pc' \in [Receivers -> {"idle", "pop", "next", "first", "queue"}]
                                     /\ filter' \in [Receivers -> Filter]
                                     /\ hand' \in [Receivers -> Sample \cup {NoSample}]
                                     /\ status' \in [Receivers -> Statuses])
  BY DEF CallTypeOK
<1>1. ASSUME NEW t \in Topics \cup {Malformed}, Publish(t)
      PROVE  TypeOK'
  <2> DEFINE s == [id |-> sent + 1, topic |-> t]
  <2>1. sent' \in 0..MaxSent
    BY <1>1, ConstantsAssumption DEF Publish
  <2>2. s \in Sample
    BY <1>1, ConstantsAssumption DEF Publish, Sample
  <2>3. pending' \in Seq(Sample) /\ lost' \in [LossReasons -> SUBSET Sample]
    <3>1. CASE subscribed
      <4>1. pending' = Append(pending, s) /\ lost' = lost
        BY <1>1, <3>1, Zenon DEF Publish
      <4> QED
        BY <2>2, <4>1, AppendProperties
    <3>2. CASE ~subscribed
      <4>1. Lose("unsubscribed", s) /\ pending' = pending
        BY <1>1, <3>2, Zenon DEF Publish
      <4> QED
        BY <2>2, <4>1, LoseType, Reasons
    <3> QED
      BY <3>1, <3>2
  <2> QED
    BY <1>1, <2>1, <2>3 DEF Publish
<1>2. ASSUME NEW r \in Receivers, NEW f \in Filter, Call(r, f)
      PROVE  TypeOK'
  BY <1>2, Results DEF Call
<1>3. ASSUME NEW r \in Receivers, PopQueued(r)
      PROVE  TypeOK'
  <2>1. PICK i \in 1..Len(queue) :
           queue' = RemoveAt(queue, i) /\ Deliver(r, queue[i])
    BY <1>3 DEF PopQueued
  <2>2. queue[i] \in Sample /\ queue' \in Seq(Sample)
    BY <2>1, ElementOfSeq, RemoveAtProperties
  <2>3. CallTypeOK'
    BY <1>0, <2>1, ReturnType, Results DEF Deliver
  <2> QED
    BY <1>0, <1>3, <2>1, <2>2, <2>3 DEF PopQueued, Deliver
<1>4. ASSUME NEW r \in Receivers, PopNothing(r) \/ Subscribe(r)
      PROVE  TypeOK'
  BY <1>4 DEF PopNothing, Subscribe
<1>5. ASSUME NEW r \in Receivers,
             SubscribeFails(r) \/ ReceiveNothing(r)
      PROVE  TypeOK'
  <2>1. PICK result \in Statuses : Return(r, result)
    BY <1>5, Results DEF SubscribeFails, ReceiveNothing
  <2>2. CallTypeOK'
    BY <1>0, <2>1, ReturnType
  <2> QED
    BY <1>0, <1>5, <2>2 DEF SubscribeFails, ReceiveNothing
<1>6. ASSUME pending # <<>>
      PROVE  Head(pending) \in Sample /\ Tail(pending) \in Seq(Sample)
  BY <1>6, HeadTailProperties
<1>7. ASSUME NEW r \in Receivers, ReceiveAtLimit(r) \/ ReceiveFails(r)
      PROVE  TypeOK'
  <2>1. CallTypeOK'
    BY <1>0, <1>7, ReturnType, Results DEF ReceiveAtLimit, ReceiveFails
  <2>2. pending' \in Seq(Sample) /\ lost' \in [LossReasons -> SUBSET Sample]
    BY <1>6, <1>7, LoseType, Reasons DEF ReceiveAtLimit, ReceiveFails, TakeNext
  <2> QED
    BY <1>0, <1>7, <2>1, <2>2 DEF ReceiveAtLimit, ReceiveFails
<1>8. ASSUME NEW r \in Receivers, ReceiveInvalid(r)
      PROVE  TypeOK'
  <2>1. CallTypeOK'
    BY <1>0, <1>8, ReturnType, Results DEF ReceiveInvalid
  <2>2. pending' \in Seq(Sample) /\ lost' \in [LossReasons -> SUBSET Sample]
    BY <1>6, <1>8, LoseType, Reasons DEF ReceiveInvalid, TakeNext
  <2> QED
    BY <1>0, <1>8, <2>1, <2>2 DEF ReceiveInvalid
<1>9. ASSUME NEW r \in Receivers, ReceiveMatch(r)
      PROVE  TypeOK'
  <2>1. CallTypeOK'
    BY <1>0, <1>9, ReturnType, Results DEF ReceiveMatch, Deliver
  <2>2. pending' \in Seq(Sample) /\ Head(pending) \in Sample
    BY <1>6, <1>9 DEF ReceiveMatch, TakeNext
  <2> QED
    BY <1>0, <1>9, <2>1, <2>2 DEF ReceiveMatch, Deliver
<1>10. ASSUME NEW r \in Receivers, ReceiveMismatch(r)
       PROVE  TypeOK'
  BY <1>6, <1>10 DEF ReceiveMismatch, TakeNext
<1>11. ASSUME NEW r \in Receivers, pc[r] = "queue",
              QueueDisabled(r) \/ QueueRetain(r) \/ QueueDropOldest(r) \/ QueueReject(r)
       PROVE  TypeOK'
  <2>0. hand[r] \in Sample
    BY <1>11 DEF HandOwned
  <2>1. CASE QueueDisabled(r)
    <3>1. lost' \in [LossReasons -> SUBSET Sample]
      BY <2>0, <2>1, LoseType, Reasons DEF QueueDisabled
    <3>2. dropped' \in Nat
      BY <2>1 DEF QueueDisabled, SaturatingInc
    <3> QED
      BY <2>1, <3>1, <3>2 DEF QueueDisabled, Retry
  <2>2. CASE QueueRetain(r)
    BY <2>0, <2>2, AppendProperties DEF QueueRetain, Retry
  <2>3. CASE QueueDropOldest(r)
    <3>1. queue # <<>>
      BY <2>3, ConstantsAssumption, EmptySeq DEF QueueDropOldest, IsFull
    <3>2. Head(queue) \in Sample /\ queue' \in Seq(Sample)
      BY <2>0, <2>3, <3>1, HeadTailProperties, AppendProperties DEF QueueDropOldest
    <3>3. lost' \in [LossReasons -> SUBSET Sample]
      BY <2>3, <3>2, LoseType, Reasons DEF QueueDropOldest
    <3>4. dropped' \in Nat
      BY <2>3 DEF QueueDropOldest, SaturatingInc
    <3> QED
      BY <2>3, <3>2, <3>3, <3>4 DEF QueueDropOldest, Retry
  <2>4. CASE QueueReject(r)
    <3>1. lost' \in [LossReasons -> SUBSET Sample]
      BY <2>0, <2>4, LoseType, Reasons DEF QueueReject
    <3>2. CallTypeOK'
      BY <1>0, <2>4, ReturnType, Results DEF QueueReject
    <3>3. rejected' \in Nat
      BY <2>4 DEF QueueReject, SaturatingInc
    <3> QED
      BY <1>0, <2>4, <3>1, <3>2, <3>3 DEF QueueReject
  <2> QED
    BY <1>11, <2>1, <2>2, <2>3, <2>4
<1>12. ASSUME NEW r \in Receivers, Cancel(r)
       PROVE  TypeOK'
  <2>1. CallTypeOK'
    BY <1>0, <1>12, ReturnType, Results DEF Cancel
  <2>2. lost' \in [LossReasons -> SUBSET Sample]
    BY <1>12, LoseType, Reasons DEF Cancel
  <2> QED
    BY <1>0, <1>12, <2>1, <2>2 DEF Cancel
<1>13. ASSUME NEW s \in leases, DropLease(s)
       PROVE  TypeOK'
  BY <1>13 DEF DropLease
<1>14. CASE UNCHANGED vars
  BY <1>14 DEF vars
<1> QED
  BY <1>1, <1>2, <1>3, <1>4, <1>5, <1>7, <1>8, <1>9, <1>10, <1>11, <1>12, <1>13, <1>14
     DEF Next, CallStep, QueueDisabled, QueueRetain, QueueDropOldest, QueueReject

\* Every step keeps the ownership of the samples in hand.
LEMMA NextHandOwned == TypeOK /\ HandOwned /\ [Next]_vars => HandOwned'
<1> SUFFICES ASSUME TypeOK, HandOwned, [Next]_vars
             PROVE  HandOwned'
  OBVIOUS
<1> USE DEF TypeOK, HandOwned, call, app, Return, Retry
<1>1. ASSUME NEW r \in Receivers, PopQueued(r)
      PROVE  HandOwned'
  BY <1>1 DEF PopQueued, Deliver
<1>2. ASSUME NEW r \in Receivers,
             PopNothing(r) \/ Subscribe(r) \/ SubscribeFails(r)
      PROVE  HandOwned'
  BY <1>2 DEF PopNothing, Subscribe, SubscribeFails
<1>3. ASSUME NEW r \in Receivers,
             ReceiveFails(r) \/ ReceiveNothing(r) \/ ReceiveAtLimit(r)
                \/ ReceiveInvalid(r) \/ ReceiveMatch(r)
      PROVE  HandOwned'
  BY <1>3 DEF ReceiveFails, ReceiveNothing, ReceiveAtLimit, ReceiveInvalid,
              ReceiveMatch, Deliver
<1>4. ASSUME NEW r \in Receivers, ReceiveMismatch(r)
      PROVE  HandOwned'
  <2>1. Head(pending) \in Sample
    BY <1>4, HeadTailProperties DEF ReceiveMismatch, TakeNext
  <2>2. Head(pending) # NoSample
    BY <2>1, NoSampleAssumption
  <2> QED
    BY <1>4, <2>2 DEF ReceiveMismatch
<1>5. ASSUME NEW r \in Receivers,
             QueueDisabled(r) \/ QueueRetain(r) \/ QueueDropOldest(r) \/ QueueReject(r)
      PROVE  HandOwned'
  BY <1>5 DEF QueueDisabled, QueueRetain, QueueDropOldest, QueueReject
<1>6. ASSUME NEW r \in Receivers, Cancel(r)
      PROVE  HandOwned'
  BY <1>6 DEF Cancel
<1>7. ASSUME NEW r \in Receivers, NEW f \in Filter, Call(r, f)
      PROVE  HandOwned'
  BY <1>7 DEF Call
<1>8. ASSUME \/ \E t \in Topics \cup {Malformed} : Publish(t)
             \/ \E s \in leases : DropLease(s)
             \/ UNCHANGED vars
      PROVE  HandOwned'
  BY <1>8 DEF Publish, DropLease, vars
<1> QED
  BY <1>1, <1>2, <1>3, <1>4, <1>5, <1>6, <1>7, <1>8 DEF Next, CallStep

\* Every variable of the pull path keeps its type: the type invariant that the
\* runs check, for every number of tasks, samples, slots and leases.
THEOREM TypeCorrect == Spec => []TypeOK
<1>1. Init => TypeOK /\ HandOwned
  BY InitTypeOK DEF Init, HandOwned
<1>2. TypeOK /\ HandOwned /\ [Next]_vars => TypeOK' /\ HandOwned'
  BY NextTypeOK, NextHandOwned
<1> QED
  BY <1>1, <1>2, PTL DEF Spec

-----------------------------------------------------------------------------

\* What bounds the use of the RX pool: the queue keeps to its capacity, and the
\* application to its leases and calls.
DepthBounded == Len(queue) <= Capacity

LeasesBounded ==
    /\ IsFiniteSet(leases)
    /\ Cardinality(leases) + Cardinality(Calling) <= MaxLeases

NeverExhausted == Provisioned => lost["exhausted"] = {}

PoolInv == TypeOK /\ HandOwned /\ DepthBounded /\ LeasesBounded /\ NeverExhausted

LEMMA CallingFinite ==
    /\ IsFiniteSet(Calling) /\ Cardinality(Calling) \in Nat
    /\ IsFiniteSet(Holding) /\ Cardinality(Holding) \in Nat
<1>1. IsFiniteSet(Receivers) /\ Calling \in SUBSET Receivers /\ Holding \in SUBSET Receivers
  BY ConstantsAssumption DEF Calling, Holding
<1> QED
  BY <1>1, FS_Subset, FS_CardinalityType

\* A call about to receive finds no more slots in use than the queue's capacity, the
\* leases and the other calls account for: it owns no sample itself, and they one each.
LEMMA SlotsHaveUsers ==
    ASSUME TypeOK, HandOwned, DepthBounded, LeasesBounded,
           NEW r \in Receivers, HasSubscriber(r)
    PROVE  /\ SlotsInUse \in Nat
           /\ SlotsInUse <= Capacity + Cardinality(leases) + Cardinality(Calling \ {r})
           /\ Cardinality(Calling \ {r}) = Cardinality(Calling) - 1
<1>1. pc[r] # "idle" /\ hand[r] = NoSample
  BY DEF HasSubscriber, HandOwned
<1>2. r \in Calling /\ Holding \in SUBSET (Calling \ {r})
  BY <1>1 DEF Calling, Holding, HandOwned, TypeOK
<1>3. /\ IsFiniteSet(Calling \ {r})
      /\ Cardinality(Calling \ {r}) = Cardinality(Calling) - 1
  BY <1>2, CallingFinite, FS_RemoveElement
<1>4. Cardinality(Holding) <= Cardinality(Calling \ {r})
  BY <1>2, <1>3, FS_Subset
<1>5. Cardinality(leases) \in Nat
  BY FS_CardinalityType DEF LeasesBounded
<1>6. Len(queue) \in Nat
  BY LenProperties DEF TypeOK
<1> QED
  BY <1>3, <1>4, <1>5, <1>6, CallingFinite, ConstantsAssumption
     DEF SlotsInUse, DepthBounded

\* That is less than what the bounds of the deployment account for.
LEMMA SlotsBelowBound ==
    ASSUME TypeOK, HandOwned, DepthBounded, LeasesBounded,
           NEW r \in Receivers, HasSubscriber(r)
    PROVE  SlotsInUse < Capacity + MaxLeases
<1>1. Cardinality(leases) \in Nat
  BY FS_CardinalityType DEF LeasesBounded
<1>2. /\ SlotsInUse \in Nat
      /\ SlotsInUse <= Capacity + Cardinality(leases) + (Cardinality(Calling) - 1)
  BY SlotsHaveUsers
<1>3. Cardinality(leases) + Cardinality(Calling) <= MaxLeases
  BY DEF LeasesBounded
<1> QED
  BY <1>1, <1>2, <1>3, CallingFinite, ConstantsAssumption

\* Retaining, delivering and dropping keep the queue within its capacity.
LEMMA NextDepthBounded ==
    TypeOK /\ HandOwned /\ DepthBounded /\ [Next]_vars => DepthBounded'
<1> SUFFICES ASSUME TypeOK, HandOwned, DepthBounded, [Next]_vars
             PROVE  DepthBounded'
  OBVIOUS
<1> USE DEF DepthBounded
<1>0. queue \in Seq(Sample) /\ Len(queue) \in Nat /\ Capacity \in Nat
  BY LenProperties, ConstantsAssumption DEF TypeOK
<1>1. ASSUME NEW r \in Receivers, PopQueued(r)
      PROVE  DepthBounded'
  <2>1. PICK i \in 1..Len(queue) : queue' = RemoveAt(queue, i)
    BY <1>1 DEF PopQueued
  <2>2. Len(queue') = Len(queue) - 1
    BY <1>0, <2>1, RemoveAtProperties
  <2> QED
    BY <1>0, <2>2
<1>2. ASSUME NEW r \in Receivers, pc[r] = "queue", QueueRetain(r)
      PROVE  DepthBounded'
  <2>1. hand[r] \in Sample
    BY <1>2 DEF HandOwned, TypeOK
  <2>2. Len(queue') = Len(queue) + 1
    BY <1>0, <1>2, <2>1, AppendProperties DEF QueueRetain
  <2> QED
    BY <1>0, <1>2, <2>2 DEF QueueRetain, IsFull
<1>3. ASSUME NEW r \in Receivers, pc[r] = "queue", QueueDropOldest(r)
      PROVE  DepthBounded'
  <2>1. hand[r] \in Sample
    BY <1>3 DEF HandOwned, TypeOK
  <2>2. queue # <<>>
    BY <1>0, <1>3, EmptySeq DEF QueueDropOldest, IsFull
  <2>3. Tail(queue) \in Seq(Sample) /\ Len(Tail(queue)) = Len(queue) - 1
    BY <1>0, <2>2, HeadTailProperties
  <2>4. Len(queue') = Len(queue) - 1 + 1
    BY <1>0, <1>3, <2>1, <2>3, AppendProperties DEF QueueDropOldest
  <2> QED
    BY <1>0, <2>4
<1>4. ASSUME queue' = queue
      PROVE  DepthBounded'
  BY <1>4
<1>5. \/ queue' = queue
      \/ \E r \in Receivers :
            PopQueued(r) \/ (pc[r] = "queue" /\ (QueueRetain(r) \/ QueueDropOldest(r)))
  BY DEF Next, CallStep, vars, Publish, Call, PopNothing, Subscribe, SubscribeFails,
         ReceiveFails, ReceiveNothing, ReceiveAtLimit, ReceiveInvalid, ReceiveMatch,
         ReceiveMismatch, QueueDisabled, QueueRetain, QueueDropOldest, QueueReject,
         Cancel, DropLease
<1> QED
  BY <1>1, <1>2, <1>3, <1>4, <1>5

\* Ending a call makes room for one more lease, which delivering then uses.
LEMMA NextLeasesBounded ==
    TypeOK /\ LeasesBounded /\ [Next]_vars => LeasesBounded'
<1> SUFFICES ASSUME TypeOK, LeasesBounded, [Next]_vars
             PROVE  LeasesBounded'
  OBVIOUS
<1>0. /\ IsFiniteSet(leases) /\ Cardinality(leases) \in Nat
      /\ Cardinality(leases) + Cardinality(Calling) <= MaxLeases
      /\ IsFiniteSet(Calling) /\ Cardinality(Calling) \in Nat /\ MaxLeases \in Nat
  BY FS_CardinalityType, CallingFinite, ConstantsAssumption DEF LeasesBounded
<1>1. ASSUME NEW r \in Receivers, pc[r] # "idle", pc' = [pc EXCEPT ![r] = "idle"]
      PROVE  Cardinality(Calling') = Cardinality(Calling) - 1
  <2>1. r \in Calling /\ Calling' = Calling \ {r}
    BY <1>1 DEF Calling, TypeOK
  <2> QED
    BY <1>0, <2>1, FS_RemoveElement
<1>2. ASSUME NEW r \in Receivers, pc[r] # "idle", NEW s, Deliver(r, s)
      PROVE  LeasesBounded'
  <2>1. /\ IsFiniteSet(leases') /\ Cardinality(leases') \in Nat
        /\ Cardinality(leases') <= Cardinality(leases) + 1
    <3>1. leases' = leases \cup {s}
      BY <1>2 DEF Deliver
    <3>2. /\ IsFiniteSet(leases \cup {s})
          /\ Cardinality(leases \cup {s}) =
                IF s \in leases THEN Cardinality(leases) ELSE Cardinality(leases) + 1
      BY <1>0, FS_AddElement
    <3> QED
      BY <1>0, <3>1, <3>2
  <2>2. Cardinality(Calling') = Cardinality(Calling) - 1
    BY <1>1, <1>2 DEF Deliver, Return
  <2> QED
    BY <1>0, <2>1, <2>2 DEF LeasesBounded
<1>3. ASSUME NEW r \in Receivers, pc[r] # "idle", leases' = leases,
             pc' = [pc EXCEPT ![r] = "idle"]
      PROVE  LeasesBounded'
  <2>1. Cardinality(Calling') = Cardinality(Calling) - 1
    BY <1>1, <1>3
  <2>2. IsFiniteSet(leases') /\ Cardinality(leases') = Cardinality(leases)
    BY <1>0, <1>3
  <2> QED
    BY <1>0, <2>1, <2>2 DEF LeasesBounded
<1>4. ASSUME NEW r \in Receivers, pc[r] # "idle", leases' = leases,
             NEW w \in {"next", "first", "queue"}, pc' = [pc EXCEPT ![r] = w]
      PROVE  LeasesBounded'
  <2>1. Calling' = Calling
    BY <1>4 DEF Calling, TypeOK
  <2> QED
    BY <1>0, <1>4, <2>1 DEF LeasesBounded
<1>5. ASSUME leases' = leases, pc' = pc
      PROVE  LeasesBounded'
  BY <1>0, <1>5 DEF LeasesBounded, Calling
<1>6. ASSUME NEW r \in Receivers, NEW f \in Filter, Call(r, f)
      PROVE  LeasesBounded'
  <2>1. r \notin Calling /\ Calling' = Calling \cup {r} /\ leases' = leases
    BY <1>6 DEF Call, Calling, TypeOK, app
  <2>2. Cardinality(Calling') = Cardinality(Calling) + 1
    BY <1>0, <2>1, FS_AddElement
  <2>3. Cardinality(leases) + Cardinality(Calling) < MaxLeases
    BY <1>6 DEF Call
  <2> QED
    BY <1>0, <2>1, <2>2, <2>3 DEF LeasesBounded
<1>7. ASSUME NEW s \in leases, DropLease(s)
      PROVE  LeasesBounded'
  <2>1. leases' = leases \ {s} /\ Calling' = Calling
    BY <1>7 DEF DropLease, call, Calling
  <2>2. IsFiniteSet(leases') /\ Cardinality(leases') = Cardinality(leases) - 1
    BY <1>0, <2>1, FS_RemoveElement
  <2> QED
    BY <1>0, <2>1, <2>2 DEF LeasesBounded
<1>8. ASSUME NEW r \in Receivers, CallStep(r) \/ Cancel(r)
      PROVE  \/ pc[r] # "idle" /\ \E s : Deliver(r, s)
             \/ /\ pc[r] # "idle" /\ leases' = leases
                /\ \E w \in {"idle", "next", "first", "queue"} : pc' = [pc EXCEPT ![r] = w]
  BY <1>8 DEF CallStep, app, Return, Retry, TakeNext, HasSubscriber, PopQueued, PopNothing,
              Subscribe, SubscribeFails, ReceiveFails, ReceiveNothing, ReceiveAtLimit,
              ReceiveInvalid, ReceiveMatch, ReceiveMismatch, QueueDisabled, QueueRetain,
              QueueDropOldest, QueueReject, Cancel
<1>9. ASSUME UNCHANGED vars \/ \E t \in Topics \cup {Malformed} : Publish(t)
      PROVE  leases' = leases /\ pc' = pc
  BY <1>9 DEF vars, Publish, call, app
<1> QED
  BY <1>2, <1>3, <1>4, <1>5, <1>6, <1>7, <1>8, <1>9 DEF Next

\* No step of a provisioned transport loses a sample to a full pool.
LEMMA NextNeverExhausted == PoolInv /\ [Next]_vars => NeverExhausted'
<1> SUFFICES ASSUME PoolInv, [Next]_vars, Provisioned
             PROVE  lost'["exhausted"] = {}
  BY DEF NeverExhausted, Provisioned
<1> USE DEF PoolInv
<1>0. lost["exhausted"] = {} /\ lost \in [LossReasons -> SUBSET Sample]
  BY DEF NeverExhausted, TypeOK
<1>1. ASSUME NEW r \in Receivers, ReceiveAtLimit(r)
      PROVE  FALSE
  <2>0. Cardinality(leases) \in Nat /\ Len(queue) \in Nat
    BY FS_CardinalityType, LenProperties DEF TypeOK, LeasesBounded
  <2>1. SlotsInUse < Capacity + MaxLeases
    BY <1>1, SlotsBelowBound DEF ReceiveAtLimit
  <2>2. SlotsInUse \in Nat
    BY <2>0, CallingFinite DEF SlotsInUse
  <2> QED
    BY <1>1, <2>1, <2>2, ConstantsAssumption DEF ReceiveAtLimit, Provisioned
<1>2. ASSUME NEW reason \in LossReasons \ {"exhausted"}, NEW s, Lose(reason, s)
      PROVE  lost'["exhausted"] = {}
  BY <1>0, <1>2 DEF Lose
<1>3. ASSUME lost' = lost
      PROVE  lost'["exhausted"] = {}
  BY <1>0, <1>3
<1>4. ASSUME NEW r \in Receivers, CallStep(r) \/ Cancel(r)
      PROVE  \/ lost' = lost
             \/ \E reason \in LossReasons \ {"exhausted"} : \E s : Lose(reason, s)
             \/ ReceiveAtLimit(r)
  BY <1>4 DEF LossReasons, CallStep, PopQueued, PopNothing,
              Subscribe, SubscribeFails, ReceiveFails, ReceiveNothing,
              ReceiveInvalid, ReceiveMatch, ReceiveMismatch, QueueDisabled, QueueRetain,
              QueueDropOldest, QueueReject, Cancel
<1>5. ASSUME NEW t \in Topics \cup {Malformed}, Publish(t)
      PROVE  \/ lost' = lost
             \/ \E reason \in LossReasons \ {"exhausted"} : \E s : Lose(reason, s)
  BY <1>5 DEF Publish, LossReasons
<1>6. ASSUME UNCHANGED vars \/ (\E s \in leases : DropLease(s))
                \/ (\E r \in Receivers, f \in Filter : Call(r, f))
      PROVE  lost' = lost
  BY <1>6 DEF vars, DropLease, Call
<1> QED
  BY <1>1, <1>2, <1>3, <1>4, <1>5, <1>6 DEF Next

LEMMA InitPool == Init => PoolInv
<1> SUFFICES ASSUME Init PROVE PoolInv
  OBVIOUS
<1>1. TypeOK /\ HandOwned
  BY InitTypeOK DEF Init, HandOwned
<1>2. Len(queue) = 0
  BY EmptySeq DEF Init
<1>3. Calling = {} /\ leases = {}
  BY DEF Init, Calling
<1>4. lost["exhausted"] = {}
  BY DEF Init, LossReasons
<1> QED
  BY <1>1, <1>2, <1>3, <1>4, FS_EmptySet, ConstantsAssumption
     DEF PoolInv, DepthBounded, LeasesBounded, NeverExhausted

LEMMA NextPool == PoolInv /\ [Next]_vars => PoolInv'
BY NextTypeOK, NextHandOwned, NextDepthBounded, NextLeasesBounded, NextNeverExhausted
   DEF PoolInv

\* A deployment with max_samples at least the queue's capacity plus the leases
\* and calls of the application never finds the RX pool exhausted, however many
\* tasks receive and however their calls interleave or are cancelled.
THEOREM PoolSafe == Spec => []PoolNeverExhausted
<1>1. PoolInv => PoolNeverExhausted
  <2> SUFFICES ASSUME PoolInv, Provisioned, NEW r \in Receivers, HasSubscriber(r)
               PROVE  SlotsInUse < MaxSamples
    BY DEF PoolInv, NeverExhausted, PoolNeverExhausted
  <2>1. SlotsInUse < Capacity + MaxLeases
    BY SlotsBelowBound DEF PoolInv
  <2>2. SlotsInUse \in Nat
    BY CallingFinite, FS_CardinalityType, LenProperties
       DEF PoolInv, SlotsInUse, TypeOK, LeasesBounded
  <2> QED
    BY <2>1, <2>2, ConstantsAssumption DEF Provisioned
<1> QED
  BY <1>1, InitPool, NextPool, PTL DEF Spec

\* Whatever its size, the pool runs out only when the application has it: a call that
\* fails with RESOURCE_EXHAUSTED was rejected by a full mismatch queue, or leases, other
\* calls in progress and the queue's capacity account for every slot.  No slot is
\* occupied by a sample that was lost.  (subscriber_receive, queue_pull_sample.)
THEOREM ExhaustionsHaveCause == Spec => ExhaustionHasCause
<1> DEFINE Cause ==
       \A r \in Receivers :
          (pc[r] # "idle" /\ pc'[r] = "idle" /\ status'[r] = "RESOURCE_EXHAUSTED")
            => \/ /\ Policy = "RejectNewestAndReport"
                  /\ lost'["rejected"] = lost["rejected"] \cup {hand[r]}
                  /\ Len(queue) = Capacity
               \/ MaxSamples <=
                     Capacity + Cardinality(leases) + Cardinality(Calling \ {r})
<1>1. ASSUME PoolInv, [Next]_vars PROVE [Cause]_vars
  <2> SUFFICES ASSUME NEW r \in Receivers, pc[r] # "idle", pc'[r] = "idle",
                      status'[r] = "RESOURCE_EXHAUSTED"
               PROVE  \/ /\ Policy = "RejectNewestAndReport"
                         /\ lost'["rejected"] = lost["rejected"] \cup {hand[r]}
                         /\ Len(queue) = Capacity
                      \/ MaxSamples <=
                            Capacity + Cardinality(leases) + Cardinality(Calling \ {r})
    OBVIOUS
  <2>0. TypeOK /\ HandOwned /\ DepthBounded /\ LeasesBounded
    BY <1>1 DEF PoolInv
  <2>1. ASSUME NEW q \in Receivers, q # r, CallStep(q) \/ Cancel(q) PROVE pc'[r] = pc[r]
    BY <2>0, <2>1 DEF CallStep, Cancel, PopQueued, PopNothing, Subscribe, SubscribeFails,
         ReceiveFails, ReceiveNothing, ReceiveAtLimit, ReceiveInvalid, ReceiveMatch,
         ReceiveMismatch, QueueDisabled, QueueRetain, QueueDropOldest, QueueReject,
         Deliver, Return, Retry, TypeOK
  <2>2. ASSUME \/ \E t \in Topics \cup {Malformed} : Publish(t)
               \/ \E s \in leases : DropLease(s)
               \/ \E q \in Receivers, f \in Filter : Call(q, f)
               \/ UNCHANGED vars
        PROVE  pc'[r] # "idle"
    BY <2>0, <2>2 DEF Publish, DropLease, Call, vars, call, TypeOK
  <2>3. CallStep(r) \/ Cancel(r)
    BY <1>1, <2>1, <2>2 DEF Next
  <2>4. ReceiveAtLimit(r) \/ QueueReject(r)
    BY <2>0, <2>3 DEF CallStep, Cancel, PopQueued, PopNothing, Subscribe, SubscribeFails,
         ReceiveFails, ReceiveNothing, ReceiveInvalid, ReceiveMatch, ReceiveMismatch,
         QueueDisabled, QueueRetain, QueueDropOldest, Deliver, Return, Retry, TypeOK
  <2>5. CASE ReceiveAtLimit(r)
    <3>1. HasSubscriber(r) /\ SlotsInUse >= MaxSamples
      BY <2>5 DEF ReceiveAtLimit
    <3>2. /\ Cardinality(leases) \in Nat /\ Cardinality(Calling) \in Nat
          /\ MaxSamples \in Nat /\ Capacity \in Nat
      BY <2>0, FS_CardinalityType, CallingFinite, ConstantsAssumption DEF LeasesBounded
    <3> QED
      BY <2>0, <3>1, <3>2, SlotsHaveUsers
  <2>6. CASE QueueReject(r)
    <3>1. Len(queue) \in Nat /\ Capacity \in Nat
      BY <2>0, LenProperties, ConstantsAssumption DEF TypeOK
    <3> QED
      BY <2>0, <2>6, <3>1, Reasons
         DEF QueueReject, IsFull, DepthBounded, Lose, TypeOK
  <2> QED
    BY <2>4, <2>5, <2>6
<1> QED
  BY <1>1, InitPool, NextPool, PTL DEF Spec, ExhaustionHasCause

=============================================================================
