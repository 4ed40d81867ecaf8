---------------------------- MODULE PullFateProofs ----------------------------
(***************************************************************************)
(* What becomes of a published sample: proofs that it is in one place and  *)
(* there once, that the counters count what was lost, and that the pull    *)
(* path implements ReceiveContract.                                        *)
(*                                                                         *)
(* Every step moves samples between a few places.  The argument is about   *)
(* one function from places to the samples in them: moving a sample that   *)
(* is in one place only leaves it in one place only.                       *)
(***************************************************************************)
EXTENDS PullReceiveProofs

Places == {"pending", "queue", "hand", "delivered"} \cup LossReasons

InHand == {hand[r] : r \in Holding}

\* The samples in each place.
Where == [place \in Places |->
            IF place = "pending" THEN ToSet(pending)
            ELSE IF place = "queue" THEN ToSet(queue)
            ELSE IF place = "hand" THEN InHand
            ELSE IF place = "delivered" THEN delivered
            ELSE lost[place]]

\* Contents of places, with the samples numbered 1 to n each in one of them.
Contents == [Places -> SUBSET Sample]
Sane(C, n) == Apart(Places, C, n)

LEMMA PutSane ==
    ASSUME NEW C \in Contents, NEW n \in Nat, Sane(C, n),
           NEW p \in Places, NEW s \in Sample, s.id = n + 1
    PROVE  Put(C, p, s) \in Contents /\ Sane(Put(C, p, s), n + 1)
BY PutApart DEF Contents, Sane

LEMMA MoveSane ==
    ASSUME NEW C \in Contents, NEW n \in Nat, Sane(C, n),
           NEW p \in Places, NEW q \in Places, p # q, NEW s \in C[p]
    PROVE  Move(C, p, q, s) \in Contents /\ Sane(Move(C, p, q, s), n)
BY MoveApart DEF Contents, Sane

-----------------------------------------------------------------------------

\* Different calls own different samples.
HandsDiffer == \A r, q \in Holding : hand[r] = hand[q] => r = q

\* The inductive invariant: where each sample is, and that it is there once.
FateInv ==
    /\ Sane(Where, sent)
    /\ IsInjective(pending)
    /\ IsInjective(queue)
    /\ HandsDiffer
    /\ leases \subseteq delivered

LEMMA InHandType == TypeOK => InHand \in SUBSET Sample
BY DEF TypeOK, InHand, Holding

LEMMA WhereValues ==
    ASSUME TypeOK
    PROVE  /\ Where \in Contents
           /\ Where["pending"] = ToSet(pending) /\ Where["queue"] = ToSet(queue)
           /\ Where["hand"] = InHand /\ Where["delivered"] = delivered
           /\ \A reason \in LossReasons : Where[reason] = lost[reason]
<1>1. ToSet(pending) \in SUBSET Sample /\ ToSet(queue) \in SUBSET Sample
  BY ElementsOf DEF TypeOK
<1>2. \A p \in Places :
         p \in {"pending", "queue", "hand", "delivered"} \/ lost[p] \in SUBSET Sample
  BY DEF TypeOK, Places
<1>3. Where \in Contents
  BY <1>1, <1>2, InHandType DEF Where, Contents, TypeOK
<1> QED
  BY <1>3 DEF Where, Places, LossReasons

\* To know where the samples are after a step is to know it for each place.
LEMMA WhereNext ==
    ASSUME NEW C \in Contents,
           C["pending"] = ToSet(pending)', C["queue"] = ToSet(queue)',
           C["hand"] = InHand', C["delivered"] = delivered',
           \A reason \in LossReasons : C[reason] = lost'[reason]
    PROVE  Where' = C
<1>1. ASSUME NEW p \in Places PROVE Where'[p] = C[p]
  BY DEF Where, Places, LossReasons
<1>2. Where' = [p \in Places |-> Where'[p]] /\ C = [p \in Places |-> C[p]]
  BY DEF Where, Contents
<1> QED
  BY <1>1, <1>2

\* The samples in hand when a call takes one, and when it gives up what it has.
LEMMA HandTakes ==
    ASSUME TypeOK, HandsDiffer, NEW r \in Receivers, hand[r] = NoSample,
           NEW s \in Sample, s \notin InHand, hand' = [hand EXCEPT ![r] = s]
    PROVE  InHand' = InHand \cup {s} /\ HandsDiffer'
<1>1. s # NoSample
  BY NoSampleAssumption
<1>2. /\ \A q \in Receivers : hand'[q] = IF q = r THEN s ELSE hand[q]
      /\ Holding' = Holding \cup {r} /\ r \notin Holding
  BY <1>1 DEF Holding, TypeOK
<1>3. Holding \subseteq Receivers
  BY DEF Holding
<1> QED
  BY <1>2, <1>3 DEF InHand, HandsDiffer

LEMMA HandGives ==
    ASSUME TypeOK, HandsDiffer, NEW r \in Receivers, hand' = [hand EXCEPT ![r] = NoSample]
    PROVE  /\ InHand' = InHand \ {hand[r]} /\ HandsDiffer'
           /\ hand[r] # NoSample => hand[r] \in InHand
           /\ hand[r] = NoSample => InHand' = InHand
<1>1. /\ \A q \in Receivers : hand'[q] = IF q = r THEN NoSample ELSE hand[q]
      /\ Holding' = Holding \ {r}
  BY DEF Holding, TypeOK
<1>2. Holding \subseteq Receivers /\ \A q \in Holding : hand[q] # NoSample
  BY DEF Holding
<1>3. hand[r] # NoSample => r \in Holding
  BY DEF Holding
<1> QED
  BY <1>1, <1>2, <1>3 DEF InHand, HandsDiffer

LEMMA HandStays ==
    ASSUME hand' = hand
    PROVE  InHand' = InHand /\ (HandsDiffer => HandsDiffer')
BY DEF InHand, HandsDiffer, Holding

-----------------------------------------------------------------------------
(* The moves that steps make *)

\* No sample moves; at most a lease is dropped.
LEMMA NothingMoves ==
    ASSUME TypeOK, FateInv, UNCHANGED <<sent, pending, queue, hand, lost, delivered>>,
           leases' \subseteq leases
    PROVE  FateInv'
<1>1. Where' = Where
  BY HandStays DEF Where
<1> QED
  BY <1>1, HandStays DEF FateInv, Sane, Apart

\* A call that owns no sample ends.
LEMMA EmptyHandReturns ==
    ASSUME TypeOK, HandOwned, NEW r \in Receivers, pc[r] # "queue",
           NEW result, Return(r, result)
    PROVE  hand' = hand
BY DEF TypeOK, HandOwned, Return

LEMMA PublishMoves ==
    ASSUME TypeOK, FateInv, NEW t \in Topics \cup {Malformed}, Publish(t)
    PROVE  FateInv'
<1> DEFINE s == [id |-> sent + 1, topic |-> t]
<1>1. /\ s \in Sample /\ s.id = sent + 1 /\ sent \in Nat /\ sent' = sent + 1
      /\ hand' = hand /\ queue' = queue /\ delivered' = delivered /\ leases' = leases
      /\ IF subscribed THEN pending' = Append(pending, s) /\ lost' = lost
                       ELSE Lose("unsubscribed", s) /\ pending' = pending
  BY ConstantsAssumption DEF Publish, Sample, TypeOK, call, app
<1> HIDE DEF s
<1>2. InHand' = InHand /\ HandsDiffer'
  BY <1>1, HandStays DEF FateInv
<1>3. "pending" \in Places /\ "unsubscribed" \in Places /\ "unsubscribed" \in LossReasons
  BY DEF Places, LossReasons
<1>4. s \notin ToSet(pending)
  <2>1. \A u \in Where["pending"] : u.id \in 1..sent
    BY <1>3 DEF FateInv, Sane, Apart
  <2> QED
    BY <1>1, <2>1, WhereValues
<1>5. CASE subscribed
  <2> DEFINE C == Put(Where, "pending", s)
  <2>1. ToSet(pending)' = ToSet(pending) \cup {s} /\ IsInjective(pending)'
    <3>1. pending \in Seq(Sample) /\ IsInjective(pending) /\ pending' = Append(pending, s)
      BY <1>1, <1>5 DEF TypeOK, FateInv
    <3>2. /\ ToSet(Append(pending, s)) = ToSet(pending) \cup {s}
          /\ IsInjective(Append(pending, s))
      BY <1>1, <1>4, <3>1, AppendElements
    <3> QED
      BY <3>1, <3>2
  <2>2. C \in Contents /\ Sane(C, sent + 1)
    BY <1>1, <1>3, PutSane, WhereValues DEF FateInv
  <2>3. Where' = C
    <3>1. /\ C["pending"] = ToSet(pending)' /\ C["queue"] = ToSet(queue)'
          /\ C["hand"] = InHand' /\ C["delivered"] = delivered'
          /\ \A reason \in LossReasons : C[reason] = lost'[reason]
      BY <1>1, <1>2, <1>3, <1>5, <2>1, WhereValues DEF Put, Contents, Places, LossReasons
    <3> HIDE DEF C
    <3> QED
      BY <2>2, <3>1, WhereNext
  <2> QED
    BY <1>1, <1>2, <2>1, <2>2, <2>3 DEF FateInv
<1>6. CASE ~subscribed
  <2> DEFINE C == Put(Where, "unsubscribed", s)
  <2>1. ToSet(pending)' = ToSet(pending) /\ IsInjective(pending)'
    BY <1>1, <1>6 DEF FateInv
  <2>2. C \in Contents /\ Sane(C, sent + 1)
    BY <1>1, <1>3, PutSane, WhereValues DEF FateInv
  <2>3. Where' = C
    <3>1. /\ C["pending"] = ToSet(pending)' /\ C["queue"] = ToSet(queue)'
          /\ C["hand"] = InHand' /\ C["delivered"] = delivered'
      BY <1>1, <1>2, <1>3, <2>1, WhereValues DEF Put, Contents, Places, LossReasons
    <3>2. \A reason \in LossReasons : C[reason] = lost'[reason]
      BY <1>1, <1>3, <1>6, WhereValues DEF Put, Contents, Places, Lose, TypeOK
    <3> HIDE DEF C
    <3> QED
      BY <2>2, <3>1, <3>2, WhereNext
  <2> QED
    BY <1>1, <1>2, <2>1, <2>2, <2>3 DEF FateInv
<1> QED
  BY <1>5, <1>6

\* The subscription's first sample goes to the place q.
LEMMA PendingMoves ==
    ASSUME TypeOK, FateInv, pending # <<>>, pending' = Tail(pending),
           UNCHANGED <<sent, queue>>, HandsDiffer', leases' \subseteq delivered',
           NEW q \in Places \ {"pending", "queue"},
           InHand' = IF q = "hand" THEN InHand \cup {Head(pending)} ELSE InHand,
           delivered' = IF q = "delivered" THEN delivered \cup {Head(pending)} ELSE delivered,
           \A reason \in LossReasons :
              lost'[reason] = IF q = reason THEN lost[reason] \cup {Head(pending)}
                                            ELSE lost[reason]
    PROVE  FateInv'
<1> DEFINE s == Head(pending)
           C == Move(Where, "pending", q, s)
<1>1. /\ s \in ToSet(pending) /\ ToSet(pending)' = ToSet(pending) \ {s}
      /\ IsInjective(pending)'
  BY TailElements DEF TypeOK, FateInv
<1>2. "pending" \in Places /\ s \in Where["pending"] /\ sent \in Nat
  BY <1>1, WhereValues, ConstantsAssumption DEF Places, TypeOK
<1>3. C \in Contents /\ Sane(C, sent)
  BY <1>2, MoveSane, WhereValues DEF FateInv
<1>4. Where' = C
  <2>1. /\ C["pending"] = ToSet(pending)' /\ C["queue"] = ToSet(queue)'
        /\ C["hand"] = InHand' /\ C["delivered"] = delivered'
        /\ \A reason \in LossReasons : C[reason] = lost'[reason]
    BY <1>1, WhereValues DEF Move, Contents, Places, LossReasons
  <2> HIDE DEF C
  <2> QED
    BY <1>3, <2>1, WhereNext
<1> QED
  BY <1>1, <1>3, <1>4 DEF FateInv

\* A retained sample is delivered.
LEMMA QueueMoves ==
    ASSUME TypeOK, FateInv, UNCHANGED <<sent, pending, hand, lost>>,
           NEW i \in 1..Len(queue), queue' = RemoveAt(queue, i),
           delivered' = delivered \cup {queue[i]}, leases' \subseteq delivered'
    PROVE  FateInv'
<1> DEFINE s == queue[i]
           C == Move(Where, "queue", "delivered", s)
<1>1. queue \in Seq(Sample) /\ IsInjective(queue)
  BY DEF TypeOK, FateInv
<1>2. /\ s \in ToSet(queue) /\ ToSet(queue)' = ToSet(queue) \ {s}
      /\ IsInjective(queue)'
  BY <1>1, RemoveAtElements, ElementsOf
<1>3. /\ "queue" \in Places /\ "delivered" \in Places /\ s \in Where["queue"]
      /\ sent \in Nat
  BY <1>2, WhereValues, ConstantsAssumption DEF Places, TypeOK
<1>4. C \in Contents /\ Sane(C, sent)
  BY <1>3, MoveSane, WhereValues DEF FateInv
<1>5. InHand' = InHand /\ HandsDiffer'
  BY HandStays DEF FateInv
<1>6. Where' = C
  <2>1. /\ C["pending"] = ToSet(pending)' /\ C["queue"] = ToSet(queue)'
        /\ C["hand"] = InHand' /\ C["delivered"] = delivered'
        /\ \A reason \in LossReasons : C[reason] = lost'[reason]
    BY <1>2, <1>5, WhereValues DEF Move, Contents, Places, LossReasons
  <2> HIDE DEF C
  <2> QED
    BY <1>4, <2>1, WhereNext
<1> QED
  BY <1>2, <1>4, <1>5, <1>6 DEF FateInv

\* A call gives up the sample it owns, which is lost.
LEMMA HandLoses ==
    ASSUME TypeOK, FateInv, UNCHANGED <<sent, pending, queue, leases, delivered>>,
           NEW r \in Receivers, hand[r] # NoSample, hand' = [hand EXCEPT ![r] = NoSample],
           NEW reason \in LossReasons, Lose(reason, hand[r])
    PROVE  FateInv'
<1> DEFINE s == hand[r]
           C == Move(Where, "hand", reason, s)
<1>1. InHand' = InHand \ {s} /\ s \in InHand /\ HandsDiffer'
  BY HandGives DEF FateInv
<1>2. /\ "hand" \in Places /\ reason \in Places /\ "hand" # reason
      /\ s \in Where["hand"] /\ sent \in Nat
  BY <1>1, WhereValues, ConstantsAssumption DEF Places, LossReasons, TypeOK
<1>3. C \in Contents /\ Sane(C, sent)
  BY <1>2, MoveSane, WhereValues DEF FateInv
<1>4. Where' = C
  <2>1. /\ C["pending"] = ToSet(pending)' /\ C["queue"] = ToSet(queue)'
        /\ C["hand"] = InHand' /\ C["delivered"] = delivered'
    BY <1>1, WhereValues DEF Move, Contents, Places, LossReasons
  <2>2. \A q \in LossReasons : C[q] = lost'[q]
    BY WhereValues DEF Move, Contents, Places, LossReasons, Lose, TypeOK
  <2> HIDE DEF C
  <2> QED
    BY <1>3, <2>1, <2>2, WhereNext
<1> QED
  BY <1>1, <1>3, <1>4 DEF FateInv

\* A call retains the sample it owns; at a full queue the oldest makes room.
LEMMA HandRetains ==
    ASSUME TypeOK, FateInv, UNCHANGED <<sent, pending, leases, delivered, lost>>,
           NEW r \in Receivers, hand[r] # NoSample, hand' = [hand EXCEPT ![r] = NoSample],
           queue' = Append(queue, hand[r])
    PROVE  FateInv'
<1> DEFINE s == hand[r]
           C == Move(Where, "hand", "queue", s)
<1>1. InHand' = InHand \ {s} /\ s \in InHand /\ HandsDiffer'
  BY HandGives DEF FateInv
<1>2. /\ "hand" \in Places /\ "queue" \in Places
      /\ s \in Where["hand"] /\ sent \in Nat
  BY <1>1, WhereValues, ConstantsAssumption DEF Places, TypeOK
<1>3. C \in Contents /\ Sane(C, sent)
  BY <1>2, MoveSane, WhereValues DEF FateInv
<1>4. ToSet(queue)' = ToSet(queue) \cup {s} /\ IsInjective(queue)'
  <2>1. s \notin Where["queue"]
    BY <1>2 DEF FateInv, Sane, Apart
  <2>2. queue \in Seq(Sample) /\ IsInjective(queue) /\ s \in Sample /\ s \notin ToSet(queue)
    BY <1>1, <2>1, WhereValues, InHandType DEF TypeOK, FateInv
  <2> QED
    BY <2>2, AppendElements
<1>5. Where' = C
  <2>1. /\ C["pending"] = ToSet(pending)' /\ C["queue"] = ToSet(queue)'
        /\ C["hand"] = InHand' /\ C["delivered"] = delivered'
        /\ \A reason \in LossReasons : C[reason] = lost'[reason]
    BY <1>1, <1>4, WhereValues DEF Move, Contents, Places, LossReasons
  <2> HIDE DEF C
  <2> QED
    BY <1>3, <2>1, WhereNext
<1> QED
  BY <1>1, <1>3, <1>4, <1>5 DEF FateInv

LEMMA HandReplaces ==
    ASSUME TypeOK, FateInv, UNCHANGED <<sent, pending, leases, delivered>>,
           NEW r \in Receivers, hand[r] # NoSample, hand' = [hand EXCEPT ![r] = NoSample],
           queue # <<>>, queue' = Append(Tail(queue), hand[r]),
           Lose("dropped", Head(queue))
    PROVE  FateInv'
<1> DEFINE s == hand[r]
           h == Head(queue)
           B == Move(Where, "queue", "dropped", h)
           C == Move(B, "hand", "queue", s)
<1>1. InHand' = InHand \ {s} /\ s \in InHand /\ HandsDiffer'
  BY HandGives DEF FateInv
<1>2. /\ queue \in Seq(Sample) /\ IsInjective(queue) /\ Tail(queue) \in Seq(Sample)
      /\ h \in ToSet(queue) /\ ToSet(Tail(queue)) = ToSet(queue) \ {h}
      /\ IsInjective(Tail(queue)) /\ s \in Sample
  BY <1>1, TailElements, HeadTailProperties, InHandType DEF TypeOK, FateInv
<1>3. /\ "hand" \in Places /\ "queue" \in Places /\ "dropped" \in Places
      /\ "dropped" \in LossReasons /\ sent \in Nat
      /\ s \in Where["hand"] /\ h \in Where["queue"] /\ s \notin Where["queue"]
  <2>1. "hand" \in Places /\ "queue" \in Places /\ "dropped" \in Places
    BY DEF Places, LossReasons
  <2>2. s \in Where["hand"] /\ h \in Where["queue"]
    BY <1>1, <1>2, WhereValues
  <2> QED
    BY <2>1, <2>2, ConstantsAssumption DEF FateInv, Sane, Apart, TypeOK, LossReasons
<1>4. B \in Contents /\ Sane(B, sent)
  BY <1>3, MoveSane, WhereValues DEF FateInv
<1>5. s \in B["hand"]
  BY <1>3, WhereValues DEF Move, Contents
<1>6. C \in Contents /\ Sane(C, sent)
  <2> HIDE DEF B
  <2> QED
    BY <1>3, <1>4, <1>5, MoveSane
<1>7. ToSet(queue)' = (ToSet(queue) \ {h}) \cup {s} /\ IsInjective(queue)'
  <2>1. s \notin ToSet(Tail(queue))
    BY <1>2, <1>3, WhereValues
  <2> DEFINE t == Tail(queue)
  <2>3. t \in Seq(Sample) /\ IsInjective(t) /\ s \in Sample /\ s \notin ToSet(t)
    BY <1>2, <2>1
  <2> HIDE DEF t, s
  <2>4. /\ ToSet(Append(t, s)) = ToSet(t) \cup {s}
        /\ IsInjective(Append(t, s))
    BY <2>3, AppendElements
  <2>2. /\ ToSet(Append(Tail(queue), s)) = ToSet(Tail(queue)) \cup {s}
        /\ IsInjective(Append(Tail(queue), s))
    BY <2>4 DEF t
  <2> QED
    BY <1>2, <2>2 DEF s
<1>8. Where' = C
  <2>1. /\ C["pending"] = ToSet(pending)' /\ C["queue"] = ToSet(queue)'
        /\ C["hand"] = InHand' /\ C["delivered"] = delivered'
    BY <1>1, <1>3, <1>7, WhereValues DEF Move, Contents, Places, LossReasons
  <2>2. \A reason \in LossReasons : C[reason] = lost'[reason]
    BY <1>3, WhereValues DEF Move, Contents, Places, LossReasons, Lose, TypeOK
  <2> HIDE DEF C
  <2> QED
    BY <1>6, <2>1, <2>2, WhereNext
<1> QED
  BY <1>1, <1>6, <1>7, <1>8 DEF FateInv

-----------------------------------------------------------------------------

LEMMA InitFate == Init => FateInv
<1> SUFFICES ASSUME Init PROVE FateInv
  OBVIOUS
<1>1. ToSet(pending) = {} /\ ToSet(queue) = {} /\ IsInjective(pending) /\ IsInjective(queue)
  BY EmptyElements DEF Init
<1>2. Holding = {} /\ InHand = {}
  BY DEF Init, Holding, InHand
<1>3. \A p \in Places : Where[p] = {}
  BY <1>1, <1>2 DEF Init, Where, Places
<1> QED
  BY <1>1, <1>2, <1>3 DEF Init, FateInv, Sane, Apart, HandsDiffer

\* Every step keeps each sample in one place.
LEMMA NextFate == TypeOK /\ HandOwned /\ FateInv /\ [Next]_vars => FateInv'
<1> SUFFICES ASSUME TypeOK, HandOwned, FateInv, [Next]_vars PROVE FateInv'
  OBVIOUS
<1> USE DEF call, app, diagnostics
<1>1. ASSUME NEW t \in Topics \cup {Malformed}, Publish(t) PROVE FateInv'
  BY <1>1, PublishMoves
<1>2. ASSUME \/ \E r \in Receivers, f \in Filter : Call(r, f)
             \/ \E r \in Receivers : PopNothing(r) \/ Subscribe(r)
             \/ \E s \in leases : DropLease(s)
             \/ UNCHANGED vars
      PROVE  FateInv'
  BY <1>2, NothingMoves DEF Call, PopNothing, Subscribe, DropLease, vars
<1>3. ASSUME NEW r \in Receivers,
             \/ SubscribeFails(r) \/ ReceiveNothing(r)
             \/ ReceiveFails(r) /\ UNCHANGED <<pending, lost>>
      PROVE  FateInv'
  <2>1. pc[r] # "queue" /\ \E result : Return(r, result)
    BY <1>3 DEF SubscribeFails, ReceiveFails, ReceiveNothing, TakeNext, HasSubscriber
  <2>2. hand' = hand
    BY <2>1, EmptyHandReturns
  <2> QED
    BY <1>3, <2>2, NothingMoves DEF SubscribeFails, ReceiveFails, ReceiveNothing
<1>4. ASSUME NEW r \in Receivers, HasSubscriber(r), pending # <<>>, NEW reason \in LossReasons,
             NEW result, Return(r, result), pending' = Tail(pending),
             Lose(reason, Head(pending)), UNCHANGED <<sent, queue, app>>
      PROVE  FateInv'
  <2>1. hand' = hand
    BY <1>4, EmptyHandReturns DEF HasSubscriber
  <2>2. reason \in Places \ {"pending", "queue", "hand", "delivered"}
    BY DEF Places, LossReasons
  <2>3. \A other \in LossReasons :
           lost'[other] = IF reason = other THEN lost[other] \cup {Head(pending)} ELSE lost[other]
    BY <1>4 DEF Lose, TypeOK
  <2>4. InHand' = InHand /\ HandsDiffer'
    BY <2>1, HandStays DEF FateInv
  <2> QED
    BY <1>4, <2>2, <2>3, <2>4, PendingMoves DEF FateInv
<1>5. ASSUME NEW r \in Receivers, ReceiveAtLimit(r) PROVE FateInv'
  <2>1. CASE Return(r, "INTERNAL") /\ UNCHANGED <<pending, lost>>
    <3>1. hand' = hand
      BY <1>5, <2>1, EmptyHandReturns DEF ReceiveAtLimit, HasSubscriber
    <3> QED
      BY <1>5, <2>1, <3>1, NothingMoves DEF ReceiveAtLimit
  <2>2. CASE /\ pending' = Tail(pending) /\ Lose("exhausted", Head(pending))
             /\ Return(r, "RESOURCE_EXHAUSTED")
    BY <1>4, <1>5, <2>2, Reasons DEF ReceiveAtLimit
  <2> QED
    BY <1>5, <2>1, <2>2 DEF ReceiveAtLimit
<1>6. ASSUME NEW r \in Receivers, ReceiveInvalid(r) \/ ReceiveFails(r) PROVE FateInv'
  <2>1. CASE ReceiveInvalid(r)
    BY <1>4, <2>1, Reasons DEF ReceiveInvalid, TakeNext
  <2>2. CASE TakeNext(r) /\ Lose("unreadable", Head(pending)) /\ ReceiveFails(r)
    BY <1>4, <2>2, Reasons DEF ReceiveFails, TakeNext
  <2> QED
    BY <1>3, <1>6, <2>1, <2>2 DEF ReceiveFails
<1>7. ASSUME NEW r \in Receivers, ReceiveMatch(r) PROVE FateInv'
  <2>1. hand' = hand
    BY <1>7, EmptyHandReturns DEF ReceiveMatch, TakeNext, HasSubscriber, Deliver
  <2>2. InHand' = InHand /\ HandsDiffer'
    BY <2>1, HandStays DEF FateInv
  <2>3. /\ pending # <<>> /\ pending' = Tail(pending) /\ UNCHANGED <<sent, queue, lost>>
        /\ delivered' = delivered \cup {Head(pending)}
        /\ leases' = leases \cup {Head(pending)}
    BY <1>7 DEF ReceiveMatch, TakeNext, Deliver
  <2>4. "delivered" \in Places \ {"pending", "queue"} /\ "delivered" \notin LossReasons
    BY DEF Places, LossReasons
  <2>5. leases' \subseteq delivered'
    BY <2>3 DEF FateInv
  <2> QED
    BY <2>2, <2>3, <2>4, <2>5, PendingMoves
<1>8. ASSUME NEW r \in Receivers, ReceiveMismatch(r) PROVE FateInv'
  <2> DEFINE s == Head(pending)
  <2>1. /\ pending # <<>> /\ pending' = Tail(pending)
        /\ UNCHANGED <<sent, queue, lost, leases, delivered>>
        /\ hand' = [hand EXCEPT ![r] = s] /\ hand[r] = NoSample
    BY <1>8 DEF ReceiveMismatch, TakeNext, HasSubscriber, HandOwned
  <2>2. "hand" \in Places \ {"pending", "queue"} /\ "hand" \notin LossReasons
        /\ "pending" \in Places
    BY DEF Places, LossReasons
  <2>3. s \in Sample /\ s \in ToSet(pending)
    BY <2>1, HeadTailProperties, TailElements DEF TypeOK
  <2>4. s \notin InHand
    BY <2>2, <2>3, WhereValues DEF FateInv, Sane, Apart
  <2>5. InHand' = InHand \cup {s} /\ HandsDiffer'
    BY <2>1, <2>3, <2>4, HandTakes DEF FateInv
  <2>6. leases' \subseteq delivered'
    BY <2>1 DEF FateInv
  <2> QED
    BY <2>1, <2>2, <2>5, <2>6, PendingMoves
<1>9. ASSUME NEW r \in Receivers, PopQueued(r) PROVE FateInv'
  <2>1. PICK i \in 1..Len(queue) : queue' = RemoveAt(queue, i) /\ Deliver(r, queue[i])
    BY <1>9 DEF PopQueued
  <2>2. hand' = hand
    BY <1>9, <2>1, EmptyHandReturns DEF PopQueued, Deliver
  <2>3. /\ UNCHANGED <<sent, pending, lost>> /\ delivered' = delivered \cup {queue[i]}
        /\ leases' \subseteq delivered'
    BY <1>9, <2>1 DEF PopQueued, Deliver, FateInv
  <2> QED
    BY <2>1, <2>2, <2>3, QueueMoves
<1>10. ASSUME NEW r \in Receivers,
              QueueDisabled(r) \/ QueueRetain(r) \/ QueueDropOldest(r) \/ QueueReject(r)
       PROVE  FateInv'
  <2>1. hand[r] # NoSample /\ hand' = [hand EXCEPT ![r] = NoSample]
    BY <1>10 DEF QueueDisabled, QueueRetain, QueueDropOldest, QueueReject, HandOwned,
                 Retry, Return
  <2>2. CASE QueueDisabled(r)
    BY <2>1, <2>2, HandLoses, Reasons DEF QueueDisabled
  <2>3. CASE QueueRetain(r)
    BY <2>1, <2>3, HandRetains DEF QueueRetain
  <2>4. CASE QueueDropOldest(r)
    <3>1. queue # <<>>
      BY <2>4, ConstantsAssumption, EmptySeq DEF QueueDropOldest, IsFull
    <3> QED
      BY <2>1, <2>4, <3>1, HandReplaces DEF QueueDropOldest
  <2>5. CASE QueueReject(r)
    BY <2>1, <2>5, HandLoses, Reasons DEF QueueReject
  <2> QED
    BY <1>10, <2>2, <2>3, <2>4, <2>5
<1>11. ASSUME NEW r \in Receivers, Cancel(r) PROVE FateInv'
  <2>1. hand' = [hand EXCEPT ![r] = NoSample]
    BY <1>11 DEF Cancel, Return
  <2>2. CASE hand[r] = NoSample
    <3>1. hand' = hand
      BY <2>1, <2>2 DEF TypeOK
    <3> QED
      BY <1>11, <2>2, <3>1, NothingMoves DEF Cancel
  <2>3. CASE hand[r] # NoSample
    BY <1>11, <2>1, <2>3, HandLoses, Reasons DEF Cancel
  <2> QED
    BY <2>2, <2>3
<1> QED
  BY <1>1, <1>2, <1>3, <1>5, <1>6, <1>7, <1>8, <1>9, <1>10, <1>11 DEF Next, CallStep

FullInv == PoolInv /\ FateInv

LEMMA FullInductive ==
    /\ Init => FullInv
    /\ FullInv /\ [Next]_vars => FullInv'
BY InitPool, NextPool, InitFate, NextFate DEF FullInv, PoolInv

\* The place of a sample is its only fate.
LEMMA OneFate == TypeOK /\ FateInv => EachSampleHasOneFate
<1> SUFFICES ASSUME TypeOK, FateInv PROVE EachSampleHasOneFate
  OBVIOUS
<1>1. ASSUME NEW n \in 1..sent PROVE Cardinality(Fates(n)) = 1
  <2>1. Fates(n) = {p \in Places : \E s \in Where[p] : s.id = n}
    <3>1. \A p : p \in Fates(n) <=> p \in Places /\ \E s \in Where[p] : s.id = n
      BY WhereValues DEF Fates, Places, InHand, LossReasons
    <3> QED
      BY <3>1
  <2>2. PICK p \in Places : \E s \in Where[p] : s.id = n
    BY DEF FateInv, Sane, Apart
  <2>3. Fates(n) = {p}
    BY <2>1, <2>2 DEF FateInv, Sane, Apart
  <2> QED
    BY <2>3, FS_Singleton
<1> QED
  BY <1>1 DEF FateInv, HandsDiffer, EachSampleHasOneFate

\* Each published sample is in exactly one place, and there once, for every number
\* of tasks, samples and slots, however calls interleave, fail or are cancelled: in
\* the subscription, retained, in the hands of one call, delivered, or lost for
\* one reason.  (receive_validated_zero_copy and what it calls.)
THEOREM FatesAreUnique == Spec => []EachSampleHasOneFate
<1>1. FullInv => EachSampleHasOneFate
  BY OneFate DEF FullInv, PoolInv
<1> QED
  BY <1>1, FullInductive, PTL DEF Spec

-----------------------------------------------------------------------------
(* The counters and the pool *)

\* Counting one more lost sample keeps a counter exact.
LEMMA CountOne ==
    ASSUME NEW S, IsFiniteSet(S), NEW s, s \notin S
    PROVE  /\ IsFiniteSet(S \cup {s})
           /\ SaturatingInc(Saturated(Cardinality(S))) = Saturated(Cardinality(S \cup {s}))
<1>1. /\ IsFiniteSet(S \cup {s}) /\ Cardinality(S \cup {s}) = Cardinality(S) + 1
      /\ Cardinality(S) \in Nat
  BY FS_AddElement, FS_CardinalityType
<1> QED
  BY <1>1, ConstantsAssumption DEF SaturatingInc, Saturated

CountersExact ==
    /\ IsFiniteSet(lost["dropped"]) /\ IsFiniteSet(lost["rejected"])
    /\ dropped = Saturated(Cardinality(lost["dropped"]))
    /\ rejected = Saturated(Cardinality(lost["rejected"]))

\* A sample in hand or retained is not counted yet.
LEMMA NotLostYet ==
    ASSUME TypeOK, FateInv, NEW s \in InHand \cup ToSet(queue), NEW reason \in LossReasons
    PROVE  s \notin lost[reason]
<1>1. /\ "hand" \in Places /\ "queue" \in Places /\ reason \in Places
      /\ reason # "hand" /\ reason # "queue"
  BY DEF Places, LossReasons
<1> QED
  BY <1>1, WhereValues DEF FateInv, Sane, Apart

\* A step that drops or rejects a sample counts it; the others do neither.
LEMMA NextCounters ==
    TypeOK /\ HandOwned /\ FateInv /\ CountersExact /\ [Next]_vars => CountersExact'
<1> SUFFICES ASSUME TypeOK, HandOwned, FateInv, CountersExact, [Next]_vars
             PROVE  CountersExact'
  OBVIOUS
<1> USE DEF diagnostics
<1>0. "dropped" \in LossReasons /\ "rejected" \in LossReasons
  BY DEF LossReasons
<1>1. ASSUME NEW s, s \notin lost["dropped"], Lose("dropped", s),
             dropped' = SaturatingInc(dropped), rejected' = rejected
      PROVE  CountersExact'
  <2>1. lost'["dropped"] = lost["dropped"] \cup {s} /\ lost'["rejected"] = lost["rejected"]
    BY <1>0, <1>1 DEF Lose, TypeOK
  <2>2. /\ IsFiniteSet(lost["dropped"] \cup {s})
        /\ SaturatingInc(dropped) = Saturated(Cardinality(lost["dropped"] \cup {s}))
    BY <1>1, CountOne DEF CountersExact
  <2> QED
    BY <1>1, <2>1, <2>2 DEF CountersExact
<1>2. ASSUME NEW s, s \notin lost["rejected"], Lose("rejected", s),
             rejected' = SaturatingInc(rejected), dropped' = dropped
      PROVE  CountersExact'
  <2>1. lost'["rejected"] = lost["rejected"] \cup {s} /\ lost'["dropped"] = lost["dropped"]
    BY <1>0, <1>2 DEF Lose, TypeOK
  <2>2. /\ IsFiniteSet(lost["rejected"] \cup {s})
        /\ SaturatingInc(rejected) = Saturated(Cardinality(lost["rejected"] \cup {s}))
    BY <1>2, CountOne DEF CountersExact
  <2> QED
    BY <1>2, <2>1, <2>2 DEF CountersExact
<1>3. ASSUME UNCHANGED <<dropped, rejected>>,
             \/ lost' = lost
             \/ \E reason \in LossReasons \ {"dropped", "rejected"} : \E s : Lose(reason, s)
      PROVE  CountersExact'
  <2>1. lost'["dropped"] = lost["dropped"] /\ lost'["rejected"] = lost["rejected"]
    BY <1>0, <1>3 DEF Lose, TypeOK
  <2> QED
    BY <1>3, <2>1 DEF CountersExact
<1>4. ASSUME NEW r \in Receivers,
             QueueDisabled(r) \/ QueueRetain(r) \/ QueueDropOldest(r) \/ QueueReject(r)
      PROVE  CountersExact'
  <2>1. hand[r] \in InHand
    BY <1>4 DEF QueueDisabled, QueueRetain, QueueDropOldest, QueueReject, HandOwned,
                InHand, Holding
  <2>2. CASE QueueDisabled(r)
    BY <1>0, <1>1, <2>1, <2>2, NotLostYet DEF QueueDisabled
  <2>3. CASE QueueRetain(r)
    BY <1>3, <2>3 DEF QueueRetain
  <2>4. CASE QueueDropOldest(r)
    <3>1. queue # <<>>
      BY <2>4, ConstantsAssumption, EmptySeq DEF QueueDropOldest, IsFull
    <3>2. Head(queue) \in ToSet(queue)
      BY <3>1, TailElements DEF TypeOK
    <3> QED
      BY <1>0, <1>1, <2>4, <3>2, NotLostYet DEF QueueDropOldest
  <2>5. CASE QueueReject(r)
    BY <1>0, <1>2, <2>1, <2>5, NotLostYet DEF QueueReject
  <2> QED
    BY <1>4, <2>2, <2>3, <2>4, <2>5
<1>5. ASSUME NEW r \in Receivers,
             \/ PopQueued(r) \/ PopNothing(r) \/ Subscribe(r) \/ SubscribeFails(r)
             \/ ReceiveFails(r) \/ ReceiveNothing(r) \/ ReceiveAtLimit(r)
             \/ ReceiveInvalid(r) \/ ReceiveMatch(r) \/ ReceiveMismatch(r) \/ Cancel(r)
      PROVE  CountersExact'
  BY <1>3, <1>5 DEF LossReasons, PopQueued, PopNothing, Subscribe, SubscribeFails,
         ReceiveFails, ReceiveNothing, ReceiveAtLimit, ReceiveInvalid, ReceiveMatch,
         ReceiveMismatch, Cancel
<1>6. ASSUME \/ \E t \in Topics \cup {Malformed} : Publish(t)
             \/ \E r \in Receivers, f \in Filter : Call(r, f)
             \/ \E s \in leases : DropLease(s)
             \/ UNCHANGED vars
      PROVE  CountersExact'
  BY <1>3, <1>6 DEF LossReasons, Publish, Call, DropLease, vars
<1> QED
  BY <1>4, <1>5, <1>6 DEF Next, CallStep

\* pull_mismatch_queue_diagnostics always tells how many samples were dropped and
\* how many rejected, up to saturation, and the queue keeps to its capacity: for
\* every capacity, policy, and number of tasks.  Nothing is counted twice because a
\* sample about to be counted is in no other place.  (queue_pull_sample.)
THEOREM CountersTellTheTruth == Spec => []DiagnosticsAreExact
<1>1. Init => CountersExact
  BY FS_EmptySet, ConstantsAssumption DEF Init, CountersExact, LossReasons, Saturated
<1>2. FullInv /\ CountersExact /\ [Next]_vars => CountersExact'
  BY NextCounters DEF FullInv, PoolInv
<1>3. FullInv /\ CountersExact => DiagnosticsAreExact
  BY DEF FullInv, PoolInv, DepthBounded, CountersExact, DiagnosticsAreExact
<1> QED
  BY <1>1, <1>2, <1>3, FullInductive, PTL DEF Spec

-----------------------------------------------------------------------------
(* Properties of steps *)

\* A call that ends with OK was given one sample, which it had asked for and which
\* no call had been given before: whatever the other calls do between the search
\* of the queue and the receive.  (receive_validated_zero_copy.)
THEOREM DeliveriesMatch == Spec => DeliveryMatchesFilter
<1> DEFINE Match == \A r \in Receivers :
              (pc[r] # "idle" /\ pc'[r] = "idle" /\ status'[r] = "OK")
                => \E s \in Sample :
                      /\ delivered' \ delivered = {s}
                      /\ s \in leases'
                      /\ Matches(s, filter[r])
<1>1. ASSUME FullInv, [Next]_vars PROVE [Match]_vars
  <2> SUFFICES ASSUME NEW r \in Receivers, pc[r] # "idle", pc'[r] = "idle", status'[r] = "OK"
               PROVE  \E s \in Sample :
                         /\ delivered' \ delivered = {s}
                         /\ s \in leases'
                         /\ Matches(s, filter[r])
    OBVIOUS
  <2>0. TypeOK /\ FateInv /\ "pending" \in Places /\ "queue" \in Places /\ "delivered" \in Places
    BY <1>1 DEF FullInv, PoolInv, Places
  <2>1. ASSUME NEW q \in Receivers, q # r, CallStep(q) \/ Cancel(q) PROVE pc'[r] = pc[r]
    BY <2>0, <2>1 DEF CallStep, Cancel, PopQueued, PopNothing, Subscribe, SubscribeFails,
         ReceiveFails, ReceiveNothing, ReceiveAtLimit, ReceiveInvalid, ReceiveMatch,
         ReceiveMismatch, QueueDisabled, QueueRetain, QueueDropOldest, QueueReject,
         Deliver, Return, Retry, TypeOK
  <2>2. ASSUME \/ \E t \in Topics \cup {Malformed} : Publish(t)
               \/ \E s \in leases : DropLease(s)
               \/ \E q \in Receivers, f \in Filter : Call(q, f)
               \/ UNCHANGED vars
        PROVE  pc'[r] # "idle"
    BY <2>0, <2>2 DEF Publish, DropLease, Call, vars, call, TypeOK
  <2>3. CallStep(r)
    <3>1. Cancel(r) => status'[r] # "OK"
      BY <2>0 DEF Cancel, Return, TypeOK
    <3> QED
      BY <1>1, <2>1, <2>2, <3>1 DEF Next
  <2>4. PopQueued(r) \/ ReceiveMatch(r)
    BY <2>0, <2>3 DEF CallStep, PopNothing, Subscribe, SubscribeFails,
         ReceiveFails, ReceiveNothing, ReceiveAtLimit, ReceiveInvalid,
         ReceiveMismatch, QueueDisabled, QueueRetain, QueueDropOldest, QueueReject,
         Return, Retry, TypeOK
  <2>5. ASSUME NEW s \in ToSet(queue) \cup ToSet(pending) PROVE s \in Sample /\ s \notin delivered
    BY <2>0, WhereValues, ElementsOf DEF FateInv, Sane, Apart, TypeOK
  <2>6. CASE PopQueued(r)
    <3>1. PICK i \in 1..Len(queue) : IsFirstMatch(i, filter[r]) /\ Deliver(r, queue[i])
      BY <2>6 DEF PopQueued
    <3>2. queue[i] \in Sample /\ queue[i] \notin delivered
      BY <2>0, <2>5, ElementsOf DEF TypeOK
    <3> QED
      BY <3>1, <3>2 DEF Deliver, IsFirstMatch
  <2>7. CASE ReceiveMatch(r)
    <3>1. Head(pending) \in ToSet(pending)
      BY <2>0, <2>7, TailElements DEF ReceiveMatch, TakeNext, TypeOK
    <3> QED
      BY <2>5, <2>7, <3>1 DEF ReceiveMatch, Deliver
  <2> QED
    BY <2>4, <2>6, <2>7
<1> QED
  BY <1>1, FullInductive, PTL DEF Spec, DeliveryMatchesFilter

LEMMA AppendSample ==
    \A q \in Seq(Sample), s \in Sample : ToSet(Append(q, s)) = ToSet(q) \cup {s}
BY AppendElements

\* A retained sample leaves the queue delivered, or as the oldest of a full queue.
\* (pop_queued_pull_sample, queue_pull_sample.)
THEOREM LossesAreOldest == Spec => RetainedLossIsOldest
<1> DEFINE Oldest == \A s \in ToSet(queue) \ ToSet(queue') :
              \/ s \in delivered' \ delivered
              \/ /\ Policy = "DropOldestAndReport"
                 /\ Len(queue) = Capacity
                 /\ s = Head(queue)
                 /\ dropped' = SaturatingInc(dropped)
<1>1. ASSUME FullInv, [Next]_vars PROVE [Oldest]_vars
  <2>0. /\ TypeOK /\ FateInv /\ HandOwned /\ queue \in Seq(Sample) /\ IsInjective(queue)
        /\ Len(queue) \in Nat /\ Capacity \in Nat /\ Len(queue) <= Capacity
    BY <1>1, LenProperties, ConstantsAssumption
       DEF FullInv, PoolInv, DepthBounded, FateInv, TypeOK
  <2> SUFFICES ASSUME NEW s \in ToSet(queue), s \notin ToSet(queue')
               PROVE  \/ s \in delivered' \ delivered
                      \/ /\ Policy = "DropOldestAndReport"
                         /\ Len(queue) = Capacity
                         /\ s = Head(queue)
                         /\ dropped' = SaturatingInc(dropped)
    OBVIOUS
  <2>1. ASSUME NEW r \in Receivers, PopQueued(r) PROVE s \in delivered' \ delivered
    <3>1. PICK i \in 1..Len(queue) : queue' = RemoveAt(queue, i) /\ Deliver(r, queue[i])
      BY <2>1 DEF PopQueued
    <3>2. ToSet(queue') = ToSet(queue) \ {queue[i]}
      BY <2>0, <3>1, RemoveAtElements
    <3>3. s \notin delivered
      <4>1. "queue" \in Places /\ "delivered" \in Places
        BY DEF Places
      <4> QED
        BY <2>0, <4>1, WhereValues DEF FateInv, Sane, Apart
    <3> QED
      BY <3>1, <3>2, <3>3 DEF Deliver
  <2>2. ASSUME NEW r \in Receivers, QueueRetain(r) PROVE FALSE
    <3>1. hand[r] \in Sample
      BY <2>0, <2>2 DEF QueueRetain, HandOwned, TypeOK
    <3> QED
      BY <2>0, <2>2, <3>1, AppendElements DEF QueueRetain
  <2>3. ASSUME NEW r \in Receivers, QueueDropOldest(r)
        PROVE  /\ Policy = "DropOldestAndReport" /\ Len(queue) = Capacity
               /\ s = Head(queue) /\ dropped' = SaturatingInc(dropped)
    <3>1. /\ Policy = "DropOldestAndReport" /\ Len(queue) = Capacity /\ queue # <<>>
          /\ queue' = Append(Tail(queue), hand[r]) /\ dropped' = SaturatingInc(dropped)
      BY <2>0, <2>3, EmptySeq DEF QueueDropOldest, IsFull
    <3>2. hand[r] \in Sample /\ Tail(queue) \in Seq(Sample)
      BY <2>0, <2>3, <3>1, HeadTailProperties DEF QueueDropOldest, HandOwned, TypeOK
    <3>3. ToSet(Append(Tail(queue), hand[r])) = ToSet(Tail(queue)) \cup {hand[r]}
      BY <3>2, AppendSample
    <3>4. ToSet(Tail(queue)) = ToSet(queue) \ {Head(queue)}
      BY <2>0, <3>1, TailElements
    <3> QED
      BY <3>1, <3>3, <3>4
  <2>4. \/ queue' = queue
        \/ \E r \in Receivers : PopQueued(r) \/ QueueRetain(r) \/ QueueDropOldest(r)
    BY <1>1 DEF Next, CallStep, vars, Publish, Call, PopNothing, Subscribe, SubscribeFails,
         ReceiveFails, ReceiveNothing, ReceiveAtLimit, ReceiveInvalid, ReceiveMatch,
         ReceiveMismatch, QueueDisabled, QueueReject, Cancel, DropLease
  <2> QED
    BY <2>1, <2>2, <2>3, <2>4
<1> QED
  BY <1>1, FullInductive, PTL DEF Spec, RetainedLossIsOldest

-----------------------------------------------------------------------------
(* The pull path implements ReceiveContract *)

\* The contract's variables, as Contract instantiates them.
Gone == UNION {lost[reason] : reason \in LossReasons}
Asking == [r \in Receivers |-> IF pc[r] = "idle" THEN {} ELSE {filter[r]}]

\* What is in the box, what was returned and what is gone have nothing in common,
\* and nor have the parts of the box.
LEMMA PlacesDisjoint ==
    ASSUME TypeOK, FateInv
    PROVE  /\ Box = ToSet(pending) \cup ToSet(queue) \cup InHand
           /\ Box \in SUBSET Sample
           /\ \A s \in Box \cup delivered \cup Gone : s.id \in 1..sent
           /\ ToSet(pending) \cap ToSet(queue) = {}
           /\ ToSet(pending) \cap InHand = {}
           /\ ToSet(queue) \cap InHand = {}
<1>1. Box = ToSet(pending) \cup ToSet(queue) \cup InHand
  BY DEF Box, InHand
<1>2. ToSet(pending) \in SUBSET Sample /\ ToSet(queue) \in SUBSET Sample
  BY ElementsOf DEF TypeOK
<1>3. /\ "pending" \in Places /\ "queue" \in Places /\ "hand" \in Places
      /\ "delivered" \in Places /\ LossReasons \subseteq Places
  BY DEF Places
<1>4. \A s \in Gone : \E p \in Places : s \in Where[p]
  BY <1>3, WhereValues DEF Gone
<1>5. \A s \in Box \cup delivered : \E p \in Places : s \in Where[p]
  BY <1>1, <1>3, WhereValues
<1>6. \A s \in Box \cup delivered \cup Gone : s.id \in 1..sent
  BY <1>4, <1>5 DEF FateInv, Sane, Apart
<1>7. \A p, q \in Places : p # q => Where[p] \cap Where[q] = {}
  BY DEF FateInv, Sane, Apart
<1>8. /\ ToSet(pending) \cap ToSet(queue) = {}
      /\ ToSet(pending) \cap InHand = {} /\ ToSet(queue) \cap InHand = {}
  BY <1>3, <1>7, WhereValues
<1> QED
  BY <1>1, <1>2, <1>6, <1>8, InHandType

LEMMA LoseGone ==
    ASSUME TypeOK, NEW reason \in LossReasons, NEW s, Lose(reason, s)
    PROVE  Gone' = Gone \cup {s}
<1>1. \A q \in LossReasons : lost'[q] = IF q = reason THEN lost[q] \cup {s} ELSE lost[q]
  BY DEF Lose, TypeOK
<1> QED
  BY <1>1 DEF Gone

LEMMA ReturnAsking ==
    ASSUME TypeOK, NEW r \in Receivers, pc[r] # "idle", NEW result, Return(r, result)
    PROVE  Asking' = [Asking EXCEPT ![r] = {}] /\ Asking[r] = {filter[r]}
BY DEF TypeOK, Return, Asking

\* A call that goes on keeps asking for what it asked for.
LEMMA AskingStays ==
    ASSUME TypeOK, NEW r \in Receivers, pc[r] # "idle", NEW place, place # "idle",
           pc' = [pc EXCEPT ![r] = place], filter' = filter
    PROVE  Asking' = Asking
BY DEF TypeOK, Asking

\* Every step of the pull path is one the contract allows, or none.
LEMMA NextContract == FullInv /\ [Next]_vars => [Contract!Next]_Contract!vars
<1> SUFFICES ASSUME FullInv, [Next]_vars PROVE [Contract!Next]_Contract!vars
  OBVIOUS
<1> USE DEF call, app, diagnostics
<1>0. /\ TypeOK /\ HandOwned /\ FateInv
      /\ Box = ToSet(pending) \cup ToSet(queue) \cup InHand
      /\ Box' = ToSet(pending)' \cup ToSet(queue)' \cup InHand'
  BY DEF FullInv, PoolInv, Box, InHand
<1> DEFINE Stutters == UNCHANGED <<Box, delivered, Gone, Asking>>
           Misses == \E reason \in LossReasons, s \in Sample \ (Box \cup delivered \cup Gone) :
                        /\ Lose(reason, s)
                        /\ UNCHANGED <<Box, delivered, Asking>>
           Arrives == \E s \in Sample \ (Box \cup delivered \cup Gone) :
                         Box' = Box \cup {s} /\ UNCHANGED <<delivered, Gone, Asking>>
           Answers == \E r \in Receivers, s \in Box :
                         /\ pc[r] # "idle" /\ Return(r, "OK") /\ Matches(s, filter[r])
                         /\ Box' = Box \ {s} /\ delivered' = delivered \cup {s}
                         /\ UNCHANGED Gone
           Ends == \E r \in Receivers : \E result :
                      /\ pc[r] # "idle" /\ Return(r, result)
                      /\ UNCHANGED <<Box, delivered, Gone>>
           EndsLosing == \E r \in Receivers, reason \in LossReasons, s \in Box : \E result :
                            /\ pc[r] # "idle" /\ Return(r, result)
                            /\ Lose(reason, s) /\ Box' = Box \ {s} /\ UNCHANGED delivered
           Loses == \E reason \in LossReasons, s \in Box :
                       /\ Lose(reason, s) /\ Box' = Box \ {s}
                       /\ UNCHANGED <<delivered, Asking>>
\* Such a step is a step of the contract.
<1>1. CASE Stutters
  BY <1>1 DEF Contract!vars, Asking, Gone
<1>2. CASE Misses
  <2>1. PICK reason \in LossReasons, s \in Sample \ (Box \cup delivered \cup Gone) :
           Lose(reason, s) /\ UNCHANGED <<Box, delivered, Asking>>
    BY <1>2
  <2>2. Gone' = Gone \cup {s}
    BY <1>0, <2>1, LoseGone
  <2>3. Contract!Arrive(s)
    BY <2>1, <2>2 DEF Contract!Arrive, Asking, Gone
  <2> QED
    BY <2>3 DEF Contract!Next
<1>3. CASE Arrives
  <2>1. PICK s \in Sample \ (Box \cup delivered \cup Gone) :
           Box' = Box \cup {s} /\ UNCHANGED <<delivered, Gone, Asking>>
    BY <1>3
  <2>2. Contract!Arrive(s)
    BY <2>1 DEF Contract!Arrive, Asking, Gone
  <2> QED
    BY <2>2 DEF Contract!Next
<1>4. CASE Answers
  <2>1. PICK r \in Receivers, s \in Box :
           /\ pc[r] # "idle" /\ Return(r, "OK") /\ Matches(s, filter[r])
           /\ Box' = Box \ {s} /\ delivered' = delivered \cup {s} /\ UNCHANGED Gone
    BY <1>4
  <2>2. Asking' = [Asking EXCEPT ![r] = {}] /\ filter[r] \in Asking[r]
    BY <1>0, <2>1, ReturnAsking
  <2>3. Contract!Answer(r)
    BY <2>1, <2>2 DEF Contract!Answer, Asking, Gone, Matches
  <2> QED
    BY <2>3 DEF Contract!Next
<1>5. CASE Ends
  <2>1. PICK r \in Receivers : \E result :
           /\ pc[r] # "idle" /\ Return(r, result) /\ UNCHANGED <<Box, delivered, Gone>>
    BY <1>5
  <2>2. Asking' = [Asking EXCEPT ![r] = {}] /\ Asking[r] # {}
    BY <1>0, <2>1, ReturnAsking
  <2>3. Contract!EndEmpty(r)
    BY <2>1, <2>2 DEF Contract!EndEmpty, Contract!Lose, Asking, Gone
  <2> QED
    BY <2>3 DEF Contract!Next
<1>6. CASE EndsLosing
  <2>1. PICK r \in Receivers, reason \in LossReasons, s \in Box : \E result :
           /\ pc[r] # "idle" /\ Return(r, result)
           /\ Lose(reason, s) /\ Box' = Box \ {s} /\ UNCHANGED delivered
    BY <1>6
  <2>2. Asking' = [Asking EXCEPT ![r] = {}] /\ Asking[r] # {} /\ Gone' = Gone \cup {s}
    BY <1>0, <2>1, ReturnAsking, LoseGone
  <2>3. Contract!EndEmpty(r)
    BY <2>1, <2>2 DEF Contract!EndEmpty, Contract!Lose, Asking, Gone
  <2> QED
    BY <2>3 DEF Contract!Next
<1>7. CASE Loses
  <2>1. PICK reason \in LossReasons, s \in Box :
           Lose(reason, s) /\ Box' = Box \ {s} /\ UNCHANGED <<delivered, Asking>>
    BY <1>7
  <2>2. Gone' = Gone \cup {s}
    BY <1>0, <2>1, LoseGone
  <2>3. Contract!Lose({s}) /\ UNCHANGED Asking
    BY <2>1, <2>2 DEF Contract!Lose, Gone
  <2> QED
    BY <2>1, <2>3 DEF Contract!Next, Asking
\* And each action is such a step.
<1>8. ASSUME NEW t \in Topics \cup {Malformed}, Publish(t) PROVE Misses \/ Arrives
  <2> DEFINE s == [id |-> sent + 1, topic |-> t]
  <2>1. /\ s \in Sample /\ s.id = sent + 1 /\ sent \in Nat
        /\ hand' = hand /\ queue' = queue /\ delivered' = delivered /\ pc' = pc /\ filter' = filter
        /\ IF subscribed THEN pending' = Append(pending, s) /\ lost' = lost
                         ELSE Lose("unsubscribed", s) /\ pending' = pending
    BY <1>8, ConstantsAssumption, <1>0 DEF Publish, Sample, TypeOK
  <2> HIDE DEF s
  <2>2. s \notin Box \cup delivered \cup Gone
    <3>1. ~(sent + 1 \in 1..sent)
      BY <2>1
    <3> QED
      BY <1>0, <2>1, <3>1, PlacesDisjoint
  <2>3. InHand' = InHand /\ Asking' = Asking
    BY <2>1, HandStays DEF Asking
  <2>4. CASE subscribed
    <3>1. ToSet(pending)' = ToSet(pending) \cup {s}
      <4>1. pending' = Append(pending, s) /\ pending \in Seq(Sample)
        BY <1>0, <2>1, <2>4 DEF TypeOK
      <4>2. ToSet(Append(pending, s)) = ToSet(pending) \cup {s}
        BY <2>1, <4>1, AppendElements
      <4> QED
        BY <4>1, <4>2
    <3>2. Box' = Box \cup {s} /\ Gone' = Gone
      BY <1>0, <2>1, <2>3, <2>4, <3>1 DEF Gone
    <3> QED
      BY <2>1, <2>2, <2>3, <3>2
  <2>5. CASE ~subscribed
    <3>1. Box' = Box /\ Lose("unsubscribed", s)
      BY <1>0, <2>1, <2>3, <2>5
    <3> QED
      BY <2>1, <2>2, <2>3, <3>1, Reasons
  <2> QED
    BY <2>4, <2>5
<1>9. ASSUME NEW r \in Receivers, NEW f \in Filter, Call(r, f) PROVE Contract!Next
  <2>1. Asking[r] = {} /\ Asking' = [Asking EXCEPT ![r] = {f}]
    BY <1>0, <1>9 DEF Call, Asking, TypeOK
  <2>2. Box' = Box /\ Gone' = Gone /\ delivered' = delivered
    BY <1>0, <1>9, HandStays DEF Call, Gone
  <2>3. Contract!Ask(r, f)
    BY <2>1, <2>2 DEF Contract!Ask, Asking, Gone
  <2> QED
    BY <2>3 DEF Contract!Next, Filter
\* A call takes the subscription's first sample out of it.
<1>10. ASSUME pending # <<>>, pending' = Tail(pending), queue' = queue
       PROVE  /\ Head(pending) \in Box /\ Head(pending) \in Sample
              /\ InHand' = InHand => Box' = Box \ {Head(pending)}
              /\ InHand' = InHand \cup {Head(pending)} => Box' = Box
  <2>1. /\ Head(pending) \in ToSet(pending)
        /\ ToSet(Tail(pending)) = ToSet(pending) \ {Head(pending)}
    BY <1>0, <1>10, TailElements DEF TypeOK, FateInv
  <2> QED
    BY <1>0, <1>10, <2>1, PlacesDisjoint
<1>11. ASSUME NEW r \in Receivers, PopQueued(r) PROVE Answers
  <2>1. PICK i \in 1..Len(queue) :
           /\ queue' = RemoveAt(queue, i) /\ Deliver(r, queue[i])
           /\ Matches(queue[i], filter[r])
    BY <1>11 DEF PopQueued, IsFirstMatch
  <2>2. InHand' = InHand
    BY <1>0, <1>11, <2>1, EmptyHandReturns, HandStays DEF PopQueued, Deliver
  <2>3. queue[i] \in ToSet(queue) /\ ToSet(RemoveAt(queue, i)) = ToSet(queue) \ {queue[i]}
    BY <1>0, RemoveAtElements, ElementsOf DEF TypeOK, FateInv
  <2>4. queue[i] \in Box /\ Box' = Box \ {queue[i]} /\ Gone' = Gone
    BY <1>0, <1>11, <2>1, <2>2, <2>3, PlacesDisjoint DEF PopQueued, Gone
  <2> QED
    BY <1>11, <2>1, <2>4 DEF PopQueued, Deliver
<1>12. ASSUME NEW r \in Receivers, ReceiveMatch(r) PROVE Answers
  <2>1. InHand' = InHand
    BY <1>0, <1>12, EmptyHandReturns, HandStays DEF ReceiveMatch, TakeNext, HasSubscriber, Deliver
  <2>2. Head(pending) \in Box /\ Box' = Box \ {Head(pending)} /\ Gone' = Gone
    BY <1>10, <1>12, <2>1 DEF ReceiveMatch, TakeNext, Gone
  <2> QED
    BY <1>12, <2>2 DEF ReceiveMatch, TakeNext, HasSubscriber, Deliver
<1>13. ASSUME NEW r \in Receivers, HasSubscriber(r), NEW reason \in LossReasons, NEW result,
              pending # <<>>, pending' = Tail(pending), Lose(reason, Head(pending)),
              Return(r, result), UNCHANGED <<queue, app>>
       PROVE  EndsLosing
  <2>1. InHand' = InHand
    BY <1>0, <1>13, EmptyHandReturns, HandStays DEF HasSubscriber
  <2>2. Head(pending) \in Box /\ Box' = Box \ {Head(pending)}
    BY <1>10, <1>13, <2>1
  <2> QED
    BY <1>13, <2>2 DEF HasSubscriber
<1>14. ASSUME NEW r \in Receivers, pc[r] # "idle", pc[r] # "queue", NEW result,
              Return(r, result), UNCHANGED <<pending, queue, app, lost>>
       PROVE  Ends
  <2>1. InHand' = InHand
    BY <1>0, <1>14, EmptyHandReturns, HandStays
  <2>2. Box' = Box /\ Gone' = Gone
    BY <1>0, <1>14, <2>1 DEF Gone
  <2> QED
    BY <1>14, <2>2
<1>15. ASSUME NEW r \in Receivers,
              SubscribeFails(r) \/ ReceiveNothing(r)
       PROVE  Ends
  BY <1>14, <1>15 DEF SubscribeFails, ReceiveNothing, HasSubscriber
<1>16. ASSUME NEW r \in Receivers, ReceiveAtLimit(r) \/ ReceiveInvalid(r) \/ ReceiveFails(r)
       PROVE  Ends \/ EndsLosing
  <2>1. CASE ReceiveInvalid(r)
    BY <1>13, <2>1, Reasons DEF ReceiveInvalid, TakeNext
  <2>2. CASE ReceiveAtLimit(r)
    <3>1. CASE Return(r, "INTERNAL") /\ UNCHANGED <<pending, lost>>
      BY <1>14, <2>2, <3>1 DEF ReceiveAtLimit, HasSubscriber
    <3>2. CASE /\ pending' = Tail(pending) /\ Lose("exhausted", Head(pending))
               /\ Return(r, "RESOURCE_EXHAUSTED")
      BY <1>13, <2>2, <3>2, Reasons DEF ReceiveAtLimit
    <3> QED
      BY <2>2, <3>1, <3>2 DEF ReceiveAtLimit
  <2>3. CASE ReceiveFails(r)
    <3>1. CASE HasSubscriber(r) /\ UNCHANGED <<pending, lost>>
      BY <1>14, <2>3, <3>1 DEF ReceiveFails, HasSubscriber
    <3>2. CASE TakeNext(r) /\ Lose("unreadable", Head(pending))
      BY <1>13, <2>3, <3>2, Reasons DEF ReceiveFails, TakeNext
    <3> QED
      BY <2>3, <3>1, <3>2 DEF ReceiveFails
  <2> QED
    BY <1>16, <2>1, <2>2, <2>3
<1>17. ASSUME NEW r \in Receivers, ReceiveMismatch(r) PROVE Stutters
  <2> DEFINE s == Head(pending)
  <2>1. s \in Sample /\ s \in ToSet(pending)
    BY <1>0, <1>17, HeadTailProperties, TailElements DEF ReceiveMismatch, TakeNext, TypeOK
  <2>2. s \notin InHand
    BY <1>0, <2>1, PlacesDisjoint
  <2>3. InHand' = InHand \cup {s}
    <3>1. hand[r] = NoSample /\ hand' = [hand EXCEPT ![r] = s]
      BY <1>0, <1>17 DEF ReceiveMismatch, TakeNext, HasSubscriber, HandOwned
    <3> QED
      BY <1>0, <2>1, <2>2, <3>1, HandTakes DEF FateInv
  <2>4. Box' = Box
    BY <1>10, <1>17, <2>3 DEF ReceiveMismatch, TakeNext
  <2>5. Asking' = Asking
    BY <1>0, <1>17, AskingStays DEF ReceiveMismatch, TakeNext, HasSubscriber
  <2> QED
    BY <1>17, <2>4, <2>5 DEF ReceiveMismatch, Gone
\* A call gives up the sample in its hands.
<1>18. ASSUME NEW r \in Receivers, hand[r] # NoSample, hand' = [hand EXCEPT ![r] = NoSample],
              pending' = pending
       PROVE  /\ hand[r] \in Box /\ hand[r] \in Sample /\ hand[r] \notin ToSet(queue)
              /\ InHand' = InHand \ {hand[r]}
              /\ queue' = queue => Box' = Box \ {hand[r]}
  <2>1. InHand' = InHand \ {hand[r]} /\ hand[r] \in InHand
    BY <1>0, <1>18, HandGives DEF FateInv
  <2> QED
    BY <1>0, <1>18, <2>1, PlacesDisjoint
<1>19. ASSUME NEW r \in Receivers, QueueDisabled(r) PROVE Loses
  <2>1. hand[r] \in Box /\ Box' = Box \ {hand[r]}
    BY <1>0, <1>18, <1>19 DEF QueueDisabled, Retry, HandOwned
  <2>2. Asking' = Asking
    BY <1>0, <1>19, AskingStays DEF QueueDisabled, Retry
  <2> QED
    BY <1>19, <2>1, <2>2, Reasons DEF QueueDisabled
<1>20. ASSUME NEW r \in Receivers, QueueReject(r) PROVE EndsLosing
  <2>1. hand[r] \in Box /\ Box' = Box \ {hand[r]}
    BY <1>0, <1>18, <1>20 DEF QueueReject, Return, HandOwned
  <2> QED
    BY <1>20, <2>1, Reasons DEF QueueReject
<1>21. ASSUME NEW r \in Receivers, QueueRetain(r) PROVE Stutters
  <2>1. hand[r] \in Box /\ hand[r] \in Sample /\ InHand' = InHand \ {hand[r]} /\ hand[r] \in InHand
    BY <1>0, <1>18, <1>21, HandGives DEF QueueRetain, Retry, HandOwned, FateInv
  <2>2. ToSet(Append(queue, hand[r])) = ToSet(queue) \cup {hand[r]}
    BY <1>0, <2>1, AppendElements DEF TypeOK
  <2>3. Box' = Box
    BY <1>0, <1>21, <2>1, <2>2, PlacesDisjoint DEF QueueRetain
  <2>4. Asking' = Asking
    BY <1>0, <1>21, AskingStays DEF QueueRetain, Retry
  <2> QED
    BY <1>21, <2>3, <2>4 DEF QueueRetain, Gone
<1>22. ASSUME NEW r \in Receivers, QueueDropOldest(r) PROVE Loses
  <2> DEFINE h == Head(queue)
  <2>1. queue # <<>>
    BY <1>22, ConstantsAssumption, EmptySeq DEF QueueDropOldest, IsFull
  <2>2. /\ h \in ToSet(queue) /\ ToSet(Tail(queue)) = ToSet(queue) \ {h}
        /\ Tail(queue) \in Seq(Sample)
    BY <1>0, <2>1, TailElements, HeadTailProperties DEF TypeOK, FateInv
  <2>3. /\ hand[r] \in Sample /\ hand[r] \notin ToSet(queue)
        /\ InHand' = InHand \ {hand[r]} /\ hand[r] \in InHand
    BY <1>0, <1>18, <1>22, HandGives DEF QueueDropOldest, Retry, HandOwned, FateInv
  <2>4. ToSet(Append(Tail(queue), hand[r])) = ToSet(Tail(queue)) \cup {hand[r]}
    BY <2>2, <2>3, AppendSample
  <2>5. h \in Box /\ Box' = Box \ {h}
    <3>1. ToSet(queue)' = (ToSet(queue) \ {h}) \cup {hand[r]} /\ pending' = pending
      BY <1>22, <2>2, <2>4 DEF QueueDropOldest
    <3> QED
      BY <1>0, <2>2, <2>3, <3>1, PlacesDisjoint
  <2>6. Asking' = Asking
    BY <1>0, <1>22, AskingStays DEF QueueDropOldest, Retry
  <2> QED
    BY <1>22, <2>5, <2>6, Reasons DEF QueueDropOldest
<1>23. ASSUME NEW r \in Receivers, Cancel(r) PROVE Ends \/ EndsLosing
  <2>1. CASE hand[r] = NoSample
    <3>1. pc[r] # "idle" /\ pc[r] # "queue"
      BY <1>0, <1>23, <2>1 DEF Cancel, HandOwned
    <3> QED
      BY <1>14, <1>23, <2>1, <3>1 DEF Cancel
  <2>2. CASE hand[r] # NoSample
    <3>1. hand[r] \in Box /\ Box' = Box \ {hand[r]}
      BY <1>18, <1>23, <2>2 DEF Cancel, Return
    <3> QED
      BY <1>23, <2>2, <3>1, Reasons DEF Cancel
  <2> QED
    BY <2>1, <2>2
<1>24. ASSUME NEW r \in Receivers, PopNothing(r) \/ Subscribe(r) PROVE Stutters
  <2>1. Box' = Box /\ Gone' = Gone /\ delivered' = delivered
    BY <1>0, <1>24, HandStays DEF PopNothing, Subscribe, Gone
  <2>2. Asking' = Asking
    BY <1>0, <1>24, AskingStays DEF PopNothing, Subscribe
  <2> QED
    BY <2>1, <2>2
<1>25. ASSUME (\E s \in leases : DropLease(s)) \/ UNCHANGED vars PROVE Stutters
  BY <1>0, <1>25, HandStays DEF DropLease, vars, Gone, Asking
<1> HIDE DEF Stutters, Misses, Arrives, Answers, Ends, EndsLosing, Loses
<1> QED
  BY <1>1, <1>2, <1>3, <1>4, <1>5, <1>6, <1>7, <1>8, <1>9, <1>11, <1>12, <1>15, <1>16,
     <1>17, <1>19, <1>20, <1>21, <1>22, <1>23, <1>24, <1>25 DEF Next, CallStep

\* Whatever the queue's capacity and policy, and however calls interleave, every
\* behaviour of the pull path is one of the contract's: samples arrive once, a
\* call ends with one matching sample for good or with none, and what is lost is
\* never returned.  That calls do end is ImplementsContract's liveness part.
\* (receive_validated_zero_copy.)
THEOREM PullImplementsContract == Spec => Contract!Spec
<1>1. Init => Contract!Init
  <2> SUFFICES ASSUME Init PROVE Contract!Init
    OBVIOUS
  <2>1. ToSet(pending) = {} /\ ToSet(queue) = {} /\ Holding = {}
    BY EmptyElements DEF Init, Holding
  <2>2. Box = {}
    BY <2>1 DEF Box
  <2>3. Gone = {} /\ Asking = [r \in Receivers |-> {}]
    BY DEF Init, Gone, Asking
  <2> QED
    BY <2>2, <2>3 DEF Init, Contract!Init, Gone, Asking
<1> QED
  BY <1>1, NextContract, FullInductive, PTL DEF Spec, Contract!Spec

-----------------------------------------------------------------------------
(* A task that receives alone gets its samples in order *)

\* No other task has ever called receive: a call in progress or ended leaves a mark.
Alone(r) == \A q \in Receivers \ {r} : pc[q] = "idle" /\ status[q] = "none"

\* All of the samples of A were published before those of B.
Before(A, B) == \A a \in A, b \in B : a.id < b.id

NoMatch(A, r) == \A a \in A : ~Matches(a, filter[r])

\* The subscription keeps the order of publication.  What the one task that
\* receives retains it has taken before what it has in hand, and that before what is
\* still in the subscription; and once its call has searched the queue, nothing
\* retained matches.
TakenInOrder(r) ==
    /\ Ordered(queue)
    /\ Before(ToSet(queue), ToSet(pending))
    /\ pc[r] = "queue" =>
          /\ Before(ToSet(queue), {hand[r]})
          /\ Before({hand[r]}, ToSet(pending))
          /\ ~Matches(hand[r], filter[r])
    /\ pc[r] \in {"next", "first", "queue"} => NoMatch(ToSet(queue), r)

OrderInv ==
    /\ Ordered(pending)
    /\ \A r \in Receivers : Alone(r) => TakenInOrder(r)

LEMMA IdIsNat == \A s \in Sample : s.id \in Nat
BY ConstantsAssumption DEF Sample

LEMMA InitOrder == Init => OrderInv
<1> SUFFICES ASSUME Init PROVE OrderInv
  OBVIOUS
<1>1. ToSet(pending) = {} /\ ToSet(queue) = {} /\ Ordered(pending) /\ Ordered(queue)
  BY EmptyElements, EmptyOrdered DEF Init
<1> QED
  BY <1>1 DEF Init, OrderInv, TakenInOrder, Before, NoMatch

\* Another task's call leaves its mark.
LEMMA OthersLeaveMarks ==
    ASSUME TypeOK, NEW r \in Receivers, NEW q \in Receivers, q # r,
           CallStep(q) \/ Cancel(q) \/ \E f \in Filter : Call(q, f)
    PROVE  ~Alone(r)'
<1>1. CASE \E f \in Filter : Call(q, f)
  <2>1. pc'[q] = "pop"
    BY <1>1 DEF Call, TypeOK
  <2> QED
    BY <2>1 DEF Alone
<1>2. CASE CallStep(q) \/ Cancel(q)
  <2>1. pc'[q] # "idle" \/ status'[q] # "none"
    BY <1>2 DEF CallStep, Cancel, PopQueued, PopNothing, Subscribe, SubscribeFails,
         ReceiveFails, ReceiveNothing, ReceiveAtLimit, ReceiveInvalid, ReceiveMatch,
         ReceiveMismatch, QueueDisabled, QueueRetain, QueueDropOldest, QueueReject,
         Deliver, Return, Retry, TypeOK
  <2> QED
    BY <2>1 DEF Alone
<1> QED
  BY <1>1, <1>2

\* Publishing and taking keep the order of the subscription.
LEMMA NextPendingOrdered ==
    ASSUME TypeOK, FateInv, Ordered(pending), [Next]_vars
    PROVE  Ordered(pending')
<1>1. ASSUME NEW t \in Topics \cup {Malformed}, Publish(t) PROVE Ordered(pending')
  <2> DEFINE s == [id |-> sent + 1, topic |-> t]
  <2>1. /\ s \in Sample /\ s.id = sent + 1 /\ sent \in Nat
        /\ pending' = Append(pending, s) \/ pending' = pending
    BY <1>1, ConstantsAssumption DEF Publish, Sample, TypeOK
  <2> HIDE DEF s
  <2>2. \A y \in ToSet(pending) : y.id < s.id
    <3>1. \A y \in ToSet(pending) : y.id \in 1..sent
      BY PlacesDisjoint
    <3> QED
      BY <2>1, <3>1
  <2>3. Ordered(Append(pending, s))
    BY <2>1, <2>2, AppendOrdered DEF TypeOK
  <2> QED
    BY <2>1, <2>3
<1>2. CASE pending # <<>> /\ pending' = Tail(pending)
  BY <1>2, TailOrdered DEF TypeOK
<1>3. \/ \E t \in Topics \cup {Malformed} : Publish(t)
      \/ pending # <<>> /\ pending' = Tail(pending)
      \/ pending' = pending
  BY DEF Next, CallStep, vars, Call, PopQueued, PopNothing, Subscribe, SubscribeFails,
         ReceiveFails, ReceiveNothing, ReceiveAtLimit, ReceiveInvalid, ReceiveMatch,
         ReceiveMismatch, TakeNext, QueueDisabled, QueueRetain, QueueDropOldest, QueueReject,
         Cancel, DropLease
<1> QED
  BY <1>1, <1>2, <1>3

\* Its own steps keep what the task has taken in order.
LEMMA OwnStepInOrder ==
    ASSUME TypeOK, HandOwned, FateInv, Ordered(pending), NEW r \in Receivers,
           TakenInOrder(r), CallStep(r) \/ Cancel(r) \/ \E f \in Filter : Call(r, f)
    PROVE  TakenInOrder(r)'
<1> USE DEF TakenInOrder, Before, NoMatch, Matches, call, diagnostics
<1>0. /\ queue \in Seq(Sample) /\ IsInjective(queue) /\ pending \in Seq(Sample)
      /\ \A s \in ToSet(queue) \cup ToSet(pending) : s.id \in Nat
      /\ pc[r] = "queue" => hand[r] \in Sample /\ hand[r].id \in Nat
  BY IdIsNat, ElementsOf DEF TypeOK, FateInv, HandOwned
\* What leaves the subscription comes after the queue and before what stays.
<1>1. ASSUME pending # <<>>, pending' = Tail(pending), queue' = queue
      PROVE  /\ Before(ToSet(queue'), ToSet(pending'))
             /\ Before(ToSet(queue'), {Head(pending)})
             /\ Before({Head(pending)}, ToSet(pending'))
  <2>1. /\ ToSet(pending) = ToSet(Tail(pending)) \cup {Head(pending)}
        /\ \A y \in ToSet(Tail(pending)) : Head(pending).id < y.id
    BY <1>0, <1>1, TailElements, TailOrdered
  <2> QED
    BY <1>1, <2>1
<1>2. ASSUME queue' = queue, \/ pending' = pending
                             \/ pending # <<>> /\ pending' = Tail(pending),
             pc'[r] \notin {"next", "first", "queue"}
      PROVE  TakenInOrder(r)'
  BY <1>1, <1>2
<1>3. CASE \E f \in Filter : Call(r, f)
  <2>1. pc'[r] = "pop" /\ queue' = queue /\ pending' = pending
    BY <1>3 DEF Call, TypeOK
  <2> QED
    BY <1>2, <2>1
<1>4. CASE \/ SubscribeFails(r) \/ ReceiveFails(r) \/ ReceiveNothing(r) \/ ReceiveAtLimit(r)
           \/ ReceiveInvalid(r) \/ ReceiveMatch(r) \/ QueueReject(r) \/ Cancel(r)
  <2>1. /\ pc'[r] = "idle" /\ queue' = queue
        /\ pending' = pending \/ (pending # <<>> /\ pending' = Tail(pending))
    BY <1>4 DEF SubscribeFails, ReceiveFails, ReceiveNothing, ReceiveAtLimit, TakeNext,
         ReceiveInvalid, ReceiveMatch, QueueReject, Cancel, Deliver, Return, TypeOK
  <2> QED
    BY <1>2, <2>1
<1>5. CASE PopQueued(r)
  <2>1. PICK i \in 1..Len(queue) : queue' = RemoveAt(queue, i) /\ Deliver(r, queue[i])
    BY <1>5 DEF PopQueued
  <2>2. pc'[r] = "idle" /\ pending' = pending
    BY <1>5, <2>1 DEF PopQueued, Deliver, Return, TypeOK
  <2>3. Ordered(RemoveAt(queue, i)) /\ ToSet(RemoveAt(queue, i)) \subseteq ToSet(queue)
    BY <1>0, RemoveAtOrdered, RemoveAtElements
  <2> QED
    BY <2>1, <2>2, <2>3
<1>6. CASE PopNothing(r)
  <2>1. NoMatch(ToSet(queue), r)
    BY <1>0, <1>6, ElementsOf DEF PopNothing
  <2>2. pc'[r] = "next" /\ UNCHANGED <<queue, pending, filter>>
    BY <1>6 DEF PopNothing, TypeOK
  <2> QED
    BY <2>1, <2>2
<1>7. CASE Subscribe(r)
  <2>1. pc'[r] = "first" /\ pc[r] = "next" /\ UNCHANGED <<queue, pending, filter>>
    BY <1>7 DEF Subscribe, TypeOK
  <2> QED
    BY <2>1
<1>8. CASE ReceiveMismatch(r)
  <2>1. /\ pc'[r] = "queue" /\ pc[r] \in {"next", "first"} /\ UNCHANGED <<queue, filter>>
        /\ hand'[r] = Head(pending) /\ pending # <<>> /\ pending' = Tail(pending)
        /\ ~Matches(Head(pending), filter[r])
    BY <1>8 DEF ReceiveMismatch, TakeNext, HasSubscriber, TypeOK
  <2> QED
    BY <1>1, <2>1
<1>9. CASE QueueDisabled(r)
  <2>1. pc'[r] = "next" /\ pc[r] = "queue" /\ UNCHANGED <<queue, pending, filter>>
    BY <1>9 DEF QueueDisabled, Retry, TypeOK
  <2> QED
    BY <2>1
\* What is retained comes after the queue.
<1>10. ASSUME NEW q \in Seq(Sample), Ordered(q), ToSet(q) \subseteq ToSet(queue),
              queue' = Append(q, hand[r]), Retry(r), pending' = pending, pc[r] = "queue"
       PROVE  TakenInOrder(r)'
  <2>1. pc'[r] = "next" /\ filter' = filter
    BY <1>10 DEF Retry, TypeOK
  <2>2. ToSet(Append(q, hand[r])) = ToSet(q) \cup {hand[r]} /\ Ordered(Append(q, hand[r]))
    BY <1>0, <1>10, AppendSample, AppendOrdered
  <2> QED
    BY <1>0, <1>10, <2>1, <2>2
<1>11. CASE QueueRetain(r)
  BY <1>0, <1>10, <1>11 DEF QueueRetain
<1>12. CASE QueueDropOldest(r)
  <2>1. queue # <<>>
    BY <1>12, ConstantsAssumption, EmptySeq DEF QueueDropOldest, IsFull
  <2>2. /\ Tail(queue) \in Seq(Sample) /\ ToSet(Tail(queue)) \subseteq ToSet(queue)
        /\ Ordered(Tail(queue))
    BY <1>0, <2>1, HeadTailProperties, TailElements, TailOrdered
  <2> QED
    BY <1>10, <1>12, <2>2 DEF QueueDropOldest
<1> QED
  BY <1>3, <1>4, <1>5, <1>6, <1>7, <1>8, <1>9, <1>11, <1>12 DEF CallStep

LEMMA NextOrder == FullInv /\ OrderInv /\ [Next]_vars => OrderInv'
<1> SUFFICES ASSUME FullInv, OrderInv, [Next]_vars PROVE OrderInv'
  OBVIOUS
<1>0. TypeOK /\ HandOwned /\ FateInv
  BY DEF FullInv, PoolInv
<1>1. Ordered(pending)'
  BY <1>0, NextPendingOrdered DEF OrderInv
<1>2. ASSUME NEW r \in Receivers, Alone(r)' PROVE TakenInOrder(r)'
  <2>1. CASE CallStep(r) \/ Cancel(r) \/ \E f \in Filter : Call(r, f)
    <3>1. Alone(r)
      BY <1>0, <1>2, <2>1 DEF Alone, CallStep, Cancel, Call, PopQueued, PopNothing,
         Subscribe, SubscribeFails, ReceiveFails, ReceiveNothing, ReceiveAtLimit,
         ReceiveInvalid, ReceiveMatch, ReceiveMismatch, QueueDisabled, QueueRetain,
         QueueDropOldest, QueueReject, Deliver, Return, Retry, TypeOK
    <3> QED
      BY <1>0, <2>1, <3>1, OwnStepInOrder DEF OrderInv
  <2>2. CASE \E t \in Topics \cup {Malformed} : Publish(t)
    <3>1. PICK t \in Topics \cup {Malformed} : Publish(t)
      BY <2>2
    <3> DEFINE s == [id |-> sent + 1, topic |-> t]
    <3>2. /\ s \in Sample /\ s.id = sent + 1 /\ sent \in Nat
          /\ pending' = Append(pending, s) \/ pending' = pending
          /\ UNCHANGED <<queue, pc, filter, hand, status>>
      BY <1>0, <3>1, ConstantsAssumption DEF Publish, Sample, TypeOK, call
    <3> HIDE DEF s
    <3>3. \A y \in ToSet(queue) \cup InHand : y.id < s.id
      <4>1. \A y \in ToSet(queue) \cup InHand : y.id \in 1..sent
        BY <1>0, PlacesDisjoint
      <4> QED
        BY <3>2, <4>1
    <3>4. ToSet(Append(pending, s)) = ToSet(pending) \cup {s}
      BY <1>0, <3>2, AppendSample DEF TypeOK
    <3>5. pc[r] = "queue" => hand[r] \in InHand
      BY <1>0 DEF HandOwned, InHand, Holding
    <3>6. TakenInOrder(r)
      BY <1>2, <3>2 DEF Alone, OrderInv
    <3> QED
      BY <3>2, <3>3, <3>4, <3>5, <3>6 DEF TakenInOrder, Before, NoMatch
  <2>3. CASE (\E s \in leases : DropLease(s)) \/ UNCHANGED vars
    <3>1. UNCHANGED <<queue, pending, pc, filter, hand, status>>
      BY <2>3 DEF DropLease, vars, call
    <3>2. TakenInOrder(r)
      BY <1>2, <3>1 DEF Alone, OrderInv
    <3> QED
      BY <3>1, <3>2 DEF TakenInOrder, Before, NoMatch
  <2> QED
    BY <1>0, <1>2, <2>1, <2>2, <2>3, OthersLeaveMarks DEF Next
<1> QED
  BY <1>1, <1>2 DEF OrderInv

\* As long as one task receives alone, its calls return the oldest matching sample
\* there is, retained or not, and NOT_FOUND only when there is none: for every
\* capacity, policy, and sequence of filters, even when the full queue drops its
\* oldest sample.  (receive_validated_zero_copy.)
THEOREM OldestIsFirst == Spec => OldestFirst
<1> DEFINE Oldest == \A r \in Receivers :
          LET others == Receivers \ {r}
              alive == ToSet(queue) \cup ToSet(pending)
              matching == {s \in alive : Matches(s, filter[r])} IN
          /\ \A q \in others : pc[q] = "idle" /\ status[q] = "none"
          /\ pc[r] # "idle" /\ pc'[r] = "idle"
          => /\ status'[r] = "OK" =>
                    \A s \in delivered' \ delivered, m \in matching : s.id <= m.id
             /\ status'[r] = "NOT_FOUND" /\ subscribed => matching = {}
<1>1. ASSUME FullInv, OrderInv, [Next]_vars PROVE [Oldest]_vars
  <2> SUFFICES ASSUME NEW r \in Receivers, Alone(r), pc[r] # "idle", pc'[r] = "idle"
               PROVE  /\ status'[r] = "OK" =>
                           \A s \in delivered' \ delivered :
                              \A m \in ToSet(queue) \cup ToSet(pending) :
                                 Matches(m, filter[r]) => s.id <= m.id
                      /\ status'[r] = "NOT_FOUND" /\ subscribed =>
                           \A m \in ToSet(queue) \cup ToSet(pending) : ~Matches(m, filter[r])
    BY DEF Alone
  <2>0. /\ TypeOK /\ HandOwned /\ FateInv /\ Ordered(pending) /\ TakenInOrder(r)
        /\ queue \in Seq(Sample) /\ pending \in Seq(Sample)
        /\ \A s \in ToSet(queue) \cup ToSet(pending) : s.id \in Nat
    BY <1>1, IdIsNat, ElementsOf DEF FullInv, PoolInv, OrderInv, TypeOK
  <2>1. CallStep(r) \/ Cancel(r)
    <3>1. ASSUME NEW q \in Receivers, q # r, CallStep(q) \/ Cancel(q) PROVE FALSE
      BY <3>1 DEF Alone, CallStep, Cancel, PopQueued, PopNothing, Subscribe, SubscribeFails,
         ReceiveFails, ReceiveNothing, ReceiveAtLimit, ReceiveInvalid, ReceiveMatch,
         ReceiveMismatch, TakeNext, HasSubscriber, QueueDisabled, QueueRetain,
         QueueDropOldest, QueueReject
    <3>2. ASSUME \/ \E t \in Topics \cup {Malformed} : Publish(t)
                 \/ \E s \in leases : DropLease(s)
                 \/ \E q \in Receivers, f \in Filter : Call(q, f)
                 \/ UNCHANGED vars
          PROVE  pc'[r] # "idle"
      BY <2>0, <3>2 DEF Publish, DropLease, Call, vars, call, TypeOK
    <3> QED
      BY <1>1, <3>1, <3>2 DEF Next
  <2>2. CASE PopQueued(r)
    <3>1. PICK i \in 1..Len(queue) : IsFirstMatch(i, filter[r]) /\ Deliver(r, queue[i])
      BY <2>2 DEF PopQueued
    <3>2. delivered' = delivered \cup {queue[i]} /\ status'[r] = "OK"
      BY <2>0, <3>1 DEF Deliver, Return, TypeOK
    <3>3. queue[i] \in ToSet(queue) /\ queue[i].id \in Nat
      BY <2>0, ElementsOf
    <3>4. ASSUME NEW m \in ToSet(queue), Matches(m, filter[r]) PROVE queue[i].id <= m.id
      <4>1. PICK j \in 1..Len(queue) : queue[j] = m
        BY <2>0, ElementsOf
      <4>2. ~(j \in 1..(i - 1))
        BY <3>1, <3>4, <4>1 DEF IsFirstMatch
      <4>3. i = j \/ i < j
        BY <4>2
      <4> QED
        BY <2>0, <3>3, <4>1, <4>3 DEF TakenInOrder, Ordered
    <3>5. ASSUME NEW m \in ToSet(pending) PROVE queue[i].id <= m.id
      BY <2>0, <3>3 DEF TakenInOrder, Before
    <3> QED
      BY <3>2, <3>4, <3>5
  <2>3. CASE ReceiveMatch(r)
    <3>1. /\ pc[r] \in {"next", "first"} /\ pending # <<>>
          /\ delivered' = delivered \cup {Head(pending)} /\ status'[r] = "OK"
      BY <2>0, <2>3 DEF ReceiveMatch, TakeNext, HasSubscriber, Deliver, Return, TypeOK
    <3>2. \A m \in ToSet(queue) : ~Matches(m, filter[r])
      BY <2>0, <3>1 DEF TakenInOrder, NoMatch
    <3>3. \A m \in ToSet(pending) : Head(pending).id <= m.id
      <4>1. /\ Head(pending) \in ToSet(pending)
            /\ ToSet(pending) = ToSet(Tail(pending)) \cup {Head(pending)}
            /\ \A y \in ToSet(Tail(pending)) : Head(pending).id < y.id
        BY <2>0, <3>1, TailElements, TailOrdered
      <4> QED
        BY <2>0, <4>1
    <3> QED
      BY <3>1, <3>2, <3>3
  <2>4. CASE ReceiveNothing(r)
    <3>1. pc[r] \in {"next", "first"} /\ pending = <<>> /\ status'[r] = "NOT_FOUND"
      BY <2>0, <2>4 DEF ReceiveNothing, HasSubscriber, Return, TypeOK
    <3> QED
      BY <2>0, <3>1, EmptyElements DEF TakenInOrder, NoMatch
  <2>5. CASE SubscribeFails(r)
    <3>1. ~subscribed /\ status'[r] # "OK"
      BY <2>0, <2>5 DEF SubscribeFails, Return, TypeOK
    <3> QED
      BY <3>1
  <2>6. CASE \/ PopNothing(r) \/ Subscribe(r) \/ ReceiveFails(r) \/ ReceiveAtLimit(r)
             \/ ReceiveInvalid(r) \/ ReceiveMismatch(r) \/ QueueDisabled(r)
             \/ QueueRetain(r) \/ QueueDropOldest(r) \/ QueueReject(r) \/ Cancel(r)
    <3>1. status'[r] \notin {"OK", "NOT_FOUND"}
      BY <2>0, <2>6 DEF PopNothing, Subscribe, ReceiveFails, ReceiveAtLimit, ReceiveInvalid,
         ReceiveMismatch, QueueDisabled, QueueRetain, QueueDropOldest, QueueReject, Cancel,
         Return, Retry, TypeOK
    <3> QED
      BY <3>1
  <2> QED
    BY <2>1, <2>2, <2>3, <2>4, <2>5, <2>6 DEF CallStep
<1> QED
  BY <1>1, InitOrder, NextOrder, FullInductive, PTL DEF Spec, OldestFirst

=============================================================================
