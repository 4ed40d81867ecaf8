----------------------------- MODULE PullReceive -----------------------------
(***************************************************************************)
(* The pull path of UTransportLola over the native backend                 *)
(* (src/src/transport.rs, receive_validated_zero_copy and what it calls).  *)
(*                                                                         *)
(* Several tasks call receive concurrently on one transport.  A call first *)
(* looks for a retained sample that matches its filters; then it takes     *)
(* samples from the transport's own subscription until one matches, and    *)
(* retains every other sample in the bounded pull mismatch queue.  Each    *)
(* lock (queue, subscriber) is held for one step and never across another  *)
(* lock, so calls interleave between the steps, and a call that waits for  *)
(* a lock may be cancelled: its future is dropped with what it owns.       *)
(*                                                                         *)
(* Every sample that is retained, in the hands of a call, or leased to the *)
(* application occupies one slot of the subscription's RX sample pool.     *)
(***************************************************************************)
EXTENDS Naturals, FiniteSets, SequencesExt

CONSTANTS
    Receivers,      \* tasks that call receive on the one transport
    Topics,         \* what filters tell apart: classes of (source, sink) pairs
    Malformed,      \* the "topic" of a sample that read_frame_header refuses
    NoSample,       \* no sample in the hands of a call
    Capacity,       \* pull_mismatch_queue_capacity
    Policy,         \* pull_mismatch_queue_full_policy
    MaxSamples,     \* max_samples: RX pool slots of the subscription
    MaxLeases,      \* bound: leases the application holds plus calls it runs
    MaxSent,        \* bound: samples published
    CounterMax,     \* largest value of a diagnostics counter (u64::MAX)
    ProxyFaults     \* TRUE: GetNewSamples and subscribing may fail

Policies == {"DropOldestAndReport", "RejectNewestAndReport"}

ASSUME ConstantsAssumption ==
    /\ Capacity \in Nat
    /\ Policy \in Policies
    /\ MaxSamples \in Nat \ {0}
    /\ MaxLeases \in Nat \ {0}
    /\ MaxSent \in Nat
    /\ CounterMax \in Nat
    /\ ProxyFaults \in BOOLEAN
    /\ Malformed \notin Topics
    /\ IsFiniteSet(Receivers)

\* A published sample: its place in the publication order and its topic.
Sample == [id : 1..MaxSent, topic : Topics \cup {Malformed}]

\* A (source, sink) filter is the set of topics it matches.
Filter == SUBSET Topics

ASSUME NoSampleAssumption == NoSample \notin Sample

\* Why a published sample can never be delivered any more.
LossReasons == {"dropped", "rejected", "cancelled", "exhausted", "unreadable",
                "malformed", "unsubscribed"}

Statuses == {"none", "OK", "NOT_FOUND", "RESOURCE_EXHAUSTED", "INTERNAL",
             "INVALID_ARGUMENT", "cancelled"}

VARIABLES
    sent,           \* number of samples published so far
    subscribed,     \* the lazily created NativeSubscriber exists
    pending,        \* samples the subscription has not handed out yet
    queue,          \* PullMismatchQueueState.queue
    dropped,        \* PullMismatchQueueState.dropped_mismatches
    rejected,       \* PullMismatchQueueState.rejected_mismatches
    pc,             \* where each call is: "idle", waiting for the lock of "pop",
                    \* "next" or "queue", or in its "first" receive
    filter,         \* filters of the call
    hand,           \* the mismatched sample the call owns
    status,         \* result of the task's last call, once it has ended
    leases,         \* LolaRxLease values the application holds
    delivered,      \* history: samples returned by a call
    lost            \* history: for each reason, the samples lost to it

diagnostics == <<dropped, rejected>>
call == <<pc, filter, hand, status>>
app == <<leases, delivered>>
vars == <<sent, subscribed, pending, queue, diagnostics, call, app, lost>>

-----------------------------------------------------------------------------

Init ==
    /\ sent = 0
    /\ subscribed = FALSE
    /\ pending = <<>>
    /\ queue = <<>>
    /\ dropped = 0
    /\ rejected = 0
    /\ pc = [r \in Receivers |-> "idle"]
    /\ filter = [r \in Receivers |-> {}]
    /\ hand = [r \in Receivers |-> NoSample]
    /\ status = [r \in Receivers |-> "none"]
    /\ leases = {}
    /\ delivered = {}
    /\ lost = [reason \in LossReasons |-> {}]

\* frame_matches, filters being the sets of topics they match.
Matches(s, f) == s.topic \in f

\* u64::saturating_add(1).
SaturatingInc(c) == IF c < CounterMax THEN c + 1 ELSE c

Calling == {r \in Receivers : pc[r] # "idle"}
Holding == {r \in Receivers : hand[r] # NoSample}

\* RX pool slots in use: one per live LolaRxLease of this subscription.
SlotsInUse == Len(queue) + Cardinality(Holding) + Cardinality(leases)

\* Bug: the queue is searched from its newest sample.
IsFirstMatch_Newest(i, f) ==
    /\ i \in 1..Len(queue)
    /\ Matches(queue[i], f)
    /\ \A j \in (i + 1)..Len(queue) : ~Matches(queue[j], f)

\* Bug: the oldest retained sample is taken, whatever it is.
IsFirstMatch_Any(i, f) == i = 1 /\ Len(queue) > 0

\* The index of the first retained sample that matches f.
IsFirstMatch(i, f) ==
    /\ i \in 1..Len(queue)
    /\ Matches(queue[i], f)
    /\ \A j \in 1..(i - 1) : ~Matches(queue[j], f)

Lose(reason, s) == lost' = [lost EXCEPT ![reason] = @ \cup {s}]

\* The call of r ends with a result; it owns no sample any more.
Return(r, result) ==
    /\ pc' = [pc EXCEPT ![r] = "idle"]
    /\ filter' = [filter EXCEPT ![r] = {}]
    /\ hand' = [hand EXCEPT ![r] = NoSample]
    /\ status' = [status EXCEPT ![r] = result]

\* The call of r returns s, which the application now leases.
Deliver(r, s) ==
    /\ Return(r, "OK")
    /\ leases' = leases \cup {s}
    /\ delivered' = delivered \cup {s}

-----------------------------------------------------------------------------

\* The event's publisher sends a sample; only an existing subscription sees it.
Publish(t) ==
    /\ sent < MaxSent
    /\ sent' = sent + 1
    /\ LET s == [id |-> sent + 1, topic |-> t] IN
       IF subscribed
       THEN pending' = Append(pending, s) /\ UNCHANGED lost
       ELSE Lose("unsubscribed", s) /\ UNCHANGED pending
    /\ UNCHANGED <<subscribed, queue, diagnostics, call, app>>

\* The application starts a receive.
Call(r, f) ==
    /\ pc[r] = "idle"
    /\ Cardinality(leases) + Cardinality(Calling) < MaxLeases
    /\ pc' = [pc EXCEPT ![r] = "pop"]
    /\ filter' = [filter EXCEPT ![r] = f]
    /\ status' = [status EXCEPT ![r] = "none"]
    /\ UNCHANGED <<sent, subscribed, pending, queue, diagnostics, hand, app, lost>>

\* Bug: the sample is handed out and stays retained.
PopQueued_KeepsSample(r) ==
    /\ pc[r] = "pop"
    /\ \E i \in 1..Len(queue) : IsFirstMatch(i, filter[r]) /\ Deliver(r, queue[i])
    /\ UNCHANGED <<sent, subscribed, pending, queue, diagnostics, lost>>

\* pop_queued_pull_sample finds a retained match: the call returns it.
PopQueued(r) ==
    /\ pc[r] = "pop"
    /\ \E i \in 1..Len(queue) :
          /\ IsFirstMatch(i, filter[r])
          /\ queue' = RemoveAt(queue, i)
          /\ Deliver(r, queue[i])
    /\ UNCHANGED <<sent, subscribed, pending, diagnostics, lost>>

\* Bug: the call turns to the subscription without searching the queue.
PopNothing_NoSearch(r) ==
    /\ pc[r] = "pop"
    /\ pc' = [pc EXCEPT ![r] = "next"]
    /\ UNCHANGED <<sent, subscribed, pending, queue, diagnostics, filter, hand,
                   status, app, lost>>

\* pop_queued_pull_sample finds none: the call turns to the subscription.
PopNothing(r) ==
    /\ pc[r] = "pop"
    /\ \A i \in 1..Len(queue) : ~Matches(queue[i], filter[r])
    /\ pc' = [pc EXCEPT ![r] = "next"]
    /\ UNCHANGED <<sent, subscribed, pending, queue, diagnostics, filter, hand,
                   status, app, lost>>

\* receive_next_zero_copy creates the subscriber on first use and goes on to
\* receive from it under the same lock.
Subscribe(r) ==
    /\ pc[r] = "next"
    /\ ~subscribed
    /\ subscribed' = TRUE
    /\ pc' = [pc EXCEPT ![r] = "first"]
    /\ UNCHANGED <<sent, pending, queue, diagnostics, filter, hand, status, app, lost>>

\* NativeSubscriber::new fails: no service found, or a LoLa error.  (INVALID_ARGUMENT is
\* for a configuration with which the transport itself could not be made.)
SubscribeFails(r) ==
    /\ ProxyFaults
    /\ pc[r] = "next"
    /\ ~subscribed
    /\ \E result \in {"NOT_FOUND", "INTERNAL"} : Return(r, result)
    /\ UNCHANGED <<sent, subscribed, pending, queue, diagnostics, app, lost>>

\* The call has the subscriber lock and a subscriber to receive from.
HasSubscriber(r) ==
    \/ pc[r] = "first"
    \/ pc[r] = "next" /\ subscribed /\ \A q \in Receivers : pc[q] # "first"

\* Bug: NOT_FOUND is skipped and the call starts over.
ReceiveNothing_Retries(r) ==
    /\ HasSubscriber(r)
    /\ pending = <<>>
    /\ pc' = [pc EXCEPT ![r] = "pop"]
    /\ UNCHANGED <<sent, subscribed, pending, queue, diagnostics, filter, hand,
                   status, app, lost>>

\* The subscription has nothing to hand out.
ReceiveNothing(r) ==
    /\ HasSubscriber(r)
    /\ pending = <<>>
    /\ Return(r, "NOT_FOUND")
    /\ UNCHANGED <<sent, subscribed, pending, queue, diagnostics, app, lost>>

\* All max_samples samples are out and another waits.  Either LoLa refuses to hand out one more,
\* or it does and the bridge finds no free pool slot and drops the sample.
ReceiveAtLimit(r) ==
    /\ HasSubscriber(r)
    /\ pending # <<>>
    /\ SlotsInUse >= MaxSamples
    /\ \/ /\ Return(r, "INTERNAL")
          /\ UNCHANGED <<pending, lost>>
       \/ /\ pending' = Tail(pending)
          /\ Lose("exhausted", Head(pending))
          /\ Return(r, "RESOURCE_EXHAUSTED")
    /\ UNCHANGED <<sent, subscribed, queue, diagnostics, app>>

\* The bridge takes the next sample and finds a pool slot for it.
TakeNext(r) ==
    /\ HasSubscriber(r)
    /\ pending # <<>>
    /\ SlotsInUse < MaxSamples
    /\ pending' = Tail(pending)

\* GetNewSamples fails for a reason of its own, or the bridge finds the sample it
\* took, and the slot for it, without data at an aligned address: it gives both up.
ReceiveFails(r) ==
    /\ ProxyFaults
    /\ \/ HasSubscriber(r) /\ UNCHANGED <<pending, lost>>
       \/ TakeNext(r) /\ Lose("unreadable", Head(pending))
    /\ Return(r, "INTERNAL")
    /\ UNCHANGED <<sent, subscribed, queue, diagnostics, app>>

\* LolaRxLease::from_native refuses the sample, which is consumed.
ReceiveInvalid(r) ==
    /\ TakeNext(r)
    /\ Head(pending).topic = Malformed
    /\ Lose("malformed", Head(pending))
    /\ Return(r, "INVALID_ARGUMENT")
    /\ UNCHANGED <<sent, subscribed, queue, diagnostics, app>>

\* The sample matches the filters of the call.
ReceiveMatch(r) ==
    /\ TakeNext(r)
    /\ Matches(Head(pending), filter[r])
    /\ Deliver(r, Head(pending))
    /\ UNCHANGED <<sent, subscribed, queue, diagnostics, lost>>

\* The sample does not match: the call will retain it once it has the lock.
ReceiveMismatch(r) ==
    /\ TakeNext(r)
    /\ Head(pending).topic # Malformed
    /\ ~Matches(Head(pending), filter[r])
    /\ hand' = [hand EXCEPT ![r] = Head(pending)]
    /\ pc' = [pc EXCEPT ![r] = "queue"]
    /\ UNCHANGED <<sent, subscribed, queue, diagnostics, filter, status, app, lost>>

\* queue_pull_sample is done with the sample: the call takes the next one.
Retry(r) ==
    /\ hand' = [hand EXCEPT ![r] = NoSample]
    /\ pc' = [pc EXCEPT ![r] = "next"]
    /\ UNCHANGED <<filter, status>>

\* Bug: full one sample too late.
IsFull_OffByOne == Len(queue) > Capacity

IsFull == Len(queue) >= Capacity

\* Bug: the early return after counting is missing.
QueueDisabled_FallsThrough(r) ==
    /\ pc[r] = "queue"
    /\ Capacity = 0
    /\ dropped' = SaturatingInc(dropped)
    /\ Lose("dropped", hand[r])
    /\ queue' = Append(queue, hand[r])
    /\ Retry(r)
    /\ UNCHANGED <<sent, subscribed, pending, rejected, app>>

\* queue_pull_sample with capacity 0: the sample is dropped and counted.
QueueDisabled(r) ==
    /\ pc[r] = "queue"
    /\ Capacity = 0
    /\ dropped' = SaturatingInc(dropped)
    /\ Lose("dropped", hand[r])
    /\ Retry(r)
    /\ UNCHANGED <<sent, subscribed, pending, queue, rejected, app>>

\* Bug: the queue keeps what is left after the sample was moved out.
QueueRetain_Moved(r) ==
    /\ pc[r] = "queue"
    /\ ~IsFull
    /\ Retry(r)
    /\ queue' = Append(queue, hand'[r])
    /\ UNCHANGED <<sent, subscribed, pending, diagnostics, app, lost>>

\* queue_pull_sample finds room.
QueueRetain(r) ==
    /\ pc[r] = "queue"
    /\ ~IsFull
    /\ queue' = Append(queue, hand[r])
    /\ Retry(r)
    /\ UNCHANGED <<sent, subscribed, pending, diagnostics, app, lost>>

\* Bug: pop_back for pop_front.
QueueDropOldest_DropsNewest(r) ==
    /\ pc[r] = "queue"
    /\ Capacity > 0
    /\ IsFull
    /\ Policy = "DropOldestAndReport"
    /\ queue' = Append(Front(queue), hand[r])
    /\ dropped' = SaturatingInc(dropped)
    /\ Lose("dropped", Last(queue))
    /\ Retry(r)
    /\ UNCHANGED <<sent, subscribed, pending, rejected, app>>

\* Bug: the drop is not counted.
QueueDropOldest_NoCount(r) ==
    /\ pc[r] = "queue"
    /\ Capacity > 0
    /\ IsFull
    /\ Policy = "DropOldestAndReport"
    /\ queue' = Append(Tail(queue), hand[r])
    /\ Lose("dropped", Head(queue))
    /\ Retry(r)
    /\ UNCHANGED <<sent, subscribed, pending, diagnostics, app>>

\* queue_pull_sample, full, DropOldestAndReport.
QueueDropOldest(r) ==
    /\ pc[r] = "queue"
    /\ Capacity > 0
    /\ IsFull
    /\ Policy = "DropOldestAndReport"
    /\ queue' = Append(Tail(queue), hand[r])
    /\ dropped' = SaturatingInc(dropped)
    /\ Lose("dropped", Head(queue))
    /\ Retry(r)
    /\ UNCHANGED <<sent, subscribed, pending, rejected, app>>

\* Bug: the call is rejected and its sample retained all the same.
QueueReject_Retains(r) ==
    /\ pc[r] = "queue"
    /\ Capacity > 0
    /\ IsFull
    /\ Policy = "RejectNewestAndReport"
    /\ rejected' = SaturatingInc(rejected)
    /\ queue' = Append(queue, hand[r])
    /\ Lose("rejected", hand[r])
    /\ Return(r, "RESOURCE_EXHAUSTED")
    /\ UNCHANGED <<sent, subscribed, pending, dropped, app>>

\* queue_pull_sample, full, RejectNewestAndReport: the call fails and the
\* sample it took is gone.
QueueReject(r) ==
    /\ pc[r] = "queue"
    /\ Capacity > 0
    /\ IsFull
    /\ Policy = "RejectNewestAndReport"
    /\ rejected' = SaturatingInc(rejected)
    /\ Lose("rejected", hand[r])
    /\ Return(r, "RESOURCE_EXHAUSTED")
    /\ UNCHANGED <<sent, subscribed, pending, queue, dropped, app>>

\* The future of the call is dropped while it waits for a lock; the sample it
\* owns, if any, goes with it and no counter says so.
Cancel(r) ==
    /\ pc[r] \in {"pop", "next", "queue"}
    /\ Return(r, "cancelled")
    /\ IF hand[r] = NoSample THEN UNCHANGED lost ELSE Lose("cancelled", hand[r])
    /\ UNCHANGED <<sent, subscribed, pending, queue, diagnostics, app>>

\* The application drops a lease; its pool slot is free again.
DropLease(s) ==
    /\ s \in leases
    /\ leases' = leases \ {s}
    /\ UNCHANGED <<sent, subscribed, pending, queue, diagnostics, call, delivered, lost>>

-----------------------------------------------------------------------------

\* The steps a call takes by itself once it is polled.
CallStep(r) ==
    \/ PopQueued(r) \/ PopNothing(r)
    \/ Subscribe(r) \/ SubscribeFails(r)
    \/ ReceiveFails(r) \/ ReceiveNothing(r) \/ ReceiveAtLimit(r)
    \/ ReceiveInvalid(r) \/ ReceiveMatch(r) \/ ReceiveMismatch(r)
    \/ QueueDisabled(r) \/ QueueRetain(r) \/ QueueDropOldest(r) \/ QueueReject(r)

Next ==
    \/ \E t \in Topics \cup {Malformed} : Publish(t)
    \/ \E r \in Receivers, f \in Filter : Call(r, f)
    \/ \E r \in Receivers : CallStep(r)
    \/ \E r \in Receivers : Cancel(r)
    \/ \E s \in leases : DropLease(s)

Spec == Init /\ [][Next]_vars

\* The tasks are scheduled: a call that can go on does.  Cancelling, calling
\* and publishing are up to the application.
FairSpec == Spec /\ \A r \in Receivers : WF_vars(CallStep(r))

-----------------------------------------------------------------------------
(* Properties *)

TypeOK ==
    /\ sent \in 0..MaxSent
    /\ subscribed \in BOOLEAN
    /\ pending \in Seq(Sample)
    /\ queue \in Seq(Sample)
    /\ dropped \in Nat
    /\ rejected \in Nat
    /\ pc \in [Receivers -> {"idle", "pop", "next", "first", "queue"}]
    /\ filter \in [Receivers -> Filter]
    /\ hand \in [Receivers -> Sample \cup {NoSample}]
    /\ status \in [Receivers -> Statuses]
    /\ leases \in SUBSET Sample
    /\ delivered \in SUBSET Sample
    /\ lost \in [LossReasons -> SUBSET Sample]

\* The places where the sample published as number n can be.
Fates(n) ==
    LET At(S) == \E s \in S : s.id = n IN
    {reason \in LossReasons : At(lost[reason])}
        \cup {place \in {"pending", "queue", "hand", "delivered"} :
                 \/ place = "pending" /\ At(ToSet(pending))
                 \/ place = "queue" /\ At(ToSet(queue))
                 \/ place = "hand" /\ At({hand[r] : r \in Holding})
                 \/ place = "delivered" /\ At(delivered)}

\* No sample is lost without a reason, delivered twice, or delivered after it
\* was reported dropped or rejected, however the calls interleave: each
\* published sample is in exactly one place, and there once.
EachSampleHasOneFate ==
    /\ \A n \in 1..sent : Cardinality(Fates(n)) = 1
    /\ IsInjective(pending)
    /\ IsInjective(queue)
    /\ \A r, q \in Holding : hand[r] = hand[q] => r = q
    /\ leases \subseteq delivered

Saturated(n) == IF n < CounterMax THEN n ELSE CounterMax

\* pull_mismatch_queue_diagnostics tells the truth: the counters are the
\* numbers of samples dropped and rejected, up to saturation, and the queue
\* never holds more than its capacity.
DiagnosticsAreExact ==
    /\ dropped = Saturated(Cardinality(lost["dropped"]))
    /\ rejected = Saturated(Cardinality(lost["rejected"]))
    /\ Len(queue) <= Capacity

\* A deployment whose max_samples covers the retained mismatches and the
\* leases of the application never runs out of RX pool slots.
Provisioned == Capacity + MaxLeases <= MaxSamples

PoolNeverExhausted ==
    Provisioned =>
        /\ lost["exhausted"] = {}
        /\ \A r \in Receivers : HasSubscriber(r) => SlotsInUse < MaxSamples

\* A call that fails with RESOURCE_EXHAUSTED was rejected by a full mismatch queue,
\* or what the application can see accounts for every slot of the pool: its leases,
\* one sample for each other call in progress, and as many as the queue may retain.
ExhaustionHasCause ==
    [][\A r \in Receivers :
          (pc[r] # "idle" /\ pc'[r] = "idle" /\ status'[r] = "RESOURCE_EXHAUSTED")
            => \/ /\ Policy = "RejectNewestAndReport"
                  /\ lost'["rejected"] = lost["rejected"] \cup {hand[r]}
                  /\ Len(queue) = Capacity
               \/ MaxSamples <=
                     Capacity + Cardinality(leases) + Cardinality(Calling \ {r})]_vars

\* A sample is only returned by a call in progress whose filters it matches,
\* and exactly one sample by a call that ends with OK.
DeliveryMatchesFilter ==
    [][\A r \in Receivers :
          (pc[r] # "idle" /\ pc'[r] = "idle" /\ status'[r] = "OK")
            => \E s \in Sample :
                  /\ delivered' \ delivered = {s}
                  /\ s \in leases'
                  /\ Matches(s, filter[r])]_vars

\* A retained sample leaves the queue in one of two ways only: delivered to a
\* call it matches, or as the oldest of a full queue under DropOldestAndReport.
RetainedLossIsOldest ==
    [][\A s \in ToSet(queue) \ ToSet(queue') :
          \/ s \in delivered' \ delivered
          \/ /\ Policy = "DropOldestAndReport"
             /\ Len(queue) = Capacity
             /\ s = Head(queue)
             /\ dropped' = SaturatingInc(dropped)]_vars

\* As long as one task receives alone, a call returns the oldest sample alive that
\* matches its filters, whether retained or still in the subscription, and it
\* returns NOT_FOUND only when no such sample exists.
OldestFirst ==
    [][\A r \in Receivers :
          LET others == Receivers \ {r}
              alive == ToSet(queue) \cup ToSet(pending)
              matching == {s \in alive : Matches(s, filter[r])} IN
          /\ \A q \in others : pc[q] = "idle" /\ status[q] = "none"
          /\ pc[r] # "idle" /\ pc'[r] = "idle"
          => /\ status'[r] = "OK" =>
                    \A s \in delivered' \ delivered, m \in matching : s.id <= m.id
             /\ status'[r] = "NOT_FOUND" /\ subscribed => matching = {}]_vars

\* Once publishing stops, every call ends.
CallsEnd == \A r \in Receivers : pc[r] # "idle" ~> pc[r] = "idle"

\* A call of r for topic t ran to its end: it was neither cancelled nor refused.
CallEnds(r, t) ==
    /\ t \in filter[r]
    /\ pc'[r] = "idle"
    /\ status'[r] \in {"OK", "NOT_FOUND"}

\* A sample the subscription has received and no call has returned yet.
Alive(n, t) ==
    \E s \in ToSet(pending) \cup ToSet(queue) \cup {hand[r] : r \in Holding} :
        s.id = n /\ s.topic = t

\* If calls for a topic keep running to their end, no sample of that topic
\* stays behind: neither in the subscription, nor in the mismatch queue, nor in
\* the hands of a call for another topic.
PolledTopicIsDrained ==
    \A r \in Receivers, t \in Topics, n \in 1..MaxSent :
        []<><<CallEnds(r, t)>>_vars => (Alive(n, t) ~> ~Alive(n, t))

\* What src/README.md says of the default policy: with a full queue a receive
\* call does not fail (a malformed sample apart).
FullQueueIsNonErroring ==
    [][\A r \in Receivers :
          /\ Policy = "DropOldestAndReport"
          /\ Capacity > 0 /\ Len(queue) = Capacity
          /\ pc[r] # "idle" /\ pc'[r] = "idle"
          => status'[r] \notin {"RESOURCE_EXHAUSTED", "INTERNAL"}]_vars

-----------------------------------------------------------------------------
(* The contract this implements *)

\* The samples the transport has and has not disposed of.
Box == ToSet(pending) \cup ToSet(queue) \cup {hand[r] : r \in Holding}

Contract == INSTANCE ReceiveContract WITH
    Callers <- Receivers,
    Sample <- Sample,
    box <- Box,
    got <- delivered,
    gone <- UNION {lost[reason] : reason \in LossReasons},
    asking <- [r \in Receivers |-> IF pc[r] = "idle" THEN {} ELSE {filter[r]}]

\* Every behaviour of the pull path is one of the contract's, and every call
\* that the contract says is answered is answered.
ImplementsContract == Contract!FairSpec

=============================================================================
