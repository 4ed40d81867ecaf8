----------------------------- MODULE StubBackend -----------------------------
(***************************************************************************)
(* UTransportLola over the test-stub backend (src/src/transport.rs) under  *)
(* the owned benchmark transport (src/src/owned_benchmark.rs).             *)
(*                                                                         *)
(* The stub has one queue of sent samples: receive calls and the listener  *)
(* task both take from it, and what one of them takes the other never      *)
(* sees.  The mismatch queue is that of PullReceive; registering and the   *)
(* loop of the listener task are those of ListenerDispatch, without a      *)
(* subscription per registration.                                          *)
(*                                                                         *)
(* The owned transport registers a listener of its own making with the     *)
(* inner transport and records it afterwards, and forgets the record       *)
(* before it unregisters it: each time two steps with an await between.    *)
(***************************************************************************)
EXTENDS Naturals, FiniteSets, SequencesExt

CONSTANTS
    Receivers,      \* tasks that call receive
    Callers,        \* tasks that register and unregister owned listeners
    Owned,          \* the owned listeners, told apart by Arc::ptr_eq
    Topics,         \* what filters tell apart
    Filters,        \* the filters of listeners: sets of topics
    Malformed,      \* as in PullReceive; the stub has no such sample
    NoSample,       \* no sample in the hands of a call or of a task
    NoTask,         \* listener_task is None
    NoCall,         \* a caller is in no call of the owned transport
    Capacity,       \* pull_mismatch_queue_capacity
    Policy,         \* pull_mismatch_queue_full_policy
    MaxLeases,      \* bound: leases the application holds plus receive calls
    MaxRegs,        \* bound: registrations made
    MaxSent,        \* bound: samples sent
    CounterMax,     \* largest value of a diagnostics counter (u64::MAX)
    Faults,         \* TRUE: a register call may run outside Tokio, a callback panic
    Cancellation    \* TRUE: register and unregister futures may be dropped

VARIABLES
    sent, pending,  \* samples sent, and UTransportLola.pending
    \* those of PullReceive; its pc is rpc
    queue, dropped, rejected, rpc, filter, hand, status, leases, delivered, lost,
    \* those of ListenerDispatch
    listeners, key, regs, cpc, task, tasks, pc, aborted, batch, received,
    probe,          \* the sample each task took and has not matched yet
    taken,          \* history: the samples that listener tasks took
    records,        \* BenchmarkOwnedLolaTransport.listeners
    calls,          \* the register or unregister call each caller is in
    interrupted     \* history: registrations of calls that were cut short

pull == <<queue, dropped, rejected, rpc, filter, hand, status, leases, delivered, lost>>
registry == <<listeners, key, regs, cpc>>
loop == <<task, tasks, pc, aborted, batch, received>>
poll == <<probe, taken>>
owned == <<records, calls, interrupted>>
vars == <<sent, pending, pull, registry, loop, poll, owned>>

\* The retained samples and the calls of PullReceive.  Nothing here ever
\* subscribes, and there is no pool.
Pull == INSTANCE PullReceive WITH
    pc <- rpc, subscribed <- ~TRUE, ProxyFaults <- FALSE,
    MaxSamples <- Capacity + MaxLeases

\* The registry and the task loop of ListenerDispatch.  The owned transport
\* keeps its inner transport alive, and makes a listener for each registration.
Dispatch == INSTANCE ListenerDispatch WITH
    Listeners <- 1..MaxRegs, alive <- ~FALSE,
    inbox <- [n \in 1..MaxRegs |-> <<>>], cursor <- [t \in 1..MaxRegs |-> 0]

Tasks == 1..MaxRegs
Sample == [id : 1..MaxSent, topic : Topics]

\* OwnedListenerRegistration; reg numbers the inner listener.
Record == [owned : Owned, topics : Filters, reg : 1..MaxRegs]
OwnedCall == [step : {"register", "unregister"}, record : Record]
CallOf == OwnedCall \cup {NoCall}

ASSUME ConstantsAssumption ==
    /\ MaxRegs \in Nat \ {0}
    /\ MaxSent \in Nat
    /\ CounterMax \in Nat
    /\ Capacity \in Nat
    /\ Policy \in Pull!Policies
    /\ Filters \subseteq SUBSET Topics
    /\ IsFiniteSet(Receivers)

\* The marks of absence are none of the values whose place they take.
ASSUME AbsenceAssumption ==
    /\ NoSample \notin Sample
    /\ NoTask \notin Tasks
    /\ NoCall \notin OwnedCall

Init ==
    /\ Pull!Init
    /\ Dispatch!Init
    /\ probe = [t \in Tasks |-> NoSample]
    /\ taken = {}
    /\ records = <<>>
    /\ calls = [c \in Callers |-> NoCall]
    /\ interrupted = {}

-----------------------------------------------------------------------------
(* send_validated_zero_copy and receive_validated_zero_copy *)

\* The sample of a loan, always well formed, enters the queue.
Send(t) ==
    /\ sent < MaxSent
    /\ sent' = sent + 1
    /\ pending' = Append(pending, [id |-> sent + 1, topic |-> t])
    /\ UNCHANGED <<pull, registry, loop, poll, owned>>

\* The queue is empty.
ReceiveNothing(r) ==
    /\ rpc[r] = "next"
    /\ pending = <<>>
    /\ Pull!Return(r, "NOT_FOUND")
    /\ UNCHANGED <<sent, pending, queue, dropped, rejected, leases, delivered, lost>>

\* The call has the queue's lock and takes the first sample.
ReceiveNext(r) ==
    /\ rpc[r] = "next"
    /\ pending # <<>>
    /\ pending' = Tail(pending)

\* It matches and is returned.
ReceiveMatch(r) ==
    /\ ReceiveNext(r)
    /\ Pull!Matches(Head(pending), filter[r])
    /\ Pull!Deliver(r, Head(pending))
    /\ UNCHANGED <<sent, queue, dropped, rejected, lost>>

\* Bug: the sample is looked at and stays in the queue.
ReceiveMismatch_Peeks(r) ==
    /\ rpc[r] = "next"
    /\ pending # <<>>
    /\ ~Pull!Matches(Head(pending), filter[r])
    /\ hand' = [hand EXCEPT ![r] = Head(pending)]
    /\ rpc' = [rpc EXCEPT ![r] = "queue"]
    /\ UNCHANGED <<sent, pending, queue, dropped, rejected, filter, status, leases,
                   delivered, lost>>

\* It does not: the lock is released, the sample is retained or dropped, and
\* the call locks the queue again, which may have changed meanwhile.
ReceiveMismatch(r) ==
    /\ ReceiveNext(r)
    /\ ~Pull!Matches(Head(pending), filter[r])
    /\ hand' = [hand EXCEPT ![r] = Head(pending)]
    /\ rpc' = [rpc EXCEPT ![r] = "queue"]
    /\ UNCHANGED <<sent, queue, dropped, rejected, filter, status, leases,
                   delivered, lost>>

\* The steps of a receive call; those on the mismatch queue are the native ones.
ReceiveStep(r) ==
    /\ \/ Pull!PopQueued(r) \/ Pull!PopNothing(r)
       \/ ReceiveNothing(r) \/ ReceiveMatch(r) \/ ReceiveMismatch(r)
       \/ Pull!QueueDisabled(r) \/ Pull!QueueRetain(r)
       \/ Pull!QueueDropOldest(r) \/ Pull!QueueReject(r)
    /\ UNCHANGED <<registry, loop, poll, owned>>

\* What the application does with receive calls and their leases.  A delivered sample
\* that the wrapper fails to copy into a frame of its own is a lease dropped at once.
Application ==
    /\ \/ \E r \in Receivers : Pull!Cancel(r) \/ \E f \in Filters : Pull!Call(r, f)
       \/ \E s \in leases : Pull!DropLease(s)
    /\ UNCHANGED <<registry, loop, poll, owned>>

-----------------------------------------------------------------------------
(* poll_listener_frames *)

\* The queue is empty: the loop sleeps.
PollEmpty(t) ==
    /\ pc[t] = "lock"
    /\ pending = <<>>
    /\ Dispatch!GoTo(t, "sleep")
    /\ UNCHANGED <<sent, pending, pull, registry, task, tasks, aborted, batch,
                   received, poll, owned>>

\* The first sample is taken, whether or not a listener matches it.
PollPop(t) ==
    /\ pc[t] = "lock"
    /\ pending # <<>>
    /\ pending' = Tail(pending)
    /\ probe' = [probe EXCEPT ![t] = Head(pending)]
    /\ taken' = taken \cup {Head(pending)}
    /\ Dispatch!GoTo(t, "probe")
    /\ UNCHANGED <<sent, pull, registry, task, tasks, aborted, batch, received, owned>>

\* Bug: every listener is given the sample.
Matching_Any(s) == listeners

\* Bug: a registration is matched whether or not it is still there.
Matching_Removed(s) == SelectSeq([n \in 1..regs |-> n], LAMBDA n : s.topic \in key[n].topics)

\* The registrations that match s, in order: those among the first i, for all.
Matching(s) ==
    LET among[i \in 0..Len(listeners)] ==
          IF i = 0 THEN <<>>
          ELSE IF s.topic \in key[listeners[i]].topics
               THEN Append(among[i - 1], listeners[i])
               ELSE among[i - 1]
    IN  among[Len(listeners)]

\* Bug: a sample that matches no listener goes back to the head of the queue.
PollMatch_PutsBack(t) ==
    /\ pc[t] = "probe"
    /\ LET s == probe[t] IN
          /\ batch' = [batch EXCEPT ![t] =
                          [i \in DOMAIN Matching(s) |-> [reg |-> Matching(s)[i], sample |-> s]]]
          /\ IF Matching(s) = <<>>
             THEN /\ pending' = <<s>> \o pending
                  /\ taken' = taken \ {s}
                  /\ Dispatch!GoTo(t, "sleep")
             ELSE Dispatch!GoTo(t, "deliver") /\ UNCHANGED <<pending, taken>>
    /\ probe' = [probe EXCEPT ![t] = NoSample]
    /\ UNCHANGED <<sent, pull, registry, task, tasks, aborted, received, owned>>

\* The registry, locked only now, says who gets a copy; if nobody does, the
\* sample is gone and the loop sleeps.
PollMatch(t) ==
    /\ pc[t] = "probe"
    /\ LET s == probe[t] IN
          /\ batch' = [batch EXCEPT ![t] =
                          [i \in DOMAIN Matching(s) |-> [reg |-> Matching(s)[i], sample |-> s]]]
          /\ Dispatch!GoTo(t, IF Matching(s) = <<>> THEN "sleep" ELSE "deliver")
    /\ probe' = [probe EXCEPT ![t] = NoSample]
    /\ UNCHANGED <<sent, pending, pull, registry, task, tasks, aborted, received,
                   taken, owned>>

\* Bug: the sample of a stopped task is kept.
PollStop_KeepsProbe(t) ==
    /\ t \in aborted
    /\ pc[t] = "probe"
    /\ Dispatch!GoTo(t, "finished")
    /\ UNCHANGED <<sent, pending, pull, registry, task, tasks, aborted, batch,
                   received, poll, owned>>

\* An aborted task stops where it waits for the registry, its sample with it.
PollStop(t) ==
    /\ t \in aborted
    /\ pc[t] = "probe"
    /\ Dispatch!GoTo(t, "finished")
    /\ probe' = [probe EXCEPT ![t] = NoSample]
    /\ UNCHANGED <<sent, pending, pull, registry, task, tasks, aborted, batch,
                   received, taken, owned>>

\* The other steps of the task loop are the native ones.
LoopStep(t) ==
    /\ \/ Dispatch!LoopUpgrade(t) \/ Dispatch!LoopCheck(t)
       \/ Dispatch!Deliver(t) \/ Dispatch!Wake(t) \/ Dispatch!Finish(t)
    /\ UNCHANGED <<pending, pull, poll, owned>>

\* What ends a task in the middle: a callback that panics, as that of the owned
\* transport does on a lease that makes no owned frame, or an abort.
LoopEnds(t) ==
    /\ Dispatch!CallbackPanics(t) \/ Dispatch!Stop(t)
    /\ UNCHANGED <<pending, pull, poll, owned>>

TaskStep(t) == PollEmpty(t) \/ PollPop(t) \/ PollMatch(t) \/ LoopStep(t)

-----------------------------------------------------------------------------
(* The owned transport *)

Idle(c) == calls[c] = NoCall /\ cpc[c] = "idle"

\* register_validated_owned_listener: the inner transport gets a new listener,
\* so it never finds that the owned one is registered already.
RegisterInner(c, o, f) ==
    /\ Idle(c)
    /\ Dispatch!RegisterPush(c, [listener |-> regs + 1, topics |-> f])
    /\ calls' = [calls EXCEPT ![c] =
                    [step |-> "register",
                     record |-> [owned |-> o, topics |-> f, reg |-> regs + 1]]]
    /\ UNCHANGED <<pending, pull, poll, records, interrupted>>

\* The inner call goes on to the task.
InnerStep(c) == Dispatch!CallStep(c) /\ UNCHANGED <<pending, pull, poll, owned>>

\* The inner call is over and succeeded: the registration is recorded.
RegisterRecord(c) ==
    /\ calls[c] # NoCall /\ cpc[c] = "idle"
    /\ calls[c].step = "register"
    /\ records' = Append(records, calls[c].record)
    /\ calls' = [calls EXCEPT ![c] = NoCall]
    /\ UNCHANGED <<sent, pending, pull, registry, loop, poll, interrupted>>

\* The record number i is the first for the listener o and the filters f.
IsRecord(i, o, f) ==
    /\ records[i].owned = o /\ records[i].topics = f
    /\ \A j \in 1..(i - 1) : ~(records[j].owned = o /\ records[j].topics = f)

\* Bug: the record is looked up and stays.
ForgetRecord_Keeps(c, o, f) ==
    /\ Idle(c)
    /\ \E i \in DOMAIN records :
          /\ IsRecord(i, o, f)
          /\ calls' = [calls EXCEPT ![c] = [step |-> "unregister", record |-> records[i]]]
    /\ UNCHANGED <<sent, pending, pull, registry, loop, poll, records, interrupted>>

\* unregister_validated_owned_listener: the record is removed; if there is
\* none the call ends with NOT_FOUND and nothing changes.
ForgetRecord(c, o, f) ==
    /\ Idle(c)
    /\ \E i \in DOMAIN records :
          /\ IsRecord(i, o, f)
          /\ records' = RemoveAt(records, i)
          /\ calls' = [calls EXCEPT ![c] = [step |-> "unregister", record |-> records[i]]]
    /\ UNCHANGED <<sent, pending, pull, registry, loop, poll, interrupted>>

\* Then the inner registration is.
UnregisterInner(c) ==
    /\ calls[c] # NoCall
    /\ calls[c].step = "unregister"
    /\ LET record == calls[c].record IN
       Dispatch!UnregisterRemove(c, [listener |-> record.reg, topics |-> record.topics])
    /\ calls' = [calls EXCEPT ![c] = NoCall]
    /\ UNCHANGED <<pending, pull, poll, records, interrupted>>

\* The call of c ends before its second step.
CutShort(c) ==
    /\ calls' = [calls EXCEPT ![c] = NoCall]
    /\ interrupted' = IF calls[c] = NoCall THEN interrupted
                      ELSE interrupted \cup {calls[c].record.reg}

\* The inner call fails: the owned one returns its error and records nothing.
RegisterFails(c) ==
    /\ Dispatch!EnsureFails(c)
    /\ CutShort(c)
    /\ UNCHANGED <<pending, pull, poll, records>>

\* The future of the owned call is dropped at an await, the inner one with it.
CancelOwned(c) ==
    /\ Cancellation
    /\ ~Idle(c)
    /\ cpc' = [cpc EXCEPT ![c] = "idle"]
    /\ CutShort(c)
    /\ UNCHANGED <<sent, pending, pull, listeners, key, regs, loop, poll, records>>

OwnedStep(c) == InnerStep(c) \/ RegisterRecord(c) \/ UnregisterInner(c)

-----------------------------------------------------------------------------

Next ==
    \/ \E t \in Topics : Send(t)
    \/ \E r \in Receivers : ReceiveStep(r)
    \/ Application
    \/ \E t \in Tasks : TaskStep(t) \/ PollStop(t) \/ LoopEnds(t)
    \/ \E c \in Callers :
          \/ OwnedStep(c) \/ RegisterFails(c) \/ CancelOwned(c)
          \/ \E o \in Owned, f \in Filters : RegisterInner(c, o, f) \/ ForgetRecord(c, o, f)

Spec == Init /\ [][Next]_vars

\* The listener tasks are scheduled, their sleeps end and callbacks return.
FairSpec == Spec /\ \A t \in Tasks : WF_vars(TaskStep(t))

-----------------------------------------------------------------------------
(* Properties *)

TypeOK ==
    /\ sent \in 0..MaxSent /\ pending \in Seq(Sample)
    /\ queue \in Seq(Sample) /\ dropped \in Nat /\ rejected \in Nat
    /\ rpc \in [Receivers -> {"idle", "pop", "next", "queue"}]
    /\ hand \in [Receivers -> Sample \cup {NoSample}]
    /\ listeners \in Seq(Tasks) /\ task \in Tasks \cup {NoTask}
    /\ pc \in [Tasks -> {"unspawned", "top", "check", "lock", "probe", "deliver",
                         "sleep", "exit", "finished"}]
    /\ \A t \in Tasks : (pc[t] = "probe") <=> (probe[t] \in Sample)
    /\ \A t \in Tasks : (pc[t] = "deliver") <=> (batch[t] # <<>>)
    /\ taken \in SUBSET Sample
    /\ records \in Seq(Record)
    /\ calls \in [Callers -> CallOf]
    /\ interrupted \in SUBSET Tasks

\* Where sample number n is, or where it has gone to.
Takers(n) ==
    LET At(S) == \E s \in S : s.id = n IN
    {place \in {"pending", "queue", "hand", "delivered", "lost", "taken"} :
        \/ place = "pending" /\ At(ToSet(pending))
        \/ place = "queue" /\ At(ToSet(queue))
        \/ place = "hand" /\ At({hand[r] : r \in Receivers} \ {NoSample})
        \/ place = "delivered" /\ At(delivered)
        \/ place = "lost" /\ At(UNION {lost[reason] : reason \in DOMAIN lost})
        \/ place = "taken" /\ At(taken)}

\* Receive calls and the listener task never both get a sample, and none is
\* lost between them, however they take turns with the queue.
SampleHasOneTaker ==
    /\ \A n \in 1..sent : Cardinality(Takers(n)) = 1
    /\ IsInjective(pending)
    /\ \A t \in Tasks : batch[t] # <<>> => Head(batch[t]).sample \in taken

\* The counters of the mismatch queue stay exact when a receive call and a
\* listener task share the samples.
DiagnosticsAreExact == Pull!DiagnosticsAreExact

\* A registration gets a sample at most once, only if it matches, from any one task
\* in the order sent, and at most one by each task after it was unregistered.
PushIsExact ==
    /\ Dispatch!DeliveredOnceAndMatching
    /\ Dispatch!DeliveredInOrder
    /\ Dispatch!LateDeliveryBounded

\* The inner registrations that somebody can still unregister.
Recorded == {records[i].reg : i \in DOMAIN records}
Carried == {calls[c].record.reg : c \in {d \in Callers : calls[d] # NoCall}}

\* Records and inner registrations match: what is recorded, or carried by a call,
\* is registered, each registration once, and a registration that nobody can
\* unregister any more is one whose call was cut short.
RecordsMatchRegistry ==
    /\ Recorded \cup Carried \subseteq ToSet(listeners)
    /\ Recorded \cap Carried = {}
    /\ Cardinality(Recorded) = Len(records)
    /\ ToSet(listeners) \ (Recorded \cup Carried) \subseteq interrupted

\* A task that runs and that nobody stops.
Serving == \E t \in Tasks \ aborted : pc[t] \notin {"unspawned", "exit", "finished"}

\* Samples do not wait for a receive call while a task serves a listener,
\* whether or not they match one: once sending stops, the queue is emptied.
PendingDrains == []<>(pending = <<>> \/ listeners = <<>> \/ ~Serving)

-----------------------------------------------------------------------------
(* The contract this implements *)

Contract == INSTANCE DeliveryContract WITH
    Workers <- Tasks,
    Regs <- Tasks,
    Key <- Dispatch!Key,
    active <- ToSet(listeners),
    carried <- [t \in Tasks |-> ToSet(batch[t])],
    given <- received

\* Though receive calls take from the same queue and a sample is taken before the
\* registry is looked at, listeners are promised what the native backend promises:
\* a sample is taken for registrations that are there and match, and then each of
\* them is given it or the task loses what it carries.
KeepsContract == Contract!Spec

=============================================================================
