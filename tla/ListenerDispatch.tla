-------------------------- MODULE ListenerDispatch --------------------------
(***************************************************************************)
(* Push delivery by UTransportLola over the native backend                 *)
(* (src/src/transport.rs): registering and unregistering listeners, the    *)
(* life of the background listener task, its poll of every registration's  *)
(* own subscription, and the sequential callbacks.                         *)
(*                                                                         *)
(* register and unregister each take two locks one after the other: first  *)
(* the registry, then the slot of the task handle.  What they decided      *)
(* under the first may be stale under the second.  A task that is aborted  *)
(* stops at its next await that is pending, not at once.                   *)
(***************************************************************************)
EXTENDS Naturals, FiniteSets, SequencesExt

CONSTANTS
    Callers,        \* application tasks that register and unregister
    Listeners,      \* listener objects, told apart by Arc::ptr_eq
    Topics,         \* what filters tell apart
    Filters,        \* the filters used: sets of topics
    Malformed,      \* the "topic" of a sample that read_frame_header refuses
    NoTask,         \* listener_task is None
    MaxRegs,        \* bound: registrations made
    MaxSent,        \* bound: samples published
    Faults,         \* TRUE: subscribing and GetNewSamples may fail, a call may run
                    \* outside Tokio, and a callback may panic
    Cancellation    \* TRUE: register and unregister futures may be dropped

ASSUME ConstantsAssumption ==
    /\ MaxRegs \in Nat \ {0}
    /\ MaxSent \in Nat
    /\ Faults \in BOOLEAN
    /\ Cancellation \in BOOLEAN
    /\ Filters \subseteq SUBSET Topics
    /\ Malformed \notin Topics
    /\ IsFiniteSet(Callers)

Key == [listener : Listeners, topics : Filters]
Sample == [id : 1..MaxSent, topic : Topics \cup {Malformed}]

\* Registrations and tasks are numbered in the order they are made; a register
\* call spawns at most one task.
Regs == 1..MaxRegs
Tasks == 1..MaxRegs

ASSUME NoTaskAssumption == NoTask \notin Tasks

VARIABLES
    alive,          \* the application still owns the transport (Arc)
    listeners,      \* the registry: registrations in order
    key,            \* filters and listener of each registration made
    inbox,          \* samples each registration's subscription has not handed out
    task,           \* listener_task: the handle, or NoTask
    pc,             \* what each task does
    aborted,        \* tasks whose handle was aborted
    cursor,         \* while a task polls: the registry position it is at
    batch,          \* deliveries of each task's last poll, still to be made
    cpc,            \* what each caller does
    regs,           \* number of registrations made
    tasks,          \* number of tasks spawned
    sent,           \* number of samples published
    received        \* history: the deliveries to each registration, in order: the
                    \* sample, the task that made it, and whether the registration
                    \* was no longer in the registry

registry == <<listeners, key, inbox, regs>>
worker == <<pc, aborted, cursor, batch>>
vars == <<alive, registry, task, worker, cpc, tasks, sent, received>>

Init ==
    /\ alive = TRUE
    /\ listeners = <<>>
    /\ key = <<>>
    /\ inbox = [n \in Regs |-> <<>>]
    /\ task = NoTask
    /\ pc = [t \in Tasks |-> "unspawned"]
    /\ aborted = {}
    /\ cursor = [t \in Tasks |-> 0]
    /\ batch = [t \in Tasks |-> <<>>]
    /\ cpc = [c \in Callers |-> "idle"]
    /\ regs = 0
    /\ tasks = 0
    /\ sent = 0
    /\ received = [n \in Regs |-> <<>>]

-----------------------------------------------------------------------------

Registered == ToSet(listeners)

\* The registry lock is held across a poll, and otherwise for one step only.
RegistryFree == \A t \in Tasks : pc[t] # "poll"

\* There is a handle and JoinHandle::is_finished says no.
HandleIsLive == task \in Tasks /\ pc[task] # "finished"

\* The registrations with the identity k: has_same_identity.
Same(k) == {i \in 1..Len(listeners) : key[listeners[i]] = k}

CallTo(c, place) == cpc' = [cpc EXCEPT ![c] = place]

-----------------------------------------------------------------------------
(* register_validated_zero_copy_listener *)

\* The identity is already registered (ALREADY_EXISTS), or
\* ListenerRegistration::new cannot create its subscription: nothing changes.
RegisterRefused(c, k) ==
    /\ alive /\ cpc[c] = "idle" /\ RegistryFree
    /\ Same(k) # {} \/ Faults
    /\ UNCHANGED vars

\* The registration enters the registry with a subscription of its own.
RegisterPush(c, k) ==
    /\ alive /\ cpc[c] = "idle" /\ RegistryFree
    /\ Same(k) = {}
    /\ regs < MaxRegs
    /\ regs' = regs + 1
    /\ listeners' = Append(listeners, regs + 1)
    /\ key' = Append(key, k)
    /\ CallTo(c, "ensure")
    /\ UNCHANGED <<alive, inbox, task, worker, tasks, sent, received>>

\* ensure_listener_task: the handle's task is not finished, so it will do.
EnsureRunning(c) ==
    /\ cpc[c] = "ensure"
    /\ HandleIsLive
    /\ CallTo(c, "idle")
    /\ UNCHANGED <<alive, registry, task, worker, tasks, sent, received>>

\* Bug: a task is spawned for every registration.
EnsureSpawn_Always(c) ==
    /\ cpc[c] = "ensure"
    /\ tasks' = tasks + 1
    /\ task' = tasks + 1
    /\ pc' = [pc EXCEPT ![tasks + 1] = "top"]
    /\ CallTo(c, "idle")
    /\ UNCHANGED <<alive, registry, aborted, cursor, batch, sent, received>>

\* ensure_listener_task: there is none, or it is finished: spawn one.
EnsureSpawn(c) ==
    /\ cpc[c] = "ensure"
    /\ ~HandleIsLive
    /\ tasks' = tasks + 1
    /\ task' = tasks + 1
    /\ pc' = [pc EXCEPT ![tasks + 1] = "top"]
    /\ CallTo(c, "idle")
    /\ UNCHANGED <<alive, registry, aborted, cursor, batch, sent, received>>

\* ensure_listener_task outside a Tokio runtime (FAILED_PRECONDITION): nothing
\* is spawned, and the registration stays.
EnsureFails(c) ==
    /\ Faults
    /\ cpc[c] = "ensure"
    /\ ~HandleIsLive
    /\ CallTo(c, "idle")
    /\ UNCHANGED <<alive, registry, task, worker, tasks, sent, received>>

-----------------------------------------------------------------------------
(* unregister_validated_zero_copy_listener *)

\* No such registration (NOT_FOUND): nothing changes.
UnregisterUnknown(c, k) ==
    /\ alive /\ cpc[c] = "idle" /\ RegistryFree
    /\ Same(k) = {}
    /\ UNCHANGED vars

\* The registration leaves the registry and its subscription is destroyed.  The
\* caller that emptied the registry goes on to stop the task.
UnregisterRemove(c, k) ==
    /\ alive /\ cpc[c] = "idle" /\ RegistryFree
    /\ \E i \in Same(k) :
          /\ listeners' = RemoveAt(listeners, i)
          /\ inbox' = [inbox EXCEPT ![listeners[i]] = <<>>]
    /\ IF listeners' = <<>>
       THEN CallTo(c, "stop")
       ELSE CallTo(c, "idle")
    /\ UNCHANGED <<alive, key, regs, task, worker, tasks, sent, received>>

\* Bug: the handle is assumed to be there.
UnregisterStop_Unwraps(c) ==
    /\ cpc[c] = "stop"
    /\ task' = NoTask
    /\ aborted' = aborted \cup {task}
    /\ CallTo(c, "idle")
    /\ UNCHANGED <<alive, registry, pc, cursor, batch, tasks, sent, received>>

\* Bug: the task is aborted and its handle stays.
UnregisterStop_KeepsHandle(c) ==
    /\ cpc[c] = "stop"
    /\ aborted' = IF task = NoTask THEN aborted ELSE aborted \cup {task}
    /\ CallTo(c, "idle")
    /\ UNCHANGED <<alive, registry, task, pc, cursor, batch, tasks, sent, received>>

\* The handle is taken and its task aborted.
UnregisterStop(c) ==
    /\ cpc[c] = "stop"
    /\ task' = NoTask
    /\ aborted' = IF task = NoTask THEN aborted ELSE aborted \cup {task}
    /\ CallTo(c, "idle")
    /\ UNCHANGED <<alive, registry, pc, cursor, batch, tasks, sent, received>>

\* The future of the call is dropped while it waits for the task handle's lock.
CancelCall(c) ==
    /\ Cancellation
    /\ cpc[c] \in {"ensure", "stop"}
    /\ CallTo(c, "idle")
    /\ UNCHANGED <<alive, registry, task, worker, tasks, sent, received>>

\* The application drops its last Arc; the calls borrow one, so none runs.
DropTransport ==
    /\ alive
    /\ \A c \in Callers : cpc[c] = "idle"
    /\ alive' = FALSE
    /\ UNCHANGED <<registry, task, worker, cpc, tasks, sent, received>>

-----------------------------------------------------------------------------
(* listener_loop and poll_listener_frames *)

GoTo(t, place) == pc' = [pc EXCEPT ![t] = place]

\* Bug: the loop owns an Arc of the transport.
LoopUpgrade_Owns(t) ==
    /\ pc[t] = "top"
    /\ GoTo(t, "check")
    /\ UNCHANGED <<alive, registry, task, aborted, cursor, batch, cpc, tasks,
                   sent, received>>

\* Weak::upgrade: the loop ends with the transport.
LoopUpgrade(t) ==
    /\ pc[t] = "top"
    /\ GoTo(t, IF alive THEN "check" ELSE "exit")
    /\ UNCHANGED <<alive, registry, task, aborted, cursor, batch, cpc, tasks,
                   sent, received>>

\* The loop ends when it finds the registry empty.
LoopCheck(t) ==
    /\ pc[t] = "check"
    /\ RegistryFree
    /\ GoTo(t, IF listeners = <<>> THEN "exit" ELSE "lock")
    /\ UNCHANGED <<alive, registry, task, aborted, cursor, batch, cpc, tasks,
                   sent, received>>

\* Bug: the poll works on the registry without its lock.
PollStart_Unlocked(t) ==
    /\ pc[t] = "lock"
    /\ GoTo(t, "poll")
    /\ cursor' = [cursor EXCEPT ![t] = 1]
    /\ UNCHANGED <<alive, registry, task, aborted, batch, cpc, tasks, sent, received>>

\* poll_listener_frames takes the registry lock.
PollStart(t) ==
    /\ pc[t] = "lock"
    /\ RegistryFree
    /\ GoTo(t, "poll")
    /\ cursor' = [cursor EXCEPT ![t] = 1]
    /\ UNCHANGED <<alive, registry, task, aborted, batch, cpc, tasks, sent, received>>

\* The registration that task t polls now.
Polled(t) == listeners[cursor[t]]

Polling(t) == pc[t] = "poll" /\ cursor[t] <= Len(listeners)

Advance(t) == cursor' = [cursor EXCEPT ![t] = @ + 1]

\* This registration's subscription has nothing.
PollNothing(t) ==
    /\ Polling(t)
    /\ inbox[Polled(t)] = <<>>
    /\ Advance(t)
    /\ UNCHANGED <<alive, registry, task, pc, aborted, batch, cpc, tasks, sent, received>>

\* One sample is taken from the subscription of this registration.
PollTake(t) ==
    /\ Polling(t)
    /\ inbox[Polled(t)] # <<>>
    /\ inbox' = [inbox EXCEPT ![Polled(t)] = Tail(@)]

\* Bug: the newest sample is read.
PollHead_Newest(t) == Last(inbox[Polled(t)])

PollHead(t) == Head(inbox[Polled(t)])

\* Bug: the filters are not looked at.
PollMatch_Any(t) ==
    /\ PollTake(t)
    /\ PollHead(t).topic # Malformed
    /\ batch' = [batch EXCEPT ![t] = Append(@, [reg |-> Polled(t), sample |-> PollHead(t)])]
    /\ Advance(t)
    /\ UNCHANGED <<alive, listeners, key, regs, task, pc, aborted, cpc, tasks,
                   sent, received>>

\* Bug: one poll takes all the subscription has.
PollMatch_Drains(t) ==
    /\ PollTake(t)
    /\ PollHead(t).topic \in key[Polled(t)].topics
    /\ batch' = [batch EXCEPT ![t] = Append(@, [reg |-> Polled(t), sample |-> PollHead(t)])]
    /\ UNCHANGED <<alive, listeners, key, regs, task, pc, aborted, cursor, cpc,
                   tasks, sent, received>>

\* It matches the registration: it will be delivered.
PollMatch(t) ==
    /\ PollTake(t)
    /\ PollHead(t).topic \in key[Polled(t)].topics
    /\ batch' = [batch EXCEPT ![t] = Append(@, [reg |-> Polled(t), sample |-> PollHead(t)])]
    /\ Advance(t)
    /\ UNCHANGED <<alive, listeners, key, regs, task, pc, aborted, cpc, tasks,
                   sent, received>>

\* It does not match: it is dropped.
PollMismatch(t) ==
    /\ PollTake(t)
    /\ PollHead(t).topic \notin key[Polled(t)].topics \cup {Malformed}
    /\ Advance(t)
    /\ UNCHANGED <<alive, listeners, key, regs, task, pc, aborted, batch, cpc,
                   tasks, sent, received>>

\* Bug: the deliveries of a poll that failed are left for the next.
PollAbandon_Keeps(t) ==
    /\ GoTo(t, "sleep")
    /\ cursor' = [cursor EXCEPT ![t] = 0]
    /\ UNCHANGED batch

\* The poll fails and its deliveries so far are dropped with it; the loop sleeps.
PollAbandon(t) ==
    /\ GoTo(t, "sleep")
    /\ batch' = [batch EXCEPT ![t] = <<>>]
    /\ cursor' = [cursor EXCEPT ![t] = 0]

\* The sample is malformed.
PollInvalid(t) ==
    /\ PollTake(t)
    /\ PollHead(t).topic = Malformed
    /\ PollAbandon(t)
    /\ UNCHANGED <<alive, listeners, key, regs, task, aborted, cpc, tasks, sent, received>>

\* The subscription fails: GetNewSamples; or a sample it handed out, which is then
\* gone, for want of an RX pool slot or of data at an aligned address.
PollError(t) ==
    /\ Faults
    /\ Polling(t)
    /\ PollTake(t) \/ UNCHANGED inbox
    /\ PollAbandon(t)
    /\ UNCHANGED <<alive, listeners, key, regs, task, aborted, cpc, tasks, sent, received>>

\* Bug: the loop ends when there is nothing to deliver.
PollDone_EndsLoop(t) ==
    /\ pc[t] = "poll"
    /\ cursor[t] > Len(listeners)
    /\ GoTo(t, IF batch[t] = <<>> THEN "exit" ELSE "deliver")
    /\ cursor' = [cursor EXCEPT ![t] = 0]
    /\ UNCHANGED <<alive, registry, task, aborted, batch, cpc, tasks, sent, received>>

\* Every registration was polled: deliver what there is, or sleep.
PollDone(t) ==
    /\ pc[t] = "poll"
    /\ cursor[t] > Len(listeners)
    /\ GoTo(t, IF batch[t] = <<>> THEN "sleep" ELSE "deliver")
    /\ cursor' = [cursor EXCEPT ![t] = 0]
    /\ UNCHANGED <<alive, registry, task, aborted, batch, cpc, tasks, sent, received>>

\* The next callback of the batch is called.
Callback(t) ==
    /\ pc[t] = "deliver"
    /\ LET d == Head(batch[t]) IN
       received' = [received EXCEPT ![d.reg] =
                      Append(@, [sample |-> d.sample, by |-> t,
                                 late |-> d.reg \notin Registered])]

\* It returns.
Deliver(t) ==
    /\ Callback(t)
    /\ batch' = [batch EXCEPT ![t] = Tail(@)]
    /\ GoTo(t, IF Len(batch[t]) = 1 THEN "top" ELSE "deliver")
    /\ UNCHANGED <<alive, registry, task, aborted, cursor, cpc, tasks, sent>>

\* It panics: that ends the task, which serves every listener, and drops the
\* rest of the batch.
CallbackPanics(t) ==
    /\ Faults
    /\ Callback(t)
    /\ batch' = [batch EXCEPT ![t] = <<>>]
    /\ GoTo(t, "finished")
    /\ UNCHANGED <<alive, registry, task, aborted, cursor, cpc, tasks, sent>>

\* The 10 ms or 100 ms are over; the sleep of an aborted task never is.
Wake(t) ==
    /\ pc[t] = "sleep"
    /\ t \notin aborted
    /\ GoTo(t, "top")
    /\ UNCHANGED <<alive, registry, task, aborted, cursor, batch, cpc, tasks,
                   sent, received>>

\* The loop has ended; only now does is_finished say so.
Finish(t) ==
    /\ pc[t] = "exit"
    /\ GoTo(t, "finished")
    /\ UNCHANGED <<alive, registry, task, aborted, cursor, batch, cpc, tasks,
                   sent, received>>

\* Bug: what an aborted task was to deliver outlives it.
Stop_KeepsBatch(t) ==
    /\ t \in aborted
    /\ pc[t] \in {"top", "check", "lock", "deliver", "sleep"}
    /\ GoTo(t, "finished")
    /\ UNCHANGED <<alive, registry, task, aborted, cursor, batch, cpc, tasks, sent, received>>

\* An aborted task stops at an await, which a poll of the registry has none of,
\* and its deliveries are dropped.
Stop(t) ==
    /\ t \in aborted
    /\ pc[t] \in {"top", "check", "lock", "deliver", "sleep"}
    /\ GoTo(t, "finished")
    /\ batch' = [batch EXCEPT ![t] = <<>>]
    /\ UNCHANGED <<alive, registry, task, aborted, cursor, cpc, tasks, sent, received>>

\* A sample reaches the subscription of every registration in the registry.
Publish(topic) ==
    /\ sent < MaxSent
    /\ sent' = sent + 1
    /\ inbox' = [n \in Regs |->
                   IF n \in Registered
                   THEN Append(inbox[n], [id |-> sent + 1, topic |-> topic])
                   ELSE inbox[n]]
    /\ UNCHANGED <<alive, listeners, key, regs, task, worker, cpc, tasks, received>>

-----------------------------------------------------------------------------

CallStep(c) == EnsureRunning(c) \/ EnsureSpawn(c) \/ UnregisterStop(c)

LoopStep(t) ==
    \/ LoopUpgrade(t) \/ LoopCheck(t)
    \/ PollStart(t) \/ PollNothing(t) \/ PollMatch(t) \/ PollMismatch(t)
    \/ PollInvalid(t) \/ PollDone(t)
    \/ Deliver(t) \/ Wake(t) \/ Finish(t)

Next ==
    \/ \E c \in Callers, k \in Key :
          \/ RegisterRefused(c, k) \/ RegisterPush(c, k)
          \/ UnregisterUnknown(c, k) \/ UnregisterRemove(c, k)
    \/ \E c \in Callers : CallStep(c) \/ EnsureFails(c) \/ CancelCall(c)
    \/ \E t \in Tasks : LoopStep(t) \/ PollError(t) \/ CallbackPanics(t) \/ Stop(t)
    \/ \E topic \in Topics \cup (IF Faults THEN {Malformed} ELSE {}) : Publish(topic)
    \/ DropTransport

Spec == Init /\ [][Next]_vars

\* Calls in progress and tasks are scheduled, callbacks return, sleeps end and
\* aborted tasks are stopped.
FairSpec ==
    /\ Spec
    /\ \A c \in Callers : WF_vars(CallStep(c))
    /\ \A t \in Tasks : WF_vars(LoopStep(t)) /\ WF_vars(Stop(t))

-----------------------------------------------------------------------------
(* Properties *)

TypeOK ==
    /\ alive \in BOOLEAN
    /\ listeners \in Seq(Regs)
    /\ key \in Seq(Key) /\ Len(key) = regs
    /\ inbox \in [Regs -> Seq(Sample)]
    /\ task \in Tasks \cup {NoTask}
    /\ pc \in [Tasks -> {"unspawned", "top", "check", "lock", "poll", "deliver",
                         "sleep", "exit", "finished"}]
    /\ aborted \in SUBSET Tasks
    /\ cursor \in [Tasks -> Nat]
    /\ batch \in [Tasks -> Seq([reg : Regs, sample : Sample])]
    /\ cpc \in [Callers -> {"idle", "ensure", "stop"}]
    /\ regs \in 0..MaxRegs
    /\ tasks \in 0..MaxRegs
    /\ sent \in 0..MaxSent
    /\ received \in [Regs -> Seq([sample : Sample, by : Tasks, late : BOOLEAN])]

Running(t) == pc[t] \notin {"unspawned", "finished"}

\* However the calls race, every task that runs and is not being stopped is the
\* one whose handle the transport keeps: no second task polls the registry for
\* good, and none is left without a handle to abort it.
OnlyHandledTaskRuns == \A t \in Tasks : Running(t) /\ t \notin aborted => t = task

\* A poll works on a registry nobody changes under it.
PollIsExclusive ==
    /\ \A t, u \in Tasks : pc[t] = "poll" /\ pc[u] = "poll" => t = u
    /\ \A t \in Tasks : pc[t] = "poll" => cursor[t] \in 1..(Len(listeners) + 1)

\* The samples a registration was given.
Given(n) == {d.sample : d \in ToSet(received[n])}

\* No registration is given a sample twice or one that does not match it, and
\* none that another task carries or that its subscription still holds.
DeliveredOnceAndMatching ==
    \A n \in 1..regs :
        /\ \A s \in Given(n) : s.topic \in key[n].topics
        /\ Cardinality(Given(n)) = Len(received[n])
        /\ Given(n) \cap ToSet(inbox[n]) = {}
        /\ \A t \in Tasks : \A d \in ToSet(batch[t]) :
              d.reg = n => d.sample \notin Given(n) \cup ToSet(inbox[n])

\* A task gives a registration its samples in the order they were published.
\* (Two tasks do not: an aborted task may still carry an older sample.)
DeliveredInOrder ==
    \A n \in Regs : \A i, j \in DOMAIN received[n] :
        i < j /\ received[n][i].by = received[n][j].by
            => received[n][i].sample.id < received[n][j].sample.id

\* After unregister has removed a listener, a task calls it at most once more,
\* with the sample that a poll under way had already taken for it.
LateDeliveryBounded ==
    \A n \in Regs : \A i, j \in DOMAIN received[n] :
        /\ received[n][i].late /\ received[n][j].late
        /\ received[n][i].by = received[n][j].by
        => i = j

\* However register, unregister and tasks interleave, a registration gets a sample at
\* most once, only if it matches, from any one task in the order published, and at
\* most one by each task after it was unregistered.
PushIsExact ==
    /\ DeliveredOnceAndMatching
    /\ DeliveredInOrder
    /\ LateDeliveryBounded

\* When no call is in progress, a registered listener has a task that serves it.
ServedWhenQuiet ==
    (alive /\ listeners # <<>> /\ \A c \in Callers : cpc[c] = "idle")
        => /\ task # NoTask
           /\ task \notin aborted
           /\ pc[task] \notin {"exit", "finished"}

\* No call is in progress, and no aborted task still runs.
Quiet ==
    /\ \A c \in Callers : cpc[c] = "idle"
    /\ \A t \in aborted : ~Running(t)

\* Once register has returned, a matching sample that the listener's
\* subscription holds is delivered, unless the listener is unregistered first.
RegisteredReceives ==
    \A n \in Regs, id \in 1..MaxSent :
        (Quiet /\ \E s \in ToSet(inbox[n]) : s.id = id /\ s.topic \in key[n].topics)
            ~> \/ \E s \in Given(n) : s.id = id
               \/ n \notin Registered
               \/ ~alive

\* Once the registry stays empty, or the transport is dropped, no task stays.
NoTaskOutlivesItsUse ==
    <>[](~alive \/ listeners = <<>>) => <>[](\A t \in Tasks : ~Running(t))

\* What src/README.md says of independent subscription queues: what one
\* subscription does has no effect on the samples taken for another listener;
\* they are delivered unless the task is stopped.
TakenIsDelivered ==
    [][\A t \in Tasks : \A d \in ToSet(batch[t]) \ ToSet(batch'[t]) :
          t \in aborted \/ d.sample \in Given(d.reg)']_vars

-----------------------------------------------------------------------------
(* The contract this implements *)

Contract == INSTANCE DeliveryContract WITH
    Workers <- Tasks,
    active <- Registered,
    carried <- [t \in Tasks |-> ToSet(batch[t])],
    given <- received

\* A poll takes samples only for registrations it finds, each step of the calls, the
\* task and its callbacks takes, gives or loses as the contract says, and nothing else
\* is given or taken back.
KeepsContract == Contract!Spec

\* Besides, no task keeps what it has taken for ever.
ImplementsContract == Contract!FairSpec

=============================================================================
