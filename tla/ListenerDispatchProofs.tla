----------------------- MODULE ListenerDispatchProofs -----------------------
(***************************************************************************)
(* Proofs about ListenerDispatch: whatever register and unregister calls   *)
(* race, are cancelled or fail, one task at most runs that nobody stops, a *)
(* poll has the registry to itself, and what a registration is given is    *)
(* given once, by each task in order and, after its removal, by each task  *)
(* once more at most.  Calls that are made one after the other leave no    *)
(* listener without a task.                                                *)
(***************************************************************************)
EXTENDS ListenerDispatch, SequenceLemmas, FiniteSetTheorems

Places == {"unspawned", "top", "check", "lock", "poll", "deliver", "sleep",
           "exit", "finished"}

\* The part of TypeOK that the two properties rest on.
Shape ==
    /\ regs \in Nat
    /\ listeners \in Seq(Regs)
    /\ pc \in [Tasks -> Places]
    /\ cursor \in [Tasks -> Nat]

\* A call that finds the registry free.
RegistryStep(c, k) ==
    \/ RegisterRefused(c, k) \/ RegisterPush(c, k)
    \/ UnregisterUnknown(c, k) \/ UnregisterRemove(c, k)

\* A call at any of its steps.
CallerStep(c) ==
    (\E k \in Key : RegistryStep(c, k)) \/ CallStep(c) \/ EnsureFails(c) \/ CancelCall(c)

\* A task at any of its steps.
TaskStep(t) == LoopStep(t) \/ PollError(t) \/ CallbackPanics(t) \/ Stop(t)

-----------------------------------------------------------------------------

LEMMA InitShape == Init => Shape
<1> SUFFICES ASSUME Init PROVE Shape
  OBVIOUS
<1>1. listeners \in Seq(Regs)
  BY EmptySeq DEF Init
<1>2. pc \in [Tasks -> Places]
  BY DEF Init, Places
<1> QED
  BY <1>1, <1>2 DEF Init, Shape

\* Moving a task keeps the places of the tasks.
LEMMA MoveShape ==
    ASSUME Shape, NEW t \in Tasks, NEW place \in Places,
           pc' = [pc EXCEPT ![t] = place]
    PROVE  pc' \in [Tasks -> Places]
BY DEF Shape

\* The calls keep the shape.
LEMMA CallShape ==
    ASSUME Shape, NEW c \in Callers, CallerStep(c)
    PROVE  Shape'
<1>1. ASSUME NEW k \in Key, RegisterRefused(c, k) PROVE Shape'
  BY <1>1 DEF RegisterRefused, vars, registry, worker, Shape
<1>2. ASSUME NEW k \in Key, RegisterPush(c, k) PROVE Shape'
  <2>1. listeners' \in Seq(Regs)
    BY <1>2, AppendProperties, ConstantsAssumption DEF RegisterPush, Shape, Regs
  <2> QED
    BY <1>2, <2>1 DEF RegisterPush, worker, Shape
<1>3. ASSUME NEW k \in Key, UnregisterUnknown(c, k) PROVE Shape'
  BY <1>3 DEF UnregisterUnknown, vars, registry, worker, Shape
<1>4. ASSUME NEW k \in Key, UnregisterRemove(c, k) PROVE Shape'
  <2>1. PICK i \in Same(k) : listeners' = RemoveAt(listeners, i)
    BY <1>4 DEF UnregisterRemove
  <2>2. listeners' \in Seq(Regs)
    BY <2>1, RemoveAtProperties DEF Same, Shape
  <2> QED
    BY <1>4, <2>2 DEF UnregisterRemove, worker, Shape
<1>5. CASE EnsureRunning(c)
  BY <1>5 DEF EnsureRunning, registry, worker, Shape
<1>6. CASE EnsureSpawn(c)
  <2>1. pc' \in [Tasks -> Places]
    BY <1>6 DEF EnsureSpawn, Shape, Places
  <2> QED
    BY <1>6, <2>1 DEF EnsureSpawn, registry, Shape
<1>7. CASE UnregisterStop(c)
  BY <1>7 DEF UnregisterStop, registry, Shape
<1>8. CASE CancelCall(c)
  BY <1>8 DEF CancelCall, registry, worker, Shape
<1>9. CASE EnsureFails(c)
  BY <1>9 DEF EnsureFails, registry, worker, Shape
<1> QED
  BY <1>1, <1>2, <1>3, <1>4, <1>5, <1>6, <1>7, <1>8, <1>9 DEF CallerStep, RegistryStep, CallStep

\* The tasks keep the shape.
LEMMA TaskShape ==
    ASSUME Shape, NEW t \in Tasks, TaskStep(t)
    PROVE  Shape'
<1>1. pc' = pc \/ \E place \in Places : GoTo(t, place)
  BY DEF TaskStep, LoopStep, LoopUpgrade, LoopCheck, PollStart, PollNothing, PollMatch,
         PollMismatch, PollInvalid, PollDone, Deliver, Callback,
         CallbackPanics, Wake, Finish, PollError, Stop, PollAbandon, Places
<1>2. pc' \in [Tasks -> Places]
  BY <1>1, MoveShape DEF GoTo, Shape
<1>3. cursor' = cursor \/ \E n \in Nat : cursor' = [cursor EXCEPT ![t] = n]
  <2>1. CASE PollNothing(t) \/ PollMatch(t) \/ PollMismatch(t)
    <3>1. Advance(t) /\ cursor[t] + 1 \in Nat
      BY <2>1 DEF PollNothing, PollMatch, PollMismatch, Shape
    <3> QED
      BY <3>1 DEF Advance
  <2>2. CASE PollStart(t) \/ PollDone(t) \/ PollInvalid(t) \/ PollError(t)
    <3>1. \E n \in {0, 1} : cursor' = [cursor EXCEPT ![t] = n]
      BY <2>2 DEF PollStart, PollDone, PollInvalid, PollError, PollAbandon
    <3> QED
      BY <3>1
  <2>3. CASE \/ LoopUpgrade(t) \/ LoopCheck(t) \/ Deliver(t) \/ CallbackPanics(t)
             \/ Wake(t) \/ Finish(t) \/ Stop(t)
    BY <2>3 DEF LoopUpgrade, LoopCheck, Deliver, CallbackPanics, Wake, Finish, Stop
  <2> QED
    BY <2>1, <2>2, <2>3 DEF TaskStep, LoopStep
<1>4. UNCHANGED <<regs, listeners>>
  BY DEF TaskStep, LoopStep, LoopUpgrade, LoopCheck, PollStart, PollNothing, PollMatch,
         PollMismatch, PollInvalid, PollDone, Deliver, Callback,
         CallbackPanics, Wake, Finish, PollError, Stop, registry
<1> QED
  BY <1>2, <1>3, <1>4 DEF Shape

\* Publishing, dropping the transport and stuttering touch none of what the
\* properties are about.
Frame == UNCHANGED <<regs, listeners, pc, cursor, task, aborted>>

LEMMA OtherSteps ==
    ASSUME NEW topic, Publish(topic) \/ DropTransport \/ UNCHANGED vars
    PROVE  Frame
BY DEF Publish, DropTransport, Frame, vars, registry, worker

\* Every step is a call's, a task's, or leaves the frame alone.
LEMMA StepCases ==
    ASSUME [Next]_vars
    PROVE  \/ \E c \in Callers : CallerStep(c)
           \/ \E t \in Tasks : TaskStep(t)
           \/ Frame
BY OtherSteps DEF Next, CallerStep, RegistryStep, TaskStep

LEMMA NextShape == Shape /\ [Next]_vars => Shape'
<1> SUFFICES ASSUME Shape, [Next]_vars PROVE Shape'
  OBVIOUS
<1>1. CASE Frame
  BY <1>1 DEF Frame, Shape
<1> QED
  BY <1>1, StepCases, CallShape, TaskShape

-----------------------------------------------------------------------------

\* The initial state has no running task and no poll.
LEMMA InitSafe == Init => OnlyHandledTaskRuns /\ PollIsExclusive
BY DEF Init, OnlyHandledTaskRuns, PollIsExclusive, Running

\* A call keeps all running tasks but the handled one on their way out: it
\* spawns only when the handle is gone or its task finished, and it gives up
\* a handle only together with an abort.
LEMMA CallHandled ==
    ASSUME Shape, OnlyHandledTaskRuns, NEW c \in Callers, CallerStep(c)
    PROVE  OnlyHandledTaskRuns'
<1>1. ASSUME NEW k \in Key, RegistryStep(c, k) PROVE UNCHANGED <<pc, aborted, task>>
  BY <1>1 DEF RegistryStep, RegisterRefused, RegisterPush, UnregisterUnknown,
              UnregisterRemove, vars, worker
<1>2. CASE EnsureRunning(c)
  BY <1>2 DEF EnsureRunning, worker, OnlyHandledTaskRuns, Running
<1>3. CASE EnsureSpawn(c)
  <2> SUFFICES ASSUME NEW t \in Tasks, Running(t)', t \notin aborted'
               PROVE  t = task'
    BY DEF OnlyHandledTaskRuns
  <2>1. /\ task' = tasks + 1
        /\ pc' = [pc EXCEPT ![tasks + 1] = "top"]
        /\ aborted' = aborted
        /\ ~HandleIsLive
    BY <1>3 DEF EnsureSpawn
  <2>2. CASE t # tasks + 1
    <3>1. Running(t) /\ t \notin aborted
      BY <2>1, <2>2 DEF Running, Shape
    <3>2. t = task
      BY <3>1 DEF OnlyHandledTaskRuns
    <3> QED
      BY <2>1, <3>1, <3>2 DEF HandleIsLive, Running
  <2> QED
    BY <2>1, <2>2
<1>4. CASE UnregisterStop(c)
  BY <1>4, NoTaskAssumption DEF UnregisterStop, OnlyHandledTaskRuns, Running
<1>5. CASE CancelCall(c)
  BY <1>5 DEF CancelCall, worker, OnlyHandledTaskRuns, Running
<1>6. CASE EnsureFails(c)
  BY <1>6 DEF EnsureFails, worker, OnlyHandledTaskRuns, Running
<1> QED
  BY <1>1, <1>2, <1>3, <1>4, <1>5, <1>6 DEF CallerStep, CallStep, OnlyHandledTaskRuns, Running

\* A task that was not running does not start to by itself.
LEMMA TaskHandled ==
    ASSUME Shape, OnlyHandledTaskRuns, NEW t \in Tasks, TaskStep(t)
    PROVE  OnlyHandledTaskRuns'
<1>1. UNCHANGED <<aborted, task>>
  BY DEF TaskStep, LoopStep, LoopUpgrade, LoopCheck, PollStart, PollNothing,
         PollMatch, PollMismatch, PollInvalid, PollDone, Deliver, Callback,
         CallbackPanics, Wake, Finish, PollError, Stop
<1>2. Running(t)
  BY DEF TaskStep, LoopStep, LoopUpgrade, LoopCheck, PollStart, PollNothing,
         PollMatch, PollMismatch, PollInvalid, PollDone, Deliver, Callback,
         CallbackPanics, Wake, Finish, PollError, Stop, Running, PollTake, Polling
<1>3. \A u \in Tasks : u # t => pc'[u] = pc[u]
  BY DEF TaskStep, LoopStep, LoopUpgrade, LoopCheck, PollStart, PollNothing,
         PollMatch, PollMismatch, PollInvalid, PollDone, Deliver, Callback,
         CallbackPanics, Wake, Finish, PollError, Stop, PollAbandon, GoTo, Shape
<1> QED
  BY <1>1, <1>2, <1>3 DEF OnlyHandledTaskRuns, Running

\* A call that changes the registry finds no task at a poll.
LEMMA CallExclusive ==
    ASSUME Shape, PollIsExclusive, NEW c \in Callers, CallerStep(c)
    PROVE  PollIsExclusive'
<1>1. ASSUME NEW k \in Key, RegistryStep(c, k) PROVE PollIsExclusive'
  <2>1. RegistryFree /\ UNCHANGED <<pc, cursor>>
    BY <1>1 DEF RegistryStep, RegisterRefused, RegisterPush, UnregisterUnknown,
                UnregisterRemove, vars, worker
  <2> QED
    BY <2>1 DEF RegistryFree, PollIsExclusive
<1>2. CASE EnsureSpawn(c)
  <2>1. UNCHANGED <<listeners, cursor>> /\ pc' = [pc EXCEPT ![tasks + 1] = "top"]
    BY <1>2 DEF EnsureSpawn, registry
  <2>2. \A t \in Tasks : pc'[t] = "poll" => pc[t] = "poll"
    BY <2>1 DEF Shape
  <2> QED
    BY <2>1, <2>2 DEF PollIsExclusive
<1>3. CASE EnsureRunning(c) \/ EnsureFails(c) \/ UnregisterStop(c) \/ CancelCall(c)
  <2>1. UNCHANGED <<listeners, pc, cursor>>
    BY <1>3 DEF EnsureRunning, EnsureFails, UnregisterStop, CancelCall, registry, worker
  <2> QED
    BY <2>1 DEF PollIsExclusive
<1> QED
  BY <1>1, <1>2, <1>3 DEF CallerStep, CallStep

\* A task enters a poll when no other is in one, and its cursor never passes
\* the end of the registry by more than one.
LEMMA TaskExclusive ==
    ASSUME Shape, PollIsExclusive, NEW t \in Tasks, TaskStep(t)
    PROVE  PollIsExclusive'
<1>1. UNCHANGED listeners
  BY DEF TaskStep, LoopStep, LoopUpgrade, LoopCheck, PollStart, PollNothing,
         PollMatch, PollMismatch, PollInvalid, PollDone, Deliver, Callback,
         CallbackPanics, Wake, Finish, PollError, Stop, registry
<1>2. Len(listeners) \in Nat
  BY LenProperties DEF Shape
<1>3. CASE PollStart(t)
  <2>1. /\ RegistryFree
        /\ pc' = [pc EXCEPT ![t] = "poll"]
        /\ cursor' = [cursor EXCEPT ![t] = 1]
    BY <1>3 DEF PollStart, GoTo
  <2> QED
    BY <1>1, <1>2, <2>1 DEF PollIsExclusive, RegistryFree, Shape
<1>4. CASE PollNothing(t) \/ PollMatch(t) \/ PollMismatch(t)
  <2>1. /\ Polling(t)
        /\ UNCHANGED pc
        /\ cursor' = [cursor EXCEPT ![t] = cursor[t] + 1]
    BY <1>4 DEF PollNothing, PollMatch, PollMismatch, PollTake, Advance
  <2>2. cursor[t] + 1 \in 1..(Len(listeners) + 1)
    BY <1>2, <2>1 DEF Polling, Shape
  <2> QED
    BY <1>1, <2>1, <2>2 DEF PollIsExclusive, Shape
<1>5. CASE \/ LoopUpgrade(t) \/ LoopCheck(t) \/ PollInvalid(t) \/ PollDone(t)
           \/ Deliver(t) \/ Wake(t) \/ Finish(t) \/ PollError(t) \/ CallbackPanics(t)
           \/ Stop(t)
  <2>1. \E place \in Places \ {"poll"} : pc' = [pc EXCEPT ![t] = place]
    BY <1>5 DEF LoopUpgrade, LoopCheck, PollInvalid, PollDone, Deliver, Callback,
                CallbackPanics, Wake, Finish, PollError, Stop, PollAbandon, GoTo, Places
  <2>2. \A u \in Tasks : u # t => cursor'[u] = cursor[u]
    BY <1>5 DEF LoopUpgrade, LoopCheck, PollInvalid, PollDone, Deliver, Callback,
                CallbackPanics, Wake, Finish, PollError, Stop, PollAbandon, Shape
  <2>3. pc'[t] # "poll" /\ \A u \in Tasks : u # t => pc'[u] = pc[u]
    BY <2>1 DEF Shape
  <2> QED
    BY <1>1, <2>2, <2>3 DEF PollIsExclusive
<1> QED
  BY <1>3, <1>4, <1>5 DEF TaskStep, LoopStep

-----------------------------------------------------------------------------

Safe == Shape /\ OnlyHandledTaskRuns /\ PollIsExclusive

LEMMA NextSafe == Safe /\ [Next]_vars => Safe'
<1> SUFFICES ASSUME Safe, [Next]_vars PROVE Safe'
  OBVIOUS
<1>1. Shape'
  BY NextShape DEF Safe
<1>2. CASE Frame
  BY <1>1, <1>2 DEF Frame, Safe, OnlyHandledTaskRuns, PollIsExclusive, Running
<1> QED
  BY <1>1, <1>2, StepCases, CallHandled, TaskHandled, CallExclusive, TaskExclusive
     DEF Safe

\* For any number of callers, listeners, registrations and samples, and however
\* calls race with each other, are cancelled or fail: every running task that
\* was not aborted is the one whose handle the transport keeps, so there is at
\* most one.  (register_validated_zero_copy_listener, ensure_listener_task and
\* unregister_validated_zero_copy_listener in src/src/transport.rs.)
THEOREM TaskIsHandled == Spec => []OnlyHandledTaskRuns
<1>1. Init => Safe
  BY InitShape, InitSafe DEF Safe
<1>2. Safe => OnlyHandledTaskRuns
  BY DEF Safe
<1> QED
  BY <1>1, <1>2, NextSafe, PTL DEF Spec

\* Likewise no two tasks poll at the same time, not even an aborted one and its
\* successor, and the registry does not change under a poll: its cursor stays
\* within it.  (poll_listener_frames.)
THEOREM PollHasRegistry == Spec => []PollIsExclusive
<1>1. Init => Safe
  BY InitShape, InitSafe DEF Safe
<1>2. Safe => PollIsExclusive
  BY DEF Safe
<1> QED
  BY <1>1, <1>2, NextSafe, PTL DEF Spec

-----------------------------------------------------------------------------
(* Types *)

\* A task is spawned for a registration, by the call that made it.
Ensuring == {c \in Callers : cpc[c] = "ensure"}

SpawnsBounded == IsFiniteSet(Ensuring) /\ tasks + Cardinality(Ensuring) <= regs

\* A task has deliveries to make while it delivers, and from no earlier than its poll.
BatchInUse ==
    \A t \in Tasks : /\ pc[t] = "deliver" => batch[t] # <<>>
                     /\ pc[t] \notin {"poll", "deliver"} => batch[t] = <<>>

\* The tasks spawned so far are the first ones.
TasksNumbered == \A t \in Tasks : pc[t] = "unspawned" <=> t > tasks

TypeInv == TypeOK /\ SpawnsBounded /\ TasksNumbered /\ BatchInUse /\ PollIsExclusive

Delivery == [reg : Regs, sample : Sample]
Given1 == [sample : Sample, by : Tasks, late : BOOLEAN]

LEMMA InitTypeInv == Init => TypeInv
<1> SUFFICES ASSUME Init PROVE TypeInv
  OBVIOUS
<1>1. alive \in BOOLEAN
  BY Zenon DEF Init
<1>2. <<>> \in Seq(Regs) /\ <<>> \in Seq(Key) /\ Len(<<>>) = 0
  BY EmptySeq
<1>3. inbox \in [Regs -> Seq(Sample)] /\ received \in [Regs -> Seq(Given1)]
      /\ batch \in [Tasks -> Seq(Delivery)]
  BY EmptySeq DEF Init
<1>4. TypeOK
  BY <1>1, <1>2, <1>3, ConstantsAssumption DEF Init, TypeOK, Delivery, Given1
<1>5. Ensuring = {}
  BY DEF Init, Ensuring
<1> QED
  BY <1>4, <1>5, FS_EmptySet DEF Init, TypeInv, SpawnsBounded, TasksNumbered, BatchInUse, PollIsExclusive, Tasks

\* The calls keep the types.
LEMMA CallTypeOK ==
    ASSUME TypeOK, SpawnsBounded, NEW c \in Callers, CallerStep(c)
    PROVE  TypeOK'
<1> USE DEF TypeOK, registry, worker, CallTo
<1>1. ASSUME NEW k \in Key, RegisterRefused(c, k) \/ UnregisterUnknown(c, k) PROVE TypeOK'
  BY <1>1 DEF RegisterRefused, UnregisterUnknown, vars
<1>2. ASSUME NEW k \in Key, RegisterPush(c, k) PROVE TypeOK'
  <2>1. regs + 1 \in Regs /\ regs' = regs + 1
    BY <1>2, ConstantsAssumption DEF RegisterPush, Regs
  <2>2. listeners' \in Seq(Regs)
    BY <1>2, <2>1, AppendProperties DEF RegisterPush
  <2>3. key' \in Seq(Key) /\ Len(key') = regs'
    BY <1>2, <2>1, AppendProperties DEF RegisterPush
  <2>4. regs' \in 0..MaxRegs
    BY <2>1, ConstantsAssumption DEF Regs
  <2> QED
    BY <1>2, <2>2, <2>3, <2>4 DEF RegisterPush
<1>3. ASSUME NEW k \in Key, UnregisterRemove(c, k) PROVE TypeOK'
  <2>1. PICK i \in Same(k) : /\ listeners' = RemoveAt(listeners, i)
                             /\ inbox' = [inbox EXCEPT ![listeners[i]] = <<>>]
    BY <1>3 DEF UnregisterRemove
  <2>2. listeners' \in Seq(Regs)
    BY <2>1, RemoveAtProperties DEF Same
  <2>3. inbox' \in [Regs -> Seq(Sample)]
    BY <2>1, EmptySeq
  <2> QED
    BY <1>3, <2>2, <2>3 DEF UnregisterRemove
<1>4. CASE EnsureRunning(c) \/ CancelCall(c) \/ EnsureFails(c)
  BY <1>4 DEF EnsureRunning, CancelCall, EnsureFails
<1>5. CASE EnsureSpawn(c)
  <2>0. c \in Ensuring /\ IsFiniteSet(Ensuring)
    BY <1>5 DEF EnsureSpawn, Ensuring, SpawnsBounded
  <2>1. Cardinality(Ensuring) \in Nat /\ Cardinality(Ensuring) # 0
    BY <2>0, FS_EmptySet, FS_CardinalityType
  <2>2. tasks + 1 \in Tasks /\ tasks + 1 \in 0..MaxRegs
    BY <2>1, ConstantsAssumption DEF SpawnsBounded, Tasks
  <2> QED
    BY <1>5, <2>2 DEF EnsureSpawn
<1>6. CASE UnregisterStop(c)
  BY <1>6 DEF UnregisterStop
<1> QED
  BY <1>1, <1>2, <1>3, <1>4, <1>5, <1>6 DEF CallerStep, RegistryStep, CallStep

\* A poll is at a registration, whose subscription it takes the first sample from.
LEMMA PollTypes ==
    ASSUME TypeOK, PollIsExclusive, NEW t \in Tasks, Polling(t)
    PROVE  /\ cursor[t] \in 1..Len(listeners)
           /\ Polled(t) \in Registered /\ Polled(t) \in Regs
           /\ inbox[Polled(t)] # <<>> => PollHead(t) \in Sample
<1>1. cursor[t] \in 1..Len(listeners)
  BY LenProperties DEF Polling, PollIsExclusive, TypeOK
<1>2. Polled(t) \in Registered /\ Polled(t) \in Regs
  BY <1>1, ElementsOf DEF TypeOK, Polled, Registered
<1> QED
  BY <1>1, <1>2, HeadTailProperties DEF TypeOK, PollHead

LEMMA PollTakeType ==
    ASSUME TypeOK, PollIsExclusive, NEW t \in Tasks, PollTake(t)
    PROVE  inbox' \in [Regs -> Seq(Sample)]
<1>1. Polled(t) \in Regs /\ inbox[Polled(t)] \in Seq(Sample) /\ inbox[Polled(t)] # <<>>
  BY PollTypes DEF PollTake, TypeOK
<1>2. Tail(inbox[Polled(t)]) \in Seq(Sample)
  BY <1>1, HeadTailProperties
<1> QED
  BY <1>1, <1>2 DEF PollTake, TypeOK

\* The tasks keep the types.
LEMMA TaskTypeOK ==
    ASSUME TypeOK, BatchInUse, PollIsExclusive, NEW t \in Tasks, TaskStep(t)
    PROVE  TypeOK'
<1> USE DEF TypeOK, registry, GoTo
<1>0. <<>> \in Seq(Delivery) /\ batch \in [Tasks -> Seq(Delivery)]
  BY EmptySeq DEF Delivery
<1>8. pc' \in [Tasks -> Places] /\ cursor' \in [Tasks -> Nat]
  BY TaskShape DEF Shape, Places
<1> USE <1>8 DEF Places
<1>1. CASE LoopUpgrade(t) \/ LoopCheck(t) \/ PollStart(t) \/ PollDone(t) \/ Wake(t) \/ Finish(t)
  BY <1>1 DEF LoopUpgrade, LoopCheck, PollStart, PollDone, Wake, Finish
<1>2. CASE PollNothing(t)
  BY <1>2 DEF PollNothing, Advance
<1>3. CASE PollMatch(t)
  <2>1. inbox' \in [Regs -> Seq(Sample)]
    BY <1>3, PollTakeType DEF PollMatch
  <2>2. [reg |-> Polled(t), sample |-> PollHead(t)] \in Delivery
    BY <1>3, PollTypes DEF PollMatch, PollTake, Delivery
  <2>3. batch' \in [Tasks -> Seq(Delivery)]
    BY <1>0, <1>3, <2>2, AppendProperties DEF PollMatch
  <2> QED
    BY <1>3, <2>1, <2>3 DEF PollMatch, Advance, Delivery
<1>4. CASE PollMismatch(t)
  <2>1. inbox' \in [Regs -> Seq(Sample)]
    BY <1>4, PollTakeType DEF PollMismatch
  <2> QED
    BY <1>4, <2>1 DEF PollMismatch, Advance
<1>5. CASE PollInvalid(t) \/ PollError(t)
  <2>1. inbox' \in [Regs -> Seq(Sample)]
    BY <1>5, PollTakeType DEF PollInvalid, PollError
  <2>2. batch' \in [Tasks -> Seq(Delivery)]
    BY <1>0, <1>5 DEF PollInvalid, PollError, PollAbandon
  <2> QED
    BY <1>5, <2>1, <2>2 DEF PollInvalid, PollError, PollAbandon, Delivery
<1>6. CASE Stop(t)
  <2>1. batch' \in [Tasks -> Seq(Delivery)]
    BY <1>0, <1>6 DEF Stop
  <2> QED
    BY <1>6, <2>1 DEF Stop, Delivery
<1>7. CASE Deliver(t) \/ CallbackPanics(t)
  <2> DEFINE d == Head(batch[t])
             g == [sample |-> d.sample, by |-> t, late |-> d.reg \notin Registered]
  <2>1. Callback(t) /\ batch[t] \in Seq(Delivery) /\ batch[t] # <<>>
    BY <1>0, <1>7 DEF Deliver, CallbackPanics, Callback, BatchInUse
  <2>2. d \in Delivery /\ Tail(batch[t]) \in Seq(Delivery)
    BY <2>1, HeadTailProperties
  <2>3. (d.reg \notin Registered) \in BOOLEAN
    BY Zenon
  <2>4. g \in Given1 /\ received \in [Regs -> Seq(Given1)] /\ d.reg \in Regs
    BY <2>2, <2>3 DEF Delivery, Given1
  <2>5. received' = [received EXCEPT ![d.reg] = Append(@, g)]
    BY <2>1 DEF Callback
  <2> HIDE DEF g
  <2>6. received' \in [Regs -> Seq(Given1)]
    BY <2>4, <2>5, AppendProperties
  <2>7. batch' \in [Tasks -> Seq(Delivery)]
    BY <1>0, <1>7, <2>2 DEF Deliver, CallbackPanics
  <2> QED
    BY <1>7, <2>6, <2>7 DEF Deliver, CallbackPanics, Delivery, Given1
<1> QED
  BY <1>1, <1>2, <1>3, <1>4, <1>5, <1>6, <1>7 DEF TaskStep, LoopStep

LEMMA NextTypeOK == TypeInv /\ [Next]_vars => TypeOK'
<1> SUFFICES ASSUME TypeInv, [Next]_vars PROVE TypeOK'
  OBVIOUS
<1>1. ASSUME NEW topic \in Topics \cup {Malformed}, Publish(topic) PROVE TypeOK'
  <2> DEFINE s == [id |-> sent + 1, topic |-> topic]
  <2>1. s \in Sample /\ sent' \in 0..MaxSent
    BY <1>1, ConstantsAssumption DEF Publish, Sample, TypeOK, TypeInv
  <2>2. inbox' = [n \in Regs |-> IF n \in Registered THEN Append(inbox[n], s) ELSE inbox[n]]
    BY <1>1 DEF Publish
  <2> HIDE DEF s
  <2>3. inbox' \in [Regs -> Seq(Sample)]
    BY <2>1, <2>2, AppendProperties DEF TypeOK, TypeInv
  <2> QED
    BY <1>1, <2>1, <2>3 DEF Publish, TypeInv, TypeOK, worker
<1>2. CASE DropTransport \/ UNCHANGED vars
  BY <1>2 DEF DropTransport, vars, registry, worker, TypeInv, TypeOK
<1> QED
  BY <1>1, <1>2, CallTypeOK, TaskTypeOK
     DEF Next, TypeInv, CallerStep, RegistryStep, TaskStep

\* A call that spawns has made a registration first, and spawns once for it.
LEMMA NextSpawnsBounded == TypeOK /\ SpawnsBounded /\ [Next]_vars => SpawnsBounded'
<1> SUFFICES ASSUME TypeOK, SpawnsBounded, [Next]_vars PROVE SpawnsBounded'
  OBVIOUS
<1>0. /\ IsFiniteSet(Ensuring) /\ Cardinality(Ensuring) \in Nat
      /\ regs \in Nat /\ tasks \in Nat /\ tasks + Cardinality(Ensuring) <= regs
  BY FS_CardinalityType DEF TypeOK, SpawnsBounded
<1>1. ASSUME UNCHANGED <<cpc, regs, tasks>> PROVE SpawnsBounded'
  BY <1>1 DEF SpawnsBounded, Ensuring
<1>2. ASSUME NEW c \in Callers, NEW k \in Key, RegisterPush(c, k) PROVE SpawnsBounded'
  <2>1. c \notin Ensuring /\ Ensuring' = Ensuring \cup {c}
    BY <1>2 DEF RegisterPush, CallTo, Ensuring, TypeOK
  <2>2. IsFiniteSet(Ensuring') /\ Cardinality(Ensuring') = Cardinality(Ensuring) + 1
    BY <1>0, <2>1, FS_AddElement
  <2> QED
    BY <1>0, <1>2, <2>2 DEF RegisterPush, SpawnsBounded
<1>3. ASSUME NEW c \in Callers, NEW place \in {"idle", "stop"}, CallTo(c, place)
      PROVE  /\ Ensuring' = Ensuring \ {c} /\ IsFiniteSet(Ensuring')
             /\ Cardinality(Ensuring') \in Nat
             /\ Cardinality(Ensuring') =
                   IF c \in Ensuring THEN Cardinality(Ensuring) - 1 ELSE Cardinality(Ensuring)
  <2>1. Ensuring' = Ensuring \ {c}
    BY <1>3 DEF CallTo, Ensuring, TypeOK
  <2> QED
    BY <1>0, <2>1, FS_RemoveElement, FS_CardinalityType
<1>4. ASSUME NEW c \in Callers, NEW place \in {"idle", "stop"}, CallTo(c, place),
             UNCHANGED <<regs, tasks>>
      PROVE  SpawnsBounded'
  <2>1. IsFiniteSet(Ensuring') /\ Cardinality(Ensuring') \in Nat
        /\ Cardinality(Ensuring') <= Cardinality(Ensuring)
    BY <1>0, <1>3, <1>4
  <2> QED
    BY <1>0, <1>4, <2>1 DEF SpawnsBounded
<1>5. ASSUME NEW c \in Callers, EnsureSpawn(c) PROVE SpawnsBounded'
  <2>1. c \in Ensuring /\ CallTo(c, "idle") /\ tasks' = tasks + 1 /\ regs' = regs
    BY <1>5 DEF EnsureSpawn, Ensuring, registry
  <2>2. IsFiniteSet(Ensuring') /\ Cardinality(Ensuring') = Cardinality(Ensuring) - 1
    BY <1>3, <2>1
  <2> QED
    BY <1>0, <2>1, <2>2 DEF SpawnsBounded
<1>6. ASSUME NEW c \in Callers, CallerStep(c) PROVE SpawnsBounded'
  <2>1. ASSUME NEW k \in Key, RegisterRefused(c, k) \/ UnregisterUnknown(c, k)
        PROVE  SpawnsBounded'
    BY <1>1, <2>1 DEF RegisterRefused, UnregisterUnknown, vars, registry
  <2>2. ASSUME NEW k \in Key, UnregisterRemove(c, k) PROVE SpawnsBounded'
    BY <1>4, <2>2 DEF UnregisterRemove
  <2>3. CASE EnsureRunning(c) \/ EnsureFails(c) \/ UnregisterStop(c) \/ CancelCall(c)
    BY <1>4, <2>3 DEF EnsureRunning, EnsureFails, UnregisterStop, CancelCall, registry
  <2> QED
    BY <1>2, <1>5, <1>6, <2>1, <2>2, <2>3 DEF CallerStep, RegistryStep, CallStep
<1>7. ASSUME NEW t \in Tasks, TaskStep(t) PROVE SpawnsBounded'
  BY <1>1, <1>7 DEF TaskStep, LoopStep, LoopUpgrade, LoopCheck, PollStart, PollNothing,
         PollMatch, PollMismatch, PollInvalid, PollDone, Deliver, Callback,
         CallbackPanics, Wake, Finish, PollError, Stop, registry
<1>8. ASSUME (\E topic : Publish(topic)) \/ DropTransport \/ UNCHANGED vars
      PROVE  SpawnsBounded'
  BY <1>1, <1>8 DEF Publish, DropTransport, vars, registry
<1> QED
  BY <1>6, <1>7, <1>8 DEF Next, CallerStep, RegistryStep, TaskStep

\* What a call or another step does not touch of a task.
LEMMA NotATask ==
    ASSUME [Next]_vars, \A t \in Tasks : ~TaskStep(t)
    PROVE  /\ UNCHANGED <<batch, cursor, received>>
           /\ \/ pc' = pc
              \/ (\E c \in Callers : EnsureSpawn(c)) /\ pc' = [pc EXCEPT ![tasks + 1] = "top"]
<1>1. ASSUME NEW c \in Callers, CallerStep(c)
      PROVE  /\ UNCHANGED <<batch, cursor, received>>
             /\ pc' = pc \/ (EnsureSpawn(c) /\ pc' = [pc EXCEPT ![tasks + 1] = "top"])
  BY <1>1 DEF CallerStep, RegistryStep, CallStep, RegisterRefused, RegisterPush,
         UnregisterUnknown, UnregisterRemove, EnsureRunning, EnsureSpawn, EnsureFails,
         UnregisterStop, CancelCall, vars, worker
<1>2. ASSUME (\E topic : Publish(topic)) \/ DropTransport \/ UNCHANGED vars
      PROVE  UNCHANGED <<batch, cursor, received, pc>>
  BY <1>2 DEF Publish, DropTransport, vars, worker
<1> QED
  BY <1>1, <1>2 DEF Next, CallerStep, RegistryStep, TaskStep

\* What a task leaves alone of the others.
LEMMA OneTask ==
    ASSUME TypeOK, NEW t \in Tasks, TaskStep(t), NEW u \in Tasks, u # t
    PROVE  pc'[u] = pc[u] /\ batch'[u] = batch[u] /\ cursor'[u] = cursor[u]
BY DEF TypeOK, TaskStep, LoopStep, LoopUpgrade, LoopCheck, PollStart, PollNothing,
       PollMatch, PollMismatch, PollInvalid, PollDone, Deliver, Callback,
       CallbackPanics, Wake, Finish, PollError, Stop, PollAbandon, GoTo, Advance

LEMMA NextTasksNumbered ==
    TypeOK /\ TasksNumbered /\ [Next]_vars => TasksNumbered'
<1> SUFFICES ASSUME TypeOK, TasksNumbered, [Next]_vars PROVE TasksNumbered'
  OBVIOUS
<1>1. CASE \A t \in Tasks : ~TaskStep(t)
  <2>1. CASE \E c \in Callers : EnsureSpawn(c)
    <3>1. tasks' = tasks + 1 /\ pc' = [pc EXCEPT ![tasks + 1] = "top"] /\ tasks \in Nat
      BY <2>1 DEF EnsureSpawn, TypeOK
    <3> QED
      BY <3>1 DEF TasksNumbered, TypeOK, Tasks
  <2>2. CASE ~\E c \in Callers : EnsureSpawn(c)
    <3>1. pc' = pc
      BY <1>1, <2>2, NotATask
    <3>2. tasks' = tasks
      BY <1>1, <2>2 DEF Next, TaskStep, CallStep, RegisterRefused, RegisterPush,
         UnregisterUnknown, UnregisterRemove, EnsureRunning, EnsureFails,
         UnregisterStop, CancelCall, Publish, DropTransport, vars
    <3> QED
      BY <3>1, <3>2 DEF TasksNumbered
  <2> QED
    BY <2>1, <2>2
<1>2. ASSUME NEW t \in Tasks, TaskStep(t) PROVE TasksNumbered'
  <2>1. tasks' = tasks /\ pc[t] # "unspawned" /\ pc'[t] # "unspawned"
    BY <1>2 DEF TypeOK, TaskStep, LoopStep, LoopUpgrade, LoopCheck, PollStart, PollNothing,
       PollMatch, PollMismatch, PollInvalid, PollDone, Deliver, Callback, PollTake, Polling,
       CallbackPanics, Wake, Finish, PollError, Stop, PollAbandon, GoTo, Advance
  <2> QED
    BY <1>2, <2>1, OneTask DEF TasksNumbered
<1> QED
  BY <1>1, <1>2

LEMMA NextBatchInUse ==
    TypeOK /\ TasksNumbered /\ BatchInUse /\ [Next]_vars => BatchInUse'
<1> SUFFICES ASSUME TypeOK, TasksNumbered, BatchInUse, [Next]_vars PROVE BatchInUse'
  OBVIOUS
<1>1. CASE \A t \in Tasks : ~TaskStep(t)
  <2>1. UNCHANGED batch
    BY <1>1, NotATask
  <2>2. CASE pc' = pc
    BY <2>1, <2>2 DEF BatchInUse
  <2>3. CASE \E c \in Callers : EnsureSpawn(c)
    <3>1. pc' = [pc EXCEPT ![tasks + 1] = "top"] /\ tasks \in Nat
      BY <2>3 DEF EnsureSpawn, TypeOK
    <3>2. tasks + 1 \in Tasks => batch[tasks + 1] = <<>>
      BY <3>1 DEF BatchInUse, TasksNumbered
    <3> QED
      BY <2>1, <3>1, <3>2 DEF BatchInUse, TypeOK
  <2> QED
    BY <1>1, <2>2, <2>3, NotATask
<1>2. ASSUME NEW t \in Tasks, TaskStep(t) PROVE BatchInUse'
  <2>1. ASSUME NEW u \in Tasks, u # t
        PROVE  /\ pc'[u] = "deliver" => batch'[u] # <<>>
               /\ pc'[u] \notin {"poll", "deliver"} => batch'[u] = <<>>
    BY <1>2, <2>1, OneTask DEF BatchInUse
  <2>2. /\ pc'[t] = "deliver" => batch'[t] # <<>>
        /\ pc'[t] \notin {"poll", "deliver"} => batch'[t] = <<>>
    <3>1. CASE LoopUpgrade(t) \/ LoopCheck(t) \/ PollStart(t) \/ PollDone(t) \/ Wake(t) \/ Finish(t)
      BY <3>1 DEF LoopUpgrade, LoopCheck, PollStart, PollDone, Wake, Finish, GoTo, BatchInUse,
                  TypeOK
    <3>2. CASE PollNothing(t) \/ PollMatch(t) \/ PollMismatch(t)
      BY <3>2 DEF PollNothing, PollMatch, PollMismatch, PollTake, Polling
    <3>3. CASE PollInvalid(t) \/ PollError(t) \/ Stop(t) \/ CallbackPanics(t)
      BY <3>3 DEF PollInvalid, PollError, Stop, CallbackPanics, PollAbandon, GoTo, TypeOK
    <3>4. CASE Deliver(t)
      <4>1. batch'[t] = Tail(batch[t]) /\ batch[t] # <<>>
            /\ pc'[t] = IF Len(batch[t]) = 1 THEN "top" ELSE "deliver"
        BY <3>4 DEF Deliver, Callback, GoTo, BatchInUse, TypeOK
      <4>2. Tail(batch[t]) = <<>> <=> Len(batch[t]) = 1
        <5>1. batch[t] \in Seq(Delivery)
          BY DEF TypeOK, Delivery
        <5>2. Tail(batch[t]) \in Seq(Delivery) /\ Len(Tail(batch[t])) = Len(batch[t]) - 1
              /\ Len(batch[t]) \in Nat
          BY <4>1, <5>1, HeadTailProperties, LenProperties
        <5>3. Tail(batch[t]) = <<>> <=> Len(Tail(batch[t])) = 0
          BY <5>2, EmptySeq
        <5> QED
          BY <5>2, <5>3
      <4> QED
        BY <4>1, <4>2
    <3> QED
      BY <1>2, <3>1, <3>2, <3>3, <3>4 DEF TaskStep, LoopStep
  <2> QED
    BY <2>1, <2>2 DEF BatchInUse
<1> QED
  BY <1>1, <1>2

\* PollIsExclusive comes from Safe.
FullTypes == TypeInv /\ Safe

LEMMA TypesInductive ==
    /\ Init => FullTypes
    /\ FullTypes /\ [Next]_vars => FullTypes'
<1>1. Init => FullTypes
  BY InitTypeInv, InitShape, InitSafe DEF FullTypes, Safe
<1>2. FullTypes /\ [Next]_vars => FullTypes'
  BY NextTypeOK, NextSpawnsBounded, NextTasksNumbered, NextBatchInUse, NextSafe DEF FullTypes, TypeInv, Safe
<1> QED
  BY <1>1, <1>2

\* Every variable of the push path keeps its type: a task is spawned for a
\* registration only, and calls back only with a delivery it has.
THEOREM TypeCorrect == Spec => []TypeOK
<1>1. FullTypes => TypeOK
  BY DEF FullTypes, TypeInv
<1> QED
  BY <1>1, TypesInductive, PTL DEF Spec

-----------------------------------------------------------------------------
(* What a registration is given *)

\* A registration is in the registry once, and is one of those made.
RegisteredOnce ==
    /\ IsInjective(listeners)
    /\ \A n \in Registered : n <= regs

\* A subscription hands its samples out in the order of publication.
InboxOrdered ==
    \A n \in Regs : Ordered(inbox[n]) /\ \A s \in ToSet(inbox[n]) : s.id <= sent

\* The sample s was taken for the registration n: it matches, and is older than
\* all that the subscription of n still holds or will hold.
TakenFor(n, s) ==
    /\ n <= regs
    /\ s.topic \in key[n].topics
    /\ s.id <= sent
    /\ \A u \in ToSet(inbox[n]) : s.id < u.id

GivenWereTaken == \A n \in Regs : \A g \in ToSet(received[n]) : TakenFor(n, g.sample)
CarriedWereTaken == \A t \in Tasks : \A d \in ToSet(batch[t]) : TakenFor(d.reg, d.sample)

\* What a task carries for a registration was not given to it yet, and is newer than
\* what this task gave it; the task has made no late delivery to it either.
CarriedIsNew ==
    \A t \in Tasks : \A d \in ToSet(batch[t]) : \A g \in ToSet(received[d.reg]) :
        /\ g.sample.id # d.sample.id
        /\ g.by = t => g.sample.id < d.sample.id /\ ~g.late

\* No two tasks carry the same sample for the same registration.
CarriedOnce ==
    \A t, u \in Tasks : \A d \in ToSet(batch[t]), e \in ToSet(batch[u]) :
        d.reg = e.reg /\ d.sample.id = e.sample.id => t = u

\* A batch has one delivery at most for a registration: a poll is not at a
\* registration twice.
BatchOnce ==
    \A t \in Tasks :
        /\ \A i, j \in 1..Len(batch[t]) : batch[t][i].reg = batch[t][j].reg => i = j
        /\ pc[t] = "poll" => \A d \in ToSet(batch[t]) :
              \E i \in 1..Len(listeners) : i < cursor[t] /\ d.reg = listeners[i]

\* A registration that was given a sample late does not come back.
LateIsOver == \A n \in Regs : \A g \in ToSet(received[n]) : g.late => n \notin Registered

GivenInOrder ==
    \A n \in Regs : \A i, j \in 1..Len(received[n]) :
        i < j => /\ received[n][i].sample.id # received[n][j].sample.id
                 /\ received[n][i].by = received[n][j].by =>
                       /\ received[n][i].sample.id < received[n][j].sample.id
                       /\ ~(received[n][i].late /\ received[n][j].late)

DeliveryInv ==
    /\ GivenWereTaken
    /\ CarriedWereTaken
    /\ CarriedIsNew
    /\ CarriedOnce
    /\ LateIsOver
    /\ GivenInOrder

FullInv == FullTypes /\ RegisteredOnce /\ InboxOrdered /\ BatchOnce /\ DeliveryInv

LEMMA IdIsNat == \A s \in Sample : s.id \in Nat
BY ConstantsAssumption DEF Sample

\* The elements of the sequences, as elements of their types.
LEMMA SequenceTypes ==
    ASSUME TypeOK
    PROVE  /\ \A n \in Regs : inbox[n] \in Seq(Sample) /\ ToSet(inbox[n]) \in SUBSET Sample
           /\ \A n \in Regs : received[n] \in Seq(Given1) /\ ToSet(received[n]) \in SUBSET Given1
           /\ \A t \in Tasks : batch[t] \in Seq(Delivery) /\ ToSet(batch[t]) \in SUBSET Delivery
           /\ Registered \in SUBSET Regs /\ sent \in Nat /\ regs \in Nat
<1>1. listeners \in Seq(Regs) /\ sent \in Nat /\ regs \in Nat
  BY DEF TypeOK
<1>2. \A n \in Regs : inbox[n] \in Seq(Sample)
  BY DEF TypeOK
<1>3. \A n \in Regs : received[n] \in Seq(Given1)
  BY DEF TypeOK, Given1
<1>4. \A t \in Tasks : batch[t] \in Seq(Delivery)
  BY DEF TypeOK, Delivery
<1> QED
  BY <1>1, <1>2, <1>3, <1>4, ElementsOf DEF Registered

LEMMA InitDelivery == Init => RegisteredOnce /\ InboxOrdered /\ BatchOnce /\ DeliveryInv
<1> SUFFICES ASSUME Init
             PROVE  RegisteredOnce /\ InboxOrdered /\ BatchOnce /\ DeliveryInv
  OBVIOUS
<1>1. /\ ToSet(<<>>) = {} /\ IsInjective(<<>>) /\ Ordered(<<>>) /\ Len(<<>>) = 0
      /\ \A k \in 1..0 : FALSE
  BY EmptyElements, EmptyOrdered, EmptySeq
<1>2. /\ listeners = <<>> /\ \A n \in Regs : inbox[n] = <<>> /\ received[n] = <<>>
      /\ \A t \in Tasks : batch[t] = <<>>
  BY DEF Init
<1> QED
  BY <1>1, <1>2 DEF RegisteredOnce, Registered, InboxOrdered, BatchOnce, DeliveryInv,
     GivenWereTaken, CarriedWereTaken, CarriedIsNew, CarriedOnce, LateIsOver, GivenInOrder

-----------------------------------------------------------------------------

\* Registering and unregistering keep registrations apart.
LEMMA NextRegisteredOnce ==
    TypeOK /\ RegisteredOnce /\ [Next]_vars =>
        /\ RegisteredOnce'
        /\ Registered' \subseteq Registered \cup {regs + 1}
        /\ regs' >= regs
        /\ regs' = regs => Registered' \subseteq Registered
<1> SUFFICES ASSUME TypeOK, RegisteredOnce, [Next]_vars
             PROVE  /\ RegisteredOnce' /\ Registered' \subseteq Registered \cup {regs + 1}
                    /\ regs' >= regs
                    /\ regs' = regs => Registered' \subseteq Registered
  OBVIOUS
<1>0. listeners \in Seq(Regs) /\ regs \in Nat /\ \A n \in Registered : n \in Nat
  <2>1. listeners \in Seq(Regs) /\ regs \in Nat
    BY DEF TypeOK
  <2>2. Registered \subseteq Regs
    BY SequenceTypes
  <2> QED
    BY <2>1, <2>2 DEF Regs
<1>1. ASSUME NEW c \in Callers, NEW k \in Key, RegisterPush(c, k)
      PROVE  /\ RegisteredOnce' /\ Registered' \subseteq Registered \cup {regs + 1}
             /\ regs' = regs + 1
  <2>1. /\ regs' = regs + 1 /\ listeners' = Append(listeners, regs + 1) /\ regs + 1 \in Regs
    BY <1>0, <1>1, ConstantsAssumption DEF RegisterPush, Regs
  <2>2. regs + 1 \notin ToSet(listeners)
    BY <1>0 DEF RegisteredOnce, Registered
  <2>3. /\ ToSet(Append(listeners, regs + 1)) = ToSet(listeners) \cup {regs + 1}
        /\ IsInjective(Append(listeners, regs + 1))
    BY <1>0, <2>1, <2>2, AppendElements DEF RegisteredOnce
  <2>4. \A n \in Registered : n <= regs + 1
    BY <1>0 DEF RegisteredOnce
  <2> QED
    BY <1>0, <2>1, <2>3, <2>4 DEF RegisteredOnce, Registered
<1>2. ASSUME NEW c \in Callers, NEW k \in Key, UnregisterRemove(c, k)
      PROVE  RegisteredOnce' /\ Registered' \subseteq Registered /\ regs' = regs
  <2>1. PICK i \in 1..Len(listeners) : listeners' = RemoveAt(listeners, i)
    BY <1>2 DEF UnregisterRemove, Same
  <2>2. /\ ToSet(RemoveAt(listeners, i)) = ToSet(listeners) \ {listeners[i]}
        /\ IsInjective(RemoveAt(listeners, i))
    BY <1>0, RemoveAtElements DEF RegisteredOnce
  <2>3. regs' = regs
    BY <1>2 DEF UnregisterRemove
  <2> QED
    BY <2>1, <2>2, <2>3 DEF RegisteredOnce, Registered
<1>3. ASSUME UNCHANGED <<regs, listeners>>
      PROVE  RegisteredOnce' /\ Registered' \subseteq Registered /\ regs' = regs
  BY <1>3 DEF RegisteredOnce, Registered
<1>4. \/ \E c \in Callers, k \in Key : RegisterPush(c, k) \/ UnregisterRemove(c, k)
      \/ UNCHANGED <<regs, listeners>>
  BY DEF Next, CallStep, RegisterRefused, UnregisterUnknown, EnsureRunning, EnsureSpawn,
     EnsureFails, UnregisterStop, CancelCall, LoopStep, LoopUpgrade, LoopCheck, PollStart,
     PollNothing, PollMatch, PollMismatch, PollInvalid, PollDone, Deliver, Callback,
     CallbackPanics, Wake, Finish, PollError, Stop, Publish, DropTransport, vars, registry
<1> QED
  BY <1>0, <1>1, <1>2, <1>3, <1>4

\* The samples of a subscription after a step were there before or are published by it.
Flows ==
    /\ sent' \in Nat /\ sent' >= sent
    /\ \A n \in 1..regs : key'[n] = key[n]
    /\ \A n \in Regs : \A u \in ToSet(inbox'[n]) :
          u \in ToSet(inbox[n]) \/ u.id = sent + 1

LEMMA NextFlows ==
    TypeInv /\ InboxOrdered /\ [Next]_vars => InboxOrdered' /\ Flows
<1> SUFFICES ASSUME TypeInv, InboxOrdered, [Next]_vars PROVE InboxOrdered' /\ Flows
  OBVIOUS
<1>0. TypeOK /\ sent \in Nat /\ PollIsExclusive
  BY SequenceTypes DEF TypeInv
<1>1. ASSUME UNCHANGED <<sent, key, inbox>> PROVE InboxOrdered' /\ Flows
  BY <1>0, <1>1 DEF InboxOrdered, Flows
<1>2. ASSUME NEW topic \in Topics \cup {Malformed}, Publish(topic) PROVE InboxOrdered' /\ Flows
  <2> DEFINE s == [id |-> sent + 1, topic |-> topic]
  <2>1. s \in Sample /\ s.id = sent + 1 /\ sent' = sent + 1 /\ key' = key
    BY <1>0, <1>2, ConstantsAssumption DEF Publish, Sample
  <2>2. \A n \in Regs : inbox'[n] = inbox[n] \/ inbox'[n] = Append(inbox[n], s)
    BY <1>2 DEF Publish
  <2> HIDE DEF s
  <2>3. ASSUME NEW n \in Regs
        PROVE  /\ Ordered(inbox'[n]) /\ \A u \in ToSet(inbox'[n]) : u.id <= sent'
               /\ \A u \in ToSet(inbox'[n]) : u \in ToSet(inbox[n]) \/ u.id = sent + 1
    <3>1. inbox[n] \in Seq(Sample) /\ Ordered(inbox[n])
          /\ \A u \in ToSet(inbox[n]) : u.id <= sent /\ u.id \in Nat
      BY <1>0, SequenceTypes, IdIsNat DEF InboxOrdered
    <3>2. \A u \in ToSet(inbox[n]) : u.id < s.id /\ u.id <= sent + 1
      BY <1>0, <2>1, <3>1
    <3>3. /\ Ordered(Append(inbox[n], s))
          /\ ToSet(Append(inbox[n], s)) = ToSet(inbox[n]) \cup {s}
      BY <2>1, <3>1, <3>2, AppendOrdered, AppendElements
    <3>4. CASE inbox'[n] = inbox[n]
      BY <1>0, <2>1, <3>1, <3>2, <3>4
    <3>5. CASE inbox'[n] = Append(inbox[n], s)
      BY <1>0, <2>1, <3>2, <3>3, <3>5
    <3> QED
      BY <2>2, <3>4, <3>5
  <2> QED
    BY <1>0, <2>1, <2>3 DEF InboxOrdered, Flows
<1>3. ASSUME NEW t \in Tasks, PollTake(t), UNCHANGED <<sent, key>> PROVE InboxOrdered' /\ Flows
  <2>1. Polled(t) \in Regs /\ inbox[Polled(t)] # <<>>
    BY <1>0, <1>3, PollTypes DEF PollTake
  <2>2. \A n \in Regs : inbox'[n] = IF n = Polled(t) THEN Tail(inbox[n]) ELSE inbox[n]
    BY <1>0, <1>3 DEF PollTake, TypeOK
  <2>3. ASSUME NEW n \in Regs
        PROVE  Ordered(inbox'[n]) /\ ToSet(inbox'[n]) \subseteq ToSet(inbox[n])
    BY <1>0, <2>1, <2>2, SequenceTypes, TailOrdered, TailElements DEF InboxOrdered
  <2>4. sent' = sent /\ key' = key
    BY <1>3
  <2>5. InboxOrdered'
    BY <2>3, <2>4 DEF InboxOrdered
  <2>6. Flows
    BY <1>0, <2>3, <2>4 DEF Flows
  <2> QED
    BY <2>5, <2>6
<1>4. ASSUME NEW c \in Callers, NEW k \in Key, RegisterPush(c, k) PROVE InboxOrdered' /\ Flows
  <2>1. \A n \in 1..regs : key'[n] = key[n]
    BY <1>0, <1>4, AppendProperties DEF RegisterPush, TypeOK
  <2>2. inbox' = inbox /\ sent' = sent
    BY <1>4 DEF RegisterPush
  <2> QED
    BY <1>0, <2>1, <2>2 DEF InboxOrdered, Flows
<1>5. ASSUME NEW c \in Callers, NEW k \in Key, UnregisterRemove(c, k) PROVE InboxOrdered' /\ Flows
  <2>1. PICK i \in Same(k) : inbox' = [inbox EXCEPT ![listeners[i]] = <<>>]
    BY <1>5 DEF UnregisterRemove
  <2>2. \A n \in Regs : inbox'[n] = inbox[n] \/ inbox'[n] = <<>>
    BY <1>0, <2>1 DEF TypeOK
  <2>3. sent' = sent /\ key' = key
    BY <1>5 DEF UnregisterRemove
  <2>4. ToSet(<<>>) = {} /\ Ordered(<<>>)
    BY EmptyElements, EmptyOrdered
  <2> QED
    BY <1>0, <2>2, <2>3, <2>4 DEF InboxOrdered, Flows
<1>6. ASSUME NEW topic \in Topics \cup (IF Faults THEN {Malformed} ELSE {})
      PROVE  topic \in Topics \cup {Malformed}
  OBVIOUS
<1>7. \/ \E c \in Callers, k \in Key : RegisterPush(c, k) \/ UnregisterRemove(c, k)
      \/ \E t \in Tasks : PollTake(t) /\ UNCHANGED <<sent, key>>
      \/ \E topic \in Topics \cup {Malformed} : Publish(topic)
      \/ UNCHANGED <<sent, key, inbox>>
  <2>1. ASSUME NEW c \in Callers, CallStep(c) \/ EnsureFails(c) \/ CancelCall(c)
        PROVE  UNCHANGED <<sent, key, inbox>>
    BY <2>1 DEF CallStep, EnsureRunning, EnsureSpawn, EnsureFails, UnregisterStop, CancelCall, registry
  <2>2. ASSUME NEW t \in Tasks, LoopStep(t) \/ PollError(t) \/ CallbackPanics(t) \/ Stop(t)
        PROVE  (PollTake(t) /\ UNCHANGED <<sent, key>>) \/ UNCHANGED <<sent, key, inbox>>
    <3>1. /\ PollMatch(t) \/ PollMismatch(t) \/ PollInvalid(t) => PollTake(t) /\ UNCHANGED <<sent, key>>
          /\ PollError(t) => \/ PollTake(t) /\ UNCHANGED <<sent, key>>
                             \/ UNCHANGED <<sent, key, inbox>>
      BY DEF PollMatch, PollMismatch, PollInvalid, PollError
    <3>2. \/ PollMatch(t) \/ PollMismatch(t) \/ PollInvalid(t) \/ PollError(t)
          \/ UNCHANGED <<sent, key, inbox>>
      BY <2>2 DEF LoopStep, LoopUpgrade, LoopCheck, PollStart, PollNothing, PollDone, Deliver,
         CallbackPanics, Wake, Finish, Stop, registry
    <3> QED
      BY <3>1, <3>2
  <2>3. ASSUME NEW c \in Callers, NEW k \in Key, RegisterRefused(c, k) \/ UnregisterUnknown(c, k)
        PROVE  UNCHANGED <<sent, key, inbox>>
    BY <2>3 DEF RegisterRefused, UnregisterUnknown, vars, registry
  <2>4. DropTransport \/ UNCHANGED vars => UNCHANGED <<sent, key, inbox>>
    BY DEF DropTransport, vars, registry
  <2> QED
    BY <1>6, <2>1, <2>2, <2>3, <2>4 DEF Next
<1> QED
  BY <1>1, <1>2, <1>3, <1>4, <1>5, <1>7

\* What was taken for a registration stays so.
LEMMA TakenForStays ==
    ASSUME TypeOK, Flows, regs' >= regs, regs' \in Nat, NEW n \in Regs, NEW s \in Sample,
           TakenFor(n, s)
    PROVE  TakenFor(n, s)'
<1>1. /\ s.id \in Nat /\ sent \in Nat /\ regs \in Nat /\ n \in 1..regs
      /\ \A u \in ToSet(inbox[n]) : u.id \in Nat
  BY IdIsNat, SequenceTypes DEF TakenFor, Regs
<1>2. n <= regs' /\ s.id <= sent' /\ key'[n] = key[n]
  BY <1>1 DEF TakenFor, Flows
<1>3. \A u \in ToSet(inbox'[n]) : s.id < u.id
  BY <1>1 DEF TakenFor, Flows
<1> QED
  BY <1>2, <1>3 DEF TakenFor

\* A step that neither takes a sample for a delivery nor delivers one.
LEMMA DeliveriesKept ==
    ASSUME TypeOK, DeliveryInv, Flows, regs' >= regs, regs' \in Nat,
           Registered' \subseteq Registered \cup {regs + 1}, received' = received,
           \A t \in Tasks : ToSet(batch'[t]) \subseteq ToSet(batch[t])
    PROVE  DeliveryInv'
<1>1. GivenWereTaken'
  <2> SUFFICES ASSUME NEW n \in Regs, NEW g \in ToSet(received[n]) PROVE TakenFor(n, g.sample)'
    BY DEF GivenWereTaken
  <2>1. g.sample \in Sample /\ TakenFor(n, g.sample)
    BY SequenceTypes DEF DeliveryInv, GivenWereTaken, Given1
  <2> QED
    BY <2>1, TakenForStays
<1>2. CarriedWereTaken'
  <2> SUFFICES ASSUME NEW t \in Tasks, NEW d \in ToSet(batch'[t]) PROVE TakenFor(d.reg, d.sample)'
    BY DEF CarriedWereTaken
  <2>1. d.reg \in Regs /\ d.sample \in Sample /\ TakenFor(d.reg, d.sample)
    BY SequenceTypes DEF DeliveryInv, CarriedWereTaken, Delivery
  <2> QED
    BY <2>1, TakenForStays
<1>3. CarriedIsNew' /\ CarriedOnce' /\ GivenInOrder'
  <2>1. CarriedIsNew'
    BY DEF DeliveryInv, CarriedIsNew
  <2>2. CarriedOnce'
    BY DEF DeliveryInv, CarriedOnce
  <2>3. GivenInOrder'
    BY DEF DeliveryInv, GivenInOrder
  <2> QED
    BY <2>1, <2>2, <2>3
<1>4. LateIsOver'
  <2>1. regs \in Nat /\ \A n \in Regs : \A g \in ToSet(received[n]) : n <= regs
    BY SequenceTypes DEF DeliveryInv, GivenWereTaken, TakenFor
  <2>2. \A n \in Regs : \A g \in ToSet(received[n]) : n # regs + 1
    BY <2>1 DEF Regs
  <2> QED
    BY <2>2 DEF DeliveryInv, LateIsOver
<1> QED
  BY <1>1, <1>2, <1>3, <1>4 DEF DeliveryInv

\* A poll takes a sample that it will deliver: the oldest its subscription holds, and
\* newer than all that was taken for the registration before.
LEMMA MatchIsNew ==
    ASSUME TypeOK, PollIsExclusive, RegisteredOnce, InboxOrdered, DeliveryInv,
           NEW t \in Tasks, PollMatch(t), NEW n, n = Polled(t), NEW h, h = PollHead(t)
    PROVE  /\ n \in Regs /\ n \in Registered /\ n <= regs /\ n \in Nat
           /\ inbox[n] # <<>> /\ h.topic \in key[n].topics /\ h \in Sample /\ h.id \in Nat
           /\ UNCHANGED <<regs, received, key, sent, listeners>>
           /\ h \in ToSet(inbox[n]) /\ h.id <= sent
           /\ \A u \in ToSet(inbox'[n]) : h.id < u.id
           /\ \A u \in Tasks : u # t => batch'[u] = batch[u]
           /\ ToSet(batch'[t]) = ToSet(batch[t]) \cup {[reg |-> n, sample |-> h]}
           /\ \A g \in ToSet(received[n]) : g.sample.id < h.id /\ g.sample.id \in Nat
           /\ \A u \in Tasks : \A d \in ToSet(batch[u]) :
                 d.reg = n => d.sample.id < h.id /\ d.sample.id \in Nat
<1> DEFINE new == [reg |-> n, sample |-> h]
<1>1. /\ n \in Regs /\ n \in Registered /\ n <= regs /\ n \in Nat
      /\ inbox[n] # <<>> /\ h.topic \in key[n].topics /\ h \in Sample /\ h.id \in Nat
      /\ UNCHANGED <<regs, received, key, sent, listeners>>
  <2>1. n \in Regs /\ n \in Registered /\ inbox[n] # <<>> /\ h \in Sample
    BY PollTypes DEF PollMatch, PollTake
  <2> QED
    BY <2>1, IdIsNat DEF PollMatch, RegisteredOnce, Regs
<1>2. /\ inbox' = [inbox EXCEPT ![n] = Tail(@)]
      /\ batch' = [batch EXCEPT ![t] = Append(@, new)]
  BY DEF PollMatch, PollTake
<1>3. /\ h \in ToSet(inbox[n]) /\ h.id <= sent
      /\ \A u \in ToSet(inbox'[n]) : h.id < u.id
  <2>1. inbox[n] \in Seq(Sample) /\ Ordered(inbox[n]) /\ inbox'[n] = Tail(inbox[n])
    BY <1>1, <1>2, SequenceTypes DEF InboxOrdered, TypeOK
  <2>2. Head(inbox[n]) \in ToSet(inbox[n]) /\ \A u \in ToSet(Tail(inbox[n])) : Head(inbox[n]).id < u.id
    BY <1>1, <2>1, TailElements, TailOrdered
  <2> QED
    BY <1>1, <2>1, <2>2 DEF InboxOrdered, PollHead
<1>4. /\ \A u \in Tasks : u # t => batch'[u] = batch[u]
      /\ ToSet(batch'[t]) = ToSet(batch[t]) \cup {new}
  <2>1. new \in Delivery /\ batch[t] \in Seq(Delivery)
    BY <1>1, SequenceTypes DEF Delivery
  <2>2. ToSet(Append(batch[t], new)) = ToSet(batch[t]) \cup {new}
    <3> HIDE DEF new
    <3> QED
      BY <2>1, AppendElements
  <2>3. batch'[t] = Append(batch[t], new) /\ \A u \in Tasks : u # t => batch'[u] = batch[u]
    BY <1>2 DEF TypeOK
  <2> QED
    BY <2>2, <2>3
\* What was taken for n before is older.
<1>5. /\ \A g \in ToSet(received[n]) : g.sample.id < h.id /\ g.sample.id \in Nat
      /\ \A u \in Tasks : \A d \in ToSet(batch[u]) :
            d.reg = n => d.sample.id < h.id /\ d.sample.id \in Nat
  <2>1. ASSUME NEW s \in Sample, TakenFor(n, s) PROVE s.id < h.id /\ s.id \in Nat
    BY <1>3, <2>1, IdIsNat DEF TakenFor
  <2>2. \A g \in ToSet(received[n]) : g.sample \in Sample /\ TakenFor(n, g.sample)
    BY <1>1, SequenceTypes DEF DeliveryInv, GivenWereTaken, Given1
  <2>3. \A u \in Tasks : \A d \in ToSet(batch[u]) : d.sample \in Sample /\ TakenFor(d.reg, d.sample)
    BY SequenceTypes DEF DeliveryInv, CarriedWereTaken, Delivery
  <2> QED
    BY <2>1, <2>2, <2>3
<1> QED
  BY <1>1, <1>3, <1>4, <1>5

\* What such a poll does to deliveries.
LEMMA MatchDelivers ==
    ASSUME TypeOK, PollIsExclusive, RegisteredOnce, InboxOrdered, DeliveryInv, Flows,
           NEW t \in Tasks, PollMatch(t), NEW n, n = Polled(t), NEW h, h = PollHead(t)
    PROVE  DeliveryInv'
<1> DEFINE new == [reg |-> n, sample |-> h]
<1>1. /\ n \in Regs /\ n \in Registered /\ n <= regs /\ n \in Nat
      /\ h.topic \in key[n].topics /\ h \in Sample /\ h.id \in Nat
      /\ UNCHANGED <<regs, received, key, sent, listeners>>
  BY MatchIsNew
<1>3. h.id <= sent /\ \A u \in ToSet(inbox'[n]) : h.id < u.id
  BY MatchIsNew
<1>4. TakenFor(n, h)'
  BY <1>1, <1>3 DEF TakenFor
<1>5. /\ \A u \in Tasks : u # t => batch'[u] = batch[u]
      /\ ToSet(batch'[t]) = ToSet(batch[t]) \cup {new}
  BY MatchIsNew
<1>6. new.reg = n /\ new.sample = h
  OBVIOUS
<1>7. Registered' = Registered /\ regs \in Nat /\ regs' = regs /\ received' = received
  BY <1>1, SequenceTypes DEF Registered
\* What was taken for n before is older.
<1>8. /\ \A g \in ToSet(received[n]) : g.sample.id < h.id /\ g.sample.id \in Nat
      /\ \A u \in Tasks : \A d \in ToSet(batch[u]) :
            d.reg = n => d.sample.id < h.id /\ d.sample.id \in Nat
  BY MatchIsNew
<1> HIDE DEF new
<1>9. \A u \in Tasks : \A d \in ToSet(batch'[u]) :
         d \in ToSet(batch[u]) \/ (u = t /\ d = new)
  BY <1>5
<1>10. GivenWereTaken'
  <2> SUFFICES ASSUME NEW m \in Regs, NEW g \in ToSet(received[m]) PROVE TakenFor(m, g.sample)'
    BY <1>7 DEF GivenWereTaken
  <2>1. g.sample \in Sample /\ TakenFor(m, g.sample)
    BY SequenceTypes DEF DeliveryInv, GivenWereTaken, Given1
  <2> QED
    BY <1>7, <2>1, TakenForStays
<1>11. CarriedWereTaken'
  <2> SUFFICES ASSUME NEW u \in Tasks, NEW d \in ToSet(batch'[u]) PROVE TakenFor(d.reg, d.sample)'
    BY DEF CarriedWereTaken
  <2>1. CASE d = new
    <3>1. d.reg = n /\ d.sample = h
      BY <1>6, <2>1
    <3> QED
      BY <1>4, <3>1
  <2>2. CASE d \in ToSet(batch[u])
    <3>1. d.reg \in Regs /\ d.sample \in Sample /\ TakenFor(d.reg, d.sample)
      BY <2>2, SequenceTypes DEF DeliveryInv, CarriedWereTaken, Delivery
    <3> QED
      BY <1>7, <3>1, TakenForStays
  <2> QED
    BY <1>9, <2>1, <2>2
<1>12. CarriedIsNew'
  <2> SUFFICES ASSUME NEW u \in Tasks, NEW d \in ToSet(batch'[u]),
                      NEW g \in ToSet(received[d.reg])
               PROVE  /\ g.sample.id # d.sample.id
                      /\ g.by = u => g.sample.id < d.sample.id /\ ~g.late
    BY <1>7 DEF CarriedIsNew
  <2>1. CASE d = new
    <3>1. g.sample.id < h.id /\ g.sample.id \in Nat /\ ~g.late
      BY <1>1, <1>6, <1>8, <2>1 DEF DeliveryInv, LateIsOver
    <3> QED
      BY <1>1, <1>6, <2>1, <3>1
  <2>2. CASE d \in ToSet(batch[u])
    BY <2>2 DEF DeliveryInv, CarriedIsNew
  <2> QED
    BY <1>9, <2>1, <2>2
<1>13. CarriedOnce'
  <2> SUFFICES ASSUME NEW u \in Tasks, NEW v \in Tasks,
                      NEW d \in ToSet(batch'[u]), NEW e \in ToSet(batch'[v]),
                      d.reg = e.reg, d.sample.id = e.sample.id
               PROVE  u = v
    BY DEF CarriedOnce
  <2>1. CASE d \in ToSet(batch[u]) /\ e \in ToSet(batch[v])
    BY <2>1 DEF DeliveryInv, CarriedOnce
  <2>2. CASE d = new /\ u = t /\ e \in ToSet(batch[v])
    BY <1>1, <1>6, <1>8, <2>2
  <2>3. CASE e = new /\ v = t /\ d \in ToSet(batch[u])
    BY <1>1, <1>6, <1>8, <2>3
  <2> QED
    BY <1>9, <2>1, <2>2, <2>3
<1>14. LateIsOver' /\ GivenInOrder'
  BY <1>7 DEF DeliveryInv, LateIsOver, GivenInOrder
<1> QED
  BY <1>10, <1>11, <1>12, <1>13, <1>14 DEF DeliveryInv

\* A callback: one delivery of the batch is made, and at most the rest stays.
LEMMA CallbackDelivers ==
    ASSUME TypeOK, BatchOnce, BatchInUse, DeliveryInv, NEW t \in Tasks, Callback(t),
           \/ batch' = [batch EXCEPT ![t] = Tail(@)]
           \/ batch' = [batch EXCEPT ![t] = <<>>],
           UNCHANGED <<registry, sent>>
    PROVE  DeliveryInv'
<1> DEFINE d == Head(batch[t])
           n == d.reg
           g == [sample |-> d.sample, by |-> t, late |-> d.reg \notin Registered]
<1>1. batch[t] \in Seq(Delivery) /\ batch[t] # <<>>
  BY SequenceTypes DEF Callback, BatchInUse
<1>2. /\ d \in ToSet(batch[t]) /\ d \in Delivery /\ n \in Regs /\ d.sample \in Sample
      /\ ToSet(Tail(batch[t])) \subseteq ToSet(batch[t])
  <2>1. d \in ToSet(batch[t]) /\ ToSet(Tail(batch[t])) \subseteq ToSet(batch[t])
    BY <1>1, TailElements
  <2>2. d \in Delivery
    BY <2>1, SequenceTypes
  <2> QED
    BY <2>1, <2>2 DEF Delivery
\* What stays in the batch is for other registrations.
<1>3. \A e \in ToSet(Tail(batch[t])) : e.reg # n
  <2> SUFFICES ASSUME NEW e \in ToSet(Tail(batch[t])), e.reg = n PROVE FALSE
    OBVIOUS
  <2>1. /\ Tail(batch[t]) \in Seq(Delivery) /\ Len(batch[t]) \in Nat \ {0}
        /\ Len(Tail(batch[t])) = Len(batch[t]) - 1
        /\ \A i \in 1..(Len(batch[t]) - 1) : Tail(batch[t])[i] = batch[t][i + 1]
        /\ d = batch[t][1]
    BY <1>1, HeadTailProperties, LenProperties, EmptySeq
  <2>2. PICK i \in 1..(Len(batch[t]) - 1) : Tail(batch[t])[i] = e
    <3> DEFINE q == Tail(batch[t])
    <3>1. q \in Seq(Delivery) /\ Len(q) = Len(batch[t]) - 1 /\ e \in ToSet(q)
      BY <2>1
    <3> HIDE DEF q
    <3>2. \E i \in 1..Len(q) : q[i] = e
      BY <3>1, ElementsOf
    <3> QED
      BY <3>1, <3>2 DEF q
  <2>3. i + 1 \in 1..Len(batch[t]) /\ 1 \in 1..Len(batch[t]) /\ i + 1 # 1
    BY <2>1
  <2>4. batch[t][i + 1].reg = batch[t][1].reg
    BY <2>1, <2>2
  <2> QED
    BY <2>3, <2>4 DEF BatchOnce
<1>4. \A u \in Tasks : \A e \in ToSet(batch'[u]) :
         e \in ToSet(batch[u]) /\ (u = t => e.reg # n)
  <2>1. \A u \in Tasks : u # t => batch'[u] = batch[u]
    BY DEF TypeOK
  <2>2. batch'[t] = Tail(batch[t]) \/ batch'[t] = <<>>
    BY DEF TypeOK
  <2>3. ToSet(<<>>) = {}
    BY EmptyElements
  <2> QED
    BY <1>2, <1>3, <2>1, <2>2, <2>3
<1>5. /\ received[n] \in Seq(Given1) /\ g \in Given1
      /\ received' = [received EXCEPT ![n] = Append(@, g)]
      /\ g.sample = d.sample /\ g.by = t /\ (g.late <=> n \notin Registered)
  <2>1. (n \notin Registered) \in BOOLEAN
    BY Zenon
  <2>2. received[n] \in Seq(Given1)
    BY <1>2, SequenceTypes
  <2>3. received' = [received EXCEPT ![n] = Append(@, g)]
    BY DEF Callback
  <2>4. g \in Given1 /\ g.sample = d.sample /\ g.by = t
    BY <1>2, <2>1 DEF Given1
  <2>5. g.late <=> n \notin Registered
    BY Zenon
  <2> QED
    BY <2>2, <2>3, <2>4, <2>5
<1> HIDE DEF g
<1>6. \A m \in Regs : received'[m] = IF m = n THEN Append(received[n], g) ELSE received[m]
  BY <1>2, <1>5 DEF TypeOK
<1>7. ToSet(Append(received[n], g)) = ToSet(received[n]) \cup {g}
  BY <1>5, AppendElements
<1>8. \A m \in Regs : \A f \in ToSet(received'[m]) :
         f \in ToSet(received[m]) \/ (m = n /\ f = g)
  BY <1>6, <1>7
<1>9. \A m \in Regs : \A s : TakenFor(m, s) => TakenFor(m, s)'
  BY DEF TakenFor, registry
<1>10. TakenFor(n, d.sample)
  BY <1>2 DEF DeliveryInv, CarriedWereTaken
<1>11. GivenWereTaken'
  BY <1>2, <1>5, <1>8, <1>9, <1>10 DEF DeliveryInv, GivenWereTaken
<1>12. CarriedWereTaken'
  <2>1. \A u \in Tasks : \A e \in ToSet(batch[u]) : e.reg \in Regs
    BY SequenceTypes DEF Delivery
  <2> QED
    BY <1>4, <1>9, <2>1 DEF DeliveryInv, CarriedWereTaken
<1>13. CarriedIsNew'
  <2> SUFFICES ASSUME NEW u \in Tasks, NEW e \in ToSet(batch'[u]),
                      NEW f \in ToSet(received'[e.reg])
               PROVE  /\ f.sample.id # e.sample.id
                      /\ f.by = u => f.sample.id < e.sample.id /\ ~f.late
    BY DEF CarriedIsNew
  <2>1. e \in ToSet(batch[u]) /\ e.reg \in Regs /\ (u = t => e.reg # n)
    BY <1>4, SequenceTypes DEF Delivery
  <2>2. CASE f \in ToSet(received[e.reg])
    BY <2>1, <2>2 DEF DeliveryInv, CarriedIsNew
  <2>3. CASE e.reg = n /\ f = g
    <3>1. u # t
      BY <2>1, <2>3
    <3> QED
      BY <1>2, <1>5, <2>1, <2>3, <3>1 DEF DeliveryInv, CarriedOnce
  <2> QED
    BY <1>8, <2>1, <2>2, <2>3
<1>14. CarriedOnce'
  BY <1>4 DEF DeliveryInv, CarriedOnce
<1>15. LateIsOver'
  <2>1. Registered' = Registered
    BY DEF Registered, registry
  <2> QED
    BY <1>5, <1>8, <2>1 DEF DeliveryInv, LateIsOver
<1>16. GivenInOrder'
  <2> SUFFICES ASSUME NEW m \in Regs,
                      NEW i \in 1..Len(received'[m]), NEW j \in 1..Len(received'[m]), i < j
               PROVE  /\ received'[m][i].sample.id # received'[m][j].sample.id
                      /\ received'[m][i].by = received'[m][j].by =>
                            /\ received'[m][i].sample.id < received'[m][j].sample.id
                            /\ ~(received'[m][i].late /\ received'[m][j].late)
    BY DEF GivenInOrder
  <2>1. CASE m # n
    <3>1. received'[m] = received[m]
      BY <1>6, <2>1
    <3> QED
      BY <3>1 DEF DeliveryInv, GivenInOrder
  <2>2. CASE m = n
    <3> DEFINE q == received[n]
    <3>0. q \in Seq(Given1) /\ g \in Given1 /\ received'[m] = Append(q, g)
      BY <1>5, <1>6, <2>2
    <3> HIDE DEF q
    <3>1. /\ Len(q) \in Nat /\ Len(received'[m]) = Len(q) + 1
          /\ received'[m][Len(q) + 1] = g
          /\ \A k \in 1..Len(q) : received'[m][k] = q[k] /\ q[k] \in ToSet(q)
      BY <3>0, AppendProperties, LenProperties, ElementsOf
    <3>2. i \in 1..Len(q) /\ (j \in 1..Len(q) \/ j = Len(q) + 1)
      BY <3>1
    <3>3. CASE j \in 1..Len(q)
      <4>1. received'[m][i] = q[i] /\ received'[m][j] = q[j] /\ i \in 1..Len(q)
        BY <3>1, <3>2, <3>3
      <4>2. /\ q[i].sample.id # q[j].sample.id
            /\ q[i].by = q[j].by => q[i].sample.id < q[j].sample.id /\ ~(q[i].late /\ q[j].late)
        BY <1>2, <3>3, <4>1 DEF DeliveryInv, GivenInOrder, q
      <4> QED
        BY <4>1, <4>2
    <3>4. CASE j = Len(q) + 1
      <4>1. received'[m][i] = q[i] /\ received'[m][j] = g /\ q[i] \in ToSet(received[n])
        BY <3>1, <3>2, <3>4 DEF q
      <4>2. /\ q[i].sample.id # d.sample.id
            /\ q[i].by = t => q[i].sample.id < d.sample.id /\ ~q[i].late
        BY <1>2, <4>1 DEF DeliveryInv, CarriedIsNew
      <4> QED
        BY <1>5, <4>1, <4>2
    <3> QED
      BY <3>2, <3>3, <3>4
  <2> QED
    BY <2>1, <2>2
<1> QED
  BY <1>11, <1>12, <1>13, <1>14, <1>15, <1>16 DEF DeliveryInv

\* A poll adds one delivery for the registration it is at and moves on; a batch is
\* otherwise only used up or dropped.
LEMMA NextBatchOnce ==
    TypeInv /\ RegisteredOnce /\ BatchOnce /\ [Next]_vars => BatchOnce'
<1> SUFFICES ASSUME TypeInv, RegisteredOnce, BatchOnce, [Next]_vars PROVE BatchOnce'
  OBVIOUS
<1> DEFINE Distinct(q) == \A i, j \in 1..Len(q) : q[i].reg = q[j].reg => i = j
           Passed(q, k) == \A d \in ToSet(q) :
                              \E i \in 1..Len(listeners) : i < k /\ d.reg = listeners[i]
<1>0. /\ TypeOK /\ BatchInUse /\ PollIsExclusive /\ TasksNumbered
      /\ listeners \in Seq(Regs) /\ Len(listeners) \in Nat
      /\ \A t \in Tasks : Distinct(batch[t])
      /\ \A t \in Tasks : pc[t] = "poll" => Passed(batch[t], cursor[t])
  BY LenProperties DEF TypeInv, TypeOK, BatchOnce
<1>1. ASSUME \A t \in Tasks : ~TaskStep(t) PROVE BatchOnce'
  <2>1. UNCHANGED <<batch, cursor>> /\ \A t \in Tasks : pc'[t] = "poll" => pc[t] = "poll"
    BY <1>0, <1>1, NotATask DEF TypeOK
  <2>2. (\E t \in Tasks : pc[t] = "poll") => listeners' = listeners
    <3> SUFFICES ASSUME ~RegistryFree PROVE listeners' = listeners
      BY DEF RegistryFree
    <3> QED
      BY <1>1 DEF Next, TaskStep, CallStep, RegisterRefused, RegisterPush, UnregisterUnknown,
         UnregisterRemove, EnsureRunning, EnsureSpawn, EnsureFails, UnregisterStop, CancelCall,
         Publish, DropTransport, vars, registry
  <2>3. \A t \in Tasks : Distinct(batch'[t])
    BY <1>0, <2>1
  <2>4. \A t \in Tasks : pc'[t] = "poll" =>
           \A d \in ToSet(batch'[t]) :
              \E i \in 1..Len(listeners') : i < cursor'[t] /\ d.reg = listeners'[i]
    BY <1>0, <2>1, <2>2
  <2> QED
    BY <2>3, <2>4 DEF BatchOnce
<1>2. ASSUME NEW t \in Tasks, TaskStep(t) PROVE BatchOnce'
  <2>0. listeners' = listeners
    BY <1>2 DEF TaskStep, LoopStep, LoopUpgrade, LoopCheck, PollStart, PollNothing, PollMatch,
         PollMismatch, PollInvalid, PollDone, Deliver, Callback, CallbackPanics, Wake, Finish,
         PollError, Stop, registry
  <2>1. batch[t] \in Seq(Delivery) /\ Len(batch[t]) \in Nat
    BY <1>0, SequenceTypes, LenProperties
  <2>2. ASSUME Distinct(batch'[t]), pc'[t] = "poll" => Passed(batch'[t], cursor'[t])
        PROVE  BatchOnce'
    <3>1. \A u \in Tasks : u # t => pc'[u] = pc[u] /\ batch'[u] = batch[u] /\ cursor'[u] = cursor[u]
      BY <1>0, <1>2, OneTask
    <3> QED
      BY <2>0, <2>2, <3>1 DEF BatchOnce
  <2> HIDE DEF Distinct, Passed
  <2>3. Distinct(<<>>) /\ \A k : Passed(<<>>, k)
    BY EmptyElements, EmptySeq DEF Distinct, Passed
  <2>4. CASE LoopUpgrade(t) \/ LoopCheck(t) \/ PollDone(t) \/ Wake(t) \/ Finish(t)
    <3>1. batch' = batch /\ pc'[t] # "poll"
      BY <1>0, <2>4 DEF LoopUpgrade, LoopCheck, PollDone, Wake, Finish, GoTo, TypeOK
    <3> QED
      BY <1>0, <2>2, <3>1
  <2>5. CASE PollStart(t)
    <3>1. batch'[t] = <<>>
      BY <1>0, <2>5 DEF PollStart, BatchInUse
    <3> QED
      BY <2>2, <2>3, <3>1
  <2>6. CASE PollInvalid(t) \/ PollError(t) \/ Stop(t) \/ CallbackPanics(t)
    <3>1. batch'[t] = <<>>
      BY <1>0, <2>6 DEF PollInvalid, PollError, PollAbandon, Stop, CallbackPanics, TypeOK
    <3> QED
      BY <2>2, <2>3, <3>1
\* Moving on to the next registration.
  <2>7. ASSUME NEW q, Passed(q, cursor[t]), Polling(t), Advance(t)
        PROVE  Passed(q, cursor'[t])
    <3>1. cursor'[t] = cursor[t] + 1 /\ cursor[t] \in Nat
      BY <1>0, <2>7 DEF Advance, TypeOK
    <3>2. \A i \in 1..Len(listeners) : i < cursor[t] => i < cursor[t] + 1
      BY <3>1
    <3> QED
      BY <2>7, <3>1, <3>2 DEF Passed
  <2>8. CASE PollNothing(t) \/ PollMismatch(t)
    <3>1. batch' = batch /\ pc' = pc /\ Polling(t) /\ Advance(t)
      BY <2>8 DEF PollNothing, PollMismatch, PollTake
    <3> QED
      BY <1>0, <2>2, <2>7, <3>1 DEF Polling
  <2>9. CASE PollMatch(t)
    <3> DEFINE new == [reg |-> Polled(t), sample |-> PollHead(t)]
               q == batch[t]
    <3>1. /\ Polling(t) /\ Advance(t) /\ pc[t] = "poll" /\ pc' = pc
          /\ batch'[t] = Append(q, new)
      BY <1>0, <2>9 DEF PollMatch, PollTake, Polling, TypeOK
    <3>2. /\ cursor[t] \in 1..Len(listeners) /\ new.reg = listeners[cursor[t]]
          /\ new \in Delivery
      BY <1>0, <2>9, PollTypes DEF PollMatch, PollTake, Polled, Delivery
    <3> HIDE DEF new
    <3>3. /\ Len(batch'[t]) = Len(q) + 1 /\ batch'[t][Len(q) + 1] = new
          /\ \A i \in 1..Len(q) : batch'[t][i] = q[i] /\ q[i] \in ToSet(q)
          /\ ToSet(batch'[t]) = ToSet(q) \cup {new}
      <4>1. /\ Len(Append(q, new)) = Len(q) + 1 /\ Append(q, new)[Len(q) + 1] = new
            /\ \A i \in 1..Len(q) : Append(q, new)[i] = q[i]
        BY <2>1, <3>2, AppendProperties
      <4>2. ToSet(Append(q, new)) = ToSet(q) \cup {new} /\ \A i \in 1..Len(q) : q[i] \in ToSet(q)
        BY <2>1, <3>2, AppendElements, ElementsOf
      <4> QED
        BY <3>1, <4>1, <4>2
    <3>4. Passed(q, cursor[t])
      BY <1>0, <3>1
    <3>5. \A d \in ToSet(q) : d.reg # new.reg
      <4> SUFFICES ASSUME NEW d \in ToSet(q), d.reg = new.reg PROVE FALSE
        OBVIOUS
      <4>1. PICK i \in 1..Len(listeners) : i < cursor[t] /\ d.reg = listeners[i]
        BY <3>4 DEF Passed
      <4>2. i = cursor[t]
        BY <1>0, <3>2, <4>1, ElementsOf DEF RegisteredOnce
      <4> QED
        BY <4>1, <4>2
    <3>6. Distinct(batch'[t])
      <4> SUFFICES ASSUME NEW i \in 1..Len(batch'[t]), NEW j \in 1..Len(batch'[t]),
                          batch'[t][i].reg = batch'[t][j].reg
                   PROVE  i = j
        BY DEF Distinct
      <4>1. /\ i \in 1..Len(q) \/ i = Len(q) + 1
            /\ j \in 1..Len(q) \/ j = Len(q) + 1
        BY <2>1, <3>3
      <4>2. CASE i \in 1..Len(q) /\ j \in 1..Len(q)
        BY <1>0, <3>3, <4>2 DEF Distinct
      <4>3. CASE i = Len(q) + 1 /\ j \in 1..Len(q)
        BY <3>3, <3>5, <4>3
      <4>4. CASE j = Len(q) + 1 /\ i \in 1..Len(q)
        BY <3>3, <3>5, <4>4
      <4> QED
        BY <4>1, <4>2, <4>3, <4>4
    <3>7. Passed(batch'[t], cursor'[t])
      <4>1. Passed(q, cursor'[t])
        BY <2>7, <3>1, <3>4
      <4>2. cursor[t] < cursor'[t]
        BY <1>0, <3>1 DEF Advance, TypeOK
      <4> QED
        BY <3>2, <3>3, <4>1, <4>2 DEF Passed
    <3> QED
      BY <2>2, <3>6, <3>7
  <2>10. CASE Deliver(t)
    <3> DEFINE q == batch[t]
               r == Tail(q)
    <3>1. batch'[t] = r /\ q # <<>> /\ pc'[t] # "poll"
      BY <1>0, <2>10 DEF Deliver, Callback, GoTo, BatchInUse, TypeOK
    <3>2. /\ r \in Seq(Delivery) /\ Len(q) \in Nat \ {0} /\ Len(r) = Len(q) - 1
          /\ \A i \in 1..Len(r) : r[i] = q[i + 1]
      BY <2>1, <3>1, HeadTailProperties, EmptySeq
    <3> HIDE DEF r
    <3>3. Distinct(r)
      <4> SUFFICES ASSUME NEW i \in 1..Len(r), NEW j \in 1..Len(r), r[i].reg = r[j].reg
                   PROVE  i = j
        BY DEF Distinct
      <4>1. i + 1 \in 1..Len(q) /\ j + 1 \in 1..Len(q)
        BY <3>2
      <4>2. q[i + 1].reg = q[j + 1].reg
        BY <3>2
      <4>3. i + 1 = j + 1
        BY <1>0, <4>1, <4>2 DEF Distinct
      <4> QED
        BY <3>2, <4>3
    <3> QED
      BY <2>2, <3>1, <3>3
  <2> QED
    BY <1>2, <2>4, <2>5, <2>6, <2>8, <2>9, <2>10 DEF TaskStep, LoopStep
<1> QED
  BY <1>1, <1>2

LEMMA NextDelivery == FullInv /\ [Next]_vars => DeliveryInv'
<1> SUFFICES ASSUME FullInv, [Next]_vars PROVE DeliveryInv'
  OBVIOUS
<1>0. /\ TypeInv /\ TypeOK /\ TypeOK' /\ PollIsExclusive /\ BatchInUse
      /\ RegisteredOnce /\ InboxOrdered /\ BatchOnce /\ DeliveryInv
  BY NextTypeOK DEF FullInv, FullTypes, TypeInv
<1>1. /\ Flows /\ Registered' \subseteq Registered \cup {regs + 1}
      /\ regs' >= regs /\ regs' \in Nat
  <2>1. Flows
    BY <1>0, NextFlows
  <2>2. Registered' \subseteq Registered \cup {regs + 1} /\ regs' >= regs
    BY <1>0, NextRegisteredOnce
  <2>3. regs' \in Nat
    BY <1>0 DEF TypeOK
  <2> QED
    BY <2>1, <2>2, <2>3
<1>2. ASSUME \A t \in Tasks : ~TaskStep(t) PROVE DeliveryInv'
  BY <1>0, <1>1, <1>2, NotATask, DeliveriesKept
<1>3. ASSUME NEW t \in Tasks, TaskStep(t) PROVE DeliveryInv'
  <2>1. CASE PollMatch(t)
    BY <1>0, <1>1, <2>1, MatchDelivers
  <2>2. CASE Deliver(t) \/ CallbackPanics(t)
    BY <1>0, <2>2, CallbackDelivers DEF Deliver, CallbackPanics
  <2>3. CASE \/ LoopUpgrade(t) \/ LoopCheck(t) \/ PollStart(t) \/ PollNothing(t)
             \/ PollMismatch(t) \/ PollInvalid(t) \/ PollDone(t) \/ Wake(t) \/ Finish(t)
             \/ PollError(t) \/ Stop(t)
    <3>1. received' = received /\ (batch' = batch \/ batch' = [batch EXCEPT ![t] = <<>>])
      BY <2>3 DEF LoopUpgrade, LoopCheck, PollStart, PollNothing, PollMismatch, PollInvalid,
         PollDone, Wake, Finish, PollError, Stop, PollAbandon
    <3>2. \A u \in Tasks : batch'[u] = batch[u] \/ batch'[u] = <<>>
      BY <1>0, <3>1 DEF TypeOK
    <3>3. \A u \in Tasks : ToSet(batch'[u]) \subseteq ToSet(batch[u])
      BY <3>2, EmptyElements
    <3> QED
      BY <1>0, <1>1, <3>1, <3>3, DeliveriesKept
  <2> QED
    BY <1>3, <2>1, <2>2, <2>3 DEF TaskStep, LoopStep
<1> QED
  BY <1>2, <1>3

LEMMA FullInductive ==
    /\ Init => FullInv
    /\ FullInv /\ [Next]_vars => FullInv'
<1>1. Init => FullInv
  BY TypesInductive, InitDelivery DEF FullInv
<1>2. FullInv /\ [Next]_vars => FullInv'
  BY TypesInductive, NextRegisteredOnce, NextFlows, NextBatchOnce, NextDelivery
     DEF FullInv, FullTypes, TypeInv
<1> QED
  BY <1>1, <1>2

\* Whatever register, unregister, cancellation, panics and aborts race, one task gives
\* a registration its samples in the order of publication; a task that is being aborted
\* and its successor may not.  (listener_loop.)
THEOREM GivenInOrderOfPublication == Spec => []DeliveredInOrder
<1>1. FullInv => DeliveredInOrder
  <2>1. TypeOK => \A n \in Regs : DOMAIN received[n] = 1..Len(received[n])
    BY SequenceTypes, LenProperties
  <2> QED
    BY <2>1 DEF FullInv, FullTypes, TypeInv, DeliveryInv, GivenInOrder, DeliveredInOrder
<1> QED
  BY <1>1, FullInductive, PTL DEF Spec

\* Once unregister has removed a listener, each task calls it at most once more: with
\* the one sample a poll under way had already taken for it.
\* (unregister_validated_zero_copy_listener, listener_loop.)
THEOREM LateDeliveriesAreBounded == Spec => []LateDeliveryBounded
<1>1. FullInv => LateDeliveryBounded
  <2> SUFFICES ASSUME FullInv, NEW n \in Regs,
                      NEW i \in DOMAIN received[n], NEW j \in DOMAIN received[n],
                      received[n][i].late /\ received[n][j].late,
                      received[n][i].by = received[n][j].by
               PROVE  i = j
    BY DEF LateDeliveryBounded
  <2>1. received[n] \in Seq(Given1)
    BY SequenceTypes DEF FullInv, FullTypes, TypeInv
  <2>2. i \in 1..Len(received[n]) /\ j \in 1..Len(received[n]) /\ Len(received[n]) \in Nat
    BY <2>1, LenProperties
  <2>3. ~(i < j) /\ ~(j < i)
    BY <2>2 DEF FullInv, DeliveryInv, GivenInOrder
  <2> QED
    BY <2>2, <2>3
<1> QED
  BY <1>1, FullInductive, PTL DEF Spec

\* No registration is given a sample twice, nor one that it did not ask for, whichever
\* tasks carry its samples, and none is still on its way that it was given already.
\* (poll_listener_frames, listener_loop.)
THEOREM DeliveriesAreOnce == Spec => []DeliveredOnceAndMatching
<1>1. FullInv => DeliveredOnceAndMatching
  <2> SUFFICES ASSUME FullInv, NEW n \in 1..regs
               PROVE  /\ \A s \in Given(n) : s.topic \in key[n].topics
                      /\ Cardinality(Given(n)) = Len(received[n])
                      /\ Given(n) \cap ToSet(inbox[n]) = {}
                      /\ \A t \in Tasks : \A d \in ToSet(batch[t]) :
                            d.reg = n => d.sample \notin Given(n) \cup ToSet(inbox[n])
    BY DEF DeliveredOnceAndMatching
  <2>1. /\ TypeOK /\ n \in Regs /\ received[n] \in Seq(Given1)
        /\ Len(received[n]) \in Nat
        /\ \A x : x \in ToSet(received[n]) <=> \E i \in 1..Len(received[n]) : received[n][i] = x
    <3>0. TypeOK
      BY DEF FullInv, FullTypes, TypeInv
    <3>1. TypeOK /\ n \in Regs
      <4>1. regs \in 0..MaxRegs
        BY <3>0 DEF TypeOK
      <4> QED
        BY <3>0, <4>1, ConstantsAssumption DEF Regs
    <3>2. received[n] \in Seq(Given1)
      BY <3>1, SequenceTypes
    <3> QED
      BY <3>1, <3>2, LenProperties, ElementsOf
  <2>2. \A s \in Given(n) : s \in Sample /\ TakenFor(n, s)
    BY <2>1, SequenceTypes DEF Given, Given1, FullInv, DeliveryInv, GivenWereTaken
  <2>3. \A s \in Sample : TakenFor(n, s) => s.topic \in key[n].topics /\ s \notin ToSet(inbox[n])
    BY IdIsNat DEF TakenFor
  <2>4. Cardinality(Given(n)) = Len(received[n])
    <3> DEFINE N == Len(received[n])
               f == [i \in 1..N |-> received[n][i].sample]
    <3>1. f \in Surjection(1..N, Given(n))
      BY <2>1 DEF Given, Surjection
    <3>2. f \in Injection(1..N, Given(n))
      <4>1. \A i, j \in 1..N : received[n][i].sample = received[n][j].sample => i = j
        <5> SUFFICES ASSUME NEW i \in 1..N, NEW j \in 1..N,
                            received[n][i].sample = received[n][j].sample
                     PROVE  i = j
          OBVIOUS
        <5>1. ~(i < j) /\ ~(j < i)
          BY <2>1 DEF FullInv, DeliveryInv, GivenInOrder
        <5> QED
          BY <2>1, <5>1
      <4> QED
        BY <2>1, <3>1, <4>1 DEF Injection, IsInjective, Surjection
    <3>3. ExistsBijection(1..N, Given(n))
      BY <3>1, <3>2 DEF Bijection, ExistsBijection
    <3> QED
      BY <2>1, <3>3, FS_CountingElements
  <2>5. ASSUME NEW t \in Tasks, NEW d \in ToSet(batch[t]), d.reg = n
        PROVE  d.sample \notin Given(n) \cup ToSet(inbox[n])
    <3>1. d.sample \in Sample /\ TakenFor(n, d.sample)
      BY <2>1, <2>5, SequenceTypes DEF FullInv, DeliveryInv, CarriedWereTaken, Delivery
    <3>2. d.sample \notin Given(n)
      BY <2>5 DEF Given, FullInv, DeliveryInv, CarriedIsNew
    <3> QED
      BY <2>3, <3>1, <3>2
  <2> QED
    BY <2>2, <2>3, <2>4, <2>5
<1> QED
  BY <1>1, FullInductive, PTL DEF Spec

\* Races, faults and cancelled calls included, push delivery is exact: once, matching,
\* in order from each task, and bounded after unregister.  (poll_listener_frames, listener_loop,
\* unregister_validated_zero_copy_listener.)
THEOREM PushDeliveriesAreExact == Spec => []PushIsExact
<1>1. DeliveredOnceAndMatching /\ DeliveredInOrder /\ LateDeliveryBounded => PushIsExact
  BY DEF PushIsExact
<1> QED
  BY <1>1, DeliveriesAreOnce, GivenInOrderOfPublication, LateDeliveriesAreBounded, PTL

-----------------------------------------------------------------------------
(* The native backend implements DeliveryContract *)

\* The contract's variable, as Contract instantiates it.
Carrying == [t \in Tasks |-> ToSet(batch[t])]

\* A step that leaves the contract's variables alone.
LEMMA ContractStutters ==
    ASSUME UNCHANGED <<listeners, key, batch, received>>
    PROVE  UNCHANGED Contract!vars
<1>1. Carrying' = Carrying /\ Registered' = Registered
  BY DEF Carrying, Registered
<1> QED
  BY <1>1 DEF Contract!vars, Carrying

\* One task's batch is replaced.
LEMMA CarryingNext ==
    ASSUME TypeOK, NEW t \in Tasks, NEW b, batch' = [batch EXCEPT ![t] = b]
    PROVE  Carrying' = [Carrying EXCEPT ![t] = ToSet(b)]
<1>1. \A u \in Tasks : ToSet(batch'[u]) = IF u = t THEN ToSet(b) ELSE ToSet(batch[u])
  BY DEF TypeOK
<1> QED
  BY <1>1 DEF Carrying

\* A poll takes a sample for the registration it is at.
LEMMA MatchTakes ==
    ASSUME FullInv, NEW t \in Tasks, PollMatch(t), NEW n, n = Polled(t), NEW h, h = PollHead(t)
    PROVE  Contract!Next
<1>0. /\ TypeOK /\ PollIsExclusive /\ RegisteredOnce /\ InboxOrdered /\ BatchOnce /\ DeliveryInv
  BY DEF FullInv, FullTypes, TypeInv
<1>1. /\ n \in Registered /\ n \in Regs /\ h.topic \in key[n].topics /\ h \in Sample
      /\ UNCHANGED <<received, key, listeners>>
      /\ \A u \in Tasks : u # t => batch'[u] = batch[u]
      /\ ToSet(batch'[t]) = ToSet(batch[t]) \cup {[reg |-> n, sample |-> h]}
      /\ \A g \in ToSet(received[n]) : g.sample.id < h.id /\ g.sample.id \in Nat
      /\ \A u \in Tasks : \A d \in ToSet(batch[u]) :
            d.reg = n => d.sample.id < h.id /\ d.sample.id \in Nat
  BY <1>0, MatchIsNew
<1>2. \A u \in Tasks : Carrying[u] = ToSet(batch[u])
  BY DEF Carrying
<1>3. Carrying' = [Carrying EXCEPT ![t] = Carrying[t] \cup {[reg |-> m, sample |-> h] : m \in {n}}]
  <2>1. {[reg |-> m, sample |-> h] : m \in {n}} = {[reg |-> n, sample |-> h]}
    OBVIOUS
  <2>2. \A u \in Tasks : Carrying'[u] = IF u = t THEN Carrying[t] \cup {[reg |-> n, sample |-> h]}
                                                ELSE Carrying[u]
    BY <1>1 DEF Carrying
  <2> QED
    BY <2>1, <2>2 DEF Carrying
<1>4. \A d \in ToSet(batch[t]) : d.reg # n
  <2> SUFFICES ASSUME NEW d \in ToSet(batch[t]), d.reg = n PROVE FALSE
    OBVIOUS
  <2>1. pc[t] = "poll" /\ cursor[t] \in 1..Len(listeners)
    BY <1>0, PollTypes DEF PollMatch, PollTake, Polling
  <2>2. PICK i \in 1..Len(listeners) : i < cursor[t] /\ d.reg = listeners[i]
    BY <1>0, <2>1 DEF BatchOnce
  <2>3. \A j, k \in 1..Len(listeners) : listeners[j] = listeners[k] => j = k
    BY <1>0, ElementsOf DEF RegisteredOnce, TypeOK
  <2>4. listeners[i] = listeners[cursor[t]]
    BY <2>2 DEF Polled
  <2>5. i = cursor[t]
    BY <2>1, <2>3, <2>4
  <2> QED
    BY <2>1, <2>2, <2>5
<1>5. \A u \in Tasks : [reg |-> n, sample |-> h] \notin Carrying[u]
  <2> SUFFICES ASSUME NEW u \in Tasks, NEW d \in ToSet(batch[u]), d = [reg |-> n, sample |-> h]
               PROVE  FALSE
    BY <1>2
  <2>1. d.reg = n /\ d.sample = h
    OBVIOUS
  <2>2. h.id < h.id /\ h.id \in Nat
    BY <1>1, <2>1
  <2> QED
    BY <2>2
<1>6. \A i \in DOMAIN received[n] : /\ received[n][i].sample # h
                                    /\ received[n][i].sample.id < h.id
  <2>1. \A i \in DOMAIN received[n] : received[n][i] \in ToSet(received[n])
    BY DEF ToSet
  <2>2. \A g \in ToSet(received[n]) : g.sample # h
    <3>1. h.id \in Nat
      BY <1>1, IdIsNat
    <3> QED
      BY <1>1, <3>1
  <2> QED
    BY <1>1, <2>1, <2>2
<1>7. Contract!Take(t, h, {n})
  <2>1. Contract!MayTake(t, h, n)
    BY <1>1, <1>2, <1>4, <1>5, <1>6 DEF Contract!MayTake, Carrying
  <2>2. Registered' = Registered
    BY <1>1 DEF Registered
  <2> QED
    BY <1>1, <1>3, <2>1, <2>2 DEF Contract!Take, Carrying
<1> QED
  BY <1>1, <1>7 DEF Contract!Next

\* A callback gives the first delivery, which is in the batch once.
LEMMA CallbackHandsOver ==
    ASSUME FullInv, NEW t \in Tasks, Callback(t),
           \/ batch' = [batch EXCEPT ![t] = Tail(batch[t])]
           \/ batch' = [batch EXCEPT ![t] = <<>>],
           UNCHANGED registry
    PROVE  Contract!HandOver(t)
<1> DEFINE d == Head(batch[t])
           g == [sample |-> d.sample, by |-> t, late |-> d.reg \notin Registered]
<1>1. TypeOK /\ BatchInUse /\ BatchOnce
  BY DEF FullInv, FullTypes, TypeInv
<1>2. /\ batch[t] \in Seq(Delivery) /\ batch[t] # <<>>
      /\ received' = [received EXCEPT ![d.reg] = Append(@, g)]
  BY <1>1, SequenceTypes DEF Callback, BatchInUse
<1>3. IsInjective(batch[t])
  BY <1>1, <1>2, ElementsOf DEF BatchOnce
<1>4. d \in ToSet(batch[t]) /\ ToSet(Tail(batch[t])) = ToSet(batch[t]) \ {d} /\ ToSet(<<>>) = {}
  BY <1>2, <1>3, TailElements, EmptyElements
<1>5. Carrying[t] = ToSet(batch[t])
  BY DEF Carrying
<1> HIDE DEF d
<1>6. \E rest \in {Carrying[t] \ {d}, {}} : Carrying' = [Carrying EXCEPT ![t] = rest]
  <2>1. ASSUME NEW b, batch' = [batch EXCEPT ![t] = b]
        PROVE  Carrying' = [Carrying EXCEPT ![t] = ToSet(b)]
    BY <1>1, <2>1, CarryingNext
  <2>2. Carrying' = [Carrying EXCEPT ![t] = ToSet(Tail(batch[t]))]
        \/ Carrying' = [Carrying EXCEPT ![t] = ToSet(<<>>)]
    BY <2>1
  <2> QED
    BY <1>4, <1>5, <2>2
<1>7. UNCHANGED <<key, listeners>> /\ Registered' = Registered
  BY DEF registry, Registered
<1>8. Contract!Give(t, d)
  BY <1>2, <1>6, <1>7 DEF Contract!Give, Carrying
<1> QED
  BY <1>4, <1>5, <1>8 DEF Contract!HandOver, Carrying

\* What a task does to what it carries.
LEMMA TaskContract ==
    ASSUME FullInv, NEW t \in Tasks, TaskStep(t)
    PROVE  Contract!Next \/ UNCHANGED Contract!vars
<1>0. TypeOK
  BY DEF FullInv, FullTypes, TypeInv
<1>1. CASE PollMatch(t)
  BY <1>1, MatchTakes
<1>2. ASSUME Contract!HandOver(t) PROVE Contract!Next
  BY <1>2 DEF Contract!Next
<1>3. CASE Deliver(t) \/ CallbackPanics(t)
  <2>1. /\ Callback(t) /\ UNCHANGED registry
        /\ \/ batch' = [batch EXCEPT ![t] = Tail(batch[t])]
           \/ batch' = [batch EXCEPT ![t] = <<>>]
    BY <1>3 DEF Deliver, CallbackPanics
  <2> QED
    BY <1>2, <2>1, CallbackHandsOver
<1>4. CASE PollInvalid(t) \/ PollError(t) \/ Stop(t)
  <2>1. batch' = [batch EXCEPT ![t] = <<>>] /\ UNCHANGED <<received, listeners, key>>
    BY <1>4 DEF PollInvalid, PollError, Stop, PollAbandon, registry
  <2>2. Carrying' = [Carrying EXCEPT ![t] = {}] /\ Registered' = Registered
    BY <1>0, <2>1, CarryingNext, EmptyElements DEF Registered
  <2>3. Contract!Lose(t)
    BY <2>1, <2>2 DEF Contract!Lose, Carrying
  <2> QED
    BY <1>2, <2>3 DEF Contract!HandOver
<1>5. CASE \/ LoopUpgrade(t) \/ LoopCheck(t) \/ PollStart(t) \/ PollNothing(t)
           \/ PollMismatch(t) \/ PollDone(t) \/ Wake(t) \/ Finish(t)
  <2>1. UNCHANGED <<listeners, key, batch, received>>
    BY <1>5 DEF LoopUpgrade, LoopCheck, PollStart, PollNothing, PollMismatch, PollDone,
                Wake, Finish, registry
  <2> QED
    BY <2>1, ContractStutters
<1> QED
  BY <1>1, <1>3, <1>4, <1>5 DEF TaskStep, LoopStep

\* Registrations are made and ended by calls.
LEMMA CallContract ==
    ASSUME FullInv, NEW c \in Callers, CallerStep(c)
    PROVE  Contract!Next \/ UNCHANGED Contract!vars
<1>0. /\ regs \in Nat /\ regs <= MaxRegs /\ key \in Seq(Key) /\ Len(key) = regs
      /\ listeners \in Seq(Regs) /\ IsInjective(listeners)
  BY ConstantsAssumption DEF FullInv, FullTypes, TypeInv, TypeOK, RegisteredOnce
<1>1. ASSUME NEW k \in Key, RegisterPush(c, k) PROVE Contract!Next
  <2>1. /\ regs < MaxRegs /\ listeners' = Append(listeners, regs + 1)
        /\ key' = Append(key, k) /\ UNCHANGED <<batch, received>>
    BY <1>1 DEF RegisterPush, worker
  <2>2. regs + 1 \in Regs
    BY <1>0, <2>1, ConstantsAssumption DEF Regs
  <2>3. Registered' = Registered \cup {Len(key) + 1} /\ Carrying' = Carrying
    BY <1>0, <2>1, <2>2, AppendElements DEF Registered, Carrying
  <2>4. Contract!Register(k)
    BY <2>1, <2>3 DEF Contract!Register, Carrying
  <2> QED
    BY <2>4 DEF Contract!Next
<1>2. ASSUME NEW k \in Key, UnregisterRemove(c, k) PROVE Contract!Next
  <2>1. PICK i \in 1..Len(listeners) : listeners' = RemoveAt(listeners, i)
    BY <1>2 DEF UnregisterRemove, Same
  <2>2. UNCHANGED <<key, batch, received>>
    BY <1>2 DEF UnregisterRemove, worker
  <2>3. listeners[i] \in Registered /\ Registered' = Registered \ {listeners[i]}
    BY <1>0, <2>1, RemoveAtElements, ElementsOf DEF Registered
  <2>4. Carrying' = Carrying
    BY <2>2 DEF Carrying
  <2>5. Contract!Unregister(listeners[i])
    BY <2>2, <2>3, <2>4 DEF Contract!Unregister, Carrying
  <2> QED
    BY <2>3, <2>5 DEF Contract!Next
<1>3. ASSUME NEW k \in Key, RegisterRefused(c, k) \/ UnregisterUnknown(c, k)
      PROVE  UNCHANGED <<listeners, key, batch, received>>
  BY <1>3 DEF RegisterRefused, UnregisterUnknown, vars, registry, worker
<1>4. CASE CallStep(c) \/ EnsureFails(c) \/ CancelCall(c)
  <2>1. UNCHANGED <<listeners, key, batch, received>>
    BY <1>4 DEF CallStep, EnsureRunning, EnsureSpawn, UnregisterStop, EnsureFails, CancelCall,
                registry, worker
  <2> QED
    BY <2>1, ContractStutters
<1> QED
  BY <1>1, <1>2, <1>3, <1>4, ContractStutters DEF CallerStep, RegistryStep

\* Push delivery promises listeners what the contract says, for any number of callers,
\* registrations and tasks, with races, cancelled calls, errors and panics: a sample is
\* taken only for a registration that is there, once and by each task in order, and what
\* was taken is given once or lost with the rest of the batch.  (poll_listener_frames,
\* listener_loop.)  That nothing is carried for ever is left to ImplementsContract.
THEOREM ListenersKeepContract == Spec => KeepsContract
<1>1. Init => Contract!Init
  <2> SUFFICES ASSUME Init PROVE Contract!Init
    OBVIOUS
  <2>1. /\ key = <<>> /\ listeners = <<>> /\ batch = [t \in Tasks |-> <<>>]
        /\ received = [n \in Regs |-> <<>>]
    BY DEF Init
  <2>2. Registered = {} /\ Carrying = [t \in Tasks |-> {}]
    BY <2>1, EmptyElements DEF Registered, Carrying
  <2> QED
    BY <2>1, <2>2 DEF Contract!Init, Carrying
<1>2. FullInv /\ [Next]_vars => [Contract!Next]_Contract!vars
  <2> SUFFICES ASSUME FullInv, [Next]_vars PROVE Contract!Next \/ UNCHANGED Contract!vars
    OBVIOUS
  <2>1. ASSUME NEW topic, Publish(topic) \/ DropTransport \/ UNCHANGED vars
        PROVE  UNCHANGED <<listeners, key, batch, received>>
    BY <2>1 DEF Publish, DropTransport, vars, registry, worker
  <2>2. \/ \E c \in Callers : CallerStep(c)
        \/ \E t \in Tasks : TaskStep(t)
        \/ \E topic : Publish(topic) \/ DropTransport \/ UNCHANGED vars
    BY DEF Next, CallerStep, RegistryStep, TaskStep
  <2> QED
    BY <2>1, <2>2, ContractStutters, TaskContract, CallContract
<1> QED
  BY <1>1, <1>2, FullInductive, PTL DEF Spec, KeepsContract, Contract!Spec

-----------------------------------------------------------------------------
(* Calls made one after the other *)

\* Every call ends before the next one begins, none is dropped, and nothing fails.
Sequential ==
    /\ \A c, d \in Callers : c = d
    /\ ~Faults
    /\ ~Cancellation

\* The handle is that of a task that was spawned and not aborted.
HandleInv ==
    /\ aborted \subseteq 1..tasks
    /\ task # NoTask => task \in 1..tasks /\ task \notin aborted

\* A call has the registry as it left it when it comes to the handle: not empty
\* when it looks for a task, empty when it stops one.
CallsInv ==
    \A c \in Callers :
        /\ cpc[c] = "ensure" => listeners # <<>>
        /\ cpc[c] = "stop" => listeners = <<>>

\* While the transport is there, its task finds the registry empty, and ends,
\* only when a call is about to take the handle; and a registry that is not
\* empty has a handle, but for the call that is about to spawn the task.
ServedInv ==
    /\ alive /\ task # NoTask /\ (listeners = <<>> \/ pc[task] \in {"exit", "finished"})
          => \E c \in Callers : cpc[c] = "stop"
    /\ listeners # <<>> /\ (\A c \in Callers : cpc[c] = "idle") => task # NoTask

LEMMA InitServed == Init => HandleInv /\ CallsInv /\ ServedInv
BY DEF Init, HandleInv, CallsInv, ServedInv

LEMMA NextHandle == TypeOK /\ TypeOK' /\ HandleInv /\ [Next]_vars => HandleInv'
<1> SUFFICES ASSUME TypeOK, TypeOK', HandleInv, [Next]_vars PROVE HandleInv'
  OBVIOUS
<1>0. tasks \in Nat
  BY DEF TypeOK
<1>1. CASE \E c \in Callers : EnsureSpawn(c)
  BY <1>0, <1>1 DEF EnsureSpawn, HandleInv
<1>2. CASE \E c \in Callers : UnregisterStop(c)
  BY <1>2 DEF UnregisterStop, HandleInv
<1>3. CASE ~ \E c \in Callers : EnsureSpawn(c) \/ UnregisterStop(c)
  <2>1. UNCHANGED <<task, aborted, tasks>>
    <3>1. ASSUME NEW t \in Tasks, TaskStep(t) PROVE UNCHANGED <<task, aborted, tasks>>
      BY <3>1 DEF TaskStep, LoopStep, LoopUpgrade, LoopCheck, PollStart, PollNothing,
         PollMatch, PollMismatch, PollInvalid, PollDone, Deliver, CallbackPanics, Wake,
         Finish, PollError, Stop
    <3>2. CASE \A t \in Tasks : ~TaskStep(t)
      BY <1>3, <3>2 DEF Next, TaskStep, CallStep, RegisterRefused, RegisterPush,
         UnregisterUnknown, UnregisterRemove, EnsureRunning, EnsureFails,
         CancelCall, Publish, DropTransport, vars, worker
    <3> QED
      BY <3>1, <3>2
  <2> QED
    BY <2>1 DEF HandleInv
<1> QED
  BY <1>1, <1>2, <1>3

\* What a task's step leaves alone: the calls, the handle and the registry.
LEMMA TaskFrame ==
    ASSUME NEW t \in Tasks, TaskStep(t)
    PROVE  UNCHANGED <<alive, listeners, cpc, task>>
BY DEF TaskStep, LoopStep, LoopUpgrade, LoopCheck, PollStart, PollNothing, PollMatch,
       PollMismatch, PollInvalid, PollDone, Deliver, CallbackPanics, Wake, Finish,
       PollError, Stop, registry

\* A task that nobody stops, and whose callbacks return, ends only when the
\* transport is gone or the registry empty.
LEMMA TaskEnds ==
    ASSUME TypeOK, ~Faults, NEW t \in Tasks, TaskStep(t), NEW u \in Tasks,
           u \notin aborted, pc'[u] \in {"exit", "finished"}
    PROVE  pc[u] \in {"exit", "finished"} \/ ~alive \/ listeners = <<>>
<1>1. CASE u # t
  BY <1>1, OneTask
<1>2. CASE u = t
  <2>1. CASE LoopUpgrade(t) \/ LoopCheck(t) \/ Finish(t)
    BY <1>2, <2>1 DEF LoopUpgrade, LoopCheck, Finish, GoTo, TypeOK
  <2>2. CASE PollStart(t) \/ PollDone(t) \/ PollInvalid(t) \/ Deliver(t) \/ Wake(t)
    BY <1>2, <2>2 DEF PollStart, PollDone, PollInvalid, PollAbandon, Deliver, Wake, GoTo, TypeOK
  <2>3. CASE PollNothing(t) \/ PollMatch(t) \/ PollMismatch(t)
    BY <1>2, <2>3 DEF PollNothing, PollMatch, PollMismatch
  <2>4. CASE PollError(t) \/ CallbackPanics(t) \/ Stop(t)
    BY <1>2, <2>4 DEF PollError, CallbackPanics, Stop
  <2> QED
    BY <2>1, <2>2, <2>3, <2>4 DEF TaskStep, LoopStep
<1> QED
  BY <1>1, <1>2

\* One call at a time: the caller that moves is the only one.
LEMMA NextServed ==
    ASSUME Sequential, TypeOK, TypeOK', HandleInv, CallsInv, ServedInv, [Next]_vars
    PROVE  CallsInv' /\ ServedInv'
<1>0. task \in Tasks \cup {NoTask} /\ pc \in [Tasks -> Places] /\ tasks \in Nat
      /\ cpc \in [Callers -> {"idle", "ensure", "stop"}]
  <2>1. pc \in [Tasks -> Places]
    BY DEF TypeOK, Places
  <2>2. tasks \in 0..MaxRegs /\ \A n \in 0..MaxRegs : n \in Nat
    BY ConstantsAssumption DEF TypeOK
  <2> QED
    BY <2>1, <2>2 DEF TypeOK
<1>1. ASSUME NEW t \in Tasks, TaskStep(t) PROVE CallsInv' /\ ServedInv'
  <2>1. UNCHANGED <<alive, listeners, cpc, task>>
    BY <1>1, TaskFrame
  <2>2. ASSUME task # NoTask, pc'[task] \in {"exit", "finished"}
        PROVE  pc[task] \in {"exit", "finished"} \/ ~alive \/ listeners = <<>>
    BY <1>0, <1>1, <2>2, TaskEnds DEF Sequential, HandleInv
  <2> QED
    BY <2>1, <2>2 DEF CallsInv, ServedInv
<1>2. ASSUME NEW c \in Callers, NEW k \in Key, RegisterPush(c, k) PROVE CallsInv' /\ ServedInv'
  <2>1. cpc[c] = "idle" /\ cpc'[c] = "ensure" /\ listeners' = Append(listeners, regs + 1)
        /\ UNCHANGED <<alive, task, pc>>
    BY <1>0, <1>2 DEF RegisterPush, CallTo, worker
  <2>2. listeners' # <<>>
    <3>1. listeners \in Seq(Regs)
      BY DEF TypeOK
    <3>2. Len(listeners') = Len(listeners) + 1
      BY <2>1, <3>1
    <3> QED
      BY <3>1, <3>2, LenProperties
  <2>3. \A d \in Callers : d = c
    BY DEF Sequential
  <2> QED
    BY <2>1, <2>2, <2>3 DEF CallsInv, ServedInv
<1>3. ASSUME NEW c \in Callers, NEW k \in Key, UnregisterRemove(c, k) PROVE CallsInv' /\ ServedInv'
  <2>1. cpc[c] = "idle" /\ cpc'[c] = IF listeners' = <<>> THEN "stop" ELSE "idle"
    BY <1>0, <1>3 DEF UnregisterRemove, CallTo
  <2>2. UNCHANGED <<alive, task, pc>>
    BY <1>3 DEF UnregisterRemove, worker
  <2>3. \A d \in Callers : d = c
    BY DEF Sequential
  <2>4. listeners # <<>>
    <3>1. PICK i \in Same(k) : TRUE
      BY <1>3 DEF UnregisterRemove
    <3>2. i \in 1..Len(listeners)
      BY <3>1 DEF Same
    <3> QED
      BY <3>2
  <2>5. task # NoTask /\ ~(alive /\ pc[task] \in {"exit", "finished"})
    BY <2>1, <2>3, <2>4 DEF ServedInv
  <2>6. CallsInv'
    BY <2>1, <2>3 DEF CallsInv
  <2> QED
    BY <2>1, <2>2, <2>3, <2>5, <2>6 DEF ServedInv
<1>4. ASSUME NEW c \in Callers, EnsureRunning(c) PROVE CallsInv' /\ ServedInv'
  <2>1. cpc[c] = "ensure" /\ cpc'[c] = "idle" /\ task \in Tasks
        /\ UNCHANGED <<alive, listeners, task, pc>>
    BY <1>0, <1>4 DEF EnsureRunning, HandleIsLive, CallTo, registry, worker
  <2>2. \A d \in Callers : d = c
    BY DEF Sequential
  <2> QED
    BY <2>1, <2>2, NoTaskAssumption DEF CallsInv, ServedInv
<1>5. ASSUME NEW c \in Callers, EnsureSpawn(c) PROVE CallsInv' /\ ServedInv'
  <2>1. cpc[c] = "ensure" /\ cpc'[c] = "idle" /\ UNCHANGED <<alive, listeners>>
        /\ task' = tasks + 1 /\ pc' = [pc EXCEPT ![tasks + 1] = "top"]
    BY <1>0, <1>5 DEF EnsureSpawn, CallTo, registry
  <2>2. \A d \in Callers : d = c
    BY DEF Sequential
  <2>3. listeners # <<>>
    BY <2>1 DEF CallsInv
  <2>4. task' \in Tasks /\ pc'[task'] = "top"
    <3>1. tasks' = tasks + 1 /\ tasks' \in 0..MaxRegs
      BY <1>5 DEF EnsureSpawn, TypeOK
    <3>2. tasks + 1 \in Tasks
      BY <1>0, <3>1, ConstantsAssumption DEF Tasks
    <3> QED
      BY <1>0, <2>1, <3>2
  <2> QED
    BY <2>1, <2>2, <2>3, <2>4, NoTaskAssumption DEF CallsInv, ServedInv
<1>6. ASSUME NEW c \in Callers, UnregisterStop(c) PROVE CallsInv' /\ ServedInv'
  <2>1. cpc[c] = "stop" /\ cpc'[c] = "idle" /\ task' = NoTask /\ UNCHANGED listeners
    BY <1>0, <1>6 DEF UnregisterStop, CallTo, registry
  <2>2. \A d \in Callers : d = c
    BY DEF Sequential
  <2>3. listeners = <<>>
    BY <2>1 DEF CallsInv
  <2> QED
    BY <2>1, <2>2, <2>3 DEF CallsInv, ServedInv
<1>7. ASSUME (\E topic : Publish(topic)) \/ UNCHANGED vars
             \/ \E c \in Callers, k \in Key : RegisterRefused(c, k) \/ UnregisterUnknown(c, k)
      PROVE  CallsInv' /\ ServedInv'
  <2>1. UNCHANGED <<alive, listeners, cpc, task, pc>>
    BY <1>7 DEF Publish, RegisterRefused, UnregisterUnknown, vars, registry, worker
  <2> QED
    BY <2>1 DEF CallsInv, ServedInv
<1>8. CASE DropTransport
  <2>1. ~alive' /\ UNCHANGED <<listeners, cpc, task, pc>>
    BY <1>8 DEF DropTransport, registry, worker
  <2> QED
    BY <2>1 DEF CallsInv, ServedInv
<1> QED
  BY <1>1, <1>2, <1>3, <1>4, <1>5, <1>6, <1>7, <1>8
  DEF Next, CallStep, TaskStep, EnsureFails, CancelCall, Sequential

\* When calls are made one after the other and nothing fails, a listener that is
\* registered has a task that serves it once the call has returned: a register
\* that comes after the last unregister does not find a task that is about to
\* end.  (With calls at the same time it may, as a run shows.)
\* (register_validated_zero_copy_listener, unregister_validated_zero_copy_listener,
\* ensure_listener_task, listener_loop.)
THEOREM SequentialCallsAreServed ==
    ASSUME Sequential
    PROVE  Spec => []ServedWhenQuiet
<1> DEFINE IInv == FullTypes /\ HandleInv /\ CallsInv /\ ServedInv
<1>1. Init => IInv
  BY TypesInductive, InitServed
<1>2. IInv /\ [Next]_vars => IInv'
  <2> SUFFICES ASSUME IInv, [Next]_vars PROVE IInv'
    OBVIOUS
  <2>1. FullTypes'
    BY TypesInductive
  <2>2. TypeOK /\ TypeOK'
    BY <2>1 DEF FullTypes, TypeInv
  <2> QED
    BY <2>1, <2>2, NextHandle, NextServed
<1>3. IInv => ServedWhenQuiet
  <2> SUFFICES ASSUME IInv, alive, listeners # <<>>, \A c \in Callers : cpc[c] = "idle"
               PROVE  task # NoTask /\ task \notin aborted /\ pc[task] \notin {"exit", "finished"}
    BY DEF ServedWhenQuiet
  <2> QED
    BY DEF HandleInv, ServedInv
<1> QED
  BY <1>1, <1>2, <1>3, PTL DEF Spec

=============================================================================
