# A TLA+ model of up-transport-lola-rust

`up-transport-lola-rust` carries uProtocol frames over Eclipse S-CORE LoLa
shared memory. A Rust crate (`src/src/`) implements the zero-copy transport
traits of `up-rust`; a C++ bridge (`src/cpp/`) wraps LoLa's generic skeleton and
proxies. This directory holds TLA+ modules that model the parts of it where
concurrency, ownership and arithmetic decide correctness, the TLC runs that
check them, and the theorems that TLAPS proves about them.

Paths below are relative to the repository (`src/...`).

## 1. The system

### Components, their state and operations

| Component | Code | State | Operations |
| --- | --- | --- | --- |
| Pull receive | `src/src/transport.rs` | lazily created subscriber, mismatch queue with two counters, the leases it returns | receive, diagnostics |
| Push delivery | `src/src/transport.rs` | registry of listeners with a subscription each, handle of the background task | register, unregister, the loop and its poll, callbacks |
| Transmit | `src/src/transport.rs`, `frame.rs` | the loan and its slot | loan_tx, loan_uninit_tx, write, send, drop |
| Frame layout | `src/src/frame.rs` | bytes of a slot | the header writers, the reader |
| Metadata codec | `src/src/frame.rs` | none | encode, decode |
| Rust handles | `src/src/sys.rs` | owned raw handles | loan, send, receive, drop |
| Wrapper pools | `src/cpp/up_lola_bridge.cpp` | slots, reference counts | acquire, release, release_ref |
| Bridge set-up | `src/cpp/up_lola_bridge.cpp`, `sys.rs` | runtime flag, skeleton, proxies | transport and subscriber create and destroy |
| Stub backend | `transport.rs`, `frame.rs` with `test-stub` | one in-process queue | same as native |
| Configuration | `src/src/config.rs` | fields | validate |
| Benchmark wrapper | `src/src/owned_benchmark.rs` | its own registry | send, receive, register, unregister |
| Tooling | `build.rs`, `benches`, `examples`, `scripts` | files | out of scope: pure I/O or clients |

### How they interact

The application shares one `Arc<UTransportLola>` between tasks. `receive` and
`register`/`unregister` are futures: they interleave at every lock they wait for
and may be dropped there. The background task holds a `Weak` reference, polls
the subscription of every registration under the registry lock, releases the
lock and runs the callbacks one after the other. Every lease and every loan is a
slot of a bounded C++ pool that may outlive the object it came from, so pools
are reference counted and released from any thread. Frames live in LoLa slots,
which sender and receiver map at different addresses and which are reused
without being cleared. All owners of a process share one LoLa runtime. With the
stub backend there is one queue, which receive calls and the background task
share. The benchmark wrapper keeps a registry of its own over that of its inner
transport, and copies payloads at the boundary.

### What is hard

* Interleavings between two locks taken one after the other: the queue and the
  subscriber in receive, the registry and the task handle in register and
  unregister.
* Two registries kept in step by calls that may fail or be dropped in between.
* Futures dropped in the middle, tasks aborted but still running, callbacks that
  panic.
* One step of several failing: a sample taken from LoLa for which no pool slot
  is free, a poll that ends at the first error, an owner that cannot be made
  after its pool is.
* Bounds: the mismatch queue, `max_samples`, saturating counters, `usize` and
  `u32` in the layout.
* Lifetimes: a pool and its last user in different threads.
* An encoder and a decoder written separately, over bytes without tags.

`PROJECT.json` lists these hazards line by line with the properties that cover
them.

## 2. The modules

| Module | Models | Status |
| --- | --- | --- |
| `ReceiveContract` | what pull receive promises: an abstract specification | done |
| `PullReceive` | the pull path over the native backend; implements `ReceiveContract` | done |
| `SequenceLemmas` | lemmas on appending to, removing from, ordering and filtering sequences, on counting, and on samples that are each in one place | done |
| `PullReceiveProofs` | theorems: types, the provisioned pool, what exhausts a smaller one | done |
| `PullFateProofs` | theorems: fates, counters, deliveries, the contract; extends `PullReceiveProofs` | done |
| `DeliveryContract` | what push delivery promises: an abstract specification | done |
| `ListenerDispatch` | registration, the background task, its poll, callbacks; implements `DeliveryContract` | done |
| `ListenerDispatchProofs` | its theorems | done |
| `StubBackend` | the stub backend under the benchmark wrapper; instantiates `PullReceive` and `ListenerDispatch`, implements `DeliveryContract` | done |
| `StubBackendProofs` | its theorems | done |
| `BridgePools` | owners, their making and their pools, and the handles on these | done |
| `BridgePoolsProofs` | its theorems | done |
| `MetadataCodec` | encoder and decoder of the metadata | done |
| `MetadataCodecProofs` | theorems: the decoder inverts the encoder and refuses parts | done |
| `FrameSlot` | frame layout and the bytes of a slot; extends `MetadataCodec` | done |
| `FrameSlotProofs` | its theorems; extends `MetadataCodecProofs` | done |
| `MC...` | the model-checking definitions of each | done |

In every component module the names follow the code: `queue`, `dropped`,
`listeners`, `task`, `inUse`, `refs` are the fields; an action is named for the
branch of the function that it is. Definitions with a suffix, such as
`QueueDropOldest_NoCount`, and a comment that begins with "Bug" stand before the
definition they vary and are what a plausible mistake in that code would look
like; nothing else refers to them. They show that each property is able to fail.

### PullReceive

A call of `receive_validated_zero_copy` is a task's `pc`: `"pop"` (waiting for
the queue lock to search it), `"next"` (waiting for the subscriber lock),
`"first"` (it has just created the subscriber and still holds its lock),
`"queue"` (waiting for the queue lock to retain a mismatch). One action is one
lock-protected section with all it does: `PopQueued`/`PopNothing` is
`pop_queued_pull_sample`; `Subscribe`, `ReceiveNothing`, `ReceiveAtLimit`,
`ReceiveInvalid`, `ReceiveMatch`, `ReceiveMismatch` are
`receive_next_zero_copy` with the bridge's `subscriber_receive` and the frame
check below it; `QueueDisabled`, `QueueRetain`, `QueueDropOldest`, `QueueReject`
are the four exits of `queue_pull_sample`. `Cancel` drops the future at any lock.
A (source, sink) filter is the set of topics that it matches. LoLa's queue of a
subscription is `pending`. `lost` and `delivered` are history.

`ReceiveContract` knows nothing of queues or locks: there is a set of samples
the transport has, each is handed to one caller that asked for it or is gone for
good, and every caller is answered.

### ListenerDispatch

Registrations and tasks are numbered as they are made. A caller's `cpc` is the
point between the two locks of register (`"ensure"`) and unregister (`"stop"`).
A task's `pc` follows `listener_loop`: `"top"` (upgrade of the `Weak`), `"check"`
(is the registry empty), `"lock"`, `"poll"` (it holds the registry lock; `cursor`
is the registration it is at), `"deliver"` (its callbacks), `"sleep"`, `"exit"`
(it has left the loop and is not finished yet), `"finished"`. An aborted task
stops (`Stop`) at an await; there is none inside a poll. `received` is history.

A register call that finds no Tokio runtime (`EnsureFails`) returns its error
and leaves its registration. A callback that panics ends the task
(`CallbackPanics`).

`DeliveryContract` knows nothing of subscriptions, handles or locks: workers take
samples for the registrations that are there and match, at most one at a time for
each, and for each a newer one than it gave it; what a worker carries it gives, even if the registration has ended
meanwhile, or loses with the rest. In the refinement `carried` is what the batches
of the tasks hold, `active` the registry and `given` what was `received`. The
native poll takes a sample for one registration; that of the stub takes one for
several, and what a task has popped and not matched yet (`probe`) is not yet taken
in the sense of the contract.

### StubBackend

The `test-stub` feature replaces the subscriptions by one queue, `pending`, and
nothing else, so the module instantiates the other two for what is the same
code. `PullReceive` gives the queue search, the retention of mismatches, the
counters and cancellation; its `next` step is replaced by `ReceiveMatch`,
`ReceiveMismatch` and `ReceiveNothing`. `ListenerDispatch` gives registration
and the task loop; its poll is replaced by two steps, because the code takes the
sample under one lock (`PollPop`) and looks at the registry under another
(`PollMatch`): in between a task owns the sample (`probe`), and may be aborted
with it (`PollStop`). All steps leave the other instance's variables alone.

On top of it the actions of the benchmark wrapper: `RegisterInner` and
`RegisterRecord` are the two steps of its register, `ForgetRecord` and
`UnregisterInner` those of its unregister. The inner listener is a new `Arc` for
each registration, so `Listeners` of the instance is numbered by registration.
`interrupted` is history: registrations whose call was cut short. `Matching` goes
through `listeners` from the first to the last, as the loop of
`poll_listener_frames` does, as a recursive function of the position.
`AbsenceAssumption` says that the marks of absence (`NoSample`, `NoTask`,
`NoCall`) are none of the values whose place they take, as `None` is not.

### BridgePools

An owner is a transport (for its TX pool) or a subscriber (for its RX pool);
the two pool classes are the same code. An owner is made from a `Config` once:
`CreateRefused` is `validate` or the bridge refusing it, `InitializeRuntime` the
checks and `initialize_runtime_once`, after which the thread is at `create` and
ends in `CreateFails` (no pool yet), `Created`, or `CreateUndone` (the pool is
there and is given up again). A thread is between two of the steps
`create`, `fill` (acquired, waiting for LoLa), `send` (checked, waiting for the
mutex of the transport), `release` (dropping a handle), `unref` (slot released,
reference not yet), `delete` (it saw the last reference). Acquire and release are
one step each because they hold the pool's mutex; `fetch_sub` and `delete` are
two. `handles` are the `NativeTxLoan` and `NativeRxSample` values in Rust,
`HasData` what their `data_parts` asks for.

### MetadataCodec

The encoding is a sequence of cells, one for an integer of any width and one for
each byte of a text after its length. Cells have no tags, so a field read in the
wrong place is misread as bytes are. Each `write_` and `take_` helper is an
operator; `Then` is the `?` operator: it keeps the error, or goes on with what is
left; `ToId`, `ToMessageType`, ... up to `TakeFields` are the lines of
`decode_metadata` one after the other. What other crates decide (which texts are UTF-8, which are URIs, which
numbers are formats, codes or UUIDs) are constants.

### FrameSlot

`AlignUp`, `PayloadOffset`, `InSample`, `Narrowed` translate the arithmetic;
`Layout` and `LayoutUninit` are the two orders in which the header writers check.
`Accepts` is the reader. The actions take one slot from loan through send and
receive to its next use; each byte is known by what wrote it last, and the
metadata bytes by their values. Frames of other publishers have arbitrary
lengths in their headers, and metadata that is sound or damaged.
Alignments are powers of two up to 4096, the size of a page (`PowersOfTwo`);
`config.rs` validates that `sample_alignment` is one.
`TxLoanSpec` and `LeaseToOwnedFrame` are what the benchmark wrapper does to a
frame on both sides; the property `SentIsReadBack` follows it through.

## 3. The runs

| Run | Bounds | Shows |
| --- | --- | --- |
| `PullDropOldest` | 2 tasks, 2 topics, 4 samples, queue 2, pool 4 | each published sample has exactly one fate; counters are exact; a provisioned pool is never exhausted; only matches are delivered; only the oldest is dropped; a task alone gets the oldest match |
| `PullRejectNewest` | 2 tasks, 2 samples, queue 1 | calls end; a polled topic is drained; `ReceiveContract` is implemented |
| `PullUnqueued` | 2 tasks, 3 samples, capacity 0, pool 2, 3 leases and calls (too many), a LoLa that fails | RESOURCE_EXHAUSTED only when leases and other calls hold every slot |
| `PullUndersized` | pool as small as the queue | *violation*: finding 1 |
| `ListenerSequential` | 1 caller, 2 registrations, 2 samples | a registered listener is served; tasks end; `DeliveryContract` is implemented, nothing is carried for ever |
| `ListenerRaces` | 2 callers, 2 registrations, 2 samples, faults (polls, callbacks, no runtime), cancellation | one unaborted task; exclusive polls; deliveries matching, once, from each task in order; from each task at most one after unregister; `DeliveryContract` is kept |
| `ListenerLost` | 2 callers | *violation*: finding 2 |
| `ListenerAbandoned` | faults | *violation*: finding 3 |
| `StubShared` | 1 receiving task, 2 callers, 2 registrations, 2 samples, capacity 0, faults, cancellation | one taker per sample; exact counters, pushes and records; `DeliveryContract` is kept; the queue is emptied |
| `PoolsShared` | 2 threads, 3 transports, 1 subscriber, pools of 2, 1, 1, two configuration files and none | exact reference counts, no use after deletion, one owner per slot, pools deleted, runtime initialised once |
| `PoolsForeign` | 2 threads, 3 transports | *violation*: finding 4 |
| `FrameLayouts` | sample of 56 bytes aligned to 4, 14 metadata and 11 payload lengths, 6 alignments, 3 and 2 addresses, alien frames with every length and every cut of two encodings | layout, slot contents, codec |

Why the bounds are enough. Two tasks (callers, threads) give every pairwise
interleaving, and no code path compares three; two topics tell a match from a
mismatch; four samples fill a queue of two, overflow it and leave one behind;
two do the same to a queue of one. Registration numbers are never reused, so two
registrations with two different filters are enough for one to be polled after
the other, and one after the other's removal gives a second task beside an
aborted one. In `PullUnqueued` a pool of two is filled by two leases, or by a
lease and another call. `FrameLayouts` uses the real header length; `usize` and `u32` are
scaled to 84 and 64 so that each of their overflows happens. Its metadata have
every optional field present and absent, every kind of value, and texts longer
than `u32`. In `StubShared` two samples suffice for one that is taken by each
side, in either order. In `PoolsShared` one transport is refused by the bridge
and never made, one has two slots so that acquire can choose, one names another
file, and the subscriber names none.

Runs with `CHECK_DEADLOCK FALSE` are those in which the program may really come
to rest: all samples published, all owners dropped. Symmetry is used only in
runs without liveness properties.

### Fairness

`PullReceive!FairSpec`, `ListenerDispatch!FairSpec`, `StubBackend!FairSpec` and
`BridgePools!FairSpec` have weak fairness on the steps that a running call, task or thread takes by
itself: Tokio polls a ready task, a lock is handed on, a sleep ends, an aborted
task is stopped, and LoLa's calls return. Callbacks are assumed to return.
`StubBackend` needs it of the tasks only. Nothing is assumed of what the application does (calling, cancelling,
dropping) or of publishers.

### Findings

1. *A full mismatch queue can make receive fail* (`PullUndersized`).
   `src/README.md:89` promises that the default policy keeps receive calls
   non-erroring. Retained mismatches keep their RX pool slots, so with
   `max_samples` no larger than the queue capacity the pool runs out first.
   `PoolNeverExhausted` states what a deployment needs: `Capacity + MaxLeases <=
   MaxSamples`, where `MaxLeases` counts leases held and calls in progress.
2. *A listener registered while another is being unregistered may never be
   served* (`ListenerLost`). The decision to stop the task and its abort are
   under two locks.
3. *One listener's error drops other listeners' samples* (`ListenerAbandoned`).
4. *A loan sent through another transport is never returned to its pool*
   (`PoolsForeign`).

## 4. What is proved

Every theorem is for all values of the constants that satisfy the named
assumptions of the component's module; TLC evaluates these on each run.

### Pull receive

From `ConstantsAssumption` and `NoSampleAssumption`, for every number of tasks,
topics and samples and every configuration. `PullReceiveProofs`:

* `TypeCorrect`: `Spec => []TypeOK`. By induction, one lemma (`NextTypeOK`) with
  one step per action.
* `PoolSafe`: `Spec => []PoolNeverExhausted`: if `max_samples` covers the queue
  capacity and the application's leases and calls, no receive finds the pool
  exhausted. `PoolNeverExhausted` is not inductive: that a slot is free when a
  call is about to receive follows from two bounds, on the queue
  (`NextDepthBounded`: its length never exceeds the capacity) and on leases and
  calls (`NextLeasesBounded`), and from the fact that only a call at the queue
  lock owns a sample (`HandOwned`). `SlotsBelowBound` adds them up;
  `NextNeverExhausted` is the step.
* `ExhaustionsHaveCause`: `Spec => ExhaustionHasCause`, an action property for pools
  of any size: a call ends with RESOURCE_EXHAUSTED because a full queue rejects, or
  because the queue's capacity, the leases and the other calls together are no less
  than `max_samples`. A mismatch that kept its slot after it was counted as
  dropped would break it. It rests on `SlotsHaveUsers`: what is in use is
  retained, leased or in the hands of another call.

`PullFateProofs`, whose inductive invariant `FullInv` adds `FateInv` to these: the
places are disjoint and together hold what was published (`Sane`), the sequences
hold no sample twice, no two calls the same (`HandsDiffer`), and leases are
delivered samples. `MoveSane` moves a sample from one place to another; it is
`MoveApart` of `SequenceLemmas`, which `StubBackendProofs` uses too:

* `FatesAreUnique`: `Spec => []EachSampleHasOneFate`.
* `CountersTellTheTruth`: `Spec => []DiagnosticsAreExact`. A counter is the
  saturated cardinality of the set of samples lost for its reason; one more
  sample counts because it was in another place before (`CountOne`).
* `DeliveriesMatch`, `LossesAreOldest`, `OldestIsFirst`: the action properties
  `DeliveryMatchesFilter`, `RetainedLossIsOldest`, `OldestFirst`. The last one
  needs `OrderInv` for as long as one task receives alone: the queue and the
  subscription are in the order of publication, the queue before the subscription,
  and between its steps the call knows what it has looked at (`TakenInOrder`).
* `PullImplementsContract`: `Spec => Contract!Spec`: initial states map to initial
  states, and each action to one of `ReceiveContract` or to a stutter. The
  fairness part of the refinement is model-checked.

### Push delivery

`ListenerDispatchProofs`, for every number of callers, listeners, registrations
and samples, with races, cancelled calls and faults:

* `TaskIsHandled`: `Spec => []OnlyHandledTaskRuns`. The property is inductive
  given the types of the tasks' places (`Shape`): a call spawns only when the
  handle is gone or its task finished (`CallHandled`, the `EnsureSpawn` case), it
  gives up a handle only with an abort, and a task that does not run does not
  start by itself (`TaskHandled`).
* `PollHasRegistry`: `Spec => []PollIsExclusive`. A poll starts, and a call
  changes the registry, only when no task polls (`RegistryFree`); in between the
  cursor moves by one and stops at the end (`TaskExclusive`).
* `TypeCorrect`: `Spec => []TypeOK`.
* `GivenInOrderOfPublication`, `LateDeliveriesAreBounded`, `DeliveriesAreOnce`:
  `DeliveredInOrder`, `LateDeliveryBounded`, `DeliveredOnceAndMatching`, which
  `PushDeliveriesAreExact` joins into `Spec => []PushIsExact`. Their invariant `FullInv` follows a sample through three places: what a registration
  was given and what tasks carry for it is older than what its subscription still
  holds (`GivenWereTaken`, `CarriedWereTaken`), what a task carries is newer than
  what it gave (`CarriedIsNew`), no two tasks carry the same (`CarriedOnce`), a
  batch has one delivery at most for a registration (`BatchOnce`), and one that
  was given a sample late does not come back (`LateIsOver`).
* `ListenersKeepContract`: `Spec => KeepsContract`: each step is one of
  `DeliveryContract` or a stutter. A match is a `Take`, and new to its registration
  by the same invariant (`MatchIsNew`); a callback, with or without a panic, is a
  `Give`, for which the deliveries of a batch must differ; a failed poll and an abort
  are a `Lose`.
* `SequentialCallsAreServed`: under `Sequential` (one caller, no faults, no
  dropped futures) `Spec => []ServedWhenQuiet`. The run `ListenerSequential`
  checks the same case; the run `ListenerLost` shows that it fails with two
  callers, so the hypothesis is needed. `HandleInv`,
  `CallsInv` and `ServedInv` say who answers for a registry that is not empty: a
  task that is not stopping, or the one call in progress.

### Stub backend and benchmark wrapper

`StubBackendProofs`, from `ConstantsAssumption` and `AbsenceAssumption` of
`StubBackend`, for every number of receive calls, callers, registrations and
samples, with races, cancelled calls and faults:

* `RecordsMatch`: `Spec => []RecordsMatchRegistry`, which relates the registry of
  the wrapper to the one below. Its invariant `OwnedInv` says that a registration is
  recorded once or carried by one call in progress (`OneHolder`), that what is
  recorded or carried is registered with the filters recorded
  (`HeldIsRegistered`), and that what is registered and neither was cut short
  (`RegisteredIsHeld`). That no registration is recorded twice, which the property
  says with cardinalities, follows by `RecordsCounted`.
* `TypeCorrect`: `Spec => []TypeOK`. That task numbers stay in range is not a
  matter of types: each spawn belongs to a registration of its own, so tasks and
  callers about to spawn are together no more than registrations
  (`SpawnsBounded`).
* `OneTakerEach` and `StubCountersTellTheTruth`: `Spec => []SampleHasOneTaker` and
  `Spec => []DiagnosticsAreExact`. The actions that move samples come from three
  modules, so `StepEffect` first shows that each step is one of a few effects
  (`Effect`): a sample is sent, goes to a call, to the application or to a task,
  is lost, retained, replaced or returned from the queue, or nothing moves.
  `EffectTypes`, `EffectFate` and `EffectCount` are about these alone. `FateInv`
  says that the samples sent are each in one place, what tasks took being one of
  the places.
* `PushDeliveriesAreExact`: `Spec => []PushIsExact`. As in `ListenerDispatchProofs`
  the invariant, `PushInv`, follows a sample from the poll to the callback. There
  is one queue for all registrations here, so what is new is `TakenInOrder` (what
  tasks took is older than what the queue still holds), that a task carries a sample
  before it looks at the registry (`probe`), and that one sample may go to many
  registrations, so that one batch holds it many times (`BatchOnce`: once for each
  registration). `MatchingElements` says what the loop over the registry returns;
  it is an induction over positions, as the least one for which it fails
  (`SetInduction`).
* `StubKeepsContract`: `Spec => KeepsContract`, the contract that the native backend
  keeps too: looking at the registry is one `Take` for all that match.

### Bridge pools

`BridgePoolsProofs`, for every number of threads, owners, slots and
configurations, with failing creations and foreign sends:

* `RefsStayExact`: `Spec => []RefsAreExact`. It is part of the inductive
  invariant `IInv`, which adds what makes it inductive: a thread that holds a slot
  (`ThreadsFit`) holds one that is in use and has no handle, no two hold the same
  (`HoldersDiffer`) or make the same owner (`MakersDiffer`), an owner that is
  being made has no pool, and what a pool was made from (`MadeOnce`). For the
  cardinalities there is one lemma for each kind of step (`AcquireExact`,
  `ReleaseExact`, `UnrefExact`, ...) over `MoveCounts`, `TakeSlot` and
  `GiveSlot`, and one `...Keeps` lemma for each action.
* `NeverUsedAfterFree`: `Spec => []NoUseAfterFree`. A pool that is not `"made"`
  has count 0 or a single deleter (`NoRefsNoUse`); each thing that could touch it
  is counted.
* `SlotsHaveOneOwner`: `Spec => []SlotHasOneOwner`, from `ThreadsFit`,
  `HoldersDiffer` and `MadeOnce`.
* `RuntimeStays`: `Spec => RuntimeIsKept`, an action property, from `IInv`: an
  owner that names a file has a runtime from its making on, and a runtime that is
  there is never replaced.
* `TypesHold`: `Spec => []TypeOK`.

### Metadata and frames

`MetadataCodecProofs`, for texts of every length and all sets of what the other
crates accept (`CodecAssumption`):

* `RoundTrip`: `decode_metadata` accepts what `encode_metadata` writes and gives
  back the same metadata. No induction is needed: a text is taken in one piece.
  Each `take_` helper `Reads` what its `write_` helper wrote, whatever follows
  it; `FieldsRead` goes through the twelve fields.
* `CutIsRefused`: no proper beginning of accepted cells is accepted. Each helper
  `Continues`: if it accepts some cells, it takes the same from any longer
  sequence and leaves the rest, so `decode_metadata` would have found trailing
  bytes. It holds for arbitrary cells, not only for what the encoder wrote.
* `EncodingsArePrefixFree`: an encoding is never the beginning of another.

`FrameSlotProofs`, for samples, requests, addresses and frames of other
publishers of every size (`ConstantsAssumption`, `AlienFramesAssumption`). The
invariant `SlotInv` says that a loan is what `Grant` made of some request
(`LoanInv`), that header and metadata are those of the loan until it is dropped
(`HeaderInv`), what wrote each byte from the grant on (`BytesInv`), and that a
lease is what `read_frame_header` accepted (`LeaseInv`):

* `TypeCorrect`: `Spec => []TypeOK`; the lengths and the offset fit into u32.
* `GrantsAreExact`: `Spec => []GrantedIffItFits`. `AlignUpIsLeast` and
  `PayloadOffsetFacts` give the first place, `RefusalFacts` the reasons to
  refuse, and `TextsFit` shows that a text too long to encode does not fit
  anyway.
* `PayloadsAreAligned`: `Spec => []PayloadIsAligned`, from `AlignmentsNest`: what
  the sample's alignment divides, a smaller power of two divides.
* `NoStaleByteIsSent`, `LeasesStayInBounds`: from `BytesInv` and `LeaseInv`.
* `FramesAreReadBack`: `Spec => []SentIsReadBack`, from `RoundTrip`.
* `TornMetadataNeverLeased`: `Spec => []TornMetadataIsRefused`, from
  `CutIsRefused`.

### What is only model-checked

Liveness (`CallsEnd`, `PolledTopicIsDrained`, `RegisteredReceives`,
`NoTaskOutlivesItsUse`, `PoolIsDeleted`, `PendingDrains`, and the fairness that
the two contracts ask for in `ImplementsContract`) is out of the prover's reach.
Every safety invariant and every action property of the passing runs is stated by a
theorem; `ServedWhenQuiet` under `Sequential`, where alone it holds.

## 5. What is not modelled

* `generic_sample_data`: the address of a slot is computed from the layout of
  LoLa's `EventDataStorage` at one commit, which is not in the repository.
  `FillFails` is the case in which it finds none when sending. When receiving, an
  address that is missing or not aligned loses the sample with INTERNAL: that is
  `ReceiveFails` with the reason `"unreadable"` in `PullReceive`, and `PollError`
  with a sample taken in `ListenerDispatch`.
* `up_lola_transport_receive`, which no Rust declaration refers to.
* What LoLa does when an owner that names no configuration file is made before
  the runtime is initialised.
* The integer widths inside the metadata, whose reads and writes have the same
  width; builders and defaults of the configuration.
* The text of `last_mismatch_reason`, log lines and error messages.
* LoLa itself: its event queue, slots and subscription are modelled from how the
  bridge uses them.
* Build script, benchmarks, examples, CI.

## 6. Plan

In the order of importance:

1. `TxPath`: loan, write, send and drop, composing `FrameSlot` and `BridgePools`,
   with its theorems in `BridgePoolsProofs` and `FrameSlotProofs`.
2. The properties that follow from the two contracts alone, stated and checked there.
