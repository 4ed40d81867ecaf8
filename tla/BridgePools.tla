----------------------------- MODULE BridgePools -----------------------------
(***************************************************************************)
(* The owners of the C++ bridge (src/cpp/up_lola_bridge.cpp), how they are *)
(* made and destroyed, their wrapper pools, and the Rust handles on the    *)
(* slots of these (src/src/sys.rs).                                        *)
(*                                                                         *)
(* An owner is made from a configuration that first Rust and then the      *)
(* bridge look at; the process has one LoLa runtime, which the first owner *)
(* that names a configuration file initialises.                            *)
(*                                                                         *)
(* A transport owns a TxLoanPool, a subscriber an RxSamplePool; the two    *)
(* are the same code.  A pool is an intrusively reference-counted array of *)
(* slots: its owner holds one reference and so does every slot in use,     *)
(* because a loan or a lease may outlive the transport or the subscriber   *)
(* it came from.  Whoever drops the last reference deletes the pool.       *)
(*                                                                         *)
(* Calls on an owner borrow it (&self), so it is not dropped under them,   *)
(* and hold its mutex; dropping a handle borrows nothing and may happen in *)
(* any thread at any time.                                                 *)
(***************************************************************************)
EXTENDS Naturals, FiniteSets

CONSTANTS
    Threads,
    TxOwners,       \* transports (UpLolaTransport), for their tx_pool
    RxOwners,       \* subscribers (UpLolaSubscriber), for their rx_pool
    Config,         \* the configuration each owner is to be made from
    Paths,          \* configuration files that mw_com_config_path may name
    NoPath,         \* it names none
    MaxAlign,       \* alignof(std::max_align_t)
    NoOwner         \* a thread is in no call

Owners == TxOwners \cup RxOwners

\* LolaTransportConfig, its identifiers told apart by whether one is empty.
Configuration == [named : BOOLEAN, sampleSize : Nat, sampleAlignment : Nat,
                  maxSamples : Nat, path : Paths \cup {NoPath}]

ASSUME ConstantsAssumption ==
    /\ Config \in [Owners -> Configuration]
    /\ NoPath \notin Paths /\ MaxAlign \in Nat
    /\ TxOwners \cap RxOwners = {}
    /\ NoOwner \notin Owners
    /\ IsFiniteSet(Threads)

\* Bound: validate accepts every power of two; those beyond this are refused by the
\* bridge, as larger than MaxAlign, instead.
PowersOfTwo == {2^k : k \in 0..8}

\* LolaTransportConfig::validate.
Validates(config) ==
    /\ config.named
    /\ config.sampleSize > 0
    /\ config.sampleAlignment \in PowersOfTwo
    /\ config.maxSamples > 0

\* What the create functions of the bridge ask for besides: they support no
\* alignment that is stricter than that of any type.
Supports(config) == config.sampleAlignment <= MaxAlign

\* What holds a reference to a pool: a slot, or, numbered 0, the pool's owner.
Slot == UNION {{o} \X (1..Config[o].maxSamples) : o \in Owners}
OwnRef(o) == <<o, 0>>
NoRef == <<NoOwner, 0>>
Ref == Slot \cup {OwnRef(o) : o \in Owners} \cup {NoRef}
PoolOf(ref) == ref[1]

VARIABLES
    runtime,        \* the configuration file the LoLa runtime was initialised with
    live,           \* owners that Rust has a NativeTransport or NativeSubscriber of
    pool,           \* each owner's pool: "none" yet, "made" or "deleted"
    inUse,          \* slots whose in_use is set
    data,           \* slots that have a LoLa sample and its address
    refs,           \* the pools' reference counts
    handles,        \* slots that a NativeTxLoan or a NativeRxSample owns
    pc,             \* what each thread does in the bridge
    on,             \* the owner a thread's call borrows
    at              \* the reference a thread's operation is about

slots == <<inUse, data, refs, handles>>
vars == <<runtime, live, pool, slots, pc, on, at>>

Init ==
    /\ runtime = NoPath
    /\ live = {}
    /\ pool = [o \in Owners |-> "none"]
    /\ inUse = {}
    /\ data = {}
    /\ refs = [o \in Owners |-> 0]
    /\ handles = {}
    /\ pc = [t \in Threads |-> "idle"]
    /\ on = [t \in Threads |-> NoOwner]
    /\ at = [t \in Threads |-> NoRef]

\* The first slot of the pool that is not in use is number i.
FirstFree(o, i) ==
    /\ <<o, i>> \notin inUse
    /\ \A j \in 1..(i - 1) : <<o, j>> \in inUse

\* The owner's mutex: a call that has it keeps it until it returns.
MutexFree(o) == \A t \in Threads : on[t] = o => pc[t] \notin {"fill", "unref"}

\* Thread t goes on at place, in a call on o or none, about the reference ref.
Go(t, place, o, ref) ==
    /\ pc' = [pc EXCEPT ![t] = place]
    /\ on' = [on EXCEPT ![t] = o]
    /\ at' = [at EXCEPT ![t] = ref]

\* The operation of thread t is over.
Return(t) == Go(t, "idle", NoOwner, NoRef)

Idle(t) == pc[t] = "idle"

\* data_parts of a handle on slot s: the bridge has an address for it, and
\* validate_sample_parts finds nothing wrong with what it has.
HasData(s) ==
    /\ s \in inUse \cap data
    /\ Config[PoolOf(s)].sampleAlignment \in PowersOfTwo

-----------------------------------------------------------------------------
(* Making an owner: transport_create and subscriber_create *)

\* The owners that threads are making.
Creating == {PoolOf(at[t]) : t \in {u \in Threads : pc[u] = "create"}}

CanCreate(t, o) == Idle(t) /\ pool[o] = "none" /\ o \notin Creating

\* validate, or the bridge, refuses the configuration: INVALID_ARGUMENT.
CreateRefused(t, o) ==
    /\ CanCreate(t, o)
    /\ ~(Validates(Config[o]) /\ Supports(Config[o]))
    /\ UNCHANGED vars

\* Bug: every owner initialises the runtime.
InitializeRuntime_Always(t, o) ==
    /\ CanCreate(t, o)
    /\ Validates(Config[o]) /\ Supports(Config[o])
    /\ runtime' = IF Config[o].path # NoPath THEN Config[o].path ELSE runtime
    /\ Go(t, "create", NoOwner, OwnRef(o))
    /\ UNCHANGED <<live, pool, slots>>

\* initialize_runtime_once, under its mutex: whoever comes first with the name of
\* a file; an owner that names another gets the runtime that is there.
InitializeRuntime(t, o) ==
    /\ CanCreate(t, o)
    /\ Validates(Config[o]) /\ Supports(Config[o])
    /\ runtime' = IF runtime = NoPath THEN Config[o].path ELSE runtime
    /\ Go(t, "create", NoOwner, OwnRef(o))
    /\ UNCHANGED <<live, pool, slots>>

\* A transport's instance specifier is refused: there is no pool yet, and what
\* was done to the runtime stays.
CreateFails(t) ==
    /\ pc[t] = "create" /\ PoolOf(at[t]) \in TxOwners
    /\ Return(t)
    /\ UNCHANGED <<runtime, live, pool, slots>>

\* The pool is made, and the service offered or the event subscribed to.
Created(t) ==
    /\ pc[t] = "create"
    /\ LET o == PoolOf(at[t]) IN
          /\ live' = live \cup {o}
          /\ pool' = [pool EXCEPT ![o] = "made"]
          /\ refs' = [refs EXCEPT ![o] = 1]
    /\ Return(t)
    /\ UNCHANGED <<runtime, inUse, data, handles>>

\* The pool is made, and then LoLa has no such service or event, or fails: the
\* owner is destroyed again.
CreateUndone(t) ==
    /\ pc[t] = "create"
    /\ pool' = [pool EXCEPT ![PoolOf(at[t])] = "made"]
    /\ refs' = [refs EXCEPT ![PoolOf(at[t])] = 1]
    /\ Go(t, "unref", NoOwner, at[t])
    /\ UNCHANGED <<runtime, live, inUse, data, handles>>

-----------------------------------------------------------------------------
(* Loans and leases: transport_reserve and subscriber_receive *)

\* Bug: add_ref is forgotten.
Acquire_NoRef(t, o) ==
    /\ Idle(t) /\ o \in live /\ MutexFree(o)
    /\ \E i \in 1..Config[o].maxSamples :
          /\ FirstFree(o, i)
          /\ inUse' = inUse \cup {<<o, i>>}
          /\ Go(t, "fill", o, <<o, i>>)
    /\ UNCHANGED <<runtime, live, pool, data, refs, handles>>

\* The call has the mutex of o, and acquire finds a slot.
Acquire(t, o) ==
    /\ Idle(t) /\ o \in live /\ MutexFree(o)
    /\ \E i \in 1..Config[o].maxSamples :
          /\ FirstFree(o, i)
          /\ inUse' = inUse \cup {<<o, i>>}
          /\ Go(t, "fill", o, <<o, i>>)
    /\ refs' = [refs EXCEPT ![o] = @ + 1]
    /\ UNCHANGED <<runtime, live, pool, data, handles>>

\* The pool is exhausted (RESOURCE_EXHAUSTED), or the call fails before it
\* comes to acquire: the pools do not change.
AcquireNothing(t, o) ==
    /\ Idle(t) /\ o \in live /\ MutexFree(o)
    /\ UNCHANGED vars

\* The slot has its LoLa sample and its data pointer: Rust owns it.
Fill(t) ==
    /\ pc[t] = "fill"
    /\ data' = data \cup {at[t]}
    /\ handles' = handles \cup {at[t]}
    /\ Return(t)
    /\ UNCHANGED <<runtime, live, pool, inUse, refs>>

\* Bug: the early return frees the slot and keeps its reference.
FillFails_NoUnref(t) ==
    /\ pc[t] = "fill"
    /\ inUse' = inUse \ {at[t]}
    /\ Return(t)
    /\ UNCHANGED <<runtime, live, pool, data, refs, handles>>

\* Allocate fails, or the data pointer is null or not aligned: the slot is
\* released, its reference after it.
FillFails(t) ==
    /\ pc[t] = "fill"
    /\ inUse' = inUse \ {at[t]}
    /\ Go(t, "unref", on[t], at[t])
    /\ UNCHANGED <<runtime, live, pool, data, refs, handles>>

-----------------------------------------------------------------------------
(* transport_send *)

\* Bug: the handle is not taken out of the NativeTxLoan.
SendOwn_KeepsHandle(t, s) ==
    /\ Idle(t) /\ s \in handles
    /\ PoolOf(s) \in live \cap TxOwners
    /\ Go(t, "send", PoolOf(s), s)
    /\ UNCHANGED <<runtime, live, pool, slots>>

\* The loan is of this transport's pool: the call goes on to its mutex.
SendOwn(t, s) ==
    /\ Idle(t) /\ s \in handles
    /\ PoolOf(s) \in live \cap TxOwners
    /\ handles' = handles \ {s}
    /\ Go(t, "send", PoolOf(s), s)
    /\ UNCHANGED <<runtime, live, pool, inUse, data, refs>>

\* The loan is of another transport's pool: INVALID_ARGUMENT.  Rust has taken
\* the handle already, and the bridge does not release it.
SendForeign(t, s, o) ==
    /\ Idle(t) /\ s \in handles /\ PoolOf(s) \in TxOwners
    /\ o \in live \cap TxOwners /\ o # PoolOf(s)
    /\ handles' = handles \ {s}
    /\ UNCHANGED <<runtime, live, pool, inUse, data, refs, pc, on, at>>

\* With the mutex: Send, whether it succeeds or not, and the slot is released.
Send(t) ==
    /\ pc[t] = "send" /\ MutexFree(on[t])
    /\ inUse' = inUse \ {at[t]}
    /\ data' = data \ {at[t]}
    /\ Go(t, "unref", on[t], at[t])
    /\ UNCHANGED <<runtime, live, pool, refs, handles>>

-----------------------------------------------------------------------------
(* Dropping handles and owners *)

\* Bug: a copy of the handle survives.
DropHandle_Copy(t, s) ==
    /\ Idle(t) /\ s \in handles
    /\ Go(t, "release", NoOwner, s)
    /\ UNCHANGED <<runtime, live, pool, slots>>

\* Rust drops an unsent loan or a lease.
DropHandle(t, s) ==
    /\ Idle(t) /\ s \in handles
    /\ handles' = handles \ {s}
    /\ Go(t, "release", NoOwner, s)
    /\ UNCHANGED <<runtime, live, pool, inUse, data, refs>>

\* release, under the pool's own mutex.
Release(t) ==
    /\ pc[t] = "release"
    /\ inUse' = inUse \ {at[t]}
    /\ data' = data \ {at[t]}
    /\ Go(t, "unref", NoOwner, at[t])
    /\ UNCHANGED <<runtime, live, pool, refs, handles>>

\* Bug: the owner deletes its pool.
DestroyOwner_DeletesPool(t, o) ==
    /\ Idle(t) /\ o \in live /\ \A u \in Threads : on[u] # o
    /\ live' = live \ {o}
    /\ pool' = [pool EXCEPT ![o] = "deleted"]
    /\ UNCHANGED <<runtime, slots, pc, on, at>>

\* The last owner of the transport or of the subscriber drops it; no call on
\* it is in progress.
DestroyOwner(t, o) ==
    /\ Idle(t) /\ o \in live /\ \A u \in Threads : on[u] # o
    /\ live' = live \ {o}
    /\ Go(t, "unref", NoOwner, OwnRef(o))
    /\ UNCHANGED <<runtime, pool, slots>>

\* release_ref: fetch_sub, and whoever saw 1 is to delete the pool.
Unref(t) ==
    /\ pc[t] = "unref"
    /\ LET o == PoolOf(at[t]) IN
          /\ refs' = [refs EXCEPT ![o] = @ - 1]
          /\ IF refs[o] = 1 THEN Go(t, "delete", NoOwner, at[t]) ELSE Return(t)
    /\ UNCHANGED <<runtime, live, pool, inUse, data, handles>>

\* delete this.
Delete(t) ==
    /\ pc[t] = "delete"
    /\ pool' = [pool EXCEPT ![PoolOf(at[t])] = "deleted"]
    /\ Return(t)
    /\ UNCHANGED <<runtime, live, slots>>

-----------------------------------------------------------------------------

\* A thread in the bridge goes on.
Step(t) ==
    \/ CreateFails(t) \/ Created(t) \/ CreateUndone(t)
    \/ Fill(t) \/ FillFails(t) \/ Send(t)
    \/ Release(t) \/ Unref(t) \/ Delete(t)

Next ==
    \E t \in Threads :
        \/ Step(t)
        \/ \E o \in Owners :
              \/ CreateRefused(t, o) \/ InitializeRuntime(t, o)
              \/ Acquire(t, o) \/ AcquireNothing(t, o) \/ DestroyOwner(t, o)
        \/ \E s \in handles :
              \/ SendOwn(t, s) \/ DropHandle(t, s)
              \/ \E o \in TxOwners : SendForeign(t, s, o)

Spec == Init /\ [][Next]_vars

\* Threads in the bridge are scheduled and LoLa's calls return.
FairSpec == Spec /\ \A t \in Threads : WF_vars(Step(t))

-----------------------------------------------------------------------------
(* Properties *)

TypeOK ==
    /\ runtime \in Paths \cup {NoPath}
    /\ live \in SUBSET Owners
    /\ pool \in [Owners -> {"none", "made", "deleted"}]
    /\ inUse \in SUBSET Slot
    /\ data \in SUBSET Slot
    /\ refs \in [Owners -> Nat]
    /\ handles \in SUBSET Slot
    /\ pc \in [Threads -> {"idle", "create", "fill", "send", "release", "unref", "delete"}]
    /\ on \in [Threads -> Owners \cup {NoOwner}]
    /\ at \in [Threads -> Ref]

\* The slots of a pool that are in use, the threads that have released what held
\* a reference, but not yet it, and those that dropped the last.
InUseOf(o) == {s \in inUse : PoolOf(s) = o}
Unrefing(o) == {t \in Threads : pc[t] = "unref" /\ PoolOf(at[t]) = o}
Deleting(o) == {t \in Threads : pc[t] = "delete" /\ PoolOf(at[t]) = o}

\* A pool's count is the number of references there are, whatever loans, leases
\* and owners are made and dropped at the same time; it is deleted by the one
\* thread that dropped the last, and not before.
RefsAreExact ==
    \A o \in Owners :
        /\ refs[o] = Cardinality(live \cap {o}) + Cardinality(InUseOf(o))
                     + Cardinality(Unrefing(o))
        /\ IF refs[o] > 0 THEN Deleting(o) = {} /\ pool[o] = "made"
           ELSE Cardinality(Deleting(o)) = IF pool[o] = "made" THEN 1 ELSE 0

\* Nothing touches a pool once it is deleted: no handle, no owner, and no
\* thread inside an operation on it.
NoUseAfterFree ==
    \A o \in {p \in Owners : pool[p] = "deleted"} :
        /\ o \notin live
        /\ \A s \in handles : PoolOf(s) # o
        /\ \A t \in Threads : ~Idle(t) => PoolOf(at[t]) # o

\* The threads that own slot s within an operation.
Users(s) == {t \in Threads : pc[t] \in {"fill", "send", "release"} /\ at[t] = s}

\* A slot in use has at most one owner, a handle or an operation, and a slot
\* that has one is in use: no slot is handed out twice or released twice, and
\* the slice functions of a handle never panic.
SlotHasOneOwner ==
    \A s \in Slot :
        /\ Cardinality(Users(s)) + Cardinality({s} \cap handles) <= 1
        /\ (Users(s) # {} \/ s \in handles) => s \in inUse
        /\ s \in handles => HasData(s)

\* A slot whose handle was consumed and which nobody released.
Leaked(s) == s \in inUse \ handles /\ Users(s) = {}

\* What src/README.md promises: a slot is returned on send or when Rust drops
\* its handle, so every slot in use has an owner.
SlotsAreReturned == \A s \in Slot : ~Leaked(s)

\* Once its owner is dropped, or could not be made, and no handle on its slots
\* is left, a pool is deleted, unless a foreign send has leaked one of them.
PoolIsDeleted ==
    \A o \in Owners :
        (/\ pool[o] = "made" /\ o \notin live
         /\ \A s \in Slot : PoolOf(s) = o => s \notin handles /\ ~Leaked(s))
            ~> pool[o] = "deleted"

\* An owner that names a configuration file runs, from its making on, on a
\* runtime that has one, and the runtime is not initialised again under it.
RuntimeIsKept ==
    [][\A o \in live \cup Creating :
          Config[o].path # NoPath => runtime # NoPath /\ runtime' = runtime]_vars

=============================================================================
