-------------------------- MODULE StubBackendProofs --------------------------
(***************************************************************************)
(* Proofs about StubBackend, in three parts.  The records of the owned     *)
(* transport match the registrations of the inner one.  Each sample is in  *)
(* one place, whoever takes from the one queue, and the counters of the    *)
(* mismatch queue are exact.  What registrations are given is exact.       *)
(*                                                                         *)
(* For the second part every step is one of a few effects on the samples   *)
(* (Effect), and what is proved of the effects holds of the steps.         *)
(***************************************************************************)
EXTENDS StubBackend, SequenceLemmas, FiniteSetTheorems

-----------------------------------------------------------------------------
(* Records and registrations *)

InCall == {c \in Callers : calls[c] # NoCall}

\* What the owned transport knows of the registry.
OwnedTypes ==
    /\ regs \in 0..MaxRegs
    /\ listeners \in Seq(Tasks)
    /\ key \in Seq(Dispatch!Key) /\ Len(key) = regs
    /\ records \in Seq(Record)
    /\ calls \in [Callers -> CallOf]
    /\ interrupted \in SUBSET Tasks

\* Registrations are numbered as they are made, each with a listener of its own.
Numbered ==
    /\ IsInjective(listeners)
    /\ \A n \in ToSet(listeners) : n <= regs
    /\ \A n \in 1..regs : key[n].listener = n

\* A registration is recorded once or carried by one call.
OneHolder ==
    /\ IsInjective(records)
    /\ \A r, s \in ToSet(records) : r.reg = s.reg => r = s
    /\ \A c, d \in InCall : calls[c].record.reg = calls[d].record.reg => c = d
    /\ \A c \in InCall, r \in ToSet(records) : calls[c].record.reg # r.reg

\* What is recorded or carried is registered, with the filters recorded, and what
\* is registered and neither was cut short.
Held(n) ==
    \/ \E r \in ToSet(records) : r.reg = n
    \/ \E c \in InCall : calls[c].record.reg = n

HeldIsRegistered ==
    /\ \A r \in ToSet(records) : r.reg \in ToSet(listeners) /\ key[r.reg].topics = r.topics
    /\ \A c \in InCall : LET r == calls[c].record IN
                         r.reg \in ToSet(listeners) /\ key[r.reg].topics = r.topics

RegisteredIsHeld == \A n \in ToSet(listeners) : Held(n) \/ n \in interrupted

OwnedInv == OwnedTypes /\ Numbered /\ OneHolder /\ HeldIsRegistered /\ RegisteredIsHeld

\* The calls of the owned transport.
OwnedMove(c) ==
    \/ OwnedStep(c) \/ RegisterFails(c) \/ CancelOwned(c)
    \/ \E o \in Owned, f \in Filters : RegisterInner(c, o, f) \/ ForgetRecord(c, o, f)

OwnedFrame == UNCHANGED <<regs, listeners, key, records, calls, interrupted>>

LEMMA InitOwned == Init => OwnedInv
<1> SUFFICES ASSUME Init PROVE OwnedInv
  OBVIOUS
<1>1. /\ regs = 0 /\ listeners = <<>> /\ key = <<>> /\ records = <<>>
      /\ calls = [c \in Callers |-> NoCall] /\ interrupted = {}
  BY DEF Init, Dispatch!Init
<1>2. InCall = {}
  BY <1>1 DEF InCall
<1>3. OwnedTypes
  BY <1>1, EmptySeq, ConstantsAssumption DEF OwnedTypes, CallOf
<1> QED
  BY <1>1, <1>2, <1>3, EmptyElements, EmptySeq
  DEF OwnedInv, Numbered, OneHolder, HeldIsRegistered, RegisteredIsHeld

\* Only calls of the owned transport touch the registry and the records.
LEMMA OthersKeepOwned ==
    ASSUME [Next]_vars
    PROVE  OwnedFrame \/ \E c \in Callers : OwnedMove(c)
<1>1. CASE \E t \in Topics : Send(t)
  BY <1>1 DEF Send, OwnedFrame, registry, owned
<1>2. CASE (\E r \in Receivers : ReceiveStep(r)) \/ Application
  BY <1>2 DEF ReceiveStep, Application, OwnedFrame, registry, owned
<1>3. CASE \E t \in Tasks : PollEmpty(t) \/ PollPop(t) \/ PollMatch(t) \/ PollStop(t)
  BY <1>3 DEF PollEmpty, PollPop, PollMatch, PollStop, OwnedFrame, registry, owned
<1>4. ASSUME NEW t \in Tasks, LoopStep(t) PROVE OwnedFrame
  BY <1>4 DEF LoopStep, Dispatch!LoopUpgrade, Dispatch!LoopCheck, Dispatch!Deliver,
              Dispatch!Wake, Dispatch!Finish, Dispatch!registry, OwnedFrame, owned
<1>5. ASSUME NEW t \in Tasks, LoopEnds(t) PROVE OwnedFrame
  BY <1>5 DEF LoopEnds, Dispatch!CallbackPanics, Dispatch!Stop, Dispatch!registry,
              OwnedFrame, owned
<1>6. CASE UNCHANGED vars
  BY <1>6 DEF vars, OwnedFrame, registry, owned
<1> QED
  BY <1>1, <1>2, <1>3, <1>4, <1>5, <1>6 DEF Next, TaskStep, OwnedMove

LEMMA FrameKeepsOwned == OwnedInv /\ OwnedFrame => OwnedInv'
BY DEF OwnedInv, OwnedFrame, OwnedTypes, Numbered, OneHolder, HeldIsRegistered,
       RegisteredIsHeld, Held, InCall

LEMMA RegisteredIsMade ==
    ASSUME OwnedTypes, Numbered
    PROVE  \A n \in ToSet(listeners) : n \in 1..regs
<1>1. ToSet(listeners) \in SUBSET Tasks
  BY ElementsOf DEF OwnedTypes
<1>2. \A n \in Tasks : n <= regs => n \in 1..regs
  BY ConstantsAssumption DEF Tasks, OwnedTypes
<1> QED
  BY <1>1, <1>2 DEF Numbered

\* What holds of the calls once that of c is as it is after the step.
LEMMA CallBegins ==
    ASSUME OwnedTypes, NEW c \in Callers, calls[c] = NoCall,
           NEW step \in {"register", "unregister"}, NEW record \in Record,
           calls' = [calls EXCEPT ![c] = [step |-> step, record |-> record]]
    PROVE  /\ calls' \in [Callers -> CallOf]
           /\ InCall' = InCall \cup {c} /\ c \notin InCall
           /\ calls'[c].record = record
           /\ \A d \in InCall : calls'[d] = calls[d]
<1>1. [step |-> step, record |-> record] \in CallOf \ {NoCall}
  BY AbsenceAssumption DEF CallOf, OwnedCall
<1> QED
  BY <1>1 DEF OwnedTypes, InCall

LEMMA CallEnds ==
    ASSUME OwnedTypes, NEW c \in Callers, calls' = [calls EXCEPT ![c] = NoCall]
    PROVE  /\ calls' \in [Callers -> CallOf]
           /\ InCall' = InCall \ {c}
           /\ \A d \in InCall' : calls'[d] = calls[d]
BY DEF OwnedTypes, InCall, CallOf

\* The call of c is cut short: what it carried is marked.
LEMMA CutKeepsOwned ==
    ASSUME OwnedInv, NEW c \in Callers, CutShort(c),
           UNCHANGED <<regs, listeners, key, records>>
    PROVE  OwnedInv'
<1>1. /\ calls' \in [Callers -> CallOf] /\ InCall' = InCall \ {c}
      /\ \A d \in InCall' : calls'[d] = calls[d]
  BY CallEnds DEF CutShort, OwnedInv
<1>2. /\ interrupted \subseteq interrupted'
      /\ c \in InCall => calls[c].record.reg \in interrupted'
      /\ interrupted' \in SUBSET Tasks
  <2>1. CASE c \in InCall
    <3>1. calls[c].record.reg \in Tasks
      BY <2>1 DEF OwnedInv, OwnedTypes, InCall, CallOf, OwnedCall, Record, Tasks
    <3> QED
      BY <2>1, <3>1 DEF CutShort, InCall, OwnedInv, OwnedTypes
  <2>2. CASE c \notin InCall
    BY <2>2 DEF CutShort, InCall, OwnedInv, OwnedTypes
  <2> QED
    BY <2>1, <2>2
<1>3. OwnedTypes' /\ Numbered'
  BY <1>1, <1>2 DEF OwnedInv, OwnedTypes, Numbered
<1>4. OneHolder' /\ HeldIsRegistered'
  BY <1>1 DEF OwnedInv, OneHolder, HeldIsRegistered
<1>5. RegisteredIsHeld'
  BY <1>1, <1>2 DEF OwnedInv, RegisteredIsHeld, Held
<1> QED
  BY <1>3, <1>4, <1>5 DEF OwnedInv

\* A registration is made, with a listener of its own.
LEMMA RegisterKeepsOwned ==
    ASSUME OwnedInv, NEW c \in Callers, NEW o \in Owned, NEW f \in Filters,
           RegisterInner(c, o, f)
    PROVE  OwnedInv'
<1> DEFINE n == regs + 1
           k == [listener |-> n, topics |-> f]
           record == [owned |-> o, topics |-> f, reg |-> n]
<1>1. /\ regs' = n /\ listeners' = Append(listeners, n) /\ key' = Append(key, k)
      /\ regs < MaxRegs /\ calls[c] = NoCall
      /\ calls' = [calls EXCEPT ![c] = [step |-> "register", record |-> record]]
      /\ UNCHANGED <<records, interrupted>>
  BY DEF RegisterInner, Dispatch!RegisterPush, Idle
<1>2. /\ n \in Tasks /\ n \in 0..MaxRegs /\ k \in Dispatch!Key /\ record \in Record
      /\ regs \in Nat /\ k.listener = n /\ k.topics = f /\ record.reg = n
      /\ record.topics = f
  BY <1>1, ConstantsAssumption DEF OwnedInv, OwnedTypes, Tasks, Dispatch!Key, Record
<1>3. /\ calls' \in [Callers -> CallOf]
      /\ InCall' = InCall \cup {c} /\ c \notin InCall
      /\ calls'[c].record = record
      /\ \A d \in InCall : calls'[d] = calls[d]
  <2> HIDE DEF record
  <2> QED
    BY <1>1, <1>2, CallBegins DEF OwnedInv
<1>4. \A m \in ToSet(listeners) : m \in 1..regs
  BY RegisteredIsMade DEF OwnedInv
<1>5. n \notin ToSet(listeners)
  BY <1>2, <1>4
<1>6. /\ listeners' \in Seq(Tasks) /\ ToSet(listeners') = ToSet(listeners) \cup {n}
      /\ IsInjective(listeners')
  <2>1. listeners \in Seq(Tasks) /\ IsInjective(listeners)
    BY DEF OwnedInv, OwnedTypes, Numbered
  <2> HIDE DEF n
  <2> QED
    BY <1>1, <1>2, <1>5, <2>1, AppendElements, AppendProperties
<1>7. /\ key' \in Seq(Dispatch!Key) /\ Len(key') = n /\ key'[n] = k
      /\ \A m \in 1..regs : key'[m] = key[m]
  <2>1. key \in Seq(Dispatch!Key) /\ Len(key) = regs
    BY DEF OwnedInv, OwnedTypes
  <2> HIDE DEF k
  <2> QED
    BY <1>1, <1>2, <2>1, AppendProperties
<1>8. \A m \in 1..n : m \in 1..regs \/ m = n
  BY <1>2
<1> HIDE DEF n, k, record
<1>9. OwnedTypes' /\ Numbered'
  <2>1. OwnedTypes'
    BY <1>1, <1>2, <1>3, <1>6, <1>7 DEF OwnedInv, OwnedTypes
  <2>2. \A m \in ToSet(listeners') : m <= regs'
    BY <1>1, <1>2, <1>4, <1>6, <1>8 DEF n
  <2>3. \A m \in 1..regs' : key'[m].listener = m
    BY <1>1, <1>2, <1>7, <1>8 DEF OwnedInv, Numbered
  <2> QED
    BY <1>6, <2>1, <2>2, <2>3 DEF Numbered
<1>10. OneHolder'
  <2>1. /\ \A r \in ToSet(records) : r.reg # n
        /\ \A d \in InCall : calls[d].record.reg # n
    BY <1>5 DEF OwnedInv, HeldIsRegistered
  <2> QED
    BY <1>1, <1>2, <1>3, <2>1 DEF OwnedInv, OneHolder
<1>11. HeldIsRegistered'
  <2>1. \A m \in ToSet(listeners) : key'[m] = key[m] /\ m \in ToSet(listeners')
    BY <1>4, <1>6, <1>7
  <2>2. \A r \in ToSet(records') : r.reg \in ToSet(listeners') /\ key'[r.reg].topics = r.topics
    BY <1>1, <2>1 DEF OwnedInv, HeldIsRegistered
  <2>3. ASSUME NEW d \in InCall'
        PROVE  LET r == calls'[d].record IN
               r.reg \in ToSet(listeners') /\ key'[r.reg].topics = r.topics
    <3>1. CASE d = c
      BY <1>2, <1>3, <1>6, <1>7, <3>1
    <3>2. CASE d # c
      BY <1>3, <2>1, <3>2 DEF OwnedInv, HeldIsRegistered
    <3> QED
      BY <3>1, <3>2
  <2> QED
    BY <2>2, <2>3 DEF HeldIsRegistered
<1>12. RegisteredIsHeld'
  BY <1>1, <1>2, <1>3, <1>6 DEF OwnedInv, RegisteredIsHeld, Held
<1> QED
  BY <1>9, <1>10, <1>11, <1>12 DEF OwnedInv

\* A call that has registered records what it carried.
LEMMA RecordKeepsOwned ==
    ASSUME OwnedInv, NEW c \in Callers, RegisterRecord(c)
    PROVE  OwnedInv'
<1> DEFINE record == calls[c].record
<1>1. /\ c \in InCall /\ records' = Append(records, record)
      /\ calls' = [calls EXCEPT ![c] = NoCall]
      /\ UNCHANGED <<regs, listeners, key, interrupted>>
  BY DEF RegisterRecord, InCall, registry
<1>2. /\ record \in Record /\ records \in Seq(Record) /\ IsInjective(records)
      /\ record \notin ToSet(records)
  BY <1>1 DEF InCall, OwnedInv, OwnedTypes, OneHolder, CallOf, OwnedCall
<1>3. /\ calls' \in [Callers -> CallOf] /\ InCall' = InCall \ {c}
      /\ \A d \in InCall' : calls'[d] = calls[d]
  BY <1>1, CallEnds DEF OwnedInv
<1>4. /\ records' \in Seq(Record) /\ IsInjective(records')
      /\ ToSet(records') = ToSet(records) \cup {record}
  <2> HIDE DEF record
  <2> QED
    BY <1>1, <1>2, AppendElements, AppendProperties
<1>5. OwnedTypes' /\ Numbered'
  BY <1>1, <1>3, <1>4 DEF OwnedInv, OwnedTypes, Numbered
<1>6. OneHolder'
  BY <1>1, <1>3, <1>4 DEF OwnedInv, OneHolder
<1>7. HeldIsRegistered'
  BY <1>1, <1>3, <1>4 DEF OwnedInv, HeldIsRegistered
<1>8. RegisteredIsHeld'
  BY <1>1, <1>3, <1>4 DEF OwnedInv, RegisteredIsHeld, Held
<1> QED
  BY <1>5, <1>6, <1>7, <1>8 DEF OwnedInv

\* A call that unregisters takes a record with it.
LEMMA ForgetKeepsOwned ==
    ASSUME OwnedInv, NEW c \in Callers, NEW o \in Owned, NEW f \in Filters,
           ForgetRecord(c, o, f)
    PROVE  OwnedInv'
<1>1. PICK i \in DOMAIN records :
         /\ records' = RemoveAt(records, i)
         /\ calls' = [calls EXCEPT ![c] = [step |-> "unregister", record |-> records[i]]]
  BY DEF ForgetRecord
<1> DEFINE record == records[i]
<1>2. /\ calls[c] = NoCall /\ UNCHANGED <<regs, listeners, key, interrupted>>
      /\ records \in Seq(Record) /\ IsInjective(records) /\ i \in 1..Len(records)
  BY LenProperties DEF ForgetRecord, Idle, registry, OwnedInv, OwnedTypes, OneHolder
<1>3. /\ records' \in Seq(Record) /\ IsInjective(records')
      /\ ToSet(records') = ToSet(records) \ {record} /\ record \in ToSet(records)
      /\ record \in Record
  BY <1>1, <1>2, RemoveAtProperties, RemoveAtElements, ElementsOf
<1>4. /\ calls' \in [Callers -> CallOf]
      /\ InCall' = InCall \cup {c} /\ c \notin InCall
      /\ calls'[c].record = record
      /\ \A d \in InCall : calls'[d] = calls[d]
  BY <1>1, <1>2, <1>3, CallBegins DEF OwnedInv
<1> HIDE DEF record
<1>5. OwnedTypes' /\ Numbered'
  BY <1>2, <1>3, <1>4 DEF OwnedInv, OwnedTypes, Numbered
<1>6. OneHolder'
  BY <1>3, <1>4 DEF OwnedInv, OneHolder
<1>7. HeldIsRegistered'
  BY <1>2, <1>3, <1>4 DEF OwnedInv, HeldIsRegistered
<1>8. ASSUME NEW n \in ToSet(listeners), Held(n) PROVE Held(n)'
  <2>1. ASSUME NEW r \in ToSet(records), r.reg = n PROVE Held(n)'
    BY <1>3, <1>4, <2>1 DEF Held
  <2>2. ASSUME NEW d \in InCall, calls[d].record.reg = n PROVE Held(n)'
    BY <1>4, <2>2 DEF Held
  <2> QED
    BY <1>8, <2>1, <2>2 DEF Held
<1> QED
  BY <1>2, <1>5, <1>6, <1>7, <1>8 DEF OwnedInv, RegisteredIsHeld

\* The inner registration that a call carries leaves the registry.
LEMMA UnregisterKeepsOwned ==
    ASSUME OwnedInv, NEW c \in Callers, UnregisterInner(c)
    PROVE  OwnedInv'
<1> DEFINE record == calls[c].record
           k == [listener |-> record.reg, topics |-> record.topics]
<1>1. /\ c \in InCall /\ calls' = [calls EXCEPT ![c] = NoCall]
      /\ UNCHANGED <<regs, key, records, interrupted>>
  BY DEF UnregisterInner, Dispatch!UnregisterRemove, InCall
<1>0. \E i \in Dispatch!Same(k) : listeners' = RemoveAt(listeners, i)
  <2>1. Dispatch!UnregisterRemove(c, k)
    BY DEF UnregisterInner
  <2> HIDE DEF k
  <2> QED
    BY <2>1 DEF Dispatch!UnregisterRemove, Dispatch!RemoveAt, RemoveAt
<1>2. PICK i \in 1..Len(listeners) : key[listeners[i]] = k /\ listeners' = RemoveAt(listeners, i)
  BY <1>0 DEF Dispatch!Same
<1>3. /\ listeners \in Seq(Tasks) /\ IsInjective(listeners)
      /\ listeners[i] \in ToSet(listeners) /\ listeners[i] \in 1..regs
  <2>1. listeners \in Seq(Tasks) /\ IsInjective(listeners)
    BY DEF OwnedInv, OwnedTypes, Numbered
  <2>2. listeners[i] \in ToSet(listeners)
    BY <2>1, ElementsOf
  <2> QED
    BY <2>1, <2>2, RegisteredIsMade DEF OwnedInv
<1>4. listeners[i] = record.reg
  BY <1>2, <1>3 DEF OwnedInv, Numbered
<1>5. /\ listeners' \in Seq(Tasks) /\ IsInjective(listeners')
      /\ ToSet(listeners') = ToSet(listeners) \ {record.reg}
  BY <1>2, <1>3, <1>4, RemoveAtProperties, RemoveAtElements
<1>6. /\ calls' \in [Callers -> CallOf] /\ InCall' = InCall \ {c}
      /\ \A d \in InCall' : calls'[d] = calls[d]
  BY <1>1, CallEnds DEF OwnedInv
<1> HIDE DEF k
<1>7. OwnedTypes' /\ Numbered'
  BY <1>1, <1>5, <1>6 DEF OwnedInv, OwnedTypes, Numbered
<1>8. OneHolder'
  BY <1>1, <1>6 DEF OwnedInv, OneHolder
<1>9. HeldIsRegistered'
  <2>1. \A r \in ToSet(records) : r.reg # record.reg
    BY <1>1 DEF OwnedInv, OneHolder
  <2>2. \A d \in InCall' : calls[d].record.reg # record.reg
    BY <1>1, <1>6 DEF OwnedInv, OneHolder
  <2> QED
    BY <1>1, <1>5, <1>6, <2>1, <2>2 DEF OwnedInv, HeldIsRegistered
<1>10. RegisteredIsHeld'
  BY <1>1, <1>5, <1>6 DEF OwnedInv, RegisteredIsHeld, Held
<1> QED
  BY <1>7, <1>8, <1>9, <1>10 DEF OwnedInv

LEMMA NextOwned == OwnedInv /\ [Next]_vars => OwnedInv'
<1> SUFFICES ASSUME OwnedInv, [Next]_vars PROVE OwnedInv'
  OBVIOUS
<1>1. ASSUME NEW c \in Callers, InnerStep(c) PROVE OwnedFrame
  BY <1>1 DEF InnerStep, Dispatch!CallStep, Dispatch!EnsureRunning, Dispatch!EnsureSpawn,
              Dispatch!UnregisterStop, Dispatch!registry, OwnedFrame, owned
<1>2. ASSUME NEW c \in Callers, RegisterFails(c) \/ CancelOwned(c) PROVE OwnedInv'
  <2>1. CutShort(c) /\ UNCHANGED <<regs, listeners, key, records>>
    BY <1>2 DEF RegisterFails, CancelOwned, Dispatch!EnsureFails, Dispatch!registry
  <2> QED
    BY <2>1, CutKeepsOwned
<1> QED
  BY <1>1, <1>2, OthersKeepOwned, FrameKeepsOwned, RegisterKeepsOwned, RecordKeepsOwned,
     ForgetKeepsOwned, UnregisterKeepsOwned DEF OwnedMove, OwnedStep

\* Records are as many as the registrations they are of.
LEMMA RecordsCounted ==
    ASSUME OwnedTypes, OneHolder
    PROVE  Recorded = {r.reg : r \in ToSet(records)} /\ Cardinality(Recorded) = Len(records)
<1> DEFINE f == [i \in 1..Len(records) |-> records[i].reg]
<1>1. /\ records \in Seq(Record) /\ Len(records) \in Nat /\ DOMAIN records = 1..Len(records)
      /\ \A r : r \in ToSet(records) <=> \E i \in 1..Len(records) : records[i] = r
      /\ \A i, j \in 1..Len(records) : records[i] = records[j] => i = j
  BY LenProperties, ElementsOf DEF OwnedTypes, OneHolder
<1>2. \A i, j \in 1..Len(records) : records[i].reg = records[j].reg => i = j
  BY <1>1 DEF OneHolder
<1>3. Recorded = {r.reg : r \in ToSet(records)}
  BY <1>1 DEF Recorded
<1> HIDE DEF f
<1>4. /\ f \in [1..Len(records) -> Recorded]
      /\ \A v \in Recorded : \E i \in 1..Len(records) : f[i] = v
  BY <1>1 DEF Recorded, f
<1>5. Len(records) \in Nat /\ \A i, j \in 1..Len(records) : f[i] = f[j] => i = j
  BY <1>1, <1>2 DEF f
<1>6. Cardinality(Recorded) = Len(records)
  BY <1>4, <1>5, CountValues
<1> QED
  BY <1>3, <1>6

\* However calls of the owned transport race with each other and with the listener
\* task, fail in the inner transport, or are dropped between their two steps, and for
\* any number of them: each record stands for one inner registration, which is there to
\* be unregistered, no call unregisters what another still does, and a registration
\* that nobody can unregister is one of a call that was cut short.
\* (register_validated_owned_listener and unregister_validated_owned_listener in
\* src/src/owned_benchmark.rs.)
THEOREM RecordsMatch == Spec => []RecordsMatchRegistry
<1>1. ASSUME OwnedInv PROVE RecordsMatchRegistry
  <2>1. Recorded = {r.reg : r \in ToSet(records)} /\ Cardinality(Recorded) = Len(records)
    BY <1>1, RecordsCounted DEF OwnedInv
  <2>2. Carried = {calls[c].record.reg : c \in InCall}
    BY DEF Carried, InCall
  <2>3. /\ Recorded \cup Carried \subseteq ToSet(listeners)
        /\ Recorded \cap Carried = {}
    BY <1>1, <2>1, <2>2 DEF OwnedInv, OneHolder, HeldIsRegistered
  <2>4. ToSet(listeners) \ (Recorded \cup Carried) \subseteq interrupted
    BY <1>1, <2>1, <2>2 DEF OwnedInv, RegisteredIsHeld, Held
  <2> QED
    BY <2>1, <2>3, <2>4 DEF RecordsMatchRegistry
<1> QED
  BY <1>1, InitOwned, NextOwned, PTL DEF Spec

-----------------------------------------------------------------------------
(* Registrations that match *)

\* A sample is for the registrations that match it, each once.
LEMMA MatchingElements ==
    ASSUME listeners \in Seq(Tasks), NEW s
    PROVE  /\ Matching(s) \in Seq(Tasks)
           /\ ToSet(Matching(s)) = {n \in ToSet(listeners) : s.topic \in key[n].topics}
           /\ IsInjective(listeners) => IsInjective(Matching(s))
<1> DEFINE T == {n \in Tasks : s.topic \in key[n].topics}
           Among(f) == f = [i \in 0..Len(listeners) |->
                              IF i = 0 THEN <<>>
                              ELSE IF s.topic \in key[listeners[i]].topics
                                   THEN Append(f[i - 1], listeners[i])
                                   ELSE f[i - 1]]
           among == CHOOSE f : Among(f)
<1>1. Matching(s) = among[Len(listeners)]
  BY DEF Matching
<1>2. \A i \in 1..Len(listeners) : listeners[i] \in Tasks
  BY ElementOfSeq
<1>3. \A i \in 0..Len(listeners) : i = 0 \/ i \in 1..Len(listeners)
  BY LenProperties
<1>4. ASSUME NEW f PROVE Among(f) <=> KeptOf(f, listeners, T)
  BY <1>2, <1>3 DEF KeptOf
<1> HIDE DEF Among
<1>5. Among(among)
  BY <1>4, KeptExists
<1>6. KeptOf(among, listeners, T)
  BY <1>4, <1>5
<1> HIDE DEF T, among
<1>7. /\ among[Len(listeners)] \in Seq(Tasks)
      /\ ToSet(among[Len(listeners)]) = ToSet(listeners) \cap T
      /\ IsInjective(listeners) => IsInjective(among[Len(listeners)])
  BY <1>6, KeptElements
<1>8. ToSet(listeners) \cap T = {n \in ToSet(listeners) : s.topic \in key[n].topics}
  BY ElementsOf DEF T
<1> QED
  BY <1>1, <1>7, <1>8

-----------------------------------------------------------------------------
(* Types *)

Delivery == [reg : Tasks, sample : Sample]
Given1 == [sample : Sample, by : Tasks, late : BOOLEAN]

RunPlaces == {"unspawned", "top", "check", "lock", "probe", "deliver", "sleep",
              "exit", "finished"}

\* The types of what tasks and registrations have.
PushTypes ==
    /\ task \in Tasks \cup {NoTask} /\ tasks \in 0..MaxRegs
    /\ pc \in [Tasks -> RunPlaces]
    /\ aborted \in SUBSET Tasks
    /\ batch \in [Tasks -> Seq(Delivery)]
    /\ received \in [Tasks -> Seq(Given1)]
    /\ probe \in [Tasks -> Sample \cup {NoSample}]
    /\ taken \in SUBSET Sample
    /\ cpc \in [Callers -> {"idle", "ensure", "stop"}]

\* A task is spawned for a registration, by the call that made it, and the tasks
\* spawned so far are the first ones.
Ensuring == {c \in Callers : cpc[c] = "ensure"}
SpawnsBounded == IsFiniteSet(Ensuring) /\ tasks + Cardinality(Ensuring) <= regs
TasksNumbered == \A t \in Tasks : pc[t] = "unspawned" <=> t > tasks

\* A task has a sample while it looks for listeners that match it, and deliveries
\* to make while it makes them.
InUse ==
    \A t \in Tasks : /\ pc[t] = "probe" <=> probe[t] # NoSample
                     /\ pc[t] = "deliver" <=> batch[t] # <<>>

TaskInv == PushTypes /\ SpawnsBounded /\ TasksNumbered /\ InUse

\* The types of what receive calls have.
PullTypes ==
    /\ sent \in 0..MaxSent
    /\ pending \in Seq(Sample) /\ queue \in Seq(Sample)
    /\ dropped \in Nat /\ rejected \in Nat
    /\ rpc \in [Receivers -> {"idle", "pop", "next", "queue"}]
    /\ hand \in [Receivers -> Sample \cup {NoSample}]
    /\ delivered \in SUBSET Sample
    /\ lost \in [Pull!LossReasons -> SUBSET Sample]
    /\ \A r \in Receivers : rpc[r] = "queue" <=> hand[r] # NoSample

-----------------------------------------------------------------------------
(* Where samples are *)

Places == {"pending", "queue", "hand", "delivered", "taken"} \cup Pull!LossReasons

Holding == {r \in Receivers : hand[r] # NoSample}
InHand == {hand[r] : r \in Holding}

Where == [place \in Places |->
            IF place = "pending" THEN ToSet(pending)
            ELSE IF place = "queue" THEN ToSet(queue)
            ELSE IF place = "hand" THEN InHand
            ELSE IF place = "delivered" THEN delivered
            ELSE IF place = "taken" THEN taken
            ELSE lost[place]]

HandsDiffer == \A r, q \in Holding : hand[r] = hand[q] => r = q

\* Each sample sent is in one place, and there once; the tasks take the oldest.
FateInv ==
    /\ Apart(Places, Where, sent)
    /\ IsInjective(pending)
    /\ IsInjective(queue)
    /\ HandsDiffer

\* The counters count what was lost, and the queue keeps to its capacity.
CountInv ==
    /\ IsFiniteSet(lost["dropped"]) /\ IsFiniteSet(lost["rejected"])
    /\ dropped = Pull!Saturated(Cardinality(lost["dropped"]))
    /\ rejected = Pull!Saturated(Cardinality(lost["rejected"]))
    /\ Len(queue) <= Capacity

-----------------------------------------------------------------------------
(* What registrations are given *)

\* Samples are taken in the order they were sent.
TakenInOrder ==
    /\ Ordered(pending)
    /\ \A s \in taken, u \in ToSet(pending) : s.id < u.id

\* What task t has taken and not delivered yet.  One task has it.
CarriedBy(t) == ({probe[t]} \ {NoSample}) \cup {d.sample : d \in ToSet(batch[t])}

CarriedOnce ==
    /\ \A t \in Tasks : CarriedBy(t) \subseteq taken
    /\ \A t, u \in Tasks : \A s \in CarriedBy(t), v \in CarriedBy(u) : s.id = v.id => t = u

\* A sample is for a registration that it matches.
For(n, s) == n <= regs /\ s.topic \in key[n].topics

\* The registrations of a batch differ.
BatchOnce ==
    \A t \in Tasks : \A i, j \in 1..Len(batch[t]) :
        batch[t][i].reg = batch[t][j].reg => i = j

MatchInv ==
    /\ \A t \in Tasks : \A d \in ToSet(batch[t]) : For(d.reg, d.sample)
    /\ \A n \in Tasks : \A g \in ToSet(received[n]) : For(n, g.sample) /\ g.sample \in taken

\* What a task is about to give a registration is new to it, newer than what the
\* task gave it before, and the task has made no late delivery to it.
NewFor(t, n, s) ==
    \A g \in ToSet(received[n]) : /\ g.sample.id # s.id
                                  /\ g.by = t => g.sample.id < s.id

CarriedIsNew ==
    \A t \in Tasks :
        /\ probe[t] # NoSample => \A n \in Tasks : NewFor(t, n, probe[t])
        /\ \A d \in ToSet(batch[t]) :
              /\ NewFor(t, d.reg, d.sample)
              /\ \A g \in ToSet(received[d.reg]) : g.by = t => ~g.late

LateIsOver == \A n \in Tasks : \A g \in ToSet(received[n]) : g.late => n \notin ToSet(listeners)

GivenInOrder ==
    \A n \in Tasks : \A i, j \in 1..Len(received[n]) :
        i < j => /\ received[n][i].sample.id # received[n][j].sample.id
                 /\ received[n][i].by = received[n][j].by =>
                       /\ received[n][i].sample.id < received[n][j].sample.id
                       /\ ~(received[n][i].late /\ received[n][j].late)

PushInv ==
    CarriedOnce /\ BatchOnce /\ MatchInv /\ CarriedIsNew /\ LateIsOver /\ GivenInOrder

-----------------------------------------------------------------------------
(* The steps keep the types *)

PullStep == (\E t \in Topics : Send(t)) \/ (\E r \in Receivers : ReceiveStep(r)) \/ Application

TaskMove(t) == TaskStep(t) \/ PollStop(t) \/ LoopEnds(t)

LEMMA StepCases ==
    ASSUME [Next]_vars
    PROVE  \/ PullStep \/ UNCHANGED vars
           \/ \E t \in Tasks : TaskMove(t)
           \/ \E c \in Callers : OwnedMove(c)
BY DEF Next, PullStep, TaskMove, OwnedMove

\* What each kind of step leaves alone.
LEMMA PullStepFrame == PullStep \/ UNCHANGED vars => UNCHANGED <<registry, loop, poll, owned>>
BY DEF PullStep, Send, ReceiveStep, Application, vars

LEMMA TaskMoveFrame ==
    ASSUME NEW t \in Tasks, TaskMove(t)
    PROVE  UNCHANGED <<sent, pull, registry, task, tasks, aborted, owned>>
<1>1. CASE PollEmpty(t) \/ PollPop(t) \/ PollMatch(t) \/ PollStop(t)
  BY <1>1 DEF PollEmpty, PollPop, PollMatch, PollStop
<1>2. CASE LoopStep(t)
  BY <1>2 DEF LoopStep, Dispatch!LoopUpgrade, Dispatch!LoopCheck, Dispatch!Deliver,
              Dispatch!Wake, Dispatch!Finish, Dispatch!registry, registry
<1>3. CASE LoopEnds(t)
  BY <1>3 DEF LoopEnds, Dispatch!CallbackPanics, Dispatch!Stop, Dispatch!registry, registry
<1> QED
  BY <1>1, <1>2, <1>3 DEF TaskMove, TaskStep

\* A call of the owned transport at its inner steps.
LEMMA OwnedMoveFrame ==
    ASSUME NEW c \in Callers, OwnedMove(c)
    PROVE  /\ UNCHANGED <<sent, pending, pull, poll, batch, received>>
           /\ \/ UNCHANGED <<pc, tasks>>
              \/ Dispatch!EnsureSpawn(c)
<1>1. CASE InnerStep(c)
  BY <1>1 DEF InnerStep, Dispatch!CallStep, Dispatch!EnsureRunning, Dispatch!EnsureSpawn,
              Dispatch!UnregisterStop, Dispatch!worker
<1>2. CASE RegisterRecord(c) \/ CancelOwned(c)
  BY <1>2 DEF RegisterRecord, CancelOwned, loop
<1>3. CASE UnregisterInner(c) \/ RegisterFails(c)
  BY <1>3 DEF UnregisterInner, RegisterFails, Dispatch!UnregisterRemove,
              Dispatch!EnsureFails, Dispatch!worker
<1>4. ASSUME NEW o \in Owned, NEW f \in Filters, RegisterInner(c, o, f) \/ ForgetRecord(c, o, f)
      PROVE  UNCHANGED <<sent, pending, pull, poll, batch, received, pc, tasks>>
  BY <1>4 DEF RegisterInner, ForgetRecord, Dispatch!RegisterPush, Dispatch!worker, loop
<1> QED
  BY <1>1, <1>2, <1>3, <1>4 DEF OwnedMove, OwnedStep

LEMMA InitTask == Init => TaskInv
<1> SUFFICES ASSUME Init PROVE TaskInv
  OBVIOUS
<1> USE DEF Init, Dispatch!Init
<1>1. batch \in [Tasks -> Seq(Delivery)] /\ received \in [Tasks -> Seq(Given1)]
  BY EmptySeq DEF Dispatch!Tasks, Dispatch!Regs, Tasks
<1>2. PushTypes
  BY <1>1, ConstantsAssumption DEF PushTypes, RunPlaces, Dispatch!Tasks, Tasks
<1>3. SpawnsBounded
  <2>1. Ensuring = {}
    BY DEF Ensuring
  <2> QED
    BY <2>1, FS_EmptySet DEF SpawnsBounded
<1>4. TasksNumbered /\ InUse
  BY DEF TasksNumbered, InUse, Dispatch!Tasks, Tasks
<1> QED
  BY <1>2, <1>3, <1>4 DEF TaskInv

\* A task's steps touch what is the task's own.
LEMMA OneTask ==
    ASSUME TaskInv, NEW t \in Tasks, TaskMove(t), NEW u \in Tasks, u # t
    PROVE  pc'[u] = pc[u] /\ batch'[u] = batch[u] /\ probe'[u] = probe[u]
<1> USE DEF TaskInv, PushTypes, Dispatch!GoTo
<1>1. CASE PollEmpty(t) \/ PollPop(t) \/ PollMatch(t) \/ PollStop(t)
  BY <1>1 DEF PollEmpty, PollPop, PollMatch, PollStop, poll
<1>2. CASE LoopStep(t)
  BY <1>2 DEF LoopStep, Dispatch!LoopUpgrade, Dispatch!LoopCheck, Dispatch!Deliver,
              Dispatch!Wake, Dispatch!Finish, poll
<1>3. CASE LoopEnds(t)
  BY <1>3 DEF LoopEnds, Dispatch!CallbackPanics, Dispatch!Stop, poll
<1> QED
  BY <1>1, <1>2, <1>3 DEF TaskMove, TaskStep

\* What a task that matches its sample is about to deliver.
LEMMA MatchBatch ==
    ASSUME listeners \in Seq(Tasks), PushTypes, NEW t \in Tasks, NEW s \in Sample
    PROVE  LET b == [i \in DOMAIN Matching(s) |-> [reg |-> Matching(s)[i], sample |-> s]] IN
           /\ b \in Seq(Delivery)
           /\ Len(b) = Len(Matching(s)) /\ \A i \in 1..Len(b) : b[i].reg = Matching(s)[i]
           /\ b = <<>> <=> Matching(s) = <<>>
           /\ \A d \in ToSet(b) : d.sample = s /\ d.reg \in ToSet(Matching(s))
           /\ ToSet(b) = {[reg |-> n, sample |-> s] : n \in ToSet(Matching(s))}
<1> DEFINE m == Matching(s)
           b == [i \in DOMAIN m |-> [reg |-> m[i], sample |-> s]]
<1>1. m \in Seq(Tasks)
  BY MatchingElements
<1> HIDE DEF m
<1>2. Len(m) \in Nat /\ DOMAIN m = 1..Len(m) /\ \A i \in 1..Len(m) : m[i] \in Tasks
  BY <1>1, LenProperties, ElementOfSeq
<1>3. b \in [1..Len(m) -> Delivery]
  BY <1>2 DEF Delivery
<1>4. b \in Seq(Delivery) /\ Len(b) = Len(m)
  <2>1. b \in Seq(Delivery)
    BY <1>2, <1>3, SeqDef
  <2>2. DOMAIN b = 1..Len(m)
    BY <1>2
  <2> HIDE DEF b
  <2> QED
    BY <1>2, <2>1, <2>2, LenProperties
<1>5. \A i \in 1..Len(m) : b[i] = [reg |-> m[i], sample |-> s]
  BY <1>2
<1> HIDE DEF b
<1>6. b = <<>> <=> m = <<>>
  BY <1>1, <1>4, EmptySeq
<1>7. ASSUME NEW d \in ToSet(b) PROVE d.sample = s /\ d.reg \in ToSet(m)
  <2>1. PICK i \in 1..Len(m) : b[i] = d
    BY <1>4, ElementsOf
  <2>2. m[i] \in ToSet(m)
    BY <1>1, ElementsOf
  <2>3. d = [reg |-> m[i], sample |-> s]
    BY <1>5, <2>1
  <2> QED
    BY <2>2, <2>3
<1>8. ToSet(b) = {[reg |-> n, sample |-> s] : n \in ToSet(m)}
  <2>1. \A x : x \in ToSet(b) <=> \E i \in 1..Len(m) : b[i] = x
    BY <1>4, ElementsOf
  <2>2. \A n : n \in ToSet(m) <=> \E i \in 1..Len(m) : m[i] = n
    BY <1>1, ElementsOf
  <2>3. ASSUME NEW x \in ToSet(b) PROVE \E n \in ToSet(m) : x = [reg |-> n, sample |-> s]
    <3>1. PICK i \in 1..Len(m) : b[i] = x
      BY <2>1
    <3> QED
      BY <1>5, <2>2, <3>1
  <2>4. ASSUME NEW n \in ToSet(m) PROVE [reg |-> n, sample |-> s] \in ToSet(b)
    <3>1. PICK i \in 1..Len(m) : m[i] = n
      BY <2>2
    <3> QED
      BY <1>5, <2>1, <3>1
  <2> QED
    BY <2>3, <2>4
<1> QED
  BY <1>4, <1>5, <1>6, <1>7, <1>8 DEF b, m

\* What is called back is the first delivery of the batch.
LEMMA CallbackGives ==
    ASSUME TaskInv, NEW t \in Tasks, Dispatch!Callback(t)
    PROVE  LET d == Head(batch[t])
               g == [sample |-> d.sample, by |-> t, late |-> d.reg \notin ToSet(listeners)] IN
           /\ batch[t] \in Seq(Delivery) /\ batch[t] # <<>>
           /\ d \in Delivery /\ Tail(batch[t]) \in Seq(Delivery)
           /\ d.reg \in Tasks /\ d.sample \in Sample /\ g \in Given1
           /\ received' = [received EXCEPT ![d.reg] = Append(@, g)]
           /\ received' \in [Tasks -> Seq(Given1)]
<1> DEFINE d == Head(batch[t])
           g == [sample |-> d.sample, by |-> t, late |-> d.reg \notin ToSet(listeners)]
<1>1. batch[t] \in Seq(Delivery) /\ batch[t] # <<>>
  BY DEF TaskInv, PushTypes, InUse, Dispatch!Callback
<1>2. d \in Delivery /\ Tail(batch[t]) \in Seq(Delivery)
  BY <1>1, HeadTailProperties
<1>3. (d.reg \notin ToSet(listeners)) \in BOOLEAN
  BY Zenon
<1>4. g \in Given1 /\ d.reg \in Tasks /\ d.sample \in Sample
  BY <1>2, <1>3 DEF Delivery, Given1
<1>5. received' = [received EXCEPT ![d.reg] = Append(@, g)]
  BY DEF Dispatch!Callback, Dispatch!Registered, Dispatch!ToSet, ToSet
<1> HIDE DEF d, g
<1>6. received' \in [Tasks -> Seq(Given1)]
  BY <1>4, <1>5, AppendProperties DEF TaskInv, PushTypes
<1> QED
  BY <1>1, <1>2, <1>4, <1>5, <1>6 DEF d, g

\* The steps of a task.
LEMMA TaskMoveTask ==
    ASSUME TaskInv, PullTypes, OwnedTypes, NEW t \in Tasks, TaskMove(t)
    PROVE  TaskInv'
<1>0. /\ UNCHANGED <<sent, pull, registry, task, tasks, aborted, owned>>
      /\ PushTypes /\ InUse /\ TasksNumbered
  BY TaskMoveFrame DEF TaskInv
<1> USE DEF Dispatch!GoTo
<1>1. SpawnsBounded'
  BY <1>0 DEF TaskInv, SpawnsBounded, Ensuring, registry
<1>2. ASSUME pc' \in [Tasks -> RunPlaces], pc[t] # "unspawned", pc'[t] # "unspawned",
             batch' \in [Tasks -> Seq(Delivery)], received' \in [Tasks -> Seq(Given1)],
             probe' \in [Tasks -> Sample \cup {NoSample}], taken' \in SUBSET Sample,
             pc'[t] = "probe" <=> probe'[t] # NoSample,
             pc'[t] = "deliver" <=> batch'[t] # <<>>
      PROVE  TaskInv'
  <2>1. PushTypes'
    BY <1>0, <1>2 DEF PushTypes, registry
  <2>2. TasksNumbered'
    BY <1>0, <1>2, OneTask DEF TasksNumbered
  <2>3. InUse'
    BY <1>0, <1>2, OneTask DEF InUse
  <2> QED
    BY <1>1, <2>1, <2>2, <2>3 DEF TaskInv
<1>3. CASE PollEmpty(t)
  <2>1. /\ pc' = [pc EXCEPT ![t] = "sleep"] /\ pc[t] = "lock"
        /\ UNCHANGED <<batch, received, probe, taken>>
    BY <1>3 DEF PollEmpty, poll
  <2> QED
    BY <1>0, <1>2, <2>1 DEF PushTypes, InUse, RunPlaces
<1>4. CASE PollPop(t)
  <2>1. /\ pc' = [pc EXCEPT ![t] = "probe"] /\ pc[t] = "lock"
        /\ UNCHANGED <<batch, received>> /\ pending # <<>>
        /\ probe' = [probe EXCEPT ![t] = Head(pending)]
        /\ taken' = taken \cup {Head(pending)}
    BY <1>4 DEF PollPop
  <2>2. Head(pending) \in Sample /\ Head(pending) # NoSample
    BY <2>1, HeadTailProperties, AbsenceAssumption DEF PullTypes
  <2> QED
    BY <1>0, <1>2, <2>1, <2>2 DEF PushTypes, InUse, RunPlaces
<1>5. CASE PollMatch(t)
  <2> DEFINE s == probe[t]
             b == [i \in DOMAIN Matching(s) |-> [reg |-> Matching(s)[i], sample |-> s]]
  <2>1. /\ pc' = [pc EXCEPT ![t] = IF Matching(s) = <<>> THEN "sleep" ELSE "deliver"]
        /\ pc[t] = "probe" /\ UNCHANGED <<received, taken>>
        /\ batch' = [batch EXCEPT ![t] = b]
        /\ probe' = [probe EXCEPT ![t] = NoSample]
    BY <1>5 DEF PollMatch
  <2>2. s \in Sample
    BY <1>0, <2>1 DEF PushTypes, InUse
  <2>3. b \in Seq(Delivery) /\ (b = <<>> <=> Matching(s) = <<>>)
    BY <1>0, <2>2, MatchBatch DEF OwnedTypes
  <2> HIDE DEF b
  <2> QED
    BY <1>0, <1>2, <2>1, <2>3 DEF PushTypes, InUse, RunPlaces
<1>6. CASE PollStop(t)
  <2>1. /\ pc' = [pc EXCEPT ![t] = "finished"] /\ pc[t] = "probe"
        /\ UNCHANGED <<batch, received, taken>>
        /\ probe' = [probe EXCEPT ![t] = NoSample]
    BY <1>6 DEF PollStop
  <2> QED
    BY <1>0, <1>2, <2>1 DEF PushTypes, InUse, RunPlaces
<1>7. CASE LoopStep(t) /\ ~Dispatch!Deliver(t)
  <2>1. /\ \E place \in RunPlaces \ {"unspawned", "probe", "deliver"} :
              pc' = [pc EXCEPT ![t] = place]
        /\ pc[t] \in {"top", "check", "sleep", "exit"}
        /\ UNCHANGED <<batch, received, probe, taken>>
    BY <1>7 DEF LoopStep, Dispatch!LoopUpgrade, Dispatch!LoopCheck,
                Dispatch!Wake, Dispatch!Finish, poll, RunPlaces
  <2> QED
    BY <1>0, <1>2, <2>1 DEF PushTypes, InUse, RunPlaces
<1>8. CASE LoopStep(t) /\ Dispatch!Deliver(t)
  <2>1. /\ pc' = [pc EXCEPT ![t] = IF Len(batch[t]) = 1 THEN "top" ELSE "deliver"]
        /\ pc[t] = "deliver" /\ UNCHANGED <<probe, taken>> /\ Dispatch!Callback(t)
        /\ batch' = [batch EXCEPT ![t] = Tail(batch[t])]
    BY <1>8 DEF LoopStep, Dispatch!Deliver, Dispatch!Callback, poll
  <2>2. /\ batch[t] \in Seq(Delivery) /\ batch[t] # <<>> /\ Tail(batch[t]) \in Seq(Delivery)
        /\ received' \in [Tasks -> Seq(Given1)]
    BY <2>1, CallbackGives
  <2>3. Tail(batch[t]) = <<>> <=> Len(batch[t]) = 1
    <3>1. /\ Len(Tail(batch[t])) = Len(batch[t]) - 1 /\ Len(batch[t]) \in Nat
          /\ Tail(batch[t]) = <<>> <=> Len(Tail(batch[t])) = 0
      BY <2>2, HeadTailProperties, LenProperties, EmptySeq
    <3> QED
      BY <3>1
  <2> QED
    BY <1>0, <1>2, <2>1, <2>2, <2>3 DEF PushTypes, InUse, RunPlaces
<1>9. CASE LoopEnds(t)
  <2>1. /\ pc' = [pc EXCEPT ![t] = "finished"]
        /\ pc[t] \in {"top", "check", "lock", "deliver", "sleep"}
        /\ UNCHANGED <<probe, taken>>
        /\ batch' = [batch EXCEPT ![t] = <<>>]
    BY <1>9 DEF LoopEnds, Dispatch!CallbackPanics, Dispatch!Callback, Dispatch!Stop, poll
  <2>2. received' \in [Tasks -> Seq(Given1)]
    <3>1. CASE Dispatch!Callback(t)
      BY <3>1, CallbackGives
    <3>2. CASE ~Dispatch!Callback(t)
      BY <1>0, <1>9, <3>2 DEF LoopEnds, Dispatch!CallbackPanics, Dispatch!Stop, PushTypes
    <3> QED
      BY <3>1, <3>2
  <2>3. <<>> \in Seq(Delivery)
    BY EmptySeq
  <2> QED
    BY <1>0, <1>2, <2>1, <2>2, <2>3 DEF PushTypes, InUse, RunPlaces
<1> QED
  BY <1>3, <1>4, <1>5, <1>6, <1>7, <1>8, <1>9 DEF TaskMove, TaskStep

\* A step that gives the caller c another place than "ensure".
LEMMA LeavesEnsure ==
    ASSUME TaskInv, NEW c \in Callers, NEW place \in {"idle", "stop"},
           cpc' = [cpc EXCEPT ![c] = place]
    PROVE  /\ Ensuring' = Ensuring \ {c} /\ IsFiniteSet(Ensuring')
           /\ Cardinality(Ensuring) \in Nat /\ Cardinality(Ensuring') \in Nat
           /\ Cardinality(Ensuring') =
                 IF c \in Ensuring THEN Cardinality(Ensuring) - 1 ELSE Cardinality(Ensuring)
<1>1. IsFiniteSet(Ensuring)
  BY DEF TaskInv, SpawnsBounded
<1>2. Ensuring' = Ensuring \ {c}
  BY DEF Ensuring, TaskInv, PushTypes
<1> QED
  BY <1>1, <1>2, FS_RemoveElement, FS_CardinalityType

\* A call that spawns no task.
LEMMA CallSpawnsNone ==
    ASSUME TaskInv, OwnedTypes, NEW c \in Callers,
           UNCHANGED <<pc, tasks, batch, received, poll>>,
           task' \in Tasks \cup {NoTask}, aborted' \in SUBSET Tasks,
           regs' \in Nat, regs' >= regs,
           \/ cpc' = cpc
           \/ cpc' = [cpc EXCEPT ![c] = "idle"]
           \/ cpc' = [cpc EXCEPT ![c] = "stop"]
           \/ regs' = regs + 1 /\ cpc[c] = "idle" /\ cpc' = [cpc EXCEPT ![c] = "ensure"]
    PROVE  TaskInv'
<1>0. /\ IsFiniteSet(Ensuring) /\ Cardinality(Ensuring) \in Nat
      /\ regs \in Nat /\ tasks \in Nat /\ tasks + Cardinality(Ensuring) <= regs
  BY ConstantsAssumption, FS_CardinalityType DEF TaskInv, PushTypes, SpawnsBounded, OwnedTypes
<1>1. PushTypes'
  BY DEF TaskInv, PushTypes, poll
<1>2. TasksNumbered' /\ InUse'
  BY DEF TaskInv, TasksNumbered, InUse, poll
<1>3. CASE cpc' = cpc
  <2>1. Ensuring' = Ensuring
    BY <1>3 DEF Ensuring
  <2>2. SpawnsBounded'
    BY <1>0, <2>1 DEF SpawnsBounded
  <2> QED
    BY <1>1, <1>2, <2>2 DEF TaskInv
<1>4. ASSUME NEW place \in {"idle", "stop"}, cpc' = [cpc EXCEPT ![c] = place]
      PROVE  TaskInv'
  <2>1. /\ IsFiniteSet(Ensuring') /\ Cardinality(Ensuring') \in Nat
        /\ Cardinality(Ensuring') =
              IF c \in Ensuring THEN Cardinality(Ensuring) - 1 ELSE Cardinality(Ensuring)
    BY <1>4, LeavesEnsure
  <2>2. SpawnsBounded'
    BY <1>0, <2>1 DEF SpawnsBounded
  <2> QED
    BY <1>1, <1>2, <2>2 DEF TaskInv
<1>5. CASE regs' = regs + 1 /\ cpc[c] = "idle" /\ cpc' = [cpc EXCEPT ![c] = "ensure"]
  <2>1. c \notin Ensuring /\ Ensuring' = Ensuring \cup {c}
    BY <1>5 DEF Ensuring, TaskInv, PushTypes
  <2>2. IsFiniteSet(Ensuring') /\ Cardinality(Ensuring') = Cardinality(Ensuring) + 1
    BY <1>0, <2>1, FS_AddElement
  <2>3. SpawnsBounded'
    BY <1>0, <1>5, <2>2 DEF SpawnsBounded
  <2> QED
    BY <1>1, <1>2, <2>3 DEF TaskInv
<1> QED
  BY <1>3, <1>4, <1>5

\* A call spawns a task for the registration it made.
LEMMA SpawnKeepsTask ==
    ASSUME TaskInv, OwnedTypes, NEW c \in Callers, Dispatch!EnsureSpawn(c),
           UNCHANGED <<poll, batch, received>>
    PROVE  TaskInv'
<1>0. /\ IsFiniteSet(Ensuring) /\ Cardinality(Ensuring) \in Nat
      /\ regs \in 0..MaxRegs /\ MaxRegs \in Nat /\ tasks \in Nat
      /\ tasks + Cardinality(Ensuring) <= regs
  BY ConstantsAssumption, FS_CardinalityType DEF TaskInv, PushTypes, SpawnsBounded, OwnedTypes
<1>1. /\ cpc[c] = "ensure" /\ cpc' = [cpc EXCEPT ![c] = "idle"]
      /\ tasks' = tasks + 1 /\ task' = tasks + 1 /\ regs' = regs /\ aborted' = aborted
      /\ pc' = [pc EXCEPT ![tasks + 1] = "top"]
  BY DEF Dispatch!EnsureSpawn, Dispatch!CallTo, Dispatch!registry
<1>2. /\ IsFiniteSet(Ensuring') /\ Cardinality(Ensuring') \in Nat
      /\ Cardinality(Ensuring') = Cardinality(Ensuring) - 1
  <2>1. c \in Ensuring
    BY <1>1 DEF Ensuring
  <2> QED
    BY <1>1, <2>1, LeavesEnsure
<1>3. tasks + 1 \in 1..MaxRegs
  BY <1>0, <1>2
<1>4. SpawnsBounded'
  BY <1>0, <1>1, <1>2 DEF SpawnsBounded
<1>5. PushTypes'
  BY <1>1, <1>3 DEF TaskInv, PushTypes, RunPlaces, Tasks, poll
<1>6. pc[tasks + 1] = "unspawned"
  BY <1>0, <1>3 DEF TaskInv, TasksNumbered, Tasks
<1>7. TasksNumbered'
  BY <1>0, <1>1, <1>3, <1>6 DEF TaskInv, TasksNumbered, PushTypes, Tasks
<1>8. InUse'
  BY <1>1, <1>3, <1>6 DEF TaskInv, InUse, PushTypes, Tasks, poll
<1> QED
  BY <1>4, <1>5, <1>7, <1>8 DEF TaskInv

\* The calls of the owned transport.
LEMMA OwnedMoveTask ==
    ASSUME TaskInv, OwnedTypes, OwnedTypes', NEW c \in Callers, OwnedMove(c)
    PROVE  TaskInv'
<1>0. UNCHANGED <<sent, pending, pull, poll, batch, received>>
  BY OwnedMoveFrame
<1>1. regs' \in Nat /\ regs \in Nat
  BY ConstantsAssumption DEF OwnedTypes
<1>2. task \in Tasks \cup {NoTask} /\ aborted \in SUBSET Tasks
  BY DEF TaskInv, PushTypes
<1> USE DEF Dispatch!CallTo
<1>3. CASE Dispatch!EnsureSpawn(c)
  BY <1>0, <1>3, SpawnKeepsTask
<1>4. CASE InnerStep(c) /\ ~Dispatch!EnsureSpawn(c)
  <2>1. /\ UNCHANGED <<pc, tasks, regs>> /\ task' \in {task, NoTask}
        /\ aborted' \in {aborted, aborted \cup {task}}
        /\ task = NoTask => aborted' = aborted
        /\ cpc' = [cpc EXCEPT ![c] = "idle"]
    BY <1>4 DEF InnerStep, Dispatch!CallStep, Dispatch!EnsureRunning, Dispatch!UnregisterStop,
                Dispatch!worker, Dispatch!registry
  <2>2. task' \in Tasks \cup {NoTask} /\ aborted' \in SUBSET Tasks
    BY <1>2, <2>1
  <2>3. /\ UNCHANGED <<pc, tasks, batch, received, poll>>
        /\ regs' >= regs /\ cpc' = [cpc EXCEPT ![c] = "idle"]
    BY <1>0, <1>1, <2>1
  <2> QED
    BY <1>1, <2>2, <2>3, CallSpawnsNone
<1>5. CASE RegisterRecord(c)
  BY <1>0, <1>1, <1>2, <1>5, CallSpawnsNone DEF RegisterRecord, registry, loop
<1>6. CASE UnregisterInner(c)
  <2>1. /\ UNCHANGED <<pc, tasks, regs, task, aborted>>
        /\ \/ cpc' = [cpc EXCEPT ![c] = "idle"]
           \/ cpc' = [cpc EXCEPT ![c] = "stop"]
    BY <1>6 DEF UnregisterInner, Dispatch!UnregisterRemove, Dispatch!worker
  <2> QED
    BY <1>0, <1>1, <1>2, <2>1, CallSpawnsNone
<1>7. CASE RegisterFails(c) \/ CancelOwned(c)
  <2>1. /\ UNCHANGED <<pc, tasks, regs, task, aborted>>
        /\ cpc' = [cpc EXCEPT ![c] = "idle"]
    BY <1>7 DEF RegisterFails, CancelOwned, Dispatch!EnsureFails, Dispatch!worker,
                Dispatch!registry, loop
  <2>2. /\ UNCHANGED <<pc, tasks, batch, received, poll, task, aborted>>
        /\ regs' >= regs /\ cpc' = [cpc EXCEPT ![c] = "idle"]
    BY <1>0, <1>1, <2>1
  <2> QED
    BY <1>1, <1>2, <2>2, CallSpawnsNone
<1>8. ASSUME NEW o \in Owned, NEW f \in Filters, RegisterInner(c, o, f)
      PROVE  TaskInv'
  <2>1. /\ UNCHANGED <<pc, tasks, task, aborted>> /\ regs' = regs + 1
        /\ cpc[c] = "idle" /\ cpc' = [cpc EXCEPT ![c] = "ensure"]
    BY <1>8 DEF RegisterInner, Dispatch!RegisterPush, Dispatch!worker
  <2>2. /\ UNCHANGED <<pc, tasks, batch, received, poll, task, aborted>>
        /\ regs' >= regs
    BY <1>0, <1>1, <2>1
  <2> QED
    BY <1>1, <1>2, <2>1, <2>2, CallSpawnsNone
<1>9. ASSUME NEW o \in Owned, NEW f \in Filters, ForgetRecord(c, o, f)
      PROVE  TaskInv'
  BY <1>0, <1>1, <1>2, <1>9, CallSpawnsNone DEF ForgetRecord, registry, loop
<1> QED
  BY <1>3, <1>4, <1>5, <1>6, <1>7, <1>8, <1>9 DEF OwnedMove, OwnedStep

\* Receive calls touch nothing of this.
LEMMA PullStepTask ==
    ASSUME TaskInv, UNCHANGED <<registry, loop, poll, owned>>
    PROVE  TaskInv'
BY DEF TaskInv, PushTypes, SpawnsBounded, TasksNumbered, InUse, Ensuring, registry, loop, poll

LEMMA NextTask ==
    ASSUME TaskInv, PullTypes, OwnedTypes, OwnedTypes', [Next]_vars
    PROVE  TaskInv'
BY StepCases, PullStepFrame, PullStepTask, TaskMoveTask, OwnedMoveTask

-----------------------------------------------------------------------------
(* What a step does to the samples *)

\* No sample moves.
Still == UNCHANGED <<sent, pending, queue, dropped, rejected, hand, delivered, lost, taken>>

\* A sample is sent.
Sends(s) ==
    /\ s \in Sample /\ s.id = sent + 1
    /\ sent' = sent + 1 /\ sent' \in 0..MaxSent
    /\ pending' = Append(pending, s)
    /\ UNCHANGED <<queue, dropped, rejected, hand, delivered, lost, taken>>

\* The first sample of the queue is taken by a call that retains it, for the
\* application, or by a task.
TakesFirst ==
    /\ pending # <<>> /\ pending' = Tail(pending)
    /\ UNCHANGED <<sent, queue, dropped, rejected, lost>>

ToCall(r) ==
    /\ TakesFirst
    /\ hand[r] = NoSample /\ hand' = [hand EXCEPT ![r] = Head(pending)]
    /\ UNCHANGED <<delivered, taken>>

ToApplication ==
    /\ TakesFirst
    /\ delivered' = delivered \cup {Head(pending)}
    /\ UNCHANGED <<hand, taken>>

ToTask ==
    /\ TakesFirst
    /\ taken' = taken \cup {Head(pending)}
    /\ UNCHANGED <<hand, delivered>>

\* A retained sample is returned.
FromQueue(i) ==
    /\ i \in 1..Len(queue) /\ queue' = RemoveAt(queue, i)
    /\ delivered' = delivered \cup {queue[i]}
    /\ UNCHANGED <<sent, pending, dropped, rejected, hand, lost, taken>>

\* The call of r is done with the sample it has: it is lost, or retained, for
\* which the oldest may make room.
EmptiesHand(r) ==
    /\ hand[r] # NoSample /\ hand' = [hand EXCEPT ![r] = NoSample]
    /\ UNCHANGED <<sent, pending, delivered, taken>>

Loses(r, reason) ==
    /\ EmptiesHand(r)
    /\ Pull!Lose(reason, hand[r])
    /\ dropped' = IF reason = "dropped" THEN Pull!SaturatingInc(dropped) ELSE dropped
    /\ rejected' = IF reason = "rejected" THEN Pull!SaturatingInc(rejected) ELSE rejected
    /\ UNCHANGED queue

Retains(r) ==
    /\ EmptiesHand(r)
    /\ Len(queue) < Capacity /\ queue' = Append(queue, hand[r])
    /\ UNCHANGED <<dropped, rejected, lost>>

Replaces(r) ==
    /\ EmptiesHand(r)
    /\ queue # <<>> /\ queue' = Append(Tail(queue), hand[r])
    /\ Pull!Lose("dropped", Head(queue)) /\ dropped' = Pull!SaturatingInc(dropped)
    /\ UNCHANGED rejected

Effect ==
    \/ Still
    \/ \E s : Sends(s)
    \/ ToApplication \/ ToTask
    \/ \E i : FromQueue(i)
    \/ \E r \in Receivers : \/ ToCall(r) \/ Retains(r) \/ Replaces(r)
                            \/ \E reason \in Pull!LossReasons : Loses(r, reason)

\* A call has a sample while it waits to retain it.
CallsTyped ==
    /\ rpc \in [Receivers -> {"idle", "pop", "next", "queue"}]
    /\ \A r \in Receivers : rpc[r] = "queue" <=> hand[r] # NoSample

LEMMA SendEffect ==
    ASSUME PullTypes, NEW t \in Topics, Send(t)
    PROVE  Effect /\ UNCHANGED <<rpc, hand>>
<1> DEFINE s == [id |-> sent + 1, topic |-> t]
<1>1. s \in Sample /\ s.id = sent + 1 /\ sent + 1 \in 0..MaxSent
  BY ConstantsAssumption DEF Send, Sample, PullTypes
<1>2. Sends(s)
  BY <1>1 DEF Send, Sends, pull, poll
<1> QED
  BY <1>2 DEF Effect, Send, pull

\* A receive call that looks for a sample.
LEMMA SearchEffect ==
    ASSUME PullTypes, NEW r \in Receivers,
           \/ Pull!PopQueued(r) \/ Pull!PopNothing(r)
           \/ ReceiveNothing(r) \/ ReceiveMatch(r) \/ ReceiveMismatch(r),
           UNCHANGED <<registry, loop, poll, owned>>
    PROVE  Effect /\ CallsTyped'
<1> USE DEF Pull!diagnostics, Pull!call, Pull!app, Pull!Return, poll
<1>0. /\ CallsTyped /\ hand \in [Receivers -> Sample \cup {NoSample}]
      /\ NoSample \notin Sample /\ taken' = taken
  BY AbsenceAssumption DEF PullTypes, CallsTyped
<1>1. ASSUME rpc[r] # "queue", NEW result, Pull!Return(r, result)
      PROVE  hand' = hand /\ CallsTyped'
  BY <1>0, <1>1 DEF CallsTyped
<1>2. CASE Pull!PopQueued(r)
  <2>1. PICK i \in 1..Len(queue) : queue' = RemoveAt(queue, i) /\ Pull!Deliver(r, queue[i])
    BY <1>2 DEF Pull!PopQueued, Pull!RemoveAt, RemoveAt
  <2>2. hand' = hand /\ CallsTyped'
    BY <1>1, <1>2, <2>1 DEF Pull!PopQueued, Pull!Deliver
  <2>3. FromQueue(i)
    BY <1>0, <1>2, <2>1, <2>2 DEF FromQueue, Pull!PopQueued, Pull!Deliver
  <2> QED
    BY <2>2, <2>3 DEF Effect
<1>3. CASE Pull!PopNothing(r)
  <2>1. Still
    BY <1>0, <1>3 DEF Still, Pull!PopNothing
  <2>2. CallsTyped'
    BY <1>0, <1>3 DEF Pull!PopNothing, CallsTyped
  <2> QED
    BY <2>1, <2>2 DEF Effect
<1>4. CASE ReceiveNothing(r)
  <2>1. hand' = hand /\ CallsTyped'
    BY <1>1, <1>4 DEF ReceiveNothing
  <2>2. Still
    BY <1>0, <1>4, <2>1 DEF Still, ReceiveNothing
  <2> QED
    BY <2>1, <2>2 DEF Effect
<1>5. CASE ReceiveMatch(r)
  <2>1. hand' = hand /\ CallsTyped'
    BY <1>1, <1>5 DEF ReceiveMatch, ReceiveNext, Pull!Deliver
  <2>2. ToApplication
    BY <1>0, <1>5, <2>1 DEF ToApplication, TakesFirst, ReceiveMatch, ReceiveNext, Pull!Deliver
  <2> QED
    BY <2>1, <2>2 DEF Effect
<1>6. CASE ReceiveMismatch(r)
  <2>1. ToCall(r)
    BY <1>0, <1>6 DEF ToCall, TakesFirst, ReceiveMismatch, ReceiveNext, CallsTyped
  <2>2. Head(pending) \in Sample
    BY <1>6, HeadTailProperties DEF ReceiveMismatch, ReceiveNext, PullTypes
  <2>3. CallsTyped'
    BY <1>0, <1>6, <2>2 DEF ReceiveMismatch, CallsTyped
  <2> QED
    BY <2>1, <2>3 DEF Effect
<1> QED
  BY <1>2, <1>3, <1>4, <1>5, <1>6

\* A receive call at the mismatch queue.
LEMMA RetainEffect ==
    ASSUME PullTypes, NEW r \in Receivers,
           \/ Pull!QueueDisabled(r) \/ Pull!QueueRetain(r)
           \/ Pull!QueueDropOldest(r) \/ Pull!QueueReject(r),
           UNCHANGED <<registry, loop, poll, owned>>
    PROVE  Effect /\ CallsTyped'
<1> USE DEF Pull!diagnostics, Pull!call, Pull!app, Pull!Return, Pull!Retry, poll
<1>0. /\ CallsTyped /\ hand \in [Receivers -> Sample \cup {NoSample}]
      /\ NoSample \notin Sample /\ taken' = taken
      /\ rpc[r] = "queue" /\ hand[r] # NoSample
  BY AbsenceAssumption DEF PullTypes, CallsTyped, Pull!QueueDisabled, Pull!QueueRetain,
                           Pull!QueueDropOldest, Pull!QueueReject
<1>1. CallsTyped'
  <2>1. /\ hand' = [hand EXCEPT ![r] = NoSample]
        /\ rpc' = [rpc EXCEPT ![r] = "next"] \/ rpc' = [rpc EXCEPT ![r] = "idle"]
    BY DEF Pull!QueueDisabled, Pull!QueueRetain, Pull!QueueDropOldest, Pull!QueueReject
  <2> QED
    BY <1>0, <2>1 DEF CallsTyped
<1>2. "dropped" \in Pull!LossReasons /\ "rejected" \in Pull!LossReasons
  BY DEF Pull!LossReasons
<1>3. Len(queue) \in Nat /\ Capacity \in Nat /\ (Len(queue) = 0 <=> queue = <<>>)
  BY ConstantsAssumption, LenProperties, EmptySeq DEF PullTypes
<1>4. CASE Pull!QueueDisabled(r)
  <2>1. Loses(r, "dropped")
    BY <1>0, <1>4 DEF Pull!QueueDisabled, Loses, EmptiesHand
  <2> QED
    BY <1>1, <1>2, <2>1 DEF Effect
<1>5. CASE Pull!QueueRetain(r)
  <2>1. Retains(r)
    BY <1>0, <1>3, <1>5 DEF Pull!QueueRetain, Pull!IsFull, Retains, EmptiesHand
  <2> QED
    BY <1>1, <2>1 DEF Effect
<1>6. CASE Pull!QueueDropOldest(r)
  <2>1. queue # <<>>
    BY <1>3, <1>6 DEF Pull!QueueDropOldest, Pull!IsFull
  <2>2. Replaces(r)
    BY <1>0, <1>6, <2>1 DEF Pull!QueueDropOldest, Replaces, EmptiesHand
  <2> QED
    BY <1>1, <2>2 DEF Effect
<1>7. CASE Pull!QueueReject(r)
  <2>1. Loses(r, "rejected")
    BY <1>0, <1>7 DEF Pull!QueueReject, Loses, EmptiesHand
  <2> QED
    BY <1>1, <1>2, <2>1 DEF Effect
<1> QED
  BY <1>4, <1>5, <1>6, <1>7

\* The application calls, drops a call or a lease.
LEMMA ApplicationEffect ==
    ASSUME PullTypes, Application
    PROVE  Effect /\ CallsTyped'
<1> USE DEF Pull!diagnostics, Pull!call, Pull!app, Pull!Return, poll
<1>0. /\ CallsTyped /\ hand \in [Receivers -> Sample \cup {NoSample}]
      /\ NoSample \notin Sample /\ taken' = taken
  BY AbsenceAssumption DEF PullTypes, CallsTyped, Application
<1>1. ASSUME NEW r \in Receivers, Pull!Cancel(r) PROVE Effect /\ CallsTyped'
  <2>1. CallsTyped'
    BY <1>0, <1>1 DEF Pull!Cancel, CallsTyped
  <2>2. CASE hand[r] = NoSample
    <3>1. hand' = hand
      BY <1>0, <1>1, <2>2 DEF Pull!Cancel
    <3>2. Still
      BY <1>0, <1>1, <2>2, <3>1 DEF Still, Pull!Cancel
    <3> QED
      BY <2>1, <3>2 DEF Effect
  <2>3. CASE hand[r] # NoSample
    <3>1. "cancelled" \in Pull!LossReasons
      BY DEF Pull!LossReasons
    <3>2. Loses(r, "cancelled")
      BY <1>0, <1>1, <2>3 DEF Pull!Cancel, Loses, EmptiesHand
    <3> QED
      BY <2>1, <3>1, <3>2 DEF Effect
  <2> QED
    BY <2>2, <2>3
<1>2. ASSUME NEW r \in Receivers, NEW f \in Filters, Pull!Call(r, f)
      PROVE  Effect /\ CallsTyped'
  <2>1. Still
    BY <1>0, <1>2 DEF Still, Pull!Call
  <2>2. CallsTyped'
    BY <1>0, <1>2 DEF Pull!Call, CallsTyped
  <2> QED
    BY <2>1, <2>2 DEF Effect
<1>3. ASSUME NEW s \in leases, Pull!DropLease(s) PROVE Effect /\ CallsTyped'
  <2>1. Still
    BY <1>0, <1>3 DEF Still, Pull!DropLease
  <2>2. CallsTyped'
    BY <1>0, <1>3 DEF Pull!DropLease, CallsTyped
  <2> QED
    BY <2>1, <2>2 DEF Effect
<1> QED
  BY <1>1, <1>2, <1>3 DEF Application

\* Tasks and the calls of the owned transport move a sample only to take it.
LEMMA OtherEffect ==
    ASSUME PullTypes,
           \/ UNCHANGED vars \/ (\E t \in Tasks : TaskMove(t)) \/ \E c \in Callers : OwnedMove(c)
    PROVE  Effect /\ CallsTyped'
<1>0. CallsTyped
  BY DEF PullTypes, CallsTyped
<1>1. ASSUME NEW t \in Tasks, TaskMove(t) PROVE Effect /\ UNCHANGED <<rpc, hand>>
  <2>1. UNCHANGED <<sent, pull>>
    BY <1>1, TaskMoveFrame
  <2>2. CASE PollPop(t)
    <3>1. ToTask
      BY <2>1, <2>2 DEF PollPop, ToTask, TakesFirst, pull
    <3> QED
      BY <2>1, <3>1 DEF Effect, pull
  <2>3. CASE ~PollPop(t)
    <3>1. UNCHANGED <<pending, taken>>
      BY <1>1, <2>3 DEF TaskMove, TaskStep, LoopStep, LoopEnds, PollEmpty, PollMatch,
                        PollStop, poll
    <3>2. Still
      BY <2>1, <3>1 DEF Still, pull
    <3> QED
      BY <2>1, <3>2 DEF Effect, pull
  <2> QED
    BY <2>2, <2>3
<1>2. ASSUME NEW c \in Callers, OwnedMove(c) PROVE Effect /\ UNCHANGED <<rpc, hand>>
  <2>1. UNCHANGED <<sent, pending, pull, poll>>
    BY <1>2, OwnedMoveFrame
  <2>2. Still
    BY <2>1 DEF Still, pull, poll
  <2> QED
    BY <2>1, <2>2 DEF Effect, pull
<1>3. ASSUME UNCHANGED vars PROVE Effect /\ UNCHANGED <<rpc, hand>>
  <2>1. Still
    BY <1>3 DEF vars, Still, pull, poll
  <2> QED
    BY <1>3, <2>1 DEF Effect, vars, pull
<1>4. UNCHANGED <<rpc, hand>> => CallsTyped'
  BY <1>0 DEF CallsTyped
<1> QED
  BY <1>1, <1>2, <1>3, <1>4

LEMMA StepEffect ==
    ASSUME PullTypes, [Next]_vars
    PROVE  Effect /\ CallsTyped'
<1>1. ASSUME NEW t \in Topics, Send(t) PROVE Effect /\ CallsTyped'
  BY <1>1, SendEffect DEF PullTypes, CallsTyped
<1>2. ASSUME NEW r \in Receivers, ReceiveStep(r) PROVE Effect /\ CallsTyped'
  BY <1>2, SearchEffect, RetainEffect DEF ReceiveStep
<1> QED
  BY <1>1, <1>2, StepCases, ApplicationEffect, OtherEffect DEF PullStep

-----------------------------------------------------------------------------
(* Effects keep the types *)

LEMMA InitPull == Init => PullTypes
<1> SUFFICES ASSUME Init PROVE PullTypes
  OBVIOUS
<1>1. pending \in Seq(Sample) /\ queue \in Seq(Sample)
  BY EmptySeq DEF Init, Pull!Init
<1>2. lost \in [Pull!LossReasons -> SUBSET Sample]
  BY DEF Init, Pull!Init
<1> QED
  BY <1>1, <1>2, ConstantsAssumption DEF Init, Pull!Init, PullTypes

\* What goes from one place to another is a sample.
LEMMA FirstIsSample ==
    ASSUME PullTypes, pending # <<>>
    PROVE  Head(pending) \in Sample /\ Tail(pending) \in Seq(Sample)
BY HeadTailProperties DEF PullTypes

LEMMA EffectTypes ==
    ASSUME PullTypes, Effect, CallsTyped'
    PROVE  PullTypes'
<1>0. /\ \A reason \in Pull!LossReasons : \A s \in Sample :
            [lost EXCEPT ![reason] = @ \cup {s}] \in [Pull!LossReasons -> SUBSET Sample]
      /\ Pull!SaturatingInc(dropped) \in Nat /\ Pull!SaturatingInc(rejected) \in Nat
      /\ "dropped" \in Pull!LossReasons
  BY ConstantsAssumption DEF PullTypes, Pull!SaturatingInc, Pull!LossReasons
<1>1. \A r \in Receivers : hand[r] # NoSample => hand[r] \in Sample
  BY DEF PullTypes
<1> USE DEF CallsTyped
<1>2. CASE Still
  BY <1>2 DEF Still, PullTypes
<1>3. ASSUME NEW s, Sends(s) PROVE PullTypes'
  <2>1. Append(pending, s) \in Seq(Sample)
    BY <1>3, AppendProperties DEF Sends, PullTypes
  <2> QED
    BY <1>3, <2>1 DEF Sends, PullTypes
<1>4. CASE ToApplication \/ ToTask
  BY <1>4, FirstIsSample DEF ToApplication, ToTask, TakesFirst, PullTypes
<1>5. ASSUME NEW i, FromQueue(i) PROVE PullTypes'
  <2>1. RemoveAt(queue, i) \in Seq(Sample) /\ queue[i] \in Sample
    BY <1>5, RemoveAtProperties, ElementOfSeq DEF FromQueue, PullTypes
  <2> QED
    BY <1>5, <2>1 DEF FromQueue, PullTypes
<1>6. ASSUME NEW r \in Receivers, ToCall(r) PROVE PullTypes'
  BY <1>6, FirstIsSample DEF ToCall, TakesFirst, PullTypes
<1>7. ASSUME NEW r \in Receivers, NEW reason \in Pull!LossReasons, Loses(r, reason)
      PROVE  PullTypes'
  <2>1. lost' \in [Pull!LossReasons -> SUBSET Sample]
    BY <1>0, <1>1, <1>7 DEF Loses, EmptiesHand, Pull!Lose
  <2>2. dropped' \in Nat /\ rejected' \in Nat
    BY <1>0, <1>7 DEF Loses, PullTypes
  <2> QED
    BY <1>7, <2>1, <2>2 DEF Loses, EmptiesHand, PullTypes
<1>8. ASSUME NEW r \in Receivers, Retains(r) PROVE PullTypes'
  <2>1. Append(queue, hand[r]) \in Seq(Sample)
    BY <1>1, <1>8, AppendProperties DEF Retains, EmptiesHand, PullTypes
  <2> QED
    BY <1>8, <2>1 DEF Retains, EmptiesHand, PullTypes
<1>9. ASSUME NEW r \in Receivers, Replaces(r) PROVE PullTypes'
  <2>1. /\ Head(queue) \in Sample /\ Tail(queue) \in Seq(Sample)
        /\ hand[r] \in Sample
    BY <1>1, <1>9, HeadTailProperties DEF Replaces, EmptiesHand, PullTypes
  <2>2. Append(Tail(queue), hand[r]) \in Seq(Sample)
    BY <2>1, AppendProperties
  <2>3. lost' \in [Pull!LossReasons -> SUBSET Sample]
    BY <1>0, <1>9, <2>1 DEF Replaces, Pull!Lose
  <2>4. dropped' \in Nat
    BY <1>0, <1>9 DEF Replaces
  <2> QED
    BY <1>9, <2>2, <2>3, <2>4 DEF Replaces, EmptiesHand, PullTypes
<1> QED
  BY <1>2, <1>3, <1>4, <1>5, <1>6, <1>7, <1>8, <1>9 DEF Effect

\* The types of the whole stub backend.
StubTypes == OwnedInv /\ TaskInv /\ PullTypes

LEMMA StubTypesInductive ==
    /\ Init => StubTypes
    /\ StubTypes /\ [Next]_vars => StubTypes'
<1>1. Init => StubTypes
  BY InitOwned, InitTask, InitPull DEF StubTypes
<1>2. ASSUME StubTypes, [Next]_vars PROVE StubTypes'
  <2>1. OwnedInv'
    BY <1>2, NextOwned DEF StubTypes
  <2>2. PullTypes'
    BY <1>2, StepEffect, EffectTypes DEF StubTypes
  <2>3. TaskInv'
    BY <1>2, <2>1, NextTask DEF StubTypes, OwnedInv
  <2> QED
    BY <2>1, <2>2, <2>3 DEF StubTypes
<1> QED
  BY <1>1, <1>2

\* Whatever receive calls, tasks and registrations do, every variable keeps its
\* type: a task has a sample exactly while it looks for listeners, and deliveries
\* exactly while it makes them.
THEOREM TypeCorrect == Spec => []TypeOK
<1>1. ASSUME StubTypes PROVE TypeOK
  <2>1. \A t \in Tasks : probe[t] # NoSample <=> probe[t] \in Sample
    BY <1>1, AbsenceAssumption DEF StubTypes, TaskInv, PushTypes
  <2> QED
    BY <1>1, <2>1 DEF StubTypes, OwnedInv, OwnedTypes, TaskInv, PushTypes, InUse, PullTypes,
                      RunPlaces, TypeOK
<1> QED
  BY <1>1, StubTypesInductive, PTL DEF Spec

-----------------------------------------------------------------------------
(* Each sample is in one place *)

LEMMA WhereValues ==
    ASSUME PullTypes, taken \in SUBSET Sample
    PROVE  /\ Where \in [Places -> SUBSET Sample]
           /\ Where["pending"] = ToSet(pending) /\ Where["queue"] = ToSet(queue)
           /\ Where["hand"] = InHand /\ Where["delivered"] = delivered
           /\ Where["taken"] = taken
           /\ \A reason \in Pull!LossReasons : Where[reason] = lost[reason]
<1>1. ToSet(pending) \in SUBSET Sample /\ ToSet(queue) \in SUBSET Sample
  BY ElementsOf DEF PullTypes
<1>2. InHand \in SUBSET Sample
  BY DEF PullTypes, InHand, Holding
<1>3. \A p \in Places :
         \/ p \in {"pending", "queue", "hand", "delivered", "taken"}
         \/ lost[p] \in SUBSET Sample
  BY DEF PullTypes, Places
<1>4. Where \in [Places -> SUBSET Sample]
  BY <1>1, <1>2, <1>3 DEF Where, PullTypes
<1> QED
  BY <1>4 DEF Where, Places, Pull!LossReasons

\* To know where the samples are after a step is to know it for each place.
LEMMA WhereNext ==
    ASSUME NEW C \in [Places -> SUBSET Sample],
           C["pending"] = ToSet(pending)', C["queue"] = ToSet(queue)',
           C["hand"] = InHand', C["delivered"] = delivered', C["taken"] = taken',
           \A reason \in Pull!LossReasons : C[reason] = lost'[reason]
    PROVE  Where' = C
<1>1. ASSUME NEW p \in Places PROVE Where'[p] = C[p]
  BY DEF Where, Places, Pull!LossReasons
<1>2. Where' = [p \in Places |-> Where'[p]] /\ C = [p \in Places |-> C[p]]
  BY DEF Where
<1> QED
  BY <1>1, <1>2

\* The samples in hand when a call takes one, and when it gives up what it has.
LEMMA HandTakes ==
    ASSUME PullTypes, HandsDiffer, NEW r \in Receivers, hand[r] = NoSample,
           NEW s \in Sample, s \notin InHand, hand' = [hand EXCEPT ![r] = s]
    PROVE  InHand' = InHand \cup {s} /\ HandsDiffer'
<1>1. s # NoSample
  BY AbsenceAssumption
<1>2. /\ \A q \in Receivers : hand'[q] = IF q = r THEN s ELSE hand[q]
      /\ Holding' = Holding \cup {r} /\ r \notin Holding
  BY <1>1 DEF Holding, PullTypes
<1>3. Holding \subseteq Receivers
  BY DEF Holding
<1> QED
  BY <1>2, <1>3 DEF InHand, HandsDiffer

LEMMA HandGives ==
    ASSUME PullTypes, HandsDiffer, NEW r \in Receivers, EmptiesHand(r)
    PROVE  /\ InHand' = InHand \ {hand[r]} /\ HandsDiffer'
           /\ hand[r] \in InHand /\ hand[r] \in Sample
<1>1. /\ \A q \in Receivers : hand'[q] = IF q = r THEN NoSample ELSE hand[q]
      /\ Holding' = Holding \ {r} /\ r \in Holding
  BY DEF Holding, PullTypes, EmptiesHand
<1>2. Holding \subseteq Receivers /\ \A q \in Holding : hand[q] # NoSample
  BY DEF Holding
<1>3. hand[r] \in Sample
  BY DEF PullTypes, EmptiesHand
<1> QED
  BY <1>1, <1>2, <1>3 DEF InHand, HandsDiffer

LEMMA HandStays ==
    ASSUME HandsDiffer, hand' = hand
    PROVE  InHand' = InHand /\ HandsDiffer'
BY DEF InHand, HandsDiffer, Holding

\* A sample is sent.
LEMMA SendFate ==
    ASSUME PullTypes, taken \in SUBSET Sample, FateInv, NEW s, Sends(s)
    PROVE  FateInv'
<1> DEFINE C == Put(Where, "pending", s)
<1>1. /\ s \in Sample /\ s.id = sent + 1 /\ sent \in Nat /\ sent' = sent + 1
      /\ pending' = Append(pending, s)
      /\ UNCHANGED <<hand, queue, delivered, lost, taken>>
  BY ConstantsAssumption DEF Sends, PullTypes
<1>2. InHand' = InHand /\ HandsDiffer'
  BY <1>1, HandStays DEF FateInv
<1>3. "pending" \in Places
  BY DEF Places
<1>4. s \notin ToSet(pending)
  <2>1. \A u \in Where["pending"] : u.id \in 1..sent
    BY <1>3 DEF FateInv, Apart
  <2> QED
    BY <1>1, <2>1, WhereValues
<1>5. ToSet(pending)' = ToSet(pending) \cup {s} /\ IsInjective(pending)'
  <2>1. pending \in Seq(Sample) /\ IsInjective(pending)
    BY DEF PullTypes, FateInv
  <2>2. /\ ToSet(Append(pending, s)) = ToSet(pending) \cup {s}
        /\ IsInjective(Append(pending, s))
    BY <1>1, <1>4, <2>1, AppendElements
  <2> QED
    BY <1>1, <2>2
<1>6. C \in [Places -> SUBSET Sample] /\ Apart(Places, C, sent + 1)
  BY <1>1, <1>3, PutApart, WhereValues DEF FateInv
<1>7. Where' = C
  <2>1. /\ C["pending"] = ToSet(pending)' /\ C["queue"] = ToSet(queue)'
        /\ C["hand"] = InHand' /\ C["delivered"] = delivered' /\ C["taken"] = taken'
        /\ \A reason \in Pull!LossReasons : C[reason] = lost'[reason]
    BY <1>1, <1>2, <1>3, <1>5, WhereValues DEF Put, Places, Pull!LossReasons
  <2> HIDE DEF C
  <2> QED
    BY <1>6, <2>1, WhereNext
<1> QED
  BY <1>1, <1>2, <1>5, <1>6, <1>7 DEF FateInv

\* The first sample of the queue goes to a call, the application, or a task.
LEMMA FirstFate ==
    ASSUME PullTypes, taken \in SUBSET Sample, FateInv, TakesFirst,
           HandsDiffer', NEW q \in {"hand", "delivered", "taken"},
           InHand' = IF q = "hand" THEN InHand \cup {Head(pending)} ELSE InHand,
           delivered' = IF q = "delivered" THEN delivered \cup {Head(pending)} ELSE delivered,
           taken' = IF q = "taken" THEN taken \cup {Head(pending)} ELSE taken
    PROVE  FateInv'
<1> DEFINE s == Head(pending)
           C == Move(Where, "pending", q, s)
<1>1. /\ s \in ToSet(pending) /\ ToSet(pending)' = ToSet(pending) \ {s}
      /\ IsInjective(pending)' /\ UNCHANGED <<sent, queue, lost>>
  BY TailElements DEF PullTypes, FateInv, TakesFirst
<1>2. /\ "pending" \in Places /\ q \in Places /\ q # "pending"
      /\ s \in Where["pending"] /\ sent \in Nat
  BY <1>1, WhereValues, ConstantsAssumption DEF Places, PullTypes
<1>3. C \in [Places -> SUBSET Sample] /\ Apart(Places, C, sent)
  BY <1>2, MoveApart, WhereValues DEF FateInv
<1>4. Where' = C
  <2>1. /\ C["pending"] = ToSet(pending)' /\ C["queue"] = ToSet(queue)'
        /\ C["hand"] = InHand' /\ C["delivered"] = delivered' /\ C["taken"] = taken'
        /\ \A reason \in Pull!LossReasons : C[reason] = lost'[reason]
    BY <1>1, WhereValues DEF Move, Places, Pull!LossReasons
  <2> HIDE DEF C
  <2> QED
    BY <1>3, <2>1, WhereNext
<1> QED
  BY <1>1, <1>3, <1>4 DEF FateInv

\* A retained sample is returned.
LEMMA QueueFate ==
    ASSUME PullTypes, taken \in SUBSET Sample, FateInv, NEW i, FromQueue(i)
    PROVE  FateInv'
<1> DEFINE s == queue[i]
           C == Move(Where, "queue", "delivered", s)
<1>1. queue \in Seq(Sample) /\ IsInjective(queue) /\ i \in 1..Len(queue)
  BY DEF PullTypes, FateInv, FromQueue
<1>2. /\ s \in ToSet(queue) /\ ToSet(queue)' = ToSet(queue) \ {s}
      /\ IsInjective(queue)'
  BY <1>1, RemoveAtElements, ElementsOf DEF FromQueue
<1>3. /\ "queue" \in Places /\ "delivered" \in Places /\ s \in Where["queue"]
      /\ sent \in Nat
  BY <1>2, WhereValues, ConstantsAssumption DEF Places, PullTypes
<1>4. C \in [Places -> SUBSET Sample] /\ Apart(Places, C, sent)
  BY <1>3, MoveApart, WhereValues DEF FateInv
<1>5. /\ InHand' = InHand /\ HandsDiffer' /\ delivered' = delivered \cup {s}
      /\ UNCHANGED <<sent, pending, lost, taken>>
  BY HandStays DEF FateInv, FromQueue
<1>6. Where' = C
  <2>1. /\ C["pending"] = ToSet(pending)' /\ C["queue"] = ToSet(queue)'
        /\ C["hand"] = InHand' /\ C["delivered"] = delivered' /\ C["taken"] = taken'
        /\ \A reason \in Pull!LossReasons : C[reason] = lost'[reason]
    BY <1>2, <1>5, WhereValues DEF Move, Places, Pull!LossReasons
  <2> HIDE DEF C
  <2> QED
    BY <1>4, <2>1, WhereNext
<1> QED
  BY <1>2, <1>4, <1>5, <1>6 DEF FateInv

\* A call gives up the sample it has, which is lost.
LEMMA LoseFate ==
    ASSUME PullTypes, taken \in SUBSET Sample, FateInv, NEW r \in Receivers,
           NEW reason \in Pull!LossReasons, Loses(r, reason)
    PROVE  FateInv'
<1> DEFINE s == hand[r]
           C == Move(Where, "hand", reason, s)
<1>1. /\ InHand' = InHand \ {s} /\ s \in InHand /\ HandsDiffer'
      /\ UNCHANGED <<sent, pending, queue, delivered, taken>> /\ Pull!Lose(reason, s)
  BY HandGives DEF FateInv, Loses, EmptiesHand
<1>2. /\ "hand" \in Places /\ reason \in Places /\ "hand" # reason
      /\ s \in Where["hand"] /\ sent \in Nat
  BY <1>1, WhereValues, ConstantsAssumption DEF Places, Pull!LossReasons, PullTypes
<1>3. C \in [Places -> SUBSET Sample] /\ Apart(Places, C, sent)
  BY <1>2, MoveApart, WhereValues DEF FateInv
<1>4. Where' = C
  <2>1. /\ C["pending"] = ToSet(pending)' /\ C["queue"] = ToSet(queue)'
        /\ C["hand"] = InHand' /\ C["delivered"] = delivered' /\ C["taken"] = taken'
    BY <1>1, WhereValues DEF Move, Places, Pull!LossReasons
  <2>2. \A q \in Pull!LossReasons : C[q] = lost'[q]
    BY <1>1, WhereValues DEF Move, Places, Pull!LossReasons, Pull!Lose, PullTypes
  <2> HIDE DEF C
  <2> QED
    BY <1>3, <2>1, <2>2, WhereNext
<1> QED
  BY <1>1, <1>3, <1>4 DEF FateInv

\* A call retains the sample it has.
LEMMA RetainFate ==
    ASSUME PullTypes, taken \in SUBSET Sample, FateInv, NEW r \in Receivers, Retains(r)
    PROVE  FateInv'
<1> DEFINE s == hand[r]
           C == Move(Where, "hand", "queue", s)
<1>1. /\ InHand' = InHand \ {s} /\ s \in InHand /\ s \in Sample /\ HandsDiffer'
      /\ UNCHANGED <<sent, pending, delivered, taken, lost>> /\ queue' = Append(queue, s)
  BY HandGives DEF FateInv, Retains, EmptiesHand
<1>2. /\ "hand" \in Places /\ "queue" \in Places
      /\ s \in Where["hand"] /\ sent \in Nat
  BY <1>1, WhereValues, ConstantsAssumption DEF Places, PullTypes
<1>3. C \in [Places -> SUBSET Sample] /\ Apart(Places, C, sent)
  BY <1>2, MoveApart, WhereValues DEF FateInv
<1>4. ToSet(queue)' = ToSet(queue) \cup {s} /\ IsInjective(queue)'
  <2>1. s \notin Where["queue"]
    BY <1>2 DEF FateInv, Apart
  <2>2. queue \in Seq(Sample) /\ IsInjective(queue) /\ s \notin ToSet(queue)
    BY <2>1, WhereValues DEF PullTypes, FateInv
  <2> QED
    BY <1>1, <2>2, AppendElements
<1>5. Where' = C
  <2>1. /\ C["pending"] = ToSet(pending)' /\ C["queue"] = ToSet(queue)'
        /\ C["hand"] = InHand' /\ C["delivered"] = delivered' /\ C["taken"] = taken'
        /\ \A reason \in Pull!LossReasons : C[reason] = lost'[reason]
    BY <1>1, <1>4, WhereValues DEF Move, Places, Pull!LossReasons
  <2> HIDE DEF C
  <2> QED
    BY <1>3, <2>1, WhereNext
<1> QED
  BY <1>1, <1>3, <1>4, <1>5 DEF FateInv

\* A call retains the sample it has in the place of the oldest.
LEMMA ReplaceFate ==
    ASSUME PullTypes, taken \in SUBSET Sample, FateInv, NEW r \in Receivers, Replaces(r)
    PROVE  FateInv'
<1> DEFINE s == hand[r]
           h == Head(queue)
           rest == Tail(queue)
           B == Move(Where, "queue", "dropped", h)
           C == Move(B, "hand", "queue", s)
<1>1. /\ InHand' = InHand \ {s} /\ s \in InHand /\ s \in Sample /\ HandsDiffer'
      /\ UNCHANGED <<sent, pending, delivered, taken>>
      /\ queue # <<>> /\ queue' = Append(rest, s) /\ Pull!Lose("dropped", h)
  BY HandGives DEF FateInv, Replaces, EmptiesHand
<1>2. /\ queue \in Seq(Sample) /\ IsInjective(queue) /\ rest \in Seq(Sample)
      /\ h \in ToSet(queue) /\ ToSet(rest) = ToSet(queue) \ {h} /\ IsInjective(rest)
  BY <1>1, TailElements, HeadTailProperties DEF PullTypes, FateInv
<1>3. /\ "hand" \in Places /\ "queue" \in Places /\ "dropped" \in Places
      /\ "dropped" \in Pull!LossReasons /\ sent \in Nat
      /\ s \in Where["hand"] /\ h \in Where["queue"] /\ s \notin Where["queue"]
  <2>1. /\ "hand" \in Places /\ "queue" \in Places /\ "dropped" \in Places
        /\ "dropped" \in Pull!LossReasons
    BY DEF Places, Pull!LossReasons
  <2>2. s \in Where["hand"] /\ h \in Where["queue"]
    BY <1>1, <1>2, WhereValues
  <2> QED
    BY <2>1, <2>2, ConstantsAssumption DEF FateInv, Apart, PullTypes
<1>4. B \in [Places -> SUBSET Sample] /\ Apart(Places, B, sent)
  BY <1>3, MoveApart, WhereValues DEF FateInv
<1>5. s \in B["hand"]
  BY <1>3, WhereValues DEF Move
<1>6. C \in [Places -> SUBSET Sample] /\ Apart(Places, C, sent)
  <2> HIDE DEF B
  <2> QED
    BY <1>3, <1>4, <1>5, MoveApart
<1>7. ToSet(queue)' = (ToSet(queue) \ {h}) \cup {s} /\ IsInjective(queue)'
  <2>1. s \notin ToSet(rest)
    BY <1>2, <1>3, WhereValues
  <2> HIDE DEF rest, s
  <2>2. ToSet(Append(rest, s)) = ToSet(rest) \cup {s} /\ IsInjective(Append(rest, s))
    BY <1>1, <1>2, <2>1, AppendElements
  <2> QED
    BY <1>1, <1>2, <2>2
<1>8. Where' = C
  <2>1. /\ C["pending"] = ToSet(pending)' /\ C["queue"] = ToSet(queue)'
        /\ C["hand"] = InHand' /\ C["delivered"] = delivered' /\ C["taken"] = taken'
    BY <1>1, <1>3, <1>7, WhereValues DEF Move, Places, Pull!LossReasons
  <2>2. \A reason \in Pull!LossReasons : C[reason] = lost'[reason]
    BY <1>1, <1>3, WhereValues DEF Move, Places, Pull!LossReasons, Pull!Lose, PullTypes
  <2> HIDE DEF C
  <2> QED
    BY <1>6, <2>1, <2>2, WhereNext
<1> QED
  BY <1>1, <1>6, <1>7, <1>8 DEF FateInv

LEMMA InitFate == Init => FateInv
<1> SUFFICES ASSUME Init PROVE FateInv
  OBVIOUS
<1>1. pending = <<>> /\ queue = <<>> /\ sent = 0
  BY DEF Init, Pull!Init
<1>2. ToSet(pending) = {} /\ ToSet(queue) = {} /\ IsInjective(pending) /\ IsInjective(queue)
  BY <1>1, EmptyElements
<1>3. Holding = {} /\ InHand = {}
  BY DEF Init, Pull!Init, Holding, InHand
<1>4. \A p \in Places : Where[p] = {}
  BY <1>2, <1>3 DEF Init, Pull!Init, Where, Places
<1> QED
  BY <1>1, <1>2, <1>3, <1>4 DEF FateInv, Apart, HandsDiffer

\* Every effect keeps each sample in one place.
LEMMA EffectFate ==
    ASSUME PullTypes, taken \in SUBSET Sample, FateInv, Effect
    PROVE  FateInv'
<1>1. CASE Still
  <2>1. InHand' = InHand /\ HandsDiffer'
    BY <1>1, HandStays DEF Still, FateInv
  <2>2. Where' = Where
    BY <1>1, <2>1 DEF Still, Where
  <2> QED
    BY <1>1, <2>1, <2>2 DEF Still, FateInv
<1>2. CASE ToApplication
  <2>1. InHand' = InHand /\ HandsDiffer'
    BY <1>2, HandStays DEF ToApplication, FateInv
  <2> QED
    BY <1>2, <2>1, FirstFate DEF ToApplication
<1>3. CASE ToTask
  <2>1. InHand' = InHand /\ HandsDiffer'
    BY <1>3, HandStays DEF ToTask, FateInv
  <2> QED
    BY <1>3, <2>1, FirstFate DEF ToTask
<1>4. ASSUME NEW r \in Receivers, ToCall(r) PROVE FateInv'
  <2>1. Head(pending) \in Sample /\ Head(pending) \in ToSet(pending)
    BY <1>4, FirstIsSample, TailElements DEF ToCall, TakesFirst, PullTypes
  <2>2. Head(pending) \notin InHand
    BY <2>1, WhereValues DEF FateInv, Apart, Places
  <2>3. InHand' = InHand \cup {Head(pending)} /\ HandsDiffer'
    BY <1>4, <2>1, <2>2, HandTakes DEF ToCall, FateInv
  <2> QED
    BY <1>4, <2>3, FirstFate DEF ToCall
<1> QED
  BY <1>1, <1>2, <1>3, <1>4, SendFate, QueueFate, LoseFate, RetainFate, ReplaceFate DEF Effect

-----------------------------------------------------------------------------
(* The counters *)

\* Counting one more lost sample keeps a counter exact.
LEMMA CountOne ==
    ASSUME NEW S, IsFiniteSet(S), NEW s, s \notin S
    PROVE  /\ IsFiniteSet(S \cup {s})
           /\ Pull!SaturatingInc(Pull!Saturated(Cardinality(S)))
                 = Pull!Saturated(Cardinality(S \cup {s}))
<1>1. /\ IsFiniteSet(S \cup {s}) /\ Cardinality(S \cup {s}) = Cardinality(S) + 1
      /\ Cardinality(S) \in Nat
  BY FS_AddElement, FS_CardinalityType
<1> QED
  BY <1>1, ConstantsAssumption DEF Pull!SaturatingInc, Pull!Saturated

\* A sample in hand or retained is not counted yet.
LEMMA NotLostYet ==
    ASSUME PullTypes, taken \in SUBSET Sample, FateInv,
           NEW s \in InHand \cup ToSet(queue), NEW reason \in Pull!LossReasons
    PROVE  s \notin lost[reason]
<1>1. /\ "hand" \in Places /\ "queue" \in Places /\ reason \in Places
      /\ reason # "hand" /\ reason # "queue"
  BY DEF Places, Pull!LossReasons
<1> QED
  BY <1>1, WhereValues DEF FateInv, Apart

LEMMA InitCount == Init => CountInv
<1> SUFFICES ASSUME Init PROVE CountInv
  OBVIOUS
<1>1. Cardinality({}) = 0 /\ IsFiniteSet({}) /\ Len(queue) = 0
  BY FS_EmptySet, EmptySeq DEF Init, Pull!Init
<1> QED
  BY <1>1, ConstantsAssumption DEF Init, Pull!Init, CountInv, Pull!LossReasons, Pull!Saturated

\* What is dropped or rejected is counted, and nothing else.
LEMMA EffectCount ==
    ASSUME PullTypes, taken \in SUBSET Sample, FateInv, CountInv, Effect
    PROVE  CountInv'
<1>0. /\ "dropped" \in Pull!LossReasons /\ "rejected" \in Pull!LossReasons
      /\ queue \in Seq(Sample) /\ Len(queue) \in Nat /\ Len(queue) <= Capacity
      /\ Capacity \in Nat
  BY ConstantsAssumption, LenProperties DEF Pull!LossReasons, PullTypes, CountInv
<1>1. ASSUME NEW s, s \notin lost["dropped"], Pull!Lose("dropped", s),
             dropped' = Pull!SaturatingInc(dropped), rejected' = rejected,
             Len(queue') <= Capacity
      PROVE  CountInv'
  <2>1. lost'["dropped"] = lost["dropped"] \cup {s} /\ lost'["rejected"] = lost["rejected"]
    BY <1>0, <1>1 DEF Pull!Lose, PullTypes
  <2>2. /\ IsFiniteSet(lost["dropped"] \cup {s})
        /\ Pull!SaturatingInc(dropped)
              = Pull!Saturated(Cardinality(lost["dropped"] \cup {s}))
    BY <1>1, CountOne DEF CountInv
  <2> QED
    BY <1>1, <2>1, <2>2 DEF CountInv
<1>2. ASSUME NEW s, s \notin lost["rejected"], Pull!Lose("rejected", s),
             rejected' = Pull!SaturatingInc(rejected), dropped' = dropped,
             Len(queue') <= Capacity
      PROVE  CountInv'
  <2>1. lost'["rejected"] = lost["rejected"] \cup {s} /\ lost'["dropped"] = lost["dropped"]
    BY <1>0, <1>2 DEF Pull!Lose, PullTypes
  <2>2. /\ IsFiniteSet(lost["rejected"] \cup {s})
        /\ Pull!SaturatingInc(rejected)
              = Pull!Saturated(Cardinality(lost["rejected"] \cup {s}))
    BY <1>2, CountOne DEF CountInv
  <2> QED
    BY <1>2, <2>1, <2>2 DEF CountInv
<1>3. ASSUME UNCHANGED <<dropped, rejected, lost>>, Len(queue') <= Capacity PROVE CountInv'
  BY <1>3 DEF CountInv
<1>4. CASE Still \/ ToApplication \/ ToTask
  BY <1>0, <1>3, <1>4 DEF Still, ToApplication, ToTask, TakesFirst
<1>5. ASSUME NEW s, Sends(s) PROVE CountInv'
  BY <1>0, <1>3, <1>5 DEF Sends
<1>6. ASSUME NEW i, FromQueue(i) PROVE CountInv'
  <2>1. Len(queue') = Len(queue) - 1
    BY <1>0, <1>6, RemoveAtProperties DEF FromQueue
  <2> QED
    BY <1>0, <1>3, <1>6, <2>1 DEF FromQueue
<1>7. ASSUME NEW r \in Receivers, ToCall(r) PROVE CountInv'
  BY <1>0, <1>3, <1>7 DEF ToCall, TakesFirst
<1>8. ASSUME NEW r \in Receivers, Retains(r) PROVE CountInv'
  <2>1. Len(queue') = Len(queue) + 1
    <3>1. hand[r] \in Sample
      BY <1>8, HandGives DEF Retains, FateInv
    <3> QED
      BY <1>0, <1>8, <3>1, AppendProperties DEF Retains
  <2> QED
    BY <1>0, <1>3, <1>8, <2>1 DEF Retains
<1>9. ASSUME NEW r \in Receivers, Replaces(r) PROVE CountInv'
  <2>1. Head(queue) \in ToSet(queue)
    BY <1>0, <1>9, TailElements DEF Replaces
  <2>2. Len(queue') = Len(queue)
    <3>1. hand[r] \in Sample
      BY <1>9, HandGives DEF Replaces, FateInv
    <3>2. Tail(queue) \in Seq(Sample) /\ Len(Tail(queue)) = Len(queue) - 1
      BY <1>0, <1>9, HeadTailProperties DEF Replaces
    <3> QED
      BY <1>0, <1>9, <3>1, <3>2, AppendProperties DEF Replaces
  <2> QED
    BY <1>0, <1>1, <1>9, <2>1, <2>2, NotLostYet DEF Replaces
<1>10. ASSUME NEW r \in Receivers, NEW reason \in Pull!LossReasons, Loses(r, reason)
       PROVE  CountInv'
  <2>1. hand[r] \in InHand /\ queue' = queue /\ Pull!Lose(reason, hand[r])
    BY <1>10, HandGives DEF Loses, FateInv
  <2>2. CASE reason = "dropped"
    BY <1>0, <1>1, <1>10, <2>1, <2>2, NotLostYet DEF Loses
  <2>3. CASE reason = "rejected"
    BY <1>0, <1>2, <1>10, <2>1, <2>3, NotLostYet DEF Loses
  <2>4. CASE reason # "dropped" /\ reason # "rejected"
    <3>1. lost'["dropped"] = lost["dropped"] /\ lost'["rejected"] = lost["rejected"]
      BY <1>0, <2>1, <2>4 DEF Pull!Lose, PullTypes
    <3>2. UNCHANGED <<dropped, rejected>>
      BY <1>10, <2>4 DEF Loses
    <3> QED
      BY <1>0, <2>1, <3>1, <3>2 DEF CountInv
  <2> QED
    BY <2>2, <2>3, <2>4
<1> QED
  BY <1>4, <1>5, <1>6, <1>7, <1>8, <1>9, <1>10 DEF Effect

SampleInv == StubTypes /\ FateInv /\ CountInv

LEMMA SampleInductive ==
    /\ Init => SampleInv
    /\ SampleInv /\ [Next]_vars => SampleInv'
<1>1. Init => SampleInv
  BY StubTypesInductive, InitFate, InitCount DEF SampleInv
<1>2. ASSUME SampleInv, [Next]_vars PROVE SampleInv'
  <2>1. StubTypes' /\ PullTypes /\ taken \in SUBSET Sample
    BY <1>2, StubTypesInductive DEF SampleInv, StubTypes, TaskInv, PushTypes
  <2>2. Effect
    BY <1>2, <2>1, StepEffect
  <2>3. FateInv'
    BY <1>2, <2>1, <2>2, EffectFate DEF SampleInv
  <2>4. CountInv'
    BY <1>2, <2>1, <2>2, EffectCount DEF SampleInv
  <2> QED
    BY <2>1, <2>3, <2>4 DEF SampleInv
<1> QED
  BY <1>1, <1>2

\* The counters of the mismatch queue always tell how many samples were dropped
\* and how many rejected, up to saturation, and the queue keeps to its capacity,
\* though receive calls and listener tasks take from the same samples: for every
\* capacity, policy, and number of calls, tasks and samples.  (queue_pull_sample.)
THEOREM StubCountersTellTheTruth == Spec => []DiagnosticsAreExact
<1>1. SampleInv => DiagnosticsAreExact
  <2>1. \A S : Pull!Cardinality(S) = Cardinality(S)
    BY DEF Pull!Cardinality, Cardinality
  <2> QED
    BY <2>1 DEF SampleInv, CountInv, DiagnosticsAreExact, Pull!DiagnosticsAreExact
<1> QED
  BY <1>1, SampleInductive, PTL DEF Spec

\* The name that Takers gives to a place.
Taker(p) == IF p \in Pull!LossReasons THEN "lost" ELSE p

\* The place of a sample is its only taker.
LEMMA OneTaker ==
    ASSUME StubTypes, FateInv, NEW n \in 1..sent
    PROVE  Cardinality(Takers(n)) = 1
<1>1. PullTypes /\ taken \in SUBSET Sample
  BY DEF StubTypes, TaskInv, PushTypes
<1>2. DOMAIN lost = Pull!LossReasons /\ {hand[r] : r \in Receivers} \ {NoSample} = InHand
  BY <1>1 DEF PullTypes, InHand, Holding
<1>3. PICK p \in Places : \E s \in Where[p] : s.id = n
  BY DEF FateInv, Apart
<1>4. \A q \in Places : (\E s \in Where[q] : s.id = n) => q = p
  BY <1>3 DEF FateInv, Apart
<1>5. \A x : x \in Takers(n) <=> \E q \in Places : x = Taker(q) /\ \E s \in Where[q] : s.id = n
  <2>1. ASSUME NEW x, x \in Takers(n)
        PROVE  \E q \in Places : x = Taker(q) /\ \E s \in Where[q] : s.id = n
    <3>1. CASE x # "lost"
      BY <1>1, <1>2, <2>1, <3>1, WhereValues DEF Takers, Places, Taker, Pull!LossReasons
    <3>2. CASE x = "lost"
      <4>1. PICK reason \in Pull!LossReasons : \E s \in lost[reason] : s.id = n
        BY <1>2, <2>1, <3>2 DEF Takers
      <4> QED
        BY <1>1, <3>2, <4>1, WhereValues DEF Places, Taker
    <3> QED
      BY <3>1, <3>2
  <2>2. ASSUME NEW q \in Places, \E s \in Where[q] : s.id = n PROVE Taker(q) \in Takers(n)
    <3>1. CASE q \in Pull!LossReasons
      <4>1. \E s \in UNION {lost[reason] : reason \in DOMAIN lost} : s.id = n
        BY <1>1, <1>2, <2>2, <3>1, WhereValues
      <4> QED
        BY <3>1, <4>1 DEF Takers, Taker
    <3>2. CASE q \notin Pull!LossReasons
      BY <1>1, <1>2, <2>2, <3>2, WhereValues DEF Takers, Places, Taker
    <3> QED
      BY <3>1, <3>2
  <2> QED
    BY <2>1, <2>2
<1>6. Takers(n) = {Taker(p)}
  BY <1>3, <1>4, <1>5
<1> QED
  BY <1>6, FS_Singleton

-----------------------------------------------------------------------------
(* Samples are taken in order *)

LEMMA IdIsNat == \A s \in Sample : s.id \in Nat
BY DEF Sample

LEMMA InitTaken == Init => TakenInOrder
<1>1. ToSet(<<>>) = {} /\ Ordered(<<>>)
  BY EmptyElements, EmptyOrdered
<1> QED
  BY <1>1 DEF Init, Pull!Init, TakenInOrder

\* A sample that is sent is newer than all; the first of the queue is the oldest.
LEMMA EffectTaken ==
    ASSUME PullTypes, taken \in SUBSET Sample, FateInv, TakenInOrder, Effect
    PROVE  TakenInOrder'
<1>0. /\ pending \in Seq(Sample) /\ ToSet(pending) \in SUBSET Sample
      /\ \A s \in ToSet(pending) \cup taken : s.id \in 1..sent
  <2>1. \A s \in Where["pending"] \cup Where["taken"] : s.id \in 1..sent
    BY DEF FateInv, Apart, Places
  <2> QED
    BY <2>1, WhereValues, ElementsOf DEF PullTypes
<1>1. ASSUME UNCHANGED <<pending, taken>> PROVE TakenInOrder'
  BY <1>1 DEF TakenInOrder
<1>2. ASSUME NEW s, Sends(s) PROVE TakenInOrder'
  <2>1. /\ s \in Sample /\ s.id = sent + 1 /\ sent \in Nat
        /\ pending' = Append(pending, s) /\ taken' = taken
    BY <1>2, ConstantsAssumption DEF Sends, PullTypes
  <2>2. \A u \in ToSet(pending) \cup taken : u.id < s.id
    BY <1>0, <2>1
  <2>3. Ordered(Append(pending, s)) /\ ToSet(Append(pending, s)) = ToSet(pending) \cup {s}
    BY <1>0, <2>1, <2>2, AppendOrdered, AppendElements, IdIsNat DEF TakenInOrder
  <2> QED
    BY <2>1, <2>2, <2>3 DEF TakenInOrder
<1>3. ASSUME TakesFirst, taken' \in {taken, taken \cup {Head(pending)}} PROVE TakenInOrder'
  <2>1. /\ Ordered(Tail(pending)) /\ \A u \in ToSet(Tail(pending)) : Head(pending).id < u.id
    BY <1>0, <1>3, TailOrdered, IdIsNat DEF TakenInOrder, TakesFirst
  <2>2. ToSet(Tail(pending)) \subseteq ToSet(pending)
    BY <1>0, <1>3, TailElements DEF TakesFirst
  <2> QED
    BY <1>3, <2>1, <2>2 DEF TakenInOrder, TakesFirst
<1> QED
  BY <1>1, <1>2, <1>3 DEF Effect, Still, ToApplication, ToTask, ToCall, FromQueue, Loses,
                          Retains, Replaces, EmptiesHand

-----------------------------------------------------------------------------
(* What registrations are given *)

LEMMA PushElements ==
    ASSUME PushTypes
    PROVE  /\ \A t \in Tasks : /\ batch[t] \in Seq(Delivery)
                               /\ \A d \in ToSet(batch[t]) : d.reg \in Tasks /\ d.sample \in Sample
           /\ \A n \in Tasks : /\ received[n] \in Seq(Given1)
                               /\ \A g \in ToSet(received[n]) : g.sample \in Sample
<1>1. \A t \in Tasks : batch[t] \in Seq(Delivery) /\ ToSet(batch[t]) \in SUBSET Delivery
  BY ElementsOf DEF PushTypes
<1>2. \A n \in Tasks : received[n] \in Seq(Given1) /\ ToSet(received[n]) \in SUBSET Given1
  BY ElementsOf DEF PushTypes
<1> QED
  BY <1>1, <1>2 DEF Delivery, Given1

LEMMA InitPush == Init => PushInv
<1> SUFFICES ASSUME Init PROVE PushInv
  OBVIOUS
<1>1. /\ \A t \in Tasks : probe[t] = NoSample /\ batch[t] = <<>>
      /\ \A n \in Tasks : received[n] = <<>>
  BY DEF Init, Dispatch!Init, Dispatch!Tasks, Dispatch!Regs, Tasks
<1>2. ToSet(<<>>) = {} /\ Len(<<>>) = 0
  BY EmptyElements, EmptySeq
<1>3. \A t \in Tasks : CarriedBy(t) = {}
  BY <1>1, <1>2 DEF CarriedBy
<1>4. CarriedOnce /\ BatchOnce
  BY <1>1, <1>2, <1>3 DEF CarriedOnce, BatchOnce
<1>5. MatchInv /\ CarriedIsNew /\ LateIsOver /\ GivenInOrder
  BY <1>1, <1>2 DEF MatchInv, CarriedIsNew, LateIsOver, GivenInOrder
<1> QED
  BY <1>4, <1>5 DEF PushInv

\* A step that gives nobody a sample and at most drops what a task carries.
LEMMA PushKept ==
    ASSUME PushInv, regs \in Nat, received' = received, taken' = taken,
           \A t \in Tasks : /\ probe'[t] = probe[t] \/ probe'[t] = NoSample
                            /\ batch'[t] = batch[t] \/ batch'[t] = <<>>,
           \A n \in Tasks : \A s : For(n, s) => For(n, s)',
           \A t \in Tasks : \A d \in ToSet(batch[t]) : d.reg \in Tasks,
           \A n \in ToSet(listeners)' : n \in ToSet(listeners) \/ n > regs
    PROVE  PushInv'
<1>1. /\ ToSet(<<>>) = {} /\ Len(<<>>) = 0
      /\ \A t \in Tasks : ToSet(batch[t])' \subseteq ToSet(batch[t])
  BY EmptyElements, EmptySeq
<1>2. \A t \in Tasks : CarriedBy(t)' \subseteq CarriedBy(t)
  BY <1>1 DEF CarriedBy
<1>3. CarriedOnce'
  BY <1>2 DEF PushInv, CarriedOnce
<1>4. BatchOnce'
  BY <1>1 DEF PushInv, BatchOnce
<1>5. MatchInv'
  BY <1>1 DEF PushInv, MatchInv
<1>6. \A t, n, s : NewFor(t, n, s)' <=> NewFor(t, n, s)
  BY DEF NewFor
<1>7. CarriedIsNew'
  BY <1>1, <1>6 DEF PushInv, CarriedIsNew
<1>8. LateIsOver'
  <2> SUFFICES ASSUME NEW n \in Tasks, NEW g \in ToSet(received[n]), g.late
               PROVE  n \notin ToSet(listeners)'
    BY DEF LateIsOver
  <2>1. n \notin ToSet(listeners) /\ n <= regs /\ n \in Nat
    BY DEF PushInv, LateIsOver, MatchInv, For, Tasks
  <2> QED
    BY <2>1
<1>9. GivenInOrder'
  BY DEF PushInv, GivenInOrder
<1> QED
  BY <1>3, <1>4, <1>5, <1>7, <1>8, <1>9 DEF PushInv

\* A task takes the first sample, which is newer than all that was ever taken.
LEMMA PopPush ==
    ASSUME StubTypes, TakenInOrder, PushInv, NEW t \in Tasks, PollPop(t)
    PROVE  PushInv'
<1> DEFINE s == Head(pending)
<1>1. /\ pc[t] = "lock" /\ pending # <<>> /\ probe' = [probe EXCEPT ![t] = s]
      /\ taken' = taken \cup {s} /\ UNCHANGED <<batch, received, registry>>
  BY DEF PollPop
<1>2. /\ PushTypes /\ PullTypes /\ s \in Sample /\ s \in ToSet(pending)
      /\ probe[t] = NoSample /\ batch[t] = <<>>
  BY <1>1, FirstIsSample, TailElements DEF StubTypes, TaskInv, InUse, PullTypes
<1>3. \A u \in taken : u.id < s.id /\ u.id \in Nat /\ s.id \in Nat
  BY <1>2, IdIsNat DEF TakenInOrder, PushTypes
<1>4. \A u \in Tasks : probe'[u] = IF u = t THEN s ELSE probe[u]
  BY <1>1, <1>2 DEF PushTypes
<1>5. /\ \A u \in Tasks : u # t => CarriedBy(u)' = CarriedBy(u)
      /\ CarriedBy(t)' \subseteq {s}
  BY <1>1, <1>2, <1>4, EmptyElements DEF CarriedBy
<1>6. CarriedOnce'
  <2>1. \A u \in Tasks : CarriedBy(u)' \subseteq taken'
    BY <1>1, <1>5 DEF PushInv, CarriedOnce
  <2>2. ASSUME NEW u \in Tasks, NEW w \in Tasks, NEW a \in CarriedBy(u)', NEW b \in CarriedBy(w)',
               a.id = b.id
        PROVE  u = w
    <3>1. /\ u # t => a \in CarriedBy(u) /\ a \in taken
          /\ w # t => b \in CarriedBy(w) /\ b \in taken
          /\ u = t => a = s
          /\ w = t => b = s
      BY <1>5 DEF PushInv, CarriedOnce
    <3> QED
      BY <1>3, <2>2, <3>1 DEF PushInv, CarriedOnce
  <2> QED
    BY <2>1, <2>2 DEF CarriedOnce
<1>7. BatchOnce' /\ GivenInOrder'
  BY <1>1 DEF PushInv, BatchOnce, GivenInOrder
<1>8. LateIsOver'
  BY <1>1 DEF PushInv, LateIsOver, registry
<1>9. MatchInv'
  BY <1>1 DEF PushInv, MatchInv, For, registry
<1>10. \A u, n, v : NewFor(u, n, v)' <=> NewFor(u, n, v)
  BY <1>1 DEF NewFor
<1>11. \A n \in Tasks : NewFor(t, n, s)
  BY <1>3 DEF NewFor, PushInv, MatchInv
<1>12. CarriedIsNew'
  BY <1>1, <1>4, <1>10, <1>11 DEF PushInv, CarriedIsNew
<1> QED
  BY <1>6, <1>7, <1>8, <1>9, <1>12 DEF PushInv

\* A task gives its sample to the registrations that match now: each once, and none
\* of them was unregistered.
LEMMA MatchPush ==
    ASSUME StubTypes, PushInv, NEW t \in Tasks, PollMatch(t)
    PROVE  PushInv'
<1> DEFINE s == probe[t]
           b == [i \in DOMAIN Matching(s) |-> [reg |-> Matching(s)[i], sample |-> s]]
<1>1. /\ pc[t] = "probe" /\ probe' = [probe EXCEPT ![t] = NoSample]
      /\ batch' = [batch EXCEPT ![t] = b]
      /\ UNCHANGED <<received, registry, taken>>
  BY DEF PollMatch
<1>2. /\ PushTypes /\ OwnedTypes /\ s \in Sample /\ s # NoSample /\ listeners \in Seq(Tasks)
      /\ batch[t] = <<>>
  BY <1>1, AbsenceAssumption DEF StubTypes, TaskInv, InUse, PushTypes, OwnedInv, OwnedTypes
<1>3. /\ ToSet(Matching(s)) = {n \in ToSet(listeners) : s.topic \in key[n].topics}
      /\ Matching(s) \in Seq(Tasks) /\ IsInjective(Matching(s))
  BY <1>2, MatchingElements DEF StubTypes, OwnedInv, Numbered
<1>4. /\ b \in Seq(Delivery) /\ Len(b) = Len(Matching(s))
      /\ \A i \in 1..Len(b) : b[i].reg = Matching(s)[i]
      /\ \A d \in ToSet(b) : d.sample = s /\ d.reg \in ToSet(Matching(s))
  BY <1>2, MatchBatch
<1> HIDE DEF b
<1>5. \A d \in ToSet(b) : /\ d.sample = s /\ d.reg \in Tasks /\ d.reg \in ToSet(listeners)
                          /\ For(d.reg, s)
  <2>1. \A n \in ToSet(listeners) : n \in Tasks /\ n <= regs
    BY <1>2, ElementsOf DEF StubTypes, OwnedInv, Numbered
  <2> QED
    BY <1>3, <1>4, <2>1 DEF For
<1>6. \A i, j \in 1..Len(b) : b[i].reg = b[j].reg => i = j
  BY <1>3, <1>4, ElementsOf
<1>7. \A u \in Tasks : /\ probe'[u] = IF u = t THEN NoSample ELSE probe[u]
                       /\ batch'[u] = IF u = t THEN b ELSE batch[u]
  BY <1>1, <1>2 DEF PushTypes
<1>8. \A u \in Tasks : CarriedBy(u)' \subseteq CarriedBy(u)
  <2>1. CarriedBy(t)' \subseteq {s} /\ s \in CarriedBy(t)
    BY <1>2, <1>5, <1>7 DEF CarriedBy
  <2>2. \A u \in Tasks : u # t => CarriedBy(u)' = CarriedBy(u)
    BY <1>7 DEF CarriedBy
  <2> QED
    BY <2>1, <2>2
<1>9. CarriedOnce'
  BY <1>1, <1>8 DEF PushInv, CarriedOnce
<1>10. BatchOnce'
  BY <1>6, <1>7 DEF PushInv, BatchOnce
<1>11. LateIsOver' /\ GivenInOrder'
  BY <1>1 DEF PushInv, LateIsOver, GivenInOrder, registry
<1>12. MatchInv'
  <2>1. \A n, v : For(n, v)' <=> For(n, v)
    BY <1>1 DEF For, registry
  <2> QED
    BY <1>1, <1>5, <1>7, <2>1 DEF PushInv, MatchInv
<1>13. CarriedIsNew'
  <2>1. \A u, n, v : NewFor(u, n, v)' <=> NewFor(u, n, v)
    BY <1>1 DEF NewFor
  <2>2. \A n \in Tasks : NewFor(t, n, s)
    BY <1>2 DEF PushInv, CarriedIsNew
  <2>3. \A d \in ToSet(b) : \A g \in ToSet(received[d.reg]) : ~g.late
    BY <1>5 DEF PushInv, LateIsOver
  <2> QED
    BY <1>1, <1>5, <1>7, <2>1, <2>2, <2>3 DEF PushInv, CarriedIsNew
<1> QED
  BY <1>9, <1>10, <1>11, <1>12, <1>13 DEF PushInv

\* A callback: the registration is given the first sample of the batch.
LEMMA CallbackPush ==
    ASSUME StubTypes, PushInv, NEW t \in Tasks, Dispatch!Callback(t),
           \/ batch' = [batch EXCEPT ![t] = Tail(batch[t])]
           \/ batch' = [batch EXCEPT ![t] = <<>>],
           UNCHANGED <<registry, poll>>
    PROVE  PushInv'
<1> DEFINE d == Head(batch[t])
           n == d.reg
           g == [sample |-> d.sample, by |-> t, late |-> n \notin ToSet(listeners)]
           rest == Tail(batch[t])
<1>0. TaskInv /\ PushTypes
  BY DEF StubTypes, TaskInv
<1>1. /\ batch[t] \in Seq(Delivery) /\ batch[t] # <<>> /\ rest \in Seq(Delivery)
      /\ n \in Tasks /\ d.sample \in Sample /\ g \in Given1
      /\ received' = [received EXCEPT ![n] = Append(@, g)]
      /\ received[n] \in Seq(Given1)
  BY <1>0, CallbackGives, PushElements
<1>2. d \in ToSet(batch[t]) /\ ToSet(rest) \subseteq ToSet(batch[t])
  BY <1>1, TailElements
<1>3. probe[t] = NoSample
  BY <1>0 DEF TaskInv, InUse, Dispatch!Callback
<1>4. (g.late <=> n \notin ToSet(listeners)) /\ g.sample = d.sample /\ g.by = t
  BY Zenon
<1> HIDE DEF g
<1>5. \A m \in Tasks : received'[m] = IF m = n THEN Append(received[n], g) ELSE received[m]
  BY <1>0, <1>1 DEF PushTypes
<1>6. ToSet(Append(received[n], g)) = ToSet(received[n]) \cup {g}
  BY <1>1, AppendElements
<1>7. \A m \in Tasks : \A f \in ToSet(received[m])' :
         f \in ToSet(received[m]) \/ (m = n /\ f = g)
  BY <1>5, <1>6
\* What stays in the batch is for other registrations.
<1>8. /\ Len(rest) = Len(batch[t]) - 1 /\ Len(batch[t]) \in Nat \ {0} /\ d = batch[t][1]
      /\ \A i \in 1..Len(rest) : rest[i] = batch[t][i + 1]
  BY <1>1, HeadTailProperties, LenProperties, EmptySeq
<1>9. \A i \in 1..Len(rest) : rest[i].reg # n
  <2> SUFFICES ASSUME NEW i \in 1..Len(rest) PROVE rest[i].reg # n
    OBVIOUS
  <2>1. i + 1 \in 1..Len(batch[t]) /\ 1 \in 1..Len(batch[t]) /\ i + 1 # 1
    BY <1>8
  <2>2. batch[t][i + 1].reg # batch[t][1].reg
    BY <2>1 DEF PushInv, BatchOnce
  <2> QED
    BY <1>8, <2>2
<1>10. \A e \in ToSet(rest) : e.reg # n
  <2> HIDE DEF rest, n
  <2> QED
    BY <1>1, <1>9, ElementsOf
<1>11. /\ \A u \in Tasks : u # t => batch'[u] = batch[u]
       /\ batch'[t] = rest \/ batch'[t] = <<>>
  BY <1>0 DEF PushTypes
<1> HIDE DEF rest, d
<1>12. \A u \in Tasks : \A e \in ToSet(batch[u])' :
          e \in ToSet(batch[u]) /\ (u = t => e.reg # n)
  BY <1>2, <1>10, <1>11, EmptyElements
<1>13. probe' = probe /\ taken' = taken
  BY DEF poll
<1>14. CarriedOnce'
  <2>1. \A u \in Tasks : CarriedBy(u)' \subseteq CarriedBy(u)
    BY <1>12, <1>13 DEF CarriedBy
  <2> QED
    BY <1>13, <2>1 DEF PushInv, CarriedOnce
<1>15. BatchOnce'
  <2>1. \A i, j \in 1..Len(rest) : rest[i].reg = rest[j].reg => i = j
    <3> SUFFICES ASSUME NEW i \in 1..Len(rest), NEW j \in 1..Len(rest), rest[i].reg = rest[j].reg
                 PROVE  i = j
      OBVIOUS
    <3>1. i + 1 \in 1..Len(batch[t]) /\ j + 1 \in 1..Len(batch[t])
      BY <1>8
    <3>2. batch[t][i + 1].reg = batch[t][j + 1].reg
      BY <1>8
    <3>3. i + 1 = j + 1
      BY <3>1, <3>2 DEF PushInv, BatchOnce
    <3> QED
      BY <1>8, <3>3
  <2> QED
    BY <1>11, <2>1, EmptySeq DEF PushInv, BatchOnce
<1>16. d.sample \in CarriedBy(t) /\ d.sample \in taken /\ For(n, d.sample)
  BY <1>2 DEF CarriedBy, PushInv, CarriedOnce, MatchInv
<1>17. \A m, v : For(m, v)' <=> For(m, v)
  BY DEF For, registry
<1>18. MatchInv'
  BY <1>4, <1>7, <1>12, <1>13, <1>16, <1>17 DEF PushInv, MatchInv
<1>19. LateIsOver'
  BY <1>4, <1>7 DEF PushInv, LateIsOver, registry
<1>20. CarriedIsNew'
  <2>1. ASSUME NEW u \in Tasks, probe'[u] # NoSample, NEW m \in Tasks
        PROVE  NewFor(u, m, probe[u])'
    <3>1. u # t /\ probe[u] \in CarriedBy(u) /\ NewFor(u, m, probe[u])
      BY <1>3, <1>13, <2>1 DEF CarriedBy, PushInv, CarriedIsNew
    <3>2. g.sample.id # probe[u].id /\ g.by # u
      BY <1>4, <1>16, <3>1 DEF PushInv, CarriedOnce
    <3> QED
      BY <1>7, <1>13, <3>1, <3>2 DEF NewFor
  <2>2. ASSUME NEW u \in Tasks, NEW e \in ToSet(batch[u])'
        PROVE  /\ NewFor(u, e.reg, e.sample)'
               /\ \A f \in ToSet(received[e.reg])' : f.by = u => ~f.late
    <3>1. /\ e \in ToSet(batch[u]) /\ e.reg \in Tasks /\ e.sample \in CarriedBy(u)
          /\ (u = t => e.reg # n) /\ NewFor(u, e.reg, e.sample)
          /\ \A f \in ToSet(received[e.reg]) : f.by = u => ~f.late
      BY <1>0, <1>12, <2>2, PushElements DEF PushInv, CarriedIsNew, CarriedBy
    <3>2. e.reg = n => g.sample.id # e.sample.id /\ g.by # u
      BY <1>4, <1>16, <3>1 DEF PushInv, CarriedOnce
    <3> QED
      BY <1>7, <3>1, <3>2 DEF NewFor
  <2> QED
    BY <1>13, <2>1, <2>2 DEF CarriedIsNew
<1>21. GivenInOrder'
  <2> SUFFICES ASSUME NEW m \in Tasks,
                      NEW i \in 1..Len(received'[m]), NEW j \in 1..Len(received'[m]), i < j
               PROVE  /\ received'[m][i].sample.id # received'[m][j].sample.id
                      /\ received'[m][i].by = received'[m][j].by =>
                            /\ received'[m][i].sample.id < received'[m][j].sample.id
                            /\ ~(received'[m][i].late /\ received'[m][j].late)
    BY DEF GivenInOrder
  <2>1. CASE m # n
    <3>1. received'[m] = received[m]
      BY <1>5, <2>1
    <3> QED
      BY <3>1 DEF PushInv, GivenInOrder
  <2>2. CASE m = n
    <3> DEFINE q == received[n]
    <3>0. q \in Seq(Given1) /\ g \in Given1 /\ received'[m] = Append(q, g)
      BY <1>1, <1>5, <2>2
    <3> HIDE DEF q
    <3>1. /\ Len(q) \in Nat /\ Len(received'[m]) = Len(q) + 1
          /\ received'[m][Len(q) + 1] = g
          /\ \A k \in 1..Len(q) : received'[m][k] = q[k] /\ q[k] \in ToSet(q)
      BY <3>0, AppendProperties, LenProperties, ElementsOf
    <3>2. i \in 1..Len(q) /\ (j \in 1..Len(q) \/ j = Len(q) + 1)
      BY <3>1
    <3>3. CASE j \in 1..Len(q)
      <4>1. received'[m][i] = q[i] /\ received'[m][j] = q[j] /\ i \in 1..Len(q)
        BY <3>1, <3>2, <3>3
      <4>2. /\ q[i].sample.id # q[j].sample.id
            /\ q[i].by = q[j].by => q[i].sample.id < q[j].sample.id /\ ~(q[i].late /\ q[j].late)
        BY <1>1, <3>3, <4>1 DEF PushInv, GivenInOrder, q
      <4> QED
        BY <4>1, <4>2
    <3>4. CASE j = Len(q) + 1
      <4>1. received'[m][i] = q[i] /\ received'[m][j] = g /\ q[i] \in ToSet(received[n])
        BY <3>1, <3>2, <3>4 DEF q
      <4>2. /\ q[i].sample.id # d.sample.id
            /\ q[i].by = t => q[i].sample.id < d.sample.id /\ ~q[i].late
        BY <1>2, <4>1 DEF PushInv, CarriedIsNew, NewFor
      <4> QED
        BY <1>4, <4>1, <4>2
    <3> QED
      BY <3>2, <3>3, <3>4
  <2> QED
    BY <2>1, <2>2
<1> QED
  BY <1>14, <1>15, <1>18, <1>19, <1>20, <1>21 DEF PushInv

\* The steps of a task that give nobody a sample.
LEMMA TaskPush ==
    ASSUME StubTypes, TakenInOrder, PushInv, NEW t \in Tasks, TaskMove(t)
    PROVE  PushInv'
<1>0. /\ PushTypes /\ regs \in Nat /\ UNCHANGED registry
      /\ \A u \in Tasks : \A d \in ToSet(batch[u]) : d.reg \in Tasks
  <2>1. UNCHANGED registry
    BY TaskMoveFrame
  <2>2. regs \in Nat
    BY ConstantsAssumption DEF StubTypes, OwnedInv, OwnedTypes
  <2> QED
    BY <2>1, <2>2, PushElements DEF StubTypes, TaskInv
<1>1. ASSUME received' = received, taken' = taken,
             probe' = probe \/ probe' = [probe EXCEPT ![t] = NoSample],
             batch' = batch \/ batch' = [batch EXCEPT ![t] = <<>>]
      PROVE  PushInv'
  <2>1. \A u \in Tasks : /\ probe'[u] = probe[u] \/ probe'[u] = NoSample
                         /\ batch'[u] = batch[u] \/ batch'[u] = <<>>
    BY <1>0, <1>1 DEF PushTypes
  <2>2. \A n \in Tasks : \A s : For(n, s) => For(n, s)'
    BY <1>0 DEF For, registry
  <2>3. ToSet(listeners)' = ToSet(listeners)
    BY <1>0 DEF registry
  <2> QED
    BY <1>0, <1>1, <2>1, <2>2, <2>3, PushKept
<1>2. CASE Dispatch!Callback(t) /\ LoopStep(t)
  <2>1. batch' = [batch EXCEPT ![t] = Tail(batch[t])] /\ UNCHANGED poll
    BY <1>2 DEF LoopStep, Dispatch!LoopUpgrade, Dispatch!LoopCheck, Dispatch!Deliver,
                Dispatch!Wake, Dispatch!Finish, Dispatch!Callback
  <2> QED
    BY <1>0, <1>2, <2>1, CallbackPush
<1>3. CASE LoopStep(t) /\ ~Dispatch!Callback(t)
  <2>1. UNCHANGED <<batch, received, probe, taken>>
    BY <1>3 DEF LoopStep, Dispatch!LoopUpgrade, Dispatch!LoopCheck, Dispatch!Deliver,
                Dispatch!Wake, Dispatch!Finish, poll
  <2> QED
    BY <1>1, <2>1
<1>4. CASE LoopEnds(t) /\ Dispatch!CallbackPanics(t)
  <2>1. /\ Dispatch!Callback(t) /\ batch' = [batch EXCEPT ![t] = <<>>] /\ UNCHANGED poll
    BY <1>4 DEF LoopEnds, Dispatch!CallbackPanics
  <2> QED
    BY <1>0, <2>1, CallbackPush
<1>5. CASE LoopEnds(t) /\ ~Dispatch!CallbackPanics(t)
  <2>1. batch' = [batch EXCEPT ![t] = <<>>] /\ UNCHANGED <<received, probe, taken>>
    BY <1>5 DEF LoopEnds, Dispatch!Stop, poll
  <2> QED
    BY <1>1, <2>1
<1>6. CASE PollEmpty(t) \/ PollStop(t)
  <2>1. /\ UNCHANGED <<batch, received, taken>>
        /\ probe' = probe \/ probe' = [probe EXCEPT ![t] = NoSample]
    BY <1>6 DEF PollEmpty, PollStop, poll
  <2> QED
    BY <1>1, <2>1
<1> QED
  BY <1>2, <1>3, <1>4, <1>5, <1>6, PopPush, MatchPush DEF TaskMove, TaskStep

\* Calls of the owned transport give nobody a sample; a registration that is made
\* has been given none.
LEMMA OwnedPush ==
    ASSUME StubTypes, PushInv, NEW c \in Callers, OwnedMove(c)
    PROVE  PushInv'
<1>0. /\ UNCHANGED <<poll, batch, received>> /\ regs \in Nat
      /\ key \in Seq(Dispatch!Key) /\ Len(key) = regs /\ listeners \in Seq(Tasks)
      /\ IsInjective(listeners)
      /\ \A u \in Tasks : \A d \in ToSet(batch[u]) : d.reg \in Tasks
  <2>1. UNCHANGED <<poll, batch, received>>
    BY OwnedMoveFrame
  <2> QED
    BY <2>1, PushElements, ConstantsAssumption
       DEF StubTypes, TaskInv, OwnedInv, OwnedTypes, Numbered
<1>1. ASSUME \A n \in Tasks : \A s : For(n, s) => For(n, s)',
             \A n \in ToSet(listeners)' : n \in ToSet(listeners) \/ n > regs
      PROVE  PushInv'
  <2>1. \A t \in Tasks : probe'[t] = probe[t] /\ batch'[t] = batch[t]
    BY <1>0 DEF poll
  <2>2. received' = received /\ taken' = taken
    BY <1>0 DEF poll
  <2> QED
    BY <1>0, <1>1, <2>1, <2>2, PushKept
<1>2. ASSUME UNCHANGED <<listeners, key, regs>> PROVE PushInv'
  BY <1>1, <1>2 DEF For
<1>3. CASE InnerStep(c) \/ RegisterRecord(c) \/ RegisterFails(c) \/ CancelOwned(c)
  <2>1. UNCHANGED <<listeners, key, regs>>
    BY <1>3 DEF InnerStep, RegisterRecord, RegisterFails, CancelOwned, Dispatch!CallStep,
                Dispatch!EnsureRunning, Dispatch!EnsureSpawn, Dispatch!UnregisterStop,
                Dispatch!EnsureFails, Dispatch!registry, registry
  <2> QED
    BY <1>2, <2>1
<1>4. CASE UnregisterInner(c)
  <2>1. /\ UNCHANGED <<key, regs>>
        /\ \E i \in 1..Len(listeners) : listeners' = RemoveAt(listeners, i)
    BY <1>4 DEF UnregisterInner, Dispatch!UnregisterRemove, Dispatch!Same, Dispatch!RemoveAt,
                RemoveAt
  <2>2. ToSet(listeners)' \subseteq ToSet(listeners)
    BY <1>0, <2>1, RemoveAtElements
  <2> QED
    BY <1>1, <2>1, <2>2 DEF For
<1>5. ASSUME NEW o \in Owned, NEW f \in Filters, RegisterInner(c, o, f) PROVE PushInv'
  <2> DEFINE k == [listener |-> regs + 1, topics |-> f]
  <2>1. /\ regs < MaxRegs /\ regs' = regs + 1 /\ listeners' = Append(listeners, regs + 1)
        /\ key' = Append(key, k)
    BY <1>5 DEF RegisterInner, Dispatch!RegisterPush
  <2>2. regs + 1 \in Tasks /\ k \in Dispatch!Key
    BY <1>0, <2>1, ConstantsAssumption DEF Tasks, Dispatch!Key
  <2> HIDE DEF k
  <2>3. ToSet(listeners)' = ToSet(listeners) \cup {regs + 1}
    BY <1>0, <2>1, <2>2, AppendElements
  <2>4. \A n \in 1..regs : key'[n] = key[n]
    BY <1>0, <2>1, <2>2, AppendProperties
  <2>5. \A n \in Tasks : \A s : For(n, s) => For(n, s)'
    BY <1>0, <2>1, <2>4 DEF For, Tasks
  <2>6. \A n \in ToSet(listeners)' : n \in ToSet(listeners) \/ n > regs
    BY <1>0, <2>3
  <2> QED
    BY <1>1, <2>5, <2>6
<1>6. ASSUME NEW o \in Owned, NEW f \in Filters, ForgetRecord(c, o, f) PROVE PushInv'
  BY <1>2, <1>6 DEF ForgetRecord, registry
<1> QED
  BY <1>3, <1>4, <1>5, <1>6 DEF OwnedMove, OwnedStep

\* Receive calls and sending give no registration a sample.
LEMMA PullPush ==
    ASSUME StubTypes, PushInv, UNCHANGED <<registry, loop, poll, owned>>
    PROVE  PushInv'
BY DEF PushInv, CarriedOnce, CarriedBy, BatchOnce, MatchInv, For, CarriedIsNew, NewFor,
       LateIsOver, GivenInOrder, registry, loop, poll

StubInv == SampleInv /\ TakenInOrder /\ PushInv

LEMMA StubInductive ==
    /\ Init => StubInv
    /\ StubInv /\ [Next]_vars => StubInv'
<1>1. Init => StubInv
  BY SampleInductive, InitTaken, InitPush DEF StubInv
<1>2. ASSUME StubInv, [Next]_vars PROVE StubInv'
  <2>1. StubTypes /\ PullTypes /\ taken \in SUBSET Sample /\ FateInv /\ TakenInOrder /\ PushInv
    BY <1>2 DEF StubInv, SampleInv, StubTypes, TaskInv, PushTypes
  <2>2. SampleInv'
    BY <1>2, SampleInductive DEF StubInv
  <2>3. TakenInOrder'
    BY <1>2, <2>1, StepEffect, EffectTaken
  <2>4. PushInv'
    BY <1>2, <2>1, StepCases, PullStepFrame, PullPush, TaskPush, OwnedPush
  <2> QED
    BY <2>2, <2>3, <2>4 DEF StubInv
<1> QED
  BY <1>1, <1>2

\* Receive calls and listener tasks never both get a sample, and none is lost between
\* them, whatever calls, tasks and registrations race, fail or are dropped, and for any
\* number of them: each sample sent is in one place, waiting, retained, in the hands of
\* one call, returned, lost, or taken by a listener task.
\* (receive_next_zero_copy and poll_listener_frames on the one queue of the stub.)
THEOREM OneTakerEach == Spec => []SampleHasOneTaker
<1>1. ASSUME StubInv PROVE SampleHasOneTaker
  <2>1. \A n \in 1..sent : Cardinality(Takers(n)) = 1
    BY <1>1, OneTaker DEF StubInv, SampleInv
  <2>2. IsInjective(pending)
    BY <1>1 DEF StubInv, SampleInv, FateInv
  <2>3. ASSUME NEW t \in Tasks, batch[t] # <<>> PROVE Head(batch[t]).sample \in taken
    <3>1. batch[t] \in Seq(Delivery)
      BY <1>1, PushElements DEF StubInv, SampleInv, StubTypes, TaskInv
    <3>2. Head(batch[t]) \in ToSet(batch[t])
      BY <2>3, <3>1, TailElements
    <3> QED
      BY <1>1, <3>2 DEF StubInv, PushInv, CarriedOnce, CarriedBy
  <2> QED
    BY <2>1, <2>2, <2>3 DEF SampleHasOneTaker
<1> QED
  BY <1>1, StubInductive, PTL DEF Spec

\* The samples a registration was given are as many as its deliveries.
LEMMA GivenCounted ==
    ASSUME StubInv, NEW n \in Tasks
    PROVE  Cardinality({g.sample : g \in ToSet(received[n])}) = Len(received[n])
<1> DEFINE f == [i \in 1..Len(received[n]) |-> received[n][i].sample]
<1>1. received[n] \in Seq(Given1)
  BY PushElements DEF StubInv, SampleInv, StubTypes, TaskInv
<1>2. /\ Len(received[n]) \in Nat
      /\ \A x : x \in ToSet(received[n]) <=> \E i \in 1..Len(received[n]) : received[n][i] = x
  BY <1>1, LenProperties, ElementsOf
<1>3. \A i, j \in 1..Len(received[n]) : f[i] = f[j] => i = j
  <2> SUFFICES ASSUME NEW i \in 1..Len(received[n]), NEW j \in 1..Len(received[n]),
                      received[n][i].sample = received[n][j].sample
               PROVE  i = j
    OBVIOUS
  <2>1. ~(i < j) /\ ~(j < i)
    BY DEF StubInv, PushInv, GivenInOrder
  <2> QED
    BY <1>2, <2>1
<1> DEFINE V == {g.sample : g \in ToSet(received[n])}
<1>4. /\ f \in [1..Len(received[n]) -> V]
      /\ \A v \in V : \E i \in 1..Len(received[n]) : f[i] = v
  BY <1>2
<1>5. Len(received[n]) \in Nat
  BY <1>2
<1> HIDE DEF f, V
<1>6. Cardinality(V) = Len(received[n])
  BY <1>3, <1>4, <1>5, CountValues
<1> QED
  BY <1>6 DEF V

\* However receive calls, registering, unregistering, cancellation, panics and aborts
\* race with the one queue: no registration is given a sample twice or one that it does
\* not match, none is on its way that was given already, a task gives a registration
\* its samples in the order sent, and makes at most one delivery to it after it was
\* unregistered.  (poll_listener_frames, listener_loop.)
THEOREM PushDeliveriesAreExact == Spec => []PushIsExact
<1>1. ASSUME StubInv PROVE PushIsExact
  <2>0. /\ PushTypes /\ PushInv /\ regs \in Nat /\ \A n \in 1..regs : n \in Tasks
        /\ \A n \in Tasks : received[n] \in Seq(Given1)
    BY <1>1, PushElements, ConstantsAssumption
       DEF StubInv, SampleInv, StubTypes, TaskInv, OwnedInv, OwnedTypes, Tasks
  <2>1. \A n \in Tasks : DOMAIN received[n] = 1..Len(received[n]) /\ Len(received[n]) \in Nat
    BY <2>0, LenProperties
  <2>2. \A n : Dispatch!Given(n) = {g.sample : g \in ToSet(received[n])}
    BY DEF Dispatch!Given, Dispatch!ToSet, ToSet
  <2>3. \A S : Dispatch!Cardinality(S) = Cardinality(S)
    BY DEF Dispatch!Cardinality, Cardinality
  <2>4. ASSUME NEW n \in 1..regs
        PROVE  /\ \A s \in Dispatch!Given(n) : s.topic \in key[n].topics
               /\ Dispatch!Cardinality(Dispatch!Given(n)) = Len(received[n])
               /\ \A t \in Tasks : \A d \in ToSet(batch[t]) :
                     d.reg = n => d.sample \notin Dispatch!Given(n)
    <3>1. \A g \in ToSet(received[n]) : g.sample.topic \in key[n].topics
      BY <2>0 DEF PushInv, MatchInv, For
    <3>2. Cardinality({g.sample : g \in ToSet(received[n])}) = Len(received[n])
      BY <1>1, <2>0, GivenCounted
    <3>3. \A t \in Tasks : \A d \in ToSet(batch[t]) :
             d.reg = n => \A g \in ToSet(received[n]) : g.sample # d.sample
      BY <2>0 DEF PushInv, CarriedIsNew, NewFor
    <3> QED
      BY <2>2, <2>3, <3>1, <3>2, <3>3
  <2>5. Dispatch!DeliveredOnceAndMatching
    <3>1. \A n \in 1..regs : [m \in 1..MaxRegs |-> <<>>][n] = <<>>
      BY <2>0 DEF Tasks
    <3>2. Dispatch!ToSet(<<>>) = {} /\ \A t : Dispatch!ToSet(batch[t]) = ToSet(batch[t])
      BY EmptyElements DEF Dispatch!ToSet, ToSet
    <3> QED
      BY <2>4, <3>1, <3>2 DEF Dispatch!DeliveredOnceAndMatching, Dispatch!Tasks, Tasks
  <2>6. Dispatch!DeliveredInOrder
    BY <2>0, <2>1 DEF PushInv, GivenInOrder, Dispatch!DeliveredInOrder, Dispatch!Regs, Tasks
  <2>7. Dispatch!LateDeliveryBounded
    <3> SUFFICES ASSUME NEW n \in Tasks, NEW i \in 1..Len(received[n]),
                        NEW j \in 1..Len(received[n]),
                        received[n][i].late /\ received[n][j].late,
                        received[n][i].by = received[n][j].by
                 PROVE  i = j
      BY <2>1 DEF Dispatch!LateDeliveryBounded, Dispatch!Regs, Tasks
    <3>1. ~(i < j) /\ ~(j < i)
      BY <2>0 DEF PushInv, GivenInOrder
    <3> QED
      BY <2>1, <3>1
  <2> QED
    BY <2>5, <2>6, <2>7 DEF PushIsExact
<1> QED
  BY <1>1, StubInductive, PTL DEF Spec

-----------------------------------------------------------------------------
(* The stub backend implements DeliveryContract *)

\* The contract's variables, as Contract instantiates them.
Carrying == [t \in Tasks |-> ToSet(batch[t])]
Active == ToSet(listeners)

\* A step that leaves them alone.
LEMMA ContractStutters ==
    ASSUME UNCHANGED <<listeners, key, batch, received>>
    PROVE  UNCHANGED Contract!vars
<1>1. Carrying' = Carrying /\ Active' = Active
  BY DEF Carrying, Active
<1> QED
  BY <1>1 DEF Contract!vars, Carrying, Active

\* One task's batch is replaced.
LEMMA CarryingNext ==
    ASSUME PushTypes, NEW t \in Tasks, NEW b, batch' = [batch EXCEPT ![t] = b]
    PROVE  Carrying' = [Carrying EXCEPT ![t] = ToSet(b)]
<1>1. \A u \in Tasks : ToSet(batch'[u]) = IF u = t THEN ToSet(b) ELSE ToSet(batch[u])
  BY DEF PushTypes
<1> QED
  BY <1>1 DEF Carrying

\* The registry is looked at: the task takes its sample for those that match.
LEMMA MatchTakes ==
    ASSUME StubInv, NEW t \in Tasks, PollMatch(t)
    PROVE  Contract!Next
<1> DEFINE s == probe[t]
           R == ToSet(Matching(s))
           b == [i \in DOMAIN Matching(s) |-> [reg |-> Matching(s)[i], sample |-> s]]
<1>1. /\ pc[t] = "probe" /\ batch' = [batch EXCEPT ![t] = b]
      /\ UNCHANGED <<received, listeners, key>>
  BY DEF PollMatch, registry
<1>2. /\ StubTypes /\ PushInv /\ PushTypes /\ listeners \in Seq(Tasks)
      /\ s \in Sample /\ s # NoSample /\ batch[t] = <<>>
  BY <1>1, AbsenceAssumption DEF StubInv, SampleInv, StubTypes, TaskInv, InUse, PushTypes,
                                 OwnedInv, OwnedTypes
<1>3. /\ R = {n \in ToSet(listeners) : s.topic \in key[n].topics}
      /\ ToSet(b) = {[reg |-> n, sample |-> s] : n \in R}
  BY <1>2, MatchingElements, MatchBatch
<1> HIDE DEF b, R
<1>4. Carrying[t] = {} /\ \A u \in Tasks : Carrying[u] = ToSet(batch[u])
  BY <1>2, EmptyElements DEF Carrying
<1>5. Carrying' = [Carrying EXCEPT ![t] = Carrying[t] \cup {[reg |-> n, sample |-> s] : n \in R}]
  BY <1>1, <1>2, <1>3, <1>4, CarryingNext
<1>6. \A n \in R : n \in Active /\ n \in Tasks /\ s.topic \in key[n].topics
  BY <1>2, <1>3, ElementsOf DEF Active
<1>7. \A u \in Tasks : \A n \in R : [reg |-> n, sample |-> s] \notin Carrying[u]
  <2> SUFFICES ASSUME NEW u \in Tasks, NEW n \in R, [reg |-> n, sample |-> s] \in ToSet(batch[u])
               PROVE  FALSE
    BY <1>4
  <2>1. s \in CarriedBy(u) /\ s \in CarriedBy(t)
    <3>1. [reg |-> n, sample |-> s].sample = s
      OBVIOUS
    <3> QED
      BY <1>2, <3>1 DEF CarriedBy
  <2>2. u = t
    BY <1>2, <2>1 DEF PushInv, CarriedOnce
  <2> QED
    BY <1>2, <2>2, EmptyElements
<1>8. \A n \in R : \A i \in DOMAIN received[n] :
         /\ received[n][i].sample # s
         /\ received[n][i].by = t => received[n][i].sample.id < s.id
  <2>1. \A n \in R : NewFor(t, n, s)
    BY <1>2, <1>6 DEF PushInv, CarriedIsNew
  <2>2. \A n \in R : \A i \in DOMAIN received[n] : received[n][i] \in ToSet(received[n])
    BY DEF ToSet
  <2> QED
    BY <2>1, <2>2 DEF NewFor
<1>9. Contract!Take(t, s, R)
  <2>1. \A n \in R : Contract!MayTake(t, s, n)
    BY <1>4, <1>6, <1>7, <1>8 DEF Contract!MayTake, Carrying
  <2>2. Active' = Active
    BY <1>1 DEF Active
  <2> QED
    BY <1>1, <1>5, <2>1, <2>2 DEF Contract!Take, Carrying, Active
<1> QED
  BY <1>2, <1>6, <1>9 DEF Contract!Next, Active

\* A callback gives the first delivery, which is in the batch once.
LEMMA CallbackHandsOver ==
    ASSUME StubInv, NEW t \in Tasks, Dispatch!Callback(t),
           \/ batch' = [batch EXCEPT ![t] = Tail(batch[t])]
           \/ batch' = [batch EXCEPT ![t] = <<>>],
           UNCHANGED registry
    PROVE  Contract!HandOver(t)
<1> DEFINE d == Head(batch[t])
           g == [sample |-> d.sample, by |-> t, late |-> d.reg \notin ToSet(listeners)]
<1>1. TaskInv /\ PushTypes /\ PushInv
  BY DEF StubInv, SampleInv, StubTypes, TaskInv
<1>2. /\ batch[t] \in Seq(Delivery) /\ batch[t] # <<>>
      /\ received' = [received EXCEPT ![d.reg] = Append(@, g)]
  BY <1>1, CallbackGives
<1>3. IsInjective(batch[t])
  BY <1>1, <1>2, ElementsOf DEF PushInv, BatchOnce
<1>4. d \in ToSet(batch[t]) /\ ToSet(Tail(batch[t])) = ToSet(batch[t]) \ {d} /\ ToSet(<<>>) = {}
  BY <1>2, <1>3, TailElements, EmptyElements
<1>5. Carrying[t] = ToSet(batch[t])
  BY DEF Carrying
<1> HIDE DEF d
<1>6. \E rest \in {Carrying[t] \ {d}, {}} : Carrying' = [Carrying EXCEPT ![t] = rest]
  <2>1. ASSUME NEW b, batch' = [batch EXCEPT ![t] = b]
        PROVE  Carrying' = [Carrying EXCEPT ![t] = ToSet(b)]
    BY <1>1, <2>1, CarryingNext
  <2>2. Carrying' = [Carrying EXCEPT ![t] = ToSet(Tail(batch[t]))]
        \/ Carrying' = [Carrying EXCEPT ![t] = ToSet(<<>>)]
    BY <2>1
  <2> QED
    BY <1>4, <1>5, <2>2
<1>7. UNCHANGED <<key, listeners>> /\ Active' = Active
  BY DEF registry, Active
<1>8. Contract!Give(t, d)
  BY <1>2, <1>6, <1>7 DEF Contract!Give, Carrying, Active
<1> QED
  BY <1>4, <1>5, <1>8 DEF Contract!HandOver, Carrying

\* What a task does to what it carries.
LEMMA TaskContract ==
    ASSUME StubInv, NEW t \in Tasks, TaskMove(t)
    PROVE  Contract!Next \/ UNCHANGED Contract!vars
<1>0. PushTypes /\ UNCHANGED <<listeners, key>> /\ UNCHANGED registry
  BY TaskMoveFrame DEF StubInv, SampleInv, StubTypes, TaskInv, registry
<1>1. CASE PollMatch(t)
  BY <1>1, MatchTakes
<1>2. ASSUME Contract!HandOver(t) PROVE Contract!Next
  BY <1>2 DEF Contract!Next
<1>3. CASE LoopStep(t) /\ Dispatch!Deliver(t)
  BY <1>0, <1>2, <1>3, CallbackHandsOver DEF Dispatch!Deliver
<1>4. CASE LoopEnds(t) /\ Dispatch!CallbackPanics(t)
  BY <1>0, <1>2, <1>4, CallbackHandsOver DEF Dispatch!CallbackPanics
<1>5. CASE LoopEnds(t) /\ Dispatch!Stop(t)
  <2>1. batch' = [batch EXCEPT ![t] = <<>>] /\ received' = received
    BY <1>5 DEF Dispatch!Stop
  <2>2. Carrying' = [Carrying EXCEPT ![t] = {}] /\ Active' = Active
    BY <1>0, <2>1, CarryingNext, EmptyElements DEF Active
  <2>3. Contract!Lose(t)
    BY <1>0, <2>1, <2>2 DEF Contract!Lose, Carrying, Active
  <2> QED
    BY <1>2, <2>3 DEF Contract!HandOver
<1>6. CASE PollEmpty(t) \/ PollPop(t) \/ PollStop(t) \/ (LoopStep(t) /\ ~Dispatch!Deliver(t))
  <2>1. UNCHANGED <<batch, received>>
    BY <1>6 DEF PollEmpty, PollPop, PollStop, LoopStep, Dispatch!LoopUpgrade,
                Dispatch!LoopCheck, Dispatch!Wake, Dispatch!Finish
  <2> QED
    BY <1>0, <2>1, ContractStutters
<1> QED
  BY <1>1, <1>3, <1>4, <1>5, <1>6 DEF TaskMove, TaskStep, LoopEnds

\* Registrations are made and ended by calls of the owned transport.
LEMMA OwnedContract ==
    ASSUME StubInv, NEW c \in Callers, OwnedMove(c)
    PROVE  Contract!Next \/ UNCHANGED Contract!vars
<1>0. /\ UNCHANGED <<batch, received>> /\ Carrying' = Carrying
      /\ regs \in Nat /\ regs <= MaxRegs
      /\ key \in Seq(Dispatch!Key) /\ Len(key) = regs
      /\ listeners \in Seq(Tasks) /\ IsInjective(listeners)
  <2>1. UNCHANGED <<batch, received>>
    BY OwnedMoveFrame
  <2>2. OwnedTypes /\ Numbered
    BY DEF StubInv, SampleInv, StubTypes, OwnedInv
  <2> QED
    BY <2>1, <2>2, ConstantsAssumption DEF Carrying, OwnedTypes, Numbered
<1>1. ASSUME UNCHANGED <<listeners, key>> PROVE UNCHANGED Contract!vars
  BY <1>0, <1>1, ContractStutters
<1>2. CASE InnerStep(c) \/ RegisterRecord(c) \/ RegisterFails(c) \/ CancelOwned(c)
  <2>1. UNCHANGED <<listeners, key>>
    BY <1>2 DEF InnerStep, RegisterRecord, RegisterFails, CancelOwned, Dispatch!CallStep,
                Dispatch!EnsureRunning, Dispatch!EnsureSpawn, Dispatch!UnregisterStop,
                Dispatch!EnsureFails, Dispatch!registry, registry
  <2> QED
    BY <1>1, <2>1
<1>3. ASSUME NEW o \in Owned, NEW f \in Filters, ForgetRecord(c, o, f)
      PROVE  UNCHANGED Contract!vars
  BY <1>1, <1>3 DEF ForgetRecord, registry
<1>4. ASSUME NEW o \in Owned, NEW f \in Filters, RegisterInner(c, o, f) PROVE Contract!Next
  <2> DEFINE k == [listener |-> regs + 1, topics |-> f]
  <2>1. /\ regs < MaxRegs /\ listeners' = Append(listeners, regs + 1)
        /\ key' = Append(key, k)
    BY <1>4 DEF RegisterInner, Dispatch!RegisterPush
  <2>2. regs + 1 \in Tasks /\ k \in Dispatch!Key
    BY <1>0, <2>1, ConstantsAssumption DEF Tasks, Dispatch!Key
  <2> HIDE DEF k
  <2>3. Active' = Active \cup {Len(key) + 1}
    BY <1>0, <2>1, <2>2, AppendElements DEF Active
  <2>4. Contract!Register(k)
    BY <1>0, <2>1, <2>3 DEF Contract!Register, Carrying, Active
  <2> QED
    BY <2>2, <2>4 DEF Contract!Next
<1>5. CASE UnregisterInner(c)
  <2>1. /\ key' = key
        /\ \E i \in 1..Len(listeners) : listeners' = RemoveAt(listeners, i)
    BY <1>5 DEF UnregisterInner, Dispatch!UnregisterRemove, Dispatch!Same, Dispatch!RemoveAt,
                RemoveAt
  <2>2. PICK i \in 1..Len(listeners) : listeners' = RemoveAt(listeners, i)
    BY <2>1
  <2>3. listeners[i] \in Active /\ Active' = Active \ {listeners[i]}
    BY <1>0, <2>2, RemoveAtElements, ElementsOf DEF Active
  <2>4. Contract!Unregister(listeners[i])
    BY <1>0, <2>1, <2>3 DEF Contract!Unregister, Carrying, Active
  <2> QED
    BY <2>3, <2>4 DEF Contract!Next, Active
<1> QED
  BY <1>2, <1>3, <1>4, <1>5 DEF OwnedMove, OwnedStep

\* The stub backend under the owned transport promises listeners what the contract
\* says: what a task takes it takes for registrations that are there at that moment and
\* match, and from then on each delivery is made once or lost with the rest of the batch,
\* though receive calls take from the same queue and registrations come and go.
THEOREM StubKeepsContract == Spec => KeepsContract
<1>1. Init => Contract!Init
  <2> SUFFICES ASSUME Init PROVE Contract!Init
    OBVIOUS
  <2>1. /\ key = <<>> /\ listeners = <<>> /\ batch = [t \in Tasks |-> <<>>]
        /\ received = [n \in Tasks |-> <<>>]
    BY DEF Init, Dispatch!Init, Dispatch!Tasks, Dispatch!Regs, Tasks
  <2>2. Active = {} /\ Carrying = [t \in Tasks |-> {}]
    BY <2>1, EmptyElements DEF Active, Carrying
  <2> QED
    BY <2>1, <2>2 DEF Contract!Init, Active, Carrying
<1>2. StubInv /\ [Next]_vars => [Contract!Next]_Contract!vars
  <2> SUFFICES ASSUME StubInv, [Next]_vars PROVE Contract!Next \/ UNCHANGED Contract!vars
    OBVIOUS
  <2>1. CASE PullStep \/ UNCHANGED vars
    <3>1. UNCHANGED <<listeners, key, batch, received>>
      BY <2>1, PullStepFrame DEF registry, loop
    <3> QED
      BY <3>1, ContractStutters
  <2> QED
    BY <2>1, StepCases, TaskContract, OwnedContract
<1> QED
  BY <1>1, <1>2, StubInductive, PTL DEF Spec, KeepsContract, Contract!Spec

=============================================================================
