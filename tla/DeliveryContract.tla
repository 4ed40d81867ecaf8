-------------------------- MODULE DeliveryContract --------------------------
(***************************************************************************)
(* What UZeroCopyTransportImpl promises the listeners that are registered  *)
(* with it, without the subscriptions, queues, locks and task handles that *)
(* keep the promise.                                                       *)
(*                                                                         *)
(* A worker takes a sample for registrations that are active and match it, *)
(* at most one sample at a time for each of them, and for each a newer one *)
(* than it gave it before; two workers may take samples for a registration *)
(* in either order.  What it has taken it gives to the listener or loses, even *)
(* if the registration has ended meanwhile; what a registration was given, *)
(* or another worker is about to give it, is not taken for it again.       *)
(***************************************************************************)
EXTENDS Naturals, Sequences

CONSTANTS
    Workers,        \* those that call listeners
    Regs,           \* registrations, numbered in the order they are made
    Key,            \* what is registered; k.topics is the filter of k
    Sample          \* samples; s.id is their order, s.topic what filters match

VARIABLES
    key,            \* the keys of the registrations made
    active,         \* registrations that have not ended
    carried,        \* what each worker has taken: registrations and samples
    given           \* the deliveries to each registration, in order: the sample,
                    \* the worker, and whether the registration had ended

vars == <<key, active, carried, given>>

Init ==
    /\ key = <<>>
    /\ active = {}
    /\ carried = [w \in Workers |-> {}]
    /\ given = [n \in Regs |-> <<>>]

Register(k) ==
    /\ key' = Append(key, k)
    /\ active' = active \cup {Len(key) + 1}
    /\ UNCHANGED <<carried, given>>

\* What is carried for the registration stays where it is.
Unregister(n) ==
    /\ active' = active \ {n}
    /\ UNCHANGED <<key, carried, given>>

\* Worker w may take s for n: it matches, w carries nothing for n, nobody carries s
\* for n, and s is new to n and newer than what w gave it.
MayTake(w, s, n) ==
    /\ s.topic \in key[n].topics
    /\ \A d \in carried[w] : d.reg # n
    /\ \A v \in Workers : [reg |-> n, sample |-> s] \notin carried[v]
    /\ \A i \in DOMAIN given[n] :
          /\ given[n][i].sample # s
          /\ given[n][i].by = w => given[n][i].sample.id < s.id

Take(w, s, R) ==
    /\ \A n \in R : MayTake(w, s, n)
    /\ carried' = [carried EXCEPT ![w] = @ \cup {[reg |-> n, sample |-> s] : n \in R}]
    /\ UNCHANGED <<key, active, given>>

\* A listener is called; the worker may lose the rest by it.
Give(w, d) ==
    /\ given' = [given EXCEPT ![d.reg] =
                   Append(@, [sample |-> d.sample, by |-> w, late |-> d.reg \notin active])]
    /\ \E rest \in {carried[w] \ {d}, {}} : carried' = [carried EXCEPT ![w] = rest]
    /\ UNCHANGED <<key, active>>

\* A worker loses what it carries.
Lose(w) ==
    /\ carried' = [carried EXCEPT ![w] = {}]
    /\ UNCHANGED <<key, active, given>>

\* A worker is done with something it carries.
HandOver(w) == Lose(w) \/ \E d \in carried[w] : Give(w, d)

Next ==
    \/ \E k \in Key : Register(k)
    \/ \E n \in active : Unregister(n)
    \/ \E w \in Workers : HandOver(w) \/ \E s \in Sample, R \in SUBSET active : Take(w, s, R)

Spec == Init /\ [][Next]_vars

\* Nothing is carried for ever.
FairSpec == Spec /\ \A w \in Workers : WF_vars(HandOver(w))

=============================================================================
