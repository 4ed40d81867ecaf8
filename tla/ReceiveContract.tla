--------------------------- MODULE ReceiveContract ---------------------------
(***************************************************************************)
(* What UZeroCopyTransportImpl::receive_validated_zero_copy promises its   *)
(* callers, without the queues, locks and pools that keep the promise.     *)
(*                                                                         *)
(* Samples arrive in a box.  A call asks for a sample that matches its     *)
(* filter; it takes one matching sample out of the box, for good, or ends  *)
(* without one.  A sample may be lost, but then it is gone: it is never    *)
(* returned later, and no sample is returned twice.                        *)
(***************************************************************************)
CONSTANTS
    Callers,        \* tasks that call receive
    Topics,         \* what filters tell apart
    Sample          \* samples; s.topic is the topic of s

VARIABLES
    box,            \* samples that arrived and are still to be returned
    got,            \* samples that a call returned
    gone,           \* samples that were lost
    asking          \* for each caller, {} or the set of its one filter

vars == <<box, got, gone, asking>>

Init ==
    /\ box = {}
    /\ got = {}
    /\ gone = {}
    /\ asking = [c \in Callers |-> {}]

\* A new sample arrives, or is missed for want of a subscription.
Arrive(s) ==
    /\ s \notin box \cup got \cup gone
    /\ \/ box' = box \cup {s} /\ UNCHANGED gone
       \/ gone' = gone \cup {s} /\ UNCHANGED box
    /\ UNCHANGED <<got, asking>>

Ask(c, f) ==
    /\ asking[c] = {}
    /\ asking' = [asking EXCEPT ![c] = {f}]
    /\ UNCHANGED <<box, got, gone>>

\* A call returns a sample that matches its filter.
Answer(c) ==
    /\ \E s \in box :
          /\ \E f \in asking[c] : s.topic \in f
          /\ box' = box \ {s}
          /\ got' = got \cup {s}
    /\ asking' = [asking EXCEPT ![c] = {}]
    /\ UNCHANGED gone

\* The transport loses the samples in S, at most one at a time.
Lose(S) ==
    /\ S = {} \/ \E s \in box : S = {s}
    /\ box' = box \ S
    /\ gone' = gone \cup S
    /\ UNCHANGED got

\* A call ends without a sample.
EndEmpty(c) ==
    /\ asking[c] # {}
    /\ asking' = [asking EXCEPT ![c] = {}]
    /\ Lose({}) \/ \E s \in box : Lose({s})

Next ==
    \/ \E s \in Sample : Arrive(s)
    \/ \E c \in Callers, f \in SUBSET Topics : Ask(c, f)
    \/ \E c \in Callers : Answer(c) \/ EndEmpty(c)
    \/ \E s \in box : Lose({s}) /\ UNCHANGED asking

Spec == Init /\ [][Next]_vars

\* A call does not stay unanswered for ever.
FairSpec == Spec /\ \A c \in Callers : WF_vars(Answer(c) \/ EndEmpty(c))

=============================================================================
