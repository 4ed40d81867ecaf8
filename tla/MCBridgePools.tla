--------------------------- MODULE MCBridgePools ---------------------------
(* Model-checking definitions for BridgePools. *)
EXTENDS BridgePools

CONSTANTS t1, t2, t3, s1, p1, p2

Plain == [named |-> TRUE, sampleSize |-> 8, sampleAlignment |-> 2, maxSamples |-> 1,
          path |-> p1]

\* Two slots where acquire has a choice, one elsewhere; another file, no file, and
\* an alignment that validate accepts and the bridge does not.
Configs ==
    [o \in Owners |->
        IF o = t1 THEN [Plain EXCEPT !.maxSamples = 2]
        ELSE IF o = t2 THEN [Plain EXCEPT !.path = p2]
        ELSE IF o = t3 THEN [Plain EXCEPT !.sampleAlignment = 8]
        ELSE [Plain EXCEPT !.path = NoPath]]
=============================================================================
