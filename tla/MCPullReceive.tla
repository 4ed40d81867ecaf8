--------------------------- MODULE MCPullReceive ---------------------------
(* Model-checking definitions for PullReceive. *)
EXTENDS PullReceive

\* Tasks are interchangeable, and so are topics: no definition names one.
Symmetry == Permutations(Receivers) \cup Permutations(Topics)

=============================================================================
