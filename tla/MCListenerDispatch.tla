------------------------ MODULE MCListenerDispatch ------------------------
(* Model-checking definitions for ListenerDispatch. *)
EXTENDS ListenerDispatch

Symmetry == Permutations(Callers)

=============================================================================
