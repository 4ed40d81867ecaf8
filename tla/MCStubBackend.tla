--------------------------- MODULE MCStubBackend ---------------------------
(* Model-checking definitions for StubBackend. *)
EXTENDS StubBackend

=============================================================================
