---------------------------- MODULE MCCredentials ----------------------------
(* Rotation with a history window of two ids. *)
EXTENDS Rotation

=============================================================================
