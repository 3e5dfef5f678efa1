------------------------------ MODULE MCWindows ------------------------------
(* Windows with the smallest windows the code's relations between them allow. *)
EXTENDS Windows

=============================================================================
