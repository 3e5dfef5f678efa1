----------------------------- MODULE MCCombiner -----------------------------
(* Combiner, a few epochs of either half. *)
EXTENDS Combiner

=============================================================================
