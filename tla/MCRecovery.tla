----------------------------- MODULE MCRecovery -----------------------------
(* Recovery, from the start and from the state where an A.5 is due. *)
EXTENDS Recovery, MCRekey

\* Both starts; the host that waits for every push only with the second.
EitherStart ==
    /\ Init \/ InitRotated
    /\ Unsaved
    /\ \A p \in Party : lag[p].gate => session["acceptor"].client = 1

\* Bound: one A.4 round, which names an ephemeral and a secret, and one repeated leg.
OneRatchet == fresh <= 4

EitherRSpec == EitherStart /\ [][RNext]_rvars

RotatedRSpec == InitRotated /\ Unsaved /\ [][RNext]_rvars

=============================================================================
