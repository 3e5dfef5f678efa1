----------------------------- MODULE MCSession -----------------------------
(* Session from establishment on, with small windows and few epochs. *)
EXTENDS SessionInvariants

\* Bound: a fold that takes the initiator an epoch past its binds comes before the
\* second A.4 (each names an ephemeral and a secret), or not at all.
FoldsOrRounds ==
    session["initiator"].send_cl > session["initiator"].send_pq => fresh <= 3

=============================================================================
