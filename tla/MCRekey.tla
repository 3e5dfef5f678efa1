------------------------------ MODULE MCRekey ------------------------------
(***************************************************************************)
(* The session from the point where credential rotation meets the PQ       *)
(* halves: the bootstrap is complete, and its bind folded the acceptor's   *)
(* rotation to id 1, so the acceptor holds the turn and its PQ leaves lag. *)
(* Every frame sent before that point is lost.                             *)
(***************************************************************************)
EXTENDS SessionInvariants

RotationBind ==
    [kind |-> "bind", epoch |-> 1, cross |-> 1, folds |-> [epoch |-> 1, id |-> 1], sender |-> 0,
     bind |-> [t_epoch |-> 2, pq_epoch |-> 2, secret |-> Export(1)]]

RotatedInitiator ==
    [Initiate EXCEPT !.send_cl = 2, !.send_pq = 2, !.recv_cl = 1, !.recv_pq = 1,
                     !.current_staple = RotationBind,
                     !.peer_applied_send_epoch = 1, !.last_cross_injected = 1,
                     !.last_cross_injected_pq = 1,
                     !.pq_turn_mine = FALSE, !.bootstrap_kp = FALSE, !.theirs = {0, 1}]

RotatedAcceptor ==
    [AcceptWith EXCEPT !.send_pq = 1, !.recv_cl = 2, !.recv_pq = 2,
                       !.offered_proposal = [epoch |-> 1, id |-> 0],
                       !.peer_applied_send_epoch = 1,
                       !.last_send_pq_exported = 1,
                       !.pq_turn_mine = TRUE, !.client = 1]

InitRotated ==
    /\ session = [p \in Party |-> IF p = "initiator" THEN RotatedInitiator ELSE RotatedAcceptor]
    /\ frames = {}
    /\ legs = {}
    /\ fresh = 1

\* Bound: the initiator rotates before the A.4 that follows the first A.5, or not.
RotationOrRounds ==
    LET s == session["initiator"]
    IN  s.client # 0 \/ s.staged_candidates # {} \/ s.deferred_candidate # 0 => fresh = 1

RotatedSpec == InitRotated /\ [][Next]_vars

=============================================================================
