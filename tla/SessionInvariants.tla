------------------------- MODULE SessionInvariants -------------------------
(***************************************************************************)
(* The inductive invariants behind the safety properties of Session that   *)
(* InStep alone does not explain: why the cross-party PSK of a commit is   *)
(* never out of the ledger's window, why a post-quantum round never loses  *)
(* its turn, its secret or its responder, and why the client ids a staple  *)
(* or a leg presents are known where it arrives.                           *)
(***************************************************************************)
EXTENDS Session

----------------------------------------------------------------------------
(* The cross-party PSK of the commit that is still to be applied.          *)

\* Of all frames only those with the current staple lead to p's current epoch.
CurrentOnWire(p) ==
    /\ session[p].current_staple.kind = "welcome" => session[p].current_staple.epoch = 0
    /\ \A f \in frames :
          f.from = p /\ f.staple.epoch + 1 = session[p].send_cl =>
              f.staple = session[p].current_staple

\* While the peer misses p's commit, that commit injects the peer's send epoch or
\* the one before.  In the latter case nothing licenses the peer to move on: its
\* evidence is older, and so is every offer it can still receive without
\* applying the commit first.
CrossNear(p) ==
    LET s == session[p]
        r == session[Peer(p)]
        cross == s.current_staple.cross
    IN  r.recv_cl < s.send_cl /\ cross # 0 =>
            /\ cross \in {r.send_cl - 1, r.send_cl}
            /\ cross = r.send_cl - 1 =>
                  /\ r.queued_proposal = NoOffer
                  /\ r.peer_applied_send_epoch < r.send_cl
                  /\ r.offered_proposal.epoch < r.send_cl
            /\ \A f \in frames :
                  f.from = p /\ f.staple.epoch + 1 < s.send_cl => f.offer.epoch <= cross

CrossInStep == \A p \in Party : CurrentOnWire(p) /\ CrossNear(p)

----------------------------------------------------------------------------
(* The post-quantum round: one at a time, owned by the holder of the turn. *)
(* The parts speak of two session records, s of the owner or sender and r  *)
(* of its peer, and of n, the next unused name.                            *)

Kind(s) == s.pq_inflight.kind

\* Both mirrors of the PQ halves are up to date.
Level(s, r) == s.send_pq = r.recv_pq /\ r.send_pq = s.recv_pq

\* No round is open.
Quiet(s, r) == Kind(s) = "none" /\ Kind(r) = "none" /\ Level(s, r)

\* The owner has opened a round.
Opened(s, r) ==
    /\ Kind(s) \in {"Initiating", "BootstrapInitiated", "RekeyInitiated"}
    /\ Kind(r) = "none"
    /\ Level(s, r)

\* The peer has answered it; in A.3 and A.5 the answer moved the peer's PQ half.
Answered(s, r) ==
    /\ s.send_pq = r.recv_pq
    /\ \/ /\ Kind(s) = "Initiating" /\ Kind(r) = "Responding"
          /\ s.pq_inflight.eph = r.pq_inflight.ct.eph
          /\ r.send_pq = s.recv_pq
       \/ /\ \/ Kind(s) = "BootstrapInitiated" /\ Kind(r) = "BootstrapResponded"
             \/ Kind(s) = "RekeyInitiated" /\ Kind(r) = "RekeyResponded"
          /\ r.send_pq = s.recv_pq + 1

\* The PQ commit of the round has landed at its owner; the peer still waits for
\* the bind b, which injects the secret the peer holds.
Closing(s, r, b) ==
    /\ Kind(s) = "none"
    /\ AwaitsBind(r)
    /\ b.secret = HeldSecret(r)
    /\ b.pq_epoch = s.send_pq
    /\ s.send_pq = r.recv_pq + 1
    /\ r.send_pq = s.recv_pq
    /\ s.recv_pq > 0

\* The sender's staple is a bind the peer misses: BindOutstanding of two records.
Outstanding(s, r) == s.current_staple.kind = "bind" /\ r.recv_cl < s.send_cl

\* s owns the round: it holds the turn and owes no bind, or owes the bind, or
\* the bind is its current staple and the turn rides on it.
Round(s, r) ==
    /\ ~r.pq_turn_mine /\ r.owed_bind = NoBind /\ ~Outstanding(r, s)
    /\ \/ /\ s.pq_turn_mine /\ ~Outstanding(s, r) /\ s.owed_bind = NoBind
          /\ Quiet(s, r) \/ Opened(s, r) \/ Answered(s, r)
       \/ /\ s.pq_turn_mine /\ ~Outstanding(s, r) /\ s.owed_bind # NoBind
          /\ Closing(s, r, s.owed_bind)
          /\ s.owed_bind.t_epoch = s.send_cl + 1
       \/ /\ ~s.pq_turn_mine /\ Outstanding(s, r) /\ s.owed_bind = NoBind
          /\ Closing(s, r, s.current_staple.bind)
          /\ s.current_staple.bind.t_epoch = s.send_cl

\* What a session says of its own PQ half: nothing is wedged or broken, no export
\* is spent that a bind still needs, an unused bootstrap key package means no
\* round yet, and every ephemeral in use has been minted.
Health(s, n) ==
    /\ ~s.pq_wedged /\ ~s.bind_apply_broken
    /\ s.last_cross_injected_pq <= s.recv_pq
    /\ s.last_send_pq_exported <= s.send_pq
    /\ ReExports(s) => s.last_send_pq_exported < s.send_pq
    /\ s.bootstrap_kp => Kind(s) = "none" /\ s.recv_pq = 0 /\ s.pq_turn_mine
    /\ Kind(s) = "BootstrapInitiated" => s.recv_pq = 0
    /\ Kind(s) = "Initiating" => s.recv_pq > 0 /\ s.pq_inflight.eph < n
    /\ Kind(s) = "Responding" => s.pq_inflight.ct.eph < n

\* The parked frame belongs to the round in flight.
Slot(s) ==
    LET leg == s.pending_side_band
    IN  /\ leg.kind = "bootstrap_kp" => Kind(s) = "BootstrapInitiated"
        /\ leg.kind = "bootstrap_welcome" => Kind(s) = "BootstrapResponded"
        /\ leg.kind = "ek" =>
              Kind(s) = "Initiating" /\ s.pq_inflight.eph = leg.eph /\ leg.epoch <= s.send_cl
        /\ leg.kind = "ct" => Kind(s) = "Responding" /\ s.pq_inflight.ct = leg.ct
        /\ leg.kind = "rekey_upd" => Kind(s) = "RekeyInitiated" /\ leg.epoch = s.recv_pq
        /\ leg.kind = "rekey_commit" => Kind(s) = "RekeyResponded" /\ leg.epoch + 1 = s.send_pq

\* A side-band frame that s ever sent to r belongs to the round s still has in
\* flight, or is recognisably old where it arrives.
LegFits(s, r, leg, n) ==
    /\ leg.kind = "bootstrap_kp" => r.send_pq > 0 \/ Kind(s) = "BootstrapInitiated"
    /\ leg.kind = "bootstrap_welcome" => r.recv_pq > 0 \/ Kind(s) = "BootstrapResponded"
    /\ leg.kind = "ek" =>
          /\ leg.eph < n /\ leg.epoch <= s.send_cl
          /\ Outstanding(s, r) => leg.epoch < s.send_cl
          /\ \/ leg.epoch < r.recv_cl
             \/ Kind(s) = "Initiating" /\ s.pq_inflight.eph = leg.eph
             \/ s.owed_bind # NoBind
             \/ Outstanding(s, r)
    /\ leg.kind = "ct" =>
          /\ leg.ct.eph < n
          /\ Kind(r) = "Initiating" /\ r.pq_inflight.eph = leg.ct.eph =>
                Kind(s) = "Responding" /\ s.pq_inflight.ct = leg.ct
    /\ leg.kind = "rekey_upd" =>
          \/ leg.epoch < r.send_pq
          \/ leg.epoch = r.send_pq /\ Kind(s) = "RekeyInitiated" /\ Kind(r) = "none"
    /\ leg.kind = "rekey_commit" =>
          \/ leg.epoch < r.recv_pq
          \/ /\ leg.epoch = r.recv_pq /\ leg.epoch + 1 = s.send_pq
             /\ Kind(s) = "RekeyResponded" /\ Kind(r) = "RekeyInitiated"

\* The two sessions are in one round together.
InRound(s, r, n) ==
    /\ Round(s, r) \/ Round(r, s)
    /\ Health(s, n) /\ Health(r, n)
    /\ Slot(s) /\ Slot(r)

\* Whatever was lost, repeated or delivered late, the two parties agree on the one
\* round there is, on who owns it and on how far it has come.
RoundsInStep ==
    /\ InRound(session["initiator"], session["acceptor"], fresh)
    /\ \A l \in legs : LegFits(session[l.from], session[Peer(l.from)], l.leg, fresh)

----------------------------------------------------------------------------
(* Client ids.                                                             *)

\* Every id p goes or went by is canonical at its peer: the one it has, the one
\* its folded offer made it, the ones its A.5 frames present.
IdsKnown(p) ==
    LET s == session[p]
        r == session[Peer(p)]
        presents(leg) ==
            /\ leg.kind = "rekey_upd" => leg.id \in r.theirs
            /\ leg.kind = "rekey_commit" => leg.leaves.mine \in r.theirs
    IN  /\ s.client \in r.theirs
        /\ presents(s.pending_side_band)
        /\ \A l \in legs : l.from = p => presents(l.leg)
        /\ r.current_staple.folds # NoOffer => r.current_staple.folds.id \in r.theirs
        /\ \A f \in frames :
              f.from = Peer(p) /\ f.staple.folds # NoOffer => f.staple.folds.id \in r.theirs

IdsInStep == \A p \in Party : IdsKnown(p)

\* An offer made at the current epoch of the mirror of s proposes the client of s
\* or a candidate whose key s still holds.
OfferHeld(s, offer) ==
    offer # NoOffer /\ offer.epoch = s.recv_cl =>
        offer.id = s.client \/ offer.id \in s.staged_candidates

StapleHeld(s, staple) ==
    staple.kind # "welcome" /\ staple.folds # NoOffer =>
        staple.folds.epoch = staple.epoch /\ OfferHeld(s, staple.folds)

\* Wherever an offer of p is (pending, on the wire, recorded or queued at the
\* peer, folded into the peer's staple), it is held in that sense.
OffersHeld(p) ==
    LET s == session[p]
        r == session[Peer(p)]
    IN  /\ OfferHeld(s, s.pending_proposal_message)
        /\ OfferHeld(s, r.offered_proposal)
        /\ OfferHeld(s, r.queued_proposal)
        /\ r.queued_proposal # NoOffer => r.queued_proposal.epoch = r.send_cl
        /\ StapleHeld(s, r.current_staple)
        /\ \A f \in frames : /\ f.from = p => OfferHeld(s, f.offer)
                             /\ f.from = Peer(p) => StapleHeld(s, f.staple)

CandidatesHeld == \A p \in Party : OffersHeld(p)

=============================================================================
