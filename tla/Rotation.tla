------------------------------ MODULE Rotation ------------------------------
(***************************************************************************)
(* The credentials of one party of a session, the owner, as both sides see *)
(* them: its own sequence (auth_core.mine), the peer's view of it          *)
(* (auth_core.theirs), and the id its leaf presents in each of the four    *)
(* groups, in each side's copy of the group.  The owner is the initiator,  *)
(* whose A.3 key package freezes its founding id 0.                        *)
(*                                                                         *)
(* A send is prepare_to_encrypt and encrypt together.  The network loses,  *)
(* repeats and reorders frames; it forgets the ones that can change nothing*)
(* any more.  A frame counts in a commit by the epoch its staple leads to, *)
(* as Session shows it may.  The PQ rounds are taken one at a time.        *)
(***************************************************************************)
EXTENDS AuthSequence, FiniteSets

CONSTANTS
    MaxId,      \* bound: largest id the owner rotates to
    MaxCommits, \* bound: commits of each party
    MaxRounds,  \* bound: A.5 rounds
    Serial      \* TRUE: the host starts a rotation once the last one is complete

ASSUME RotationAssumption ==
    MaxId \in Nat /\ MaxCommits \in Nat /\ MaxRounds \in Nat /\ Serial \in BOOLEAN

VARIABLES
    owner,      \* what the owner holds
    peer,       \* what its peer holds
    sent,       \* the owner's message frames
    returned,   \* the peer's message frames
    round,      \* the PQ round on the side-band
    canonical   \* every id that was ever canonical

vars == <<owner, peer, sent, returned, round, canonical>>

Founding == 0
NoOffer == [epoch |-> 0, id |-> 0]
Ids == 0..MaxId

Init ==
    /\ owner = [client |-> Founding, mine |-> Seeded(Founding),
                send_epoch |-> 1, recv_epoch |-> 1, licensed |-> TRUE,
                send_leaf |-> Founding, recv_leaf |-> Founding,
                pq |-> FALSE, send_pq_leaf |-> Founding, recv_pq_leaf |-> Founding]
    /\ peer = [their_id |-> Founding, theirs |-> Seeded(Founding),
               send_epoch |-> 1, recv_epoch |-> 1, offered |-> NoOffer, queued |-> NoOffer,
               send_leaf |-> Founding, recv_leaf |-> Founding,
               pq |-> FALSE, send_pq_leaf |-> Founding, recv_pq_leaf |-> Founding]
    /\ sent = {}
    /\ returned = {}
    /\ round = [n |-> 0, leg |-> "none", id |-> Founding]
    /\ canonical = {Founding}

\* The frames that still carry a commit, an offer or an acknowledgement.
Undelivered(fs, p) == {f \in fs : f.epoch > p.recv_epoch \/ f.offer.epoch = p.send_epoch}
Unreturned(gs, o) == {g \in gs : g.epoch > o.recv_epoch \/ (~o.licensed /\ g.seen = o.send_epoch)}

----------------------------------------------------------------------------
(* The classical ratchet.                                                  *)

\* Mutant of Handoff: the leaf moves to a candidate the peer has not committed.
HandoffEarly(o) ==
    IF o.mine.authorized_next = {} THEN o.client
    ELSE CHOOSE id \in o.mine.authorized_next : TRUE

\* Own-leaf catch-up: a commit moves our leaf to the session's current id.
Handoff(o) == o.client

OwnerCommit(o) ==
    [o EXCEPT !.send_epoch = @ + 1, !.send_leaf = Handoff(o), !.licensed = FALSE]

\* A candidate is authorized for our own sequence when it is first proposed.
OwnerPropose(o, selected) == IF selected = o.client THEN o
                             ELSE [o EXCEPT !.mine = Authorize(@, selected)]

\* The owner sends: it may commit, a fold or a bind, when the peer has applied its
\* last commit, and it offers its current id or a candidate.
OwnerSend(commits, selected) ==
    /\ commits => /\ owner.licensed /\ owner.send_epoch <= MaxCommits
                  /\ ValidSuccessor(owner.mine, owner.send_leaf, owner.client)
    /\ selected >= owner.client
    /\ Serial /\ selected # owner.client => owner.licensed /\ owner.send_leaf = owner.client
    /\ LET o == IF commits THEN OwnerCommit(owner) ELSE owner
       IN  /\ owner' = OwnerPropose(o, selected)
           /\ sent' = Undelivered(sent, peer) \cup {[epoch |-> o.send_epoch, leaf |-> o.send_leaf,
                                  offer |-> [epoch |-> o.recv_epoch, id |-> selected]]}
           /\ returned' = Unreturned(returned, o)
    /\ UNCHANGED <<peer, round, canonical>>

\* The staple of the frame is the commit the peer has not applied.
Due(f) == f.epoch = peer.recv_epoch + 1

\* The AS judges a commit that moves the owner's leaf in its own send group.
AdmitsMove(f) == ValidSuccessor(peer.theirs, peer.recv_leaf, f.leaf)

\* process_incoming: the staple, with new_sender when the leaf moved, then the
\* offer.  A refused staple ends the frame.
PeerReceive(f) ==
    /\ f.epoch <= peer.recv_epoch + 1
    /\ Due(f) => AdmitsMove(f)
    /\ LET moved == Due(f) /\ f.leaf # peer.recv_leaf
       IN  peer' = [peer EXCEPT
               !.recv_epoch = IF Due(f) THEN @ + 1 ELSE @,
               !.recv_leaf = IF moved THEN f.leaf ELSE @,
               !.theirs = IF moved THEN CommitId(@, f.leaf) ELSE @,
               !.their_id = IF moved THEN f.leaf ELSE @,
               !.offered = f.offer]
    /\ sent' = Undelivered(sent, peer')
    /\ UNCHANGED <<owner, returned, round, canonical>>

\* queue_proposal: approving the offer authorizes its credential.
PeerApprove ==
    /\ peer.offered # NoOffer
    /\ peer.offered.epoch = peer.send_epoch
    /\ peer' = [peer EXCEPT !.theirs = Authorize(@, peer.offered.id),
                            !.queued = peer.offered, !.offered = NoOffer]
    /\ UNCHANGED <<owner, sent, returned, round, canonical>>

\* The frame of the peer: its staple, with the id it folded, and an offer made at
\* the owner's epoch it has applied.
ReturnFrame(p) == [epoch |-> p.send_epoch, folds |-> p.send_leaf, seen |-> p.recv_epoch]

\* Mutant of Fold: their_principal_state is left as it was.
FoldUnnoticed(p) ==
    [p EXCEPT !.send_epoch = @ + 1, !.send_leaf = p.queued.id,
              !.theirs = CommitId(@, p.queued.id), !.queued = NoOffer, !.offered = NoOffer]

\* The peer's commit of an approved offer is the canonical step of the sequence.
Fold(p) ==
    [p EXCEPT !.send_epoch = @ + 1, !.send_leaf = p.queued.id,
              !.theirs = IF p.queued.id = p.their_id THEN @ ELSE CommitId(@, p.queued.id),
              !.their_id = p.queued.id,
              !.queued = NoOffer, !.offered = NoOffer]

PeerFold ==
    /\ peer.queued # NoOffer /\ peer.send_epoch <= MaxCommits
    /\ ValidSuccessor(peer.theirs, peer.send_leaf, peer.queued.id)
    /\ peer' = Fold(peer)
    /\ returned' = returned \cup {ReturnFrame(peer')}
    /\ sent' = Undelivered(sent, peer')
    /\ canonical' = canonical \cup {peer.queued.id}
    /\ UNCHANGED <<owner, round>>

PeerSend ==
    /\ peer.queued = NoOffer
    /\ returned' = Unreturned(returned \cup {ReturnFrame(peer)}, owner)
    /\ UNCHANGED <<owner, peer, sent, round, canonical>>

\* process_incoming: our leaf moved to a candidate, so the session becomes it.
OwnerReceive(g) ==
    LET due == g.epoch = owner.recv_epoch + 1
        moved == due /\ g.folds # owner.recv_leaf
    IN  /\ g.epoch <= owner.recv_epoch + 1
        /\ due => ValidSuccessor(owner.mine, owner.recv_leaf, g.folds)
        /\ owner' = [owner EXCEPT
               !.recv_epoch = IF due THEN @ + 1 ELSE @,
               !.recv_leaf = IF moved THEN g.folds ELSE @,
               !.mine = IF moved THEN CommitId(@, g.folds) ELSE @,
               !.client = IF moved THEN g.folds ELSE @,
               !.licensed = @ \/ g.seen = owner.send_epoch]
        /\ returned' = Unreturned(returned, owner')
        /\ UNCHANGED <<peer, sent, round, canonical>>

----------------------------------------------------------------------------
(* The PQ rounds.  round.leg is the leg on the way, round.id the id it     *)
(* presents for the owner's leaf.                                          *)

OpenLeg(leg, id) == round' = [n |-> round.n, leg |-> leg, id |-> id]
CloseRound == round' = [round EXCEPT !.leg = "none"]

\* register_bootstrap_round: the key package bears the founding id.
BootstrapBegin ==
    /\ round.leg = "none" /\ ~owner.pq
    /\ owner' = [owner EXCEPT !.mine = Pin(@, Founding)]
    /\ OpenLeg("kp", Founding)
    /\ UNCHANGED <<peer, sent, returned, canonical>>

\* Mutant of PinTheirs: the peer does not pin what the key package presents.
PinTheirsNot(seq) == seq

PinTheirs(seq) == Pin(seq, Founding)

BootstrapRespond ==
    /\ round.leg = "kp"
    /\ peer' = [peer EXCEPT !.theirs = PinTheirs(@), !.pq = TRUE, !.send_pq_leaf = Founding]
    /\ OpenLeg("kp_welcome", Founding)
    /\ UNCHANGED <<owner, sent, returned, canonical>>

\* The join validates the members of the tree, our own leaf among them.
BootstrapBind ==
    /\ round.leg = "kp_welcome"
    /\ round.id \in KnownIds(owner.mine)
    /\ owner' = [owner EXCEPT !.pq = TRUE, !.recv_pq_leaf = round.id]
    /\ CloseRound
    /\ UNCHANGED <<peer, sent, returned, canonical>>

Retire(seq, leaves) == RetireStalePins(seq, leaves)

RetireTheirs(p) == [p EXCEPT !.theirs = Retire(@, {p.send_pq_leaf, p.recv_pq_leaf})]
RetireMine(o) == [o EXCEPT !.mine = Retire(@, {o.send_pq_leaf, o.recv_pq_leaf})]

\* The owner's A.5 moves its leaf in the peer's send-PQ group; it opens while its
\* own send-PQ leaf lags.
RekeyOpen ==
    /\ round.leg = "none" /\ owner.pq /\ round.n < MaxRounds
    /\ owner.send_pq_leaf # owner.client
    /\ round' = [n |-> round.n + 1, leg |-> "upd", id |-> owner.client]
    /\ UNCHANGED <<owner, peer, sent, returned, canonical>>

\* The announced id is canonical and the AS lets the leaf move to it.
RekeyAdmitted ==
    /\ Contains(peer.theirs, round.id)
    /\ ValidSuccessor(peer.theirs, peer.send_pq_leaf, round.id)

RekeyRespond ==
    /\ round.leg = "upd"
    /\ RekeyAdmitted
    /\ peer' = RetireTheirs([peer EXCEPT !.send_pq_leaf = round.id])
    /\ OpenLeg("commit", round.id)
    /\ UNCHANGED <<owner, sent, returned, canonical>>

RekeyApply ==
    /\ round.leg = "commit"
    /\ owner' = RetireMine([owner EXCEPT !.recv_pq_leaf = round.id])
    /\ CloseRound
    /\ UNCHANGED <<peer, sent, returned, canonical>>

\* The peer's A.5, opened for a lag of its own: the owner's commit moves the
\* owner's leaf in its own send-PQ group.
PeerRekeyOpen ==
    /\ round.leg = "none" /\ owner.pq /\ round.n < MaxRounds
    /\ round' = [n |-> round.n + 1, leg |-> "peer_upd", id |-> Founding]
    /\ UNCHANGED <<owner, peer, sent, returned, canonical>>

PeerRekeyRespond ==
    /\ round.leg = "peer_upd"
    /\ ValidSuccessor(owner.mine, owner.send_pq_leaf, owner.client)
    /\ owner' = RetireMine([owner EXCEPT !.send_pq_leaf = owner.client])
    /\ OpenLeg("peer_commit", owner.client)
    /\ UNCHANGED <<peer, sent, returned, canonical>>

PeerRekeyAdmitted == ValidSuccessor(peer.theirs, peer.recv_pq_leaf, round.id)

PeerRekeyApply ==
    /\ round.leg = "peer_commit"
    /\ PeerRekeyAdmitted
    /\ peer' = RetireTheirs([peer EXCEPT !.recv_pq_leaf = round.id])
    /\ CloseRound
    /\ UNCHANGED <<owner, sent, returned, canonical>>

Next ==
    \/ \E commits \in BOOLEAN, selected \in Ids : OwnerSend(commits, selected)
    \/ \E f \in sent : PeerReceive(f)
    \/ PeerApprove
    \/ PeerFold
    \/ PeerSend
    \/ \E g \in returned : OwnerReceive(g)
    \/ BootstrapBegin \/ BootstrapRespond \/ BootstrapBind
    \/ RekeyOpen \/ RekeyRespond \/ RekeyApply
    \/ PeerRekeyOpen \/ PeerRekeyRespond \/ PeerRekeyApply

Spec == Init /\ [][Next]_vars

----------------------------------------------------------------------------
(* Properties.                                                             *)

\* A lagging leaf may fast-forward to an already-canonical credential: the commit
\* that moves the owner's leaf in its own send group is never refused by the peer,
\* whatever commit of the peer it crosses, so its frames are never shut out.
CatchUpAccepted == \A f \in sent : Due(f) => AdmitsMove(f)

\* their_principal_state is the truth: the id the owner runs, or the one the
\* owner will run when it applies the peer's outstanding commit.
PeerKnowsOwner ==
    peer.their_id = IF peer.send_epoch > owner.recv_epoch THEN peer.send_leaf ELSE owner.client

\* Ids that became canonical after the one a leaf presents.
StepsBehind(leaf) == Cardinality({id \in canonical : id > leaf})

\* The A.5 leg on the way names an id, and moves a leaf, that the peer's window
\* still has: less than a window of canonical steps old, or for the leaf the
\* founding id, which is pinned.
WithinWindow(leaf) ==
    /\ StepsBehind(round.id) < HistoryWindow
    /\ leaf = Founding \/ StepsBehind(leaf) < HistoryWindow

\* A PQ leaf within the window can be caught up: the join of the bootstrap knows
\* its own leaf, and the A.5 leg that moves a leaf is admitted, however often the
\* owner rotated before, during and after the bootstrap.
PqCatchUpAdmitted ==
    /\ round.leg = "kp_welcome" => round.id \in KnownIds(owner.mine)
    /\ round.leg = "upd" /\ WithinWindow(peer.send_pq_leaf) => RekeyAdmitted
    /\ round.leg = "peer_commit" /\ WithinWindow(peer.recv_pq_leaf) => PeerRekeyAdmitted

=============================================================================
