------------------------------ MODULE Session ------------------------------
(***************************************************************************)
(* A TwoMLSPQ session: two parties, each with a send group that only it    *)
(* commits to and a receive group that mirrors the peer's send group.  A   *)
(* group has a classical half and, once bootstrapped, a post-quantum half. *)
(*                                                                         *)
(* A party's state is the record session[p], the part of SessionInner that *)
(* decides control; its fields keep the names of the Rust fields.  Each    *)
(* handler of the API is an operator from the record to the record, and    *)
(* each action applies one whole handler to one party.  The network keeps  *)
(* everything that was ever sent, so a frame can be lost, delayed,         *)
(* reordered or delivered twice.                                           *)
(*                                                                         *)
(* An epoch is a number; 0 stands for a group half that does not exist.    *)
(* Secrets, key packages and credentials are names, never bytes.           *)
(***************************************************************************)
EXTENDS Integers, FiniteSets

CONSTANTS
    SendPskWindow,    \* SEND_PSK_WINDOW: epochs the cross-party PSK ledger keeps
    CandidateWindow,  \* CANDIDATE_WINDOW: rotation candidates staged at once
    MaxFold,          \* bound: the host approves no offer at or past this epoch
    MaxPq,            \* bound: no PQ round opens at or past this send-PQ epoch
    MaxId,            \* bound: largest client id a party rotates to
    Approvers,        \* parties whose host approves offers (queue_proposal)
    Rotators,         \* parties whose host rotates its client id
    Takers            \* parties whose host may call pq_take_pending_outbound

Party == {"initiator", "acceptor"}

\* The ledger keeps the previous send epoch beside the current one (the code keeps
\* 8): a commit of the peer may inject either.
ASSUME WindowAssumption == SendPskWindow \in Nat \ {0, 1} /\ CandidateWindow \in Nat \ {0}
ASSUME BoundAssumption == MaxFold \in Nat /\ MaxPq \in Nat /\ MaxId \in Nat
ASSUME HostAssumption == Approvers \subseteq Party /\ Rotators \subseteq Party /\ Takers \subseteq Party

VARIABLES
    session,  \* session[p]: what party p holds (SessionInner)
    frames,   \* every message frame sent: [from, staple, offer]
    legs,     \* every side-band frame sent: [from, leg]
    fresh     \* next unused name for an ephemeral or an injected secret

vars == <<session, frames, legs, fresh>>

----------------------------------------------------------------------------
(* Parties and data.                                                       *)

Peer(p) == IF p = "initiator" THEN "acceptor" ELSE "initiator"

Ids == 0..MaxId

\* Upd(self) staged in the receive group: the epoch it is bound to and the
\* client id it proposes.  Epoch 0 is the absence of an offer.
Offer == [epoch : Nat, id : Nat]
NoOffer == [epoch |-> 0, id |-> 0]

\* The secret a bind's PQ commit injects: a random one sealed to an ephemeral
\* (A.4) or the cross-party export of the responder's send-PQ epoch (A.3, A.5).
Secret == [src : {"none", "random", "export"}, n : Nat]
NoSecret == [src |-> "none", n |-> 0]
Random(n) == [src |-> "random", n |-> n]
Export(epoch) == [src |-> "export", n |-> epoch]

\* OwedBind: the epochs reserved for the classical partner of a PQ commit that
\* has landed, and what that PQ commit injected.
OwedBind == [t_epoch : Nat, pq_epoch : Nat, secret : Secret]
NoBind == [t_epoch |-> 0, pq_epoch |-> 0, secret |-> NoSecret]

\* What current_staple holds: the group's welcome, a classical commit, or the
\* pair of commits of a bind.  "epoch" is the classical epoch the commit was
\* made in (0 for the welcome), "cross" the peer epoch whose cross-party PSK it
\* injects (0: none), "folds" the peer's offer it commits, "sender" the
\* committer's id after it, "bind" the attestation and PQ commit it carries.
Staple == [kind : {"welcome", "commit", "bind"}, epoch : Nat, cross : Nat,
           folds : Offer, sender : Nat, bind : OwedBind]
Welcome == [kind |-> "welcome", epoch |-> 0, cross |-> 0,
            folds |-> NoOffer, sender |-> 0, bind |-> NoBind]

Frame == [from : Party, staple : Staple, offer : Offer]

\* A ciphertext of the injected secret: sealed to an ephemeral, under the PQ
\* epoch of the initiator's send group as the responder mirrors it.
Ciphertext(eph, secret, pq_epoch) == [eph |-> eph, secret |-> secret, pq_epoch |-> pq_epoch]

\* Side-band frames.  NoLeg is an empty pending_side_band slot.
NoLeg == [kind |-> "none"]
KpLeg == [kind |-> "bootstrap_kp"]
KpWelcomeLeg(mine) == [kind |-> "bootstrap_welcome", creator |-> mine]
EkLeg(epoch, eph) == [kind |-> "ek", epoch |-> epoch, eph |-> eph]
CtLeg(epoch, ct) == [kind |-> "ct", epoch |-> epoch, ct |-> ct]
UpdLeg(epoch, id) == [kind |-> "rekey_upd", epoch |-> epoch, id |-> id]
PqCommitLeg(epoch, cross, leaves) ==
    [kind |-> "rekey_commit", epoch |-> epoch, cross |-> cross, leaves |-> leaves]

\* A cross-party PSK in the ephemeral store: the PQ half it was exported from.
StoredPsk == [half : {"send", "recv"}, epoch : Nat]
SendPsk(epoch) == [half |-> "send", epoch |-> epoch]
RecvPsk(epoch) == [half |-> "recv", epoch |-> epoch]

\* PqInflight.
Idle == [kind |-> "none"]
Initiating(eph) == [kind |-> "Initiating", eph |-> eph]
Responding(ct) == [kind |-> "Responding", ct |-> ct]
BootstrapInitiated == [kind |-> "BootstrapInitiated"]
BootstrapResponded == [kind |-> "BootstrapResponded"]
RekeyInitiated == [kind |-> "RekeyInitiated"]
RekeyResponded == [kind |-> "RekeyResponded"]

----------------------------------------------------------------------------
(* The two sessions as initiate and accept leave them: the initiator has a *)
(* full send group and no receive group; the acceptor joined that group    *)
(* and created a classical-only send group whose welcome is its staple.    *)

NewSession ==
    [send_cl |-> 1, send_pq |-> 0, recv_cl |-> 0, recv_pq |-> 0,
     current_staple |-> Welcome,
     pending_proposal_hash |-> FALSE, pending_proposal_message |-> NoOffer,
     offered_proposal |-> NoOffer, queued_proposal |-> NoOffer,
     peer_applied_send_epoch |-> 0, last_cross_injected |-> 0,
     pq_inflight |-> Idle, pending_side_band |-> NoLeg,
     owed_bind |-> NoBind, pq_turn_mine |-> FALSE,
     last_cross_injected_pq |-> 0, last_send_pq_exported |-> 0,
     psk_stores |-> {},              \* A.5 cross-party PSKs still registered
     opened |-> {},                  \* A.4 legs whose generation is consumed
     recv_pq_update |-> 0,           \* recv-PQ epoch whose Upd' leaf key is held
     pq_wedged |-> FALSE, bind_apply_broken |-> FALSE,
     bootstrap_kp |-> FALSE,
     client |-> 0, staged_candidates |-> {}, deferred_candidate |-> 0,
     theirs |-> {0},                 \* the peer's canonical ids
     send_pq_leaf |-> [mine |-> 0, theirs |-> 0],
     recv_pq_leaf |-> [mine |-> 0, theirs |-> 0]]

Initiate == [NewSession EXCEPT !.send_pq = 1, !.pq_turn_mine = TRUE, !.bootstrap_kp = TRUE]
AcceptWith == [NewSession EXCEPT !.recv_cl = 1, !.recv_pq = 1, !.last_cross_injected = 1]

Init ==
    /\ session = [p \in Party |-> IF p = "initiator" THEN Initiate ELSE AcceptWith]
    /\ frames = {}
    /\ legs = {}
    /\ fresh = 1

----------------------------------------------------------------------------
(* Helpers of SessionInner.                                                *)

Joined(s) == s.recv_cl > 0
PqHalvesLive(s) == s.send_pq > 0 /\ s.recv_pq > 0
CheckNotWedged(s) == ~s.pq_wedged

\* Mutant of ValidateOfferedUpdate: accepts an offer of any epoch up to the current one.
ValidateOfferedUpdateStale(s, offer) == offer # NoOffer /\ offer.epoch <= s.send_cl

\* An offer validates when it is bound to the send group's current epoch.
ValidateOfferedUpdate(s, offer) == offer.epoch = s.send_cl

PeerAppliedOurSendEpoch(s) == s.peer_applied_send_epoch >= s.send_cl

\* Mutant of SendPskResolves: the ledger lacks the current epoch.
SendPskResolvesLate(s, cross) ==
    cross = 0 \/ (cross < s.send_cl /\ cross > s.send_cl - SendPskWindow)

\* inject_send_psks can resolve the cross-party PSK a peer commit names.
SendPskResolves(s, cross) == cross = 0 \/ (cross <= s.send_cl /\ cross > s.send_cl - SendPskWindow)

\* One-shot exporter leaf: the watermark of an epoch already exported.
RecvPqLeafSpent(s) == s.last_cross_injected_pq = s.recv_pq

SendPqLeafSpent(s) == s.last_send_pq_exported = s.send_pq

\* Our own send-PQ leaf presents an id the session has rotated past.
SendPqLeafLags(s) == s.send_pq > 0 /\ s.send_pq_leaf.mine # s.client

\* Re-mint the parked A.4 leg at the send group's current classical epoch.
RewrapSideBand(s) ==
    LET due(kind) == s.pending_side_band.kind = kind /\ s.pending_side_band.epoch < s.send_cl
    IN  IF due("ek") /\ s.pq_inflight.kind = "Initiating"
        THEN [s EXCEPT !.pending_side_band = EkLeg(s.send_cl, s.pq_inflight.eph)]
        ELSE IF due("ct") /\ s.pq_inflight.kind = "Responding"
        THEN [s EXCEPT !.pending_side_band = CtLeg(s.send_cl, s.pq_inflight.ct)]
        ELSE s

\* Mutant of CommitPqAndOweBind: the bind attests the PQ epoch before the commit.
CommitPqAndOweBindStale(s, secret) ==
    [s EXCEPT !.send_pq = @ + 1,
              !.owed_bind = [t_epoch |-> s.send_cl + 1, pq_epoch |-> s.send_pq,
                             secret |-> secret]]

\* The PQ commit that injects `secret` into the send-PQ half, and the bind it
\* leaves owed: both next epochs are reserved before either half is sent.
CommitPqAndOweBind(s, secret) ==
    [s EXCEPT !.send_pq = @ + 1,
              !.owed_bind = [t_epoch |-> s.send_cl + 1, pq_epoch |-> s.send_pq + 1,
                             secret |-> secret]]

\* Whether discharge_owed_bind finds the reservation it made still true.
ReservationHolds(s) ==
    s.owed_bind # NoBind =>
        /\ s.owed_bind.t_epoch = s.send_cl + 1
        /\ s.owed_bind.pq_epoch = s.send_pq

----------------------------------------------------------------------------
(* prepare_to_encrypt.                                                     *)

\* Mutant of DidCommit: an owed bind needs no license.
DidCommitUnlicensed(s) == s.queued_proposal # NoOffer \/ s.owed_bind # NoBind

\* Is this prepare going to commit?  A fold is its own evidence; an owed bind
\* waits for the license.
DidCommit(s) ==
    \/ s.queued_proposal # NoOffer
    \/ s.owed_bind # NoBind /\ PeerAppliedOurSendEpoch(s)

\* The staple of the classical commit a prepare makes.
CommitStaple(s) ==
    [kind |-> IF s.owed_bind = NoBind THEN "commit" ELSE "bind",
     epoch |-> s.send_cl,
     cross |-> IF s.last_cross_injected = s.recv_cl THEN 0 ELSE s.recv_cl,
     folds |-> s.queued_proposal, sender |-> s.client, bind |-> s.owed_bind]

\* Mutant of TurnAfterCommit: the discharge keeps the turn.
TurnAfterCommitKept(s) == s.pq_turn_mine

\* The turn passes with the bind.
TurnAfterCommit(s) == s.pq_turn_mine /\ s.owed_bind = NoBind

\* Mutant of TheirsAfterCommit: a folded id is not recorded as canonical.
TheirsAfterCommitLate(s) == s.theirs

\* The folded id becomes canonical.
TheirsAfterCommit(s) ==
    IF s.queued_proposal = NoOffer THEN s.theirs ELSE s.theirs \cup {s.queued_proposal.id}

\* The classical commit of a prepare, discharging the owed bind if there is one.
DischargeAndCommit(s) ==
    [s EXCEPT !.queued_proposal = NoOffer,
              !.last_cross_injected = s.recv_cl,
              !.owed_bind = NoBind,
              !.pq_turn_mine = TurnAfterCommit(s),
              !.send_cl = @ + 1,
              !.theirs = TheirsAfterCommit(s),
              !.current_staple = CommitStaple(s),
              !.offered_proposal = NoOffer]

\* A prepare whose reservation check fails: the fold, the debt and the
\* cross-party leaf are gone, nothing was committed.
FailedDischarge(s) ==
    [s EXCEPT !.queued_proposal = NoOffer, !.owed_bind = NoBind,
              !.last_cross_injected = s.recv_cl]

\* The candidate the Upd proposes: the one the host selects, else a deferred
\* one a freed slot can take.
Admitted(s, selected) ==
    IF selected # 0 THEN selected
    ELSE IF Cardinality(s.staged_candidates) < CandidateWindow THEN s.deferred_candidate
    ELSE 0

\* Mutant of AdmitCandidate: a full pool drops what it holds for the newcomer.
AdmitCandidateEvicting(s, id) ==
    [s EXCEPT !.staged_candidates =
        IF Cardinality(@) < CandidateWindow THEN @ \cup {id} ELSE {id}]

AdmitCandidate(s, id) ==
    IF id \in s.staged_candidates \/ id = s.deferred_candidate THEN s
    ELSE IF Cardinality(s.staged_candidates) < CandidateWindow
    THEN [s EXCEPT !.staged_candidates = @ \cup {id}]
    ELSE [s EXCEPT !.deferred_candidate = id]

\* Stage Upd(self) in the receive group at its current epoch.  A selected
\* candidate that was only deferred is not staged: the prepare ends in an error
\* after the commit, with no proposal pending.
StageProposal(s, selected) ==
    LET id == Admitted(s, selected)
        s1 == IF selected = 0 /\ id # 0 THEN [s EXCEPT !.deferred_candidate = 0] ELSE s
        s2 == IF id # 0 THEN AdmitCandidate(s1, id) ELSE s1
    IN  IF id # 0 /\ id \notin s2.staged_candidates
        THEN s2
        ELSE RewrapSideBand(
               [s2 EXCEPT !.pending_proposal_hash = TRUE,
                          !.pending_proposal_message =
                              [epoch |-> s.recv_cl, id |-> IF id # 0 THEN id ELSE s.client]])

PrepareRatchetCommit(s, selected) ==
    IF ~DidCommit(s) THEN StageProposal(s, selected)
    ELSE IF ~ReservationHolds(s) THEN FailedDischarge(s)
    ELSE StageProposal(DischargeAndCommit(s), selected)

\* Before the return welcome only the initial envelope can be sent.
PreparePreEstablishment(s) ==
    RewrapSideBand([s EXCEPT !.pending_proposal_hash = TRUE,
                             !.pending_proposal_message = NoOffer])

PrepareToEncrypt(p, selected) ==
    LET s == session[p]
    IN  /\ selected # 0 => p \in Rotators /\ Joined(s) /\ selected > s.client
        /\ session' = [session EXCEPT ![p] =
                          IF Joined(s) THEN PrepareRatchetCommit(s, selected)
                          ELSE PreparePreEstablishment(s)]
        /\ UNCHANGED <<frames, legs, fresh>>

----------------------------------------------------------------------------
(* encrypt, and the PQ round it may open.                                  *)

CanStage(s) ==
    /\ s.pq_turn_mine
    /\ PqHalvesLive(s)
    /\ s.pq_inflight = Idle
    /\ s.owed_bind = NoBind
    /\ s.pending_side_band = NoLeg
    /\ CheckNotWedged(s)
    /\ s.send_pq < MaxPq

StageRatchet(s) ==
    [s EXCEPT !.pq_inflight = Initiating(fresh),
              !.pending_side_band = EkLeg(s.send_cl, fresh)]

StageRekey(s) ==
    [s EXCEPT !.pq_inflight = RekeyInitiated,
              !.pending_side_band = UpdLeg(s.recv_pq, s.client),
              !.recv_pq_update = s.recv_pq]

MaybeStageNextRound(s) ==
    IF ~CanStage(s) THEN s
    ELSE IF SendPqLeafLags(s) THEN StageRekey(s) ELSE StageRatchet(s)

\* What encrypt does after the frame is composed.
AfterEncrypt(s) ==
    MaybeStageNextRound(RewrapSideBand(
        [s EXCEPT !.pending_proposal_hash = FALSE, !.pending_proposal_message = NoOffer]))

\* The frame of an established session: staple, offer, application message.
MessageFrame(p) ==
    [from |-> p, staple |-> session[p].current_staple,
     offer |-> session[p].pending_proposal_message]

ComposeFrame(p) ==
    LET s == session[p]
    IN  /\ s.pending_proposal_hash
        /\ s.pending_proposal_message # NoOffer
        /\ session' = [session EXCEPT ![p] = AfterEncrypt(s)]
        /\ fresh' = IF session'[p].pq_inflight = Initiating(fresh) THEN fresh + 1 ELSE fresh
        /\ UNCHANGED legs

EncryptFrame(p) == ComposeFrame(p) /\ frames' = frames \cup {MessageFrame(p)}

\* No proposal staged: the initial envelope while unjoined (it carries nothing
\* the acceptor does not have), an error once joined.  Both consume the hash.
EncryptWithoutProposal(p) ==
    LET s == session[p]
    IN  /\ s.pending_proposal_hash
        /\ s.pending_proposal_message = NoOffer
        /\ session' = [session EXCEPT ![p].pending_proposal_hash = FALSE]
        /\ UNCHANGED <<frames, legs, fresh>>

Encrypt(p) == EncryptFrame(p) \/ EncryptWithoutProposal(p)

----------------------------------------------------------------------------
(* process_incoming.                                                       *)

StapleEpochAction(s, staple) ==
    IF staple.epoch < s.recv_cl THEN "skip"
    ELSE IF staple.epoch = s.recv_cl THEN "apply"
    ELSE "desync"

\* Mutant of ProcessWelcome: a repeated welcome is applied again.
ProcessWelcomeAgain(s) == [s EXCEPT !.recv_cl = 1]

\* process_welcome: join once; the welcome we already joined by is a no-op.
ProcessWelcome(s) == IF Joined(s) THEN s ELSE [s EXCEPT !.recv_cl = 1]

\* A peer commit may move our leaf to an id we proposed: that candidate
\* becomes the session's client and the whole pool is pruned.
CanonicalizedOwn(s, staple) == staple.folds # NoOffer /\ staple.folds.id # s.client
WinnerHeld(s, staple) == CanonicalizedOwn(s, staple) => staple.folds.id \in s.staged_candidates

LeafChanges(s, staple) ==
    LET s1 == [s EXCEPT !.theirs = @ \cup {staple.sender}]
    IN  IF CanonicalizedOwn(s, staple) /\ WinnerHeld(s, staple)
        THEN [s1 EXCEPT !.client = staple.folds.id, !.staged_candidates = {}]
        ELSE s1

ApplyCommit(s, staple) == LeafChanges([s EXCEPT !.recv_cl = @ + 1], staple)

\* The bind the responder waits for, with the secret it holds or re-derives.
AwaitsBind(s) == s.pq_inflight.kind \in {"Responding", "BootstrapResponded", "RekeyResponded"}
ReExports(s) == s.pq_inflight.kind \in {"BootstrapResponded", "RekeyResponded"}

\* Mutant of HeldSecret: re-derives the secret one send-PQ epoch back.
HeldSecretBehind(s) ==
    IF s.pq_inflight.kind = "Responding" THEN s.pq_inflight.ct.secret ELSE Export(s.send_pq - 1)

HeldSecret(s) ==
    IF s.pq_inflight.kind = "Responding" THEN s.pq_inflight.ct.secret ELSE Export(s.send_pq)

\* apply_bind: first the PQ commit, which opens with our secret at our mirror's
\* epoch; then the classical one, whose PSK must resolve; then the attestation.
PqCommitOpens(s, staple) ==
    staple.bind.secret = HeldSecret(s) /\ staple.bind.pq_epoch = s.recv_pq + 1
PairApplies(s, staple) == PqCommitOpens(s, staple) /\ SendPskResolves(s, staple.cross)
BindOpens(s, staple) == PairApplies(s, staple) /\ staple.bind.t_epoch = s.recv_cl + 1

\* A failure keeps the halves that already moved and breaks the receive side.
ApplyBind(s, staple) ==
    LET s1 == [s EXCEPT !.pq_inflight = Idle,
                        !.last_send_pq_exported = IF ReExports(s) THEN s.send_pq ELSE @,
                        !.recv_pq = IF PqCommitOpens(s, staple) THEN @ + 1 ELSE @,
                        !.recv_cl = IF PairApplies(s, staple) THEN @ + 1 ELSE @]
    IN  IF BindOpens(s, staple)
        THEN LeafChanges([s1 EXCEPT !.pq_turn_mine = TRUE, !.pending_side_band = NoLeg], staple)
        ELSE [s1 EXCEPT !.bind_apply_broken = TRUE]

\* Whether the staple can be processed at all: the other cases return an error
\* and leave the session as it was.
StapleAdmitted(s, staple) ==
    \/ staple.kind = "welcome"
    \/ /\ Joined(s)
       /\ \/ StapleEpochAction(s, staple) = "skip"
          \/ /\ StapleEpochAction(s, staple) = "apply"
             /\ \/ staple.kind = "commit" /\ SendPskResolves(s, staple.cross)
                \/ /\ staple.kind = "bind"
                   /\ AwaitsBind(s)
                   /\ ReExports(s) => ~SendPqLeafSpent(s)

ProcessStaple(s, staple) ==
    IF staple.kind = "welcome" THEN ProcessWelcome(s)
    ELSE IF StapleEpochAction(s, staple) = "skip" THEN s
    ELSE IF staple.kind = "commit" THEN ApplyCommit(s, staple)
    ELSE ApplyBind(s, staple)

\* Mutant of RecordOffer: any offer counts as evidence.
RecordOfferUnchecked(s, offer) ==
    [s EXCEPT !.offered_proposal = offer, !.peer_applied_send_epoch = s.send_cl]

\* The offer of every frame is recorded, and when it validates it is evidence
\* that the peer applied our current send epoch.
RecordOffer(s, offer) ==
    [s EXCEPT !.offered_proposal = offer,
              !.peer_applied_send_epoch =
                  IF ~PeerAppliedOurSendEpoch(s) /\ ValidateOfferedUpdate(s, offer)
                  THEN s.send_cl ELSE @]

\* The staple first, then the application message, then the offer.  A failed
\* bind, or a commit of a candidate we do not hold, ends before the offer.
FrameFails(s, f) ==
    LET s1 == ProcessStaple(s, f.staple)
    IN  s1.bind_apply_broken \/ (s1.recv_cl > s.recv_cl /\ ~WinnerHeld(s, f.staple))

ProcessFrame(s, f) ==
    LET s1 == ProcessStaple(s, f.staple)
    IN  IF FrameFails(s, f) THEN s1 ELSE RecordOffer(s1, f.offer)

ProcessIncomingFrame(p, f) ==
    /\ f.from = Peer(p)
    /\ ~session[p].bind_apply_broken
    /\ StapleAdmitted(session[p], f.staple)
    /\ session' = [session EXCEPT ![p] = ProcessFrame(@, f)]
    /\ UNCHANGED <<frames, legs, fresh>>

ProcessIncoming(p) == \E f \in frames : ProcessIncomingFrame(p, f)

\* The acceptor's bare return welcome, delivered outside a message frame.
ProcessIncomingWelcome(p) ==
    /\ p = "initiator"
    /\ ~session[p].bind_apply_broken
    /\ ~Joined(session[p])
    /\ session' = [session EXCEPT ![p] = ProcessWelcome(@)]
    /\ UNCHANGED <<frames, legs, fresh>>

\* The host approves the offer it was shown; only the latest can be queued.
QueueProposal(p) ==
    LET s == session[p]
    IN  /\ p \in Approvers
        /\ s.offered_proposal # NoOffer
        /\ ValidateOfferedUpdate(s, s.offered_proposal)
        /\ s.send_cl < MaxFold
        /\ session' = [session EXCEPT ![p].queued_proposal = s.offered_proposal,
                                      ![p].offered_proposal = NoOffer]
        /\ UNCHANGED <<frames, legs, fresh>>

----------------------------------------------------------------------------
(* Handing out the retained side-band frame.                               *)

PqPendingOutbound(p) ==
    /\ Joined(session[p])
    /\ session[p].pending_side_band # NoLeg
    /\ legs' = legs \cup {[from |-> p, leg |-> session[p].pending_side_band]}
    /\ UNCHANGED <<session, frames, fresh>>

PqTakePendingOutbound(p) ==
    /\ p \in Takers
    /\ Joined(session[p])
    /\ session[p].pending_side_band # NoLeg
    /\ legs' = legs \cup {[from |-> p, leg |-> session[p].pending_side_band]}
    /\ session' = [session EXCEPT ![p].pending_side_band = NoLeg]
    /\ UNCHANGED <<frames, fresh>>

----------------------------------------------------------------------------
(* A.3: stand up the acceptor's PQ half.                                   *)

\* Mutant of RegisterBootstrapRound: the two slots are swapped.
RegisterBootstrapRoundSwapped(s) ==
    [s EXCEPT !.bootstrap_kp = FALSE,
              !.pending_side_band = BootstrapInitiated,
              !.pq_inflight = KpLeg]

RegisterBootstrapRound(s) ==
    [s EXCEPT !.bootstrap_kp = FALSE,
              !.pending_side_band = KpLeg,
              !.pq_inflight = BootstrapInitiated]

CanBeginBootstrap(s) ==
    /\ s.pq_turn_mine
    /\ Joined(s) /\ s.recv_pq = 0
    /\ s.pq_inflight # BootstrapInitiated
    /\ s.bootstrap_kp

\* First call: park the round and return its frame.  A repeat re-seals the
\* parked frame (PqPendingOutbound).
PqBootstrapBegin(p) ==
    /\ CanBeginBootstrap(session[p])
    /\ session' = [session EXCEPT ![p] = RegisterBootstrapRound(@)]
    /\ legs' = legs \cup {[from |-> p, leg |-> KpLeg]}
    /\ UNCHANGED <<frames, fresh>>

CanBeginEnvelope(p, s) ==
    p = "initiator" /\ ~Joined(s) /\ s.pq_inflight = Idle /\ s.bootstrap_kp

\* The same round opened before the return welcome, in an HPKE envelope.
PqBootstrapEnvelope(p) ==
    /\ CanBeginEnvelope(p, session[p])
    /\ session' = [session EXCEPT ![p] = RegisterBootstrapRound(@)]
    /\ legs' = legs \cup {[from |-> p, leg |-> KpLeg]}
    /\ UNCHANGED <<frames, fresh>>

\* A side-band frame of the given kind that the peer has sent.
Arrives(p, leg) == [from |-> Peer(p), leg |-> leg] \in legs

\* Mutant of CanRespondBootstrap: asks for an idle slot, not for a missing half.
CanRespondBootstrapIdle(s) == s.pq_inflight = Idle

\* A half that exists answers a repeated key package with DuplicateSideBand.
CanRespondBootstrap(s) == s.send_pq = 0

RespondBootstrap(s) ==
    [s EXCEPT !.send_pq = 1,
              !.send_pq_leaf = [mine |-> s.client, theirs |-> 0],
              !.pq_inflight = BootstrapResponded,
              !.pending_side_band = KpWelcomeLeg(s.client)]

PqBootstrapRespond(p) ==
    /\ Arrives(p, KpLeg)
    /\ p = "acceptor"
    /\ CanRespondBootstrap(session[p])
    /\ session' = [session EXCEPT ![p] = RespondBootstrap(@)]
    /\ UNCHANGED <<frames, legs, fresh>>

\* past_no_return around the export and the PQ commit: a leaf already spent
\* wedges the side-band for good.
ExportAndOweBind(s) ==
    IF RecvPqLeafSpent(s)
    THEN [s EXCEPT !.pq_wedged = TRUE]
    ELSE [CommitPqAndOweBind(s, Export(s.recv_pq)) EXCEPT
             !.last_cross_injected_pq = s.recv_pq,
             !.pq_inflight = Idle,
             !.pending_side_band = NoLeg]

PqBootstrapBind(p) ==
    LET s == session[p]
    IN  \E l \in legs :
        /\ l.from = Peer(p) /\ l.leg.kind = "bootstrap_welcome"
        /\ CheckNotWedged(s)
        /\ s.recv_pq = 0
        /\ s.pq_inflight = BootstrapInitiated
        /\ Joined(s)
        /\ ~s.pending_proposal_hash
        /\ s.owed_bind = NoBind
        /\ session' = [session EXCEPT ![p] =
              ExportAndOweBind([s EXCEPT !.recv_pq = 1,
                                         !.recv_pq_leaf = [mine |-> 0, theirs |-> l.leg.creator]])]
        /\ UNCHANGED <<frames, legs, fresh>>

----------------------------------------------------------------------------
(* A.4: ephemeral, ciphertext, bind.                                       *)

\* An A.4 leg decrypts in the mirror it was minted for: at the mirror's
\* current epoch (older is refused, newer is not reached yet), and once.
LegDecrypts(s, l) == l.leg.epoch = s.recv_cl /\ l.leg \notin s.opened

\* Mutant of CanRespondRatchet: a second ephemeral is answered while one is.
CanRespondRatchetAgain(s) == ~s.pending_proposal_hash /\ s.recv_pq > 0

\* The door of the responder: no round of its own in flight, no send prepared.
CanRespondRatchet(s) == s.pq_inflight = Idle /\ ~s.pending_proposal_hash /\ s.recv_pq > 0

RespondRatchet(s, leg) ==
    LET ct == Ciphertext(leg.eph, Random(fresh), s.recv_pq)
    IN  [s EXCEPT !.opened = @ \cup {leg},
                  !.pq_inflight = Responding(ct),
                  !.pending_side_band = CtLeg(s.send_cl, ct)]

PqRatchetRespond(p) ==
    \E l \in legs :
        /\ l.from = Peer(p) /\ l.leg.kind = "ek"
        /\ LegDecrypts(session[p], l)
        /\ CanRespondRatchet(session[p])
        /\ session' = [session EXCEPT ![p] = RespondRatchet(@, l.leg)]
        /\ fresh' = fresh + 1
        /\ UNCHANGED <<frames, legs>>

\* A ciphertext opens with the ephemeral and the PQ epoch it was sealed to.
OpenInjectedSecret(s, ct) == ct.eph = s.pq_inflight.eph /\ ct.pq_epoch = s.send_pq

\* A leg that decrypts but does not open is spent and changes nothing else.
BindRatchet(s, leg) ==
    LET s1 == [s EXCEPT !.opened = @ \cup {leg}]
    IN  IF OpenInjectedSecret(s, leg.ct)
        THEN [CommitPqAndOweBind(s1, leg.ct.secret) EXCEPT
                 !.pq_inflight = Idle, !.pending_side_band = NoLeg]
        ELSE s1

PqRatchetBind(p) ==
    LET s == session[p]
    IN  \E l \in legs :
        /\ l.from = Peer(p) /\ l.leg.kind = "ct"
        /\ LegDecrypts(s, l)
        /\ ~s.pending_proposal_hash
        /\ s.owed_bind = NoBind
        /\ CheckNotWedged(s)
        /\ s.pq_inflight.kind = "Initiating"
        /\ session' = [session EXCEPT ![p] = BindRatchet(s, l.leg)]
        /\ UNCHANGED <<frames, legs, fresh>>

----------------------------------------------------------------------------
(* A.5: update, standalone PQ commit, bind.                                *)

\* Mutant of UpdAccepted: an update of an earlier epoch is accepted.
UpdAcceptedLate(s, leg) == leg.id \in s.theirs

\* The update is for our send-PQ epoch and names an id we know as canonical.
UpdAccepted(s, leg) == leg.epoch = s.send_pq /\ leg.id \in s.theirs

\* The cross-party leaf is exported, registered and stamped before the update
\* is looked at; the commit forgets the PSK again, a refused update does not.
RespondRekey(s, leg) ==
    LET spent == RecvPqLeafSpent(s)
        stamped == [s EXCEPT !.last_cross_injected_pq = s.recv_pq]
        leaves == [mine |-> s.client, theirs |-> leg.id]
    IN  IF UpdAccepted(s, leg)
        THEN [stamped EXCEPT !.send_pq = @ + 1,
                             !.send_pq_leaf = leaves,
                             !.pq_inflight = RekeyResponded,
                             !.pending_side_band =
                                 PqCommitLeg(s.send_pq, IF spent THEN 0 ELSE s.recv_pq, leaves)]
        ELSE [stamped EXCEPT !.psk_stores = @ \cup (IF spent THEN {} ELSE {RecvPsk(s.recv_pq)})]

PqRekeyRespond(p) ==
    LET s == session[p]
    IN  \E l \in legs :
        /\ l.from = Peer(p) /\ l.leg.kind = "rekey_upd"
        /\ s.pq_inflight = Idle
        /\ s.owed_bind = NoBind
        /\ s.recv_pq > 0
        /\ session' = [session EXCEPT ![p] = RespondRekey(s, l.leg)]
        /\ UNCHANGED <<frames, legs, fresh>>

\* The PSK of our own send-PQ epoch is registered before the commit is
\* processed; a commit that does not apply leaves it registered and stamped.
PreRegister(s) ==
    IF SendPqLeafSpent(s) THEN s
    ELSE [s EXCEPT !.last_send_pq_exported = s.send_pq, !.psk_stores = @ \cup {SendPsk(s.send_pq)}]

\* The commit is for our mirror's epoch, which still holds the leaf key of the
\* update it commits; its PSK resolves, and the id it moves the committer's leaf
\* to is one we know as canonical.
RekeyCommitApplies(s, leg) ==
    /\ leg.epoch = s.recv_pq
    /\ s.recv_pq_update = s.recv_pq
    /\ leg.cross # 0 => SendPsk(leg.cross) \in s.psk_stores
    /\ leg.leaves.mine \in s.theirs

ApplyRekey(s, leg) ==
    LET s1 == PreRegister(s)
        s2 == [s1 EXCEPT !.pq_inflight = Idle,
                         !.recv_pq = @ + 1,
                         !.recv_pq_update = 0,
                         !.recv_pq_leaf = [mine |-> leg.leaves.theirs, theirs |-> leg.leaves.mine],
                         !.psk_stores = IF SendPqLeafSpent(s) THEN @ ELSE @ \ {SendPsk(s.send_pq)}]
    IN  IF RekeyCommitApplies(s1, leg) THEN ExportAndOweBind(s2) ELSE s1

PqRekeyApply(p) ==
    LET s == session[p]
    IN  \E l \in legs :
        /\ l.from = Peer(p) /\ l.leg.kind = "rekey_commit"
        /\ ~s.pending_proposal_hash
        /\ s.owed_bind = NoBind
        /\ CheckNotWedged(s)
        /\ s.pq_inflight = RekeyInitiated
        /\ session' = [session EXCEPT ![p] = ApplyRekey(s, l.leg)]
        /\ UNCHANGED <<frames, legs, fresh>>

----------------------------------------------------------------------------

Next ==
    \E p \in Party :
        \/ \E selected \in Ids : PrepareToEncrypt(p, selected)
        \/ Encrypt(p)
        \/ ProcessIncoming(p)
        \/ ProcessIncomingWelcome(p)
        \/ QueueProposal(p)
        \/ PqPendingOutbound(p)
        \/ PqTakePendingOutbound(p)
        \/ PqBootstrapBegin(p)
        \/ PqBootstrapEnvelope(p)
        \/ PqBootstrapRespond(p)
        \/ PqBootstrapBind(p)
        \/ PqRatchetRespond(p)
        \/ PqRatchetBind(p)
        \/ PqRekeyRespond(p)
        \/ PqRekeyApply(p)

Spec == Init /\ [][Next]_vars

\* Delivery of a side-band frame to the handler of its kind.
ProcessSideBand(p) ==
    \/ PqBootstrapRespond(p)
    \/ PqBootstrapBind(p)
    \/ PqRatchetRespond(p)
    \/ PqRatchetBind(p)
    \/ PqRekeyRespond(p)
    \/ PqRekeyApply(p)

----------------------------------------------------------------------------
(* Types.                                                                  *)

Ciphertexts == [eph : Nat, secret : Secret, pq_epoch : Nat]
LeafPair == [mine : Nat, theirs : Nat]

Inflight ==
    {Idle, BootstrapInitiated, BootstrapResponded, RekeyInitiated, RekeyResponded}
    \cup [kind : {"Initiating"}, eph : Nat]
    \cup [kind : {"Responding"}, ct : Ciphertexts]

Leg ==
    {KpLeg}
    \cup [kind : {"bootstrap_welcome"}, creator : Nat]
    \cup [kind : {"ek"}, epoch : Nat, eph : Nat]
    \cup [kind : {"ct"}, epoch : Nat, ct : Ciphertexts]
    \cup [kind : {"rekey_upd"}, epoch : Nat, id : Nat]
    \cup [kind : {"rekey_commit"}, epoch : Nat, cross : Nat, leaves : LeafPair]

SessionInner ==
    [send_cl : Nat, send_pq : Nat, recv_cl : Nat, recv_pq : Nat,
     current_staple : Staple,
     pending_proposal_hash : BOOLEAN, pending_proposal_message : Offer,
     offered_proposal : Offer, queued_proposal : Offer,
     peer_applied_send_epoch : Nat, last_cross_injected : Nat,
     pq_inflight : Inflight, pending_side_band : Leg \cup {NoLeg},
     owed_bind : OwedBind, pq_turn_mine : BOOLEAN,
     last_cross_injected_pq : Nat, last_send_pq_exported : Nat,
     psk_stores : SUBSET StoredPsk, opened : SUBSET Leg, recv_pq_update : Nat,
     pq_wedged : BOOLEAN, bind_apply_broken : BOOLEAN, bootstrap_kp : BOOLEAN,
     client : Nat, staged_candidates : SUBSET Nat, deferred_candidate : Nat,
     theirs : SUBSET Nat,
     send_pq_leaf : LeafPair, recv_pq_leaf : LeafPair]

\* Every field of both sessions and every frame on the wire has its type.
TypeOK ==
    /\ session \in [Party -> SessionInner]
    /\ frames \subseteq Frame
    /\ legs \subseteq [from : Party, leg : Leg]
    /\ fresh \in Nat

----------------------------------------------------------------------------
(* Safety.                                                                 *)

\* p's staple is a bind the peer has not applied yet.
BindOutstanding(p) ==
    /\ session[p].current_staple.kind = "bind"
    /\ session[Peer(p)].recv_cl < session[p].send_cl

\* What p still owes or has sent of a bind that injects `secret`.
BindCarries(p, secret) ==
    \/ session[p].owed_bind.secret = secret
    \/ BindOutstanding(p) /\ session[p].current_staple.bind.secret = secret

\* Whatever was lost, reordered or repeated before it, no frame ever sent makes
\* staple_epoch_action answer EpochDesync, and none but the welcome reaches a
\* party that has not joined.
NoEpochDesync ==
    \A f \in frames :
        LET s == session[Peer(f.from)]
        IN  IF Joined(s) THEN StapleEpochAction(s, f.staple) # "desync"
            ELSE f.staple.kind = "welcome"

\* A bind staple that is due meets a responder that still waits for it, holds
\* or can still export exactly the injected secret, and stands at the attested
\* epochs: process_incoming never answers SessionNotReady to it and never
\* latches bind_apply_broken.
BindMeetsResponder ==
    \A f \in frames :
        LET s == session[Peer(f.from)]
        IN  f.staple.kind = "bind" /\ f.staple.epoch = s.recv_cl =>
                /\ AwaitsBind(s)
                /\ ReExports(s) => ~SendPqLeafSpent(s)
                /\ BindOpens(s, f.staple)

\* The cross-party PSK of every commit still to be applied is in the ledger of
\* the party that must resolve it.
CrossPskInWindow ==
    \A f \in frames :
        LET s == session[Peer(f.from)]
        IN  f.staple.kind # "welcome" /\ f.staple.epoch = s.recv_cl =>
                SendPskResolves(s, f.staple.cross)

\* No commit a peer could still apply hands a party's leaf to a candidate whose
\* signing key it has pruned.
CommittableCandidateHeld ==
    \A f \in frames :
        LET s == session[Peer(f.from)]
        IN  f.staple.kind # "welcome" /\ f.staple.epoch = s.recv_cl => WinnerHeld(s, f.staple)

\* The turn is one token: held by exactly one party, or riding a bind that the
\* peer has not applied.
TurnIsOneToken ==
    Cardinality({p \in Party : session[p].pq_turn_mine})
        + Cardinality({p \in Party : BindOutstanding(p)}) = 1

\* A responder never waits for a round its initiator has dropped: the peer
\* still holds that round open, or owes or has sent the bind that closes it.
ResponderNeverStranded ==
    \A p \in Party :
        LET s == session[p]
            i == session[Peer(p)].pq_inflight
        IN  AwaitsBind(s) =>
                \/ BindCarries(Peer(p), HeldSecret(s))
                \/ s.pq_inflight.kind = "Responding" /\ i = Initiating(s.pq_inflight.ct.eph)
                \/ s.pq_inflight = BootstrapResponded /\ i = BootstrapInitiated
                \/ s.pq_inflight = RekeyResponded /\ i = RekeyInitiated

\* The ids an A.5 update or commit presents are canonical for the party that gets
\* it, however its arrival is ordered with the staple that rotated them: the
\* retriable credential refusal of the A.5 handlers never meets an honest peer.
RekeyIdsCanonical ==
    \A l \in legs :
        LET s == session[Peer(l.from)]
        IN  /\ l.leg.kind = "rekey_upd" => l.leg.id \in s.theirs
            /\ l.leg.kind = "rekey_commit" => l.leg.leaves.mine \in s.theirs

\* An owed bind's reserved epochs stay the next ones until it is discharged,
\* and no point of no return is ever crossed in vain.
ReservationKept ==
    \A p \in Party : ReservationHolds(session[p]) /\ ~session[p].pq_wedged

----------------------------------------------------------------------------
(* Why the classical halves stay in step: the inductive invariant behind   *)
(* NoEpochDesync and ClassicalIsStopAndWait.                               *)

\* The mirror of p's send group is at p's epoch, or one behind it.
MirrorClose(p) ==
    session[Peer(p)].recv_cl \in {session[p].send_cl - 1, session[p].send_cl}

\* Only the current staple leads to p's current epoch; older frames are behind.
StaplesBehind(p) ==
    /\ session[p].current_staple.epoch + 1 = session[p].send_cl
    /\ session[p].current_staple.epoch = 0 => session[p].current_staple.kind = "welcome"
    /\ \A f \in frames : f.from = p =>
          /\ f.staple.epoch < session[p].send_cl
          /\ f.staple.epoch = 0 => f.staple.kind = "welcome"

\* An offer is made in the mirror, so it never names an epoch the mirror has
\* not reached: on the wire, pending at its maker or recorded at p.
OffersReached(p) ==
    LET q == Peer(p)
    IN  /\ session[q].pending_proposal_message.epoch <= session[q].recv_cl
        /\ session[p].offered_proposal.epoch <= session[q].recv_cl
        /\ \A f \in frames : f.from = q => f.offer.epoch <= session[q].recv_cl

\* What licenses p's next commit, a queued offer or the recorded evidence, is
\* true: the mirror has applied p's current epoch.  Evidence is never ahead.
LicenseIsTrue(p) ==
    /\ session[p].peer_applied_send_epoch <= session[p].send_cl
    /\ session[p].queued_proposal # NoOffer \/ PeerAppliedOurSendEpoch(session[p]) =>
           session[Peer(p)].recv_cl = session[p].send_cl

\* No replay, reordering or loss lets a writer commit past what its mirror has
\* applied, or makes a reader meet a commit it cannot place.
InStep ==
    \A p \in Party : MirrorClose(p) /\ StaplesBehind(p) /\ OffersReached(p) /\ LicenseIsTrue(p)

----------------------------------------------------------------------------
(* Action properties.                                                      *)

\* A staple leaves current_staple only when the peer has applied it: no commit
\* is displaced while it is the only carrier of an epoch.
StapleNotDisplaced ==
    [][\A p \in Party :
          session'[p].current_staple # session[p].current_staple =>
              session[Peer(p)].recv_cl = session[p].send_cl]_vars

----------------------------------------------------------------------------
(* Refinement: each half of each send group is a stop-and-wait channel.    *)

Classical == INSTANCE SendChannel WITH
    Writers <- Party,
    committed <- [p \in Party |-> session[p].send_cl],
    applied <- [p \in Party |-> session[Peer(p)].recv_cl]

PostQuantum == INSTANCE SendChannel WITH
    Writers <- Party,
    committed <- [p \in Party |-> session[p].send_pq],
    applied <- [p \in Party |-> session[Peer(p)].recv_pq]

\* Through loss, reordering and replay of frames, the classical half of each
\* send group opens an epoch only when the mirror has the one before, and the
\* mirror takes the epochs one by one.
ClassicalIsStopAndWait == Classical!Spec

\* The same of the post-quantum half, from the bootstrap that creates it on.
PostQuantumIsStopAndWait == PostQuantum!Spec

----------------------------------------------------------------------------
(* Liveness, for hosts that re-send the parked side-band frame.            *)

\* The initiator joins the acceptor's group and the bootstrap completes on both
\* sides, from any state.
BothHalvesComeUp == <>(\A p \in Party : Joined(session[p]) /\ PqHalvesLive(session[p]))

\* A PQ round once opened is bound, its bind discharged and applied: the turn
\* reaches the peer, whatever is lost on the way.
RoundPassesTurn ==
    \A p \in Party :
        (session[p].pq_turn_mine
            /\ (session[p].pq_inflight # Idle \/ session[p].owed_bind # NoBind))
        ~> session[Peer(p)].pq_turn_mine

=============================================================================
