-------------------------- MODULE CredentialProofs --------------------------
(***************************************************************************)
(* Proofs about Session for every value of its constants: the client ids   *)
(* that staples and A.5 frames present are canonical where they arrive,    *)
(* and no commit the peer could still apply hands a party's leaf to a      *)
(* candidate whose signing key it has pruned.                              *)
(***************************************************************************)
EXTENDS SessionProofs, SessionInvariants

----------------------------------------------------------------------------
(* What a step of p does to the fields IdsKnown and OffersHeld speak of: s *)
(* before, t after, q the peer.                                            *)

\* Of the frames, those of A.5 present an id: the sender's own.
Presents(leg, id) ==
    /\ leg.kind = "rekey_upd" => leg.id = id
    /\ leg.kind = "rekey_commit" => leg.leaves.mine = id

\* p keeps its client and every id and candidate it knows; a frame it newly parks
\* presents that client.
SameIds(s, t) ==
    /\ t.client = s.client
    /\ s.theirs \subseteq t.theirs
    /\ s.staged_candidates \subseteq t.staged_candidates
    /\ t.pending_side_band = s.pending_side_band \/ Presents(t.pending_side_band, s.client)

\* p's mirror takes an epoch, and with it p may get the id an offer of its own
\* proposed.
TakesEpoch(s, t, q) ==
    /\ t.recv_cl = s.recv_cl + 1
    /\ s.theirs \subseteq t.theirs
    /\ t.pending_side_band = s.pending_side_band \/ Presents(t.pending_side_band, s.client)
    /\ \/ t.client = s.client
       \/ \E f \in frames : f.from = q /\ f.staple.folds # NoOffer /\ t.client = f.staple.folds.id

\* p's pending offer stays, is dropped, or is made at the mirror's epoch for an id
\* whose key p holds.
OfferMove(s, t) ==
    \/ t.pending_proposal_message \in {s.pending_proposal_message, NoOffer}
    \/ t.pending_proposal_message.id \in {t.client} \cup t.staged_candidates

\* p records an offer of the peer, approves the recorded one, folds the approved one
\* into a commit, or does none of it.
FoldMove(s, t, q) ==
    /\ \/ t.offered_proposal \in {s.offered_proposal, NoOffer}
       \/ \E f \in frames : f.from = q /\ t.offered_proposal = f.offer
    /\ \/ /\ t.send_cl = s.send_cl /\ t.current_staple = s.current_staple
          /\ \/ t.queued_proposal \in {s.queued_proposal, NoOffer}
             \/ t.queued_proposal = s.offered_proposal /\ s.offered_proposal.epoch = s.send_cl
       \/ /\ t.queued_proposal = NoOffer
          /\ t.current_staple.folds = s.queued_proposal
          /\ t.current_staple.epoch = s.send_cl
          /\ s.queued_proposal # NoOffer => s.queued_proposal.id \in t.theirs

\* A step of p, with what it may send.
CredMove(p) ==
    LET s == session[p]
        t == session'[p]
        q == Peer(p)
    IN  /\ session'[q] = session[q]
        /\ (t.recv_cl = s.recv_cl /\ SameIds(s, t)) \/ TakesEpoch(s, t, q)
        /\ OfferMove(s, t)
        /\ FoldMove(s, t, q)
        /\ \A f \in frames' : \/ f \in frames
                              \/ /\ f.from = p
                                 /\ f.staple = s.current_staple
                                 /\ f.offer = s.pending_proposal_message
        /\ \A l \in legs' : \/ l \in legs
                            \/ l.from = p /\ l.leg \in {s.pending_side_band, KpLeg}

----------------------------------------------------------------------------
(* The invariants survive such a step.                                     *)

\* Every id stays known: the ids p may newly go by were folded by the peer itself.
LEMMA IdsMove ==
    ASSUME TypeOK, IdsInStep, NEW p \in Party, CredMove(p)
    PROVE  IdsInStep'
<1> DEFINE q == Peer(p)  s == session[p]  t == session'[p]  r == session[q]
<1>1. q \in Party /\ q # p /\ Peer(q) = p /\ \A x \in Party : x = p \/ x = q
  BY PeerType DEF Party
<1>2. IdsKnown(p) /\ IdsKnown(q)  BY <1>1 DEF IdsInStep
<1>3. KpLeg.kind = "bootstrap_kp"  BY DEF KpLeg
<1>4. s.theirs \subseteq t.theirs /\ session'[q] = r  BY DEF CredMove, SameIds, TakesEpoch
<1>5. t.client \in r.theirs
  BY <1>1, <1>2 DEF CredMove, SameIds, TakesEpoch, IdsKnown
<1>6. t.pending_side_band = s.pending_side_band \/ Presents(t.pending_side_band, s.client)
  BY DEF CredMove, SameIds, TakesEpoch
<1>7. \A l \in legs' : \/ l \in legs
                       \/ l.from = p /\ l.leg \in {s.pending_side_band, KpLeg}
  BY DEF CredMove
<1>8. \A f \in frames' : f \in frames \/ (f.from = p /\ f.staple = s.current_staple)
  BY DEF CredMove
<1>9. t.current_staple = s.current_staple \/
         (t.current_staple.folds # NoOffer => t.current_staple.folds.id \in t.theirs)
  BY DEF CredMove, FoldMove
<1> HIDE DEF s, t, r, q
<1>10. IdsKnown(p)'
  <2>1. s.client \in r.theirs  BY <1>2 DEF IdsKnown, s, r, q
  <2> QED  BY <1>1, <1>2, <1>3, <1>4, <1>5, <1>6, <1>7, <1>8, <2>1
           DEF IdsKnown, Presents, s, t, r, q
<1>11. IdsKnown(q)'
  BY <1>1, <1>2, <1>4, <1>7, <1>8, <1>9 DEF IdsKnown, s, t, r, q
<1> QED  BY <1>1, <1>10, <1>11 DEF IdsInStep

\* While p's mirror stays, the offers of p stay held; when it takes an epoch they
\* are all of an earlier one.
LEMMA HeldMove ==
    ASSUME TypeOK, TypeOK', InStep, CandidatesHeld, NEW p \in Party, StepMove(p), CredMove(p)
    PROVE  CandidatesHeld'
<1> DEFINE q == Peer(p)  s == session[p]  t == session'[p]  r == session[q]
<1>1. q \in Party /\ q # p /\ Peer(q) = p /\ \A x \in Party : x = p \/ x = q
  BY PeerType DEF Party
<1>2. s \in SessionInner /\ r \in SessionInner /\ t \in SessionInner  BY <1>1 DEF TypeOK
<1>3. OffersHeld(p) /\ OffersHeld(q)  BY <1>1 DEF CandidatesHeld
<1>4. session'[q] = r  BY DEF CredMove
<1>5. \A f \in frames' : \/ f \in frames
                         \/ /\ f.from = p
                            /\ f.staple = s.current_staple
                            /\ f.offer = s.pending_proposal_message
  BY DEF CredMove
<1>6. /\ s.send_cl \in Nat /\ s.recv_cl \in Nat /\ r.send_cl \in Nat /\ r.recv_cl \in Nat
      /\ r.offered_proposal.epoch \in Nat /\ r.current_staple.epoch \in Nat
      /\ s.pending_proposal_message.epoch \in Nat
      /\ \A f \in frames : f.staple.epoch \in Nat /\ f.offer.epoch \in Nat
  BY <1>1, <1>2, SessionFields DEF TypeOK, Frame, Staple, Offer
<1>7. OfferMove(s, t) /\ FoldMove(s, t, q)  BY DEF CredMove
<1> HIDE DEF s, t, r, q
<1>8. OffersHeld(q)'
  <2>1. /\ OfferHeld(r, r.pending_proposal_message)
        /\ OfferHeld(r, s.offered_proposal) /\ OfferHeld(r, s.queued_proposal)
        /\ s.queued_proposal # NoOffer => s.queued_proposal.epoch = s.send_cl
        /\ StapleHeld(r, s.current_staple)
        /\ \A f \in frames : /\ f.from = q => OfferHeld(r, f.offer)
                             /\ f.from = p => StapleHeld(r, f.staple)
    BY <1>1, <1>3 DEF OffersHeld, s, r
  <2>2. OfferHeld(r, NoOffer)  BY DEF OfferHeld
  <2>3. OfferHeld(r, t.offered_proposal)  BY <1>7, <2>1, <2>2 DEF FoldMove
  <2>4. /\ OfferHeld(r, t.queued_proposal) /\ StapleHeld(r, t.current_staple)
        /\ t.queued_proposal # NoOffer => t.queued_proposal.epoch = t.send_cl
    BY <1>7, <2>1, <2>2 DEF FoldMove, StapleHeld
  <2>5. \A f \in frames' : /\ f.from = q => OfferHeld(r, f.offer)
                           /\ f.from = p => StapleHeld(r, f.staple)
    BY <1>1, <1>5, <2>1
  <2> QED  BY <1>1, <1>4, <2>1, <2>3, <2>4, <2>5 DEF OffersHeld, t
<1>9. OffersHeld(p)'
  <2>1. /\ OfferHeld(s, s.pending_proposal_message)
        /\ OfferHeld(s, r.offered_proposal) /\ OfferHeld(s, r.queued_proposal)
        /\ r.queued_proposal # NoOffer => r.queued_proposal.epoch = r.send_cl
        /\ StapleHeld(s, r.current_staple)
        /\ \A f \in frames : /\ f.from = p => OfferHeld(s, f.offer)
                             /\ f.from = q => StapleHeld(s, f.staple)
    BY <1>3 DEF OffersHeld, s, r, q
  <2>2. /\ s.pending_proposal_message.epoch <= s.recv_cl
        /\ r.offered_proposal.epoch <= s.recv_cl
        /\ r.queued_proposal # NoOffer => r.queued_proposal.epoch <= s.recv_cl
        /\ \A f \in frames : f.from = p => f.offer.epoch <= s.recv_cl
    <3>1. OffersReached(q) /\ OffersReached(p) /\ LicenseIsTrue(q)  BY <1>1 DEF InStep
    <3> QED  BY <1>1, <1>6, <2>1, <3>1 DEF OffersReached, LicenseIsTrue, s, r
  <2>3. /\ r.current_staple.epoch < r.send_cl
        /\ \A f \in frames : f.from = q => f.staple.epoch < r.send_cl
        /\ t.recv_cl = s.recv_cl \/ (t.recv_cl = s.recv_cl + 1 /\ t.recv_cl = r.send_cl)
    <3>1. StaplesBehind(q) /\ MirrorClose(q)  BY <1>1 DEF InStep
    <3>2. ReaderMove(s, t, r)  BY DEF StepMove, s, t, r, q
    <3> QED  BY <1>1, <1>6, <3>1, <3>2 DEF StaplesBehind, MirrorClose, ReaderMove, s, r
  <2>4. (t.recv_cl = s.recv_cl /\ SameIds(s, t)) \/ t.recv_cl = s.recv_cl + 1
    BY DEF CredMove, TakesEpoch, s, t
  <2>5. \A o : OfferHeld(s, o) /\ o.epoch <= s.recv_cl => OfferHeld(t, o)
    BY <1>6, <2>4 DEF OfferHeld, SameIds
  <2>6. \A staple : staple.epoch < r.send_cl /\ StapleHeld(s, staple) => StapleHeld(t, staple)
    <3>1. CASE t.recv_cl = s.recv_cl /\ SameIds(s, t)
      BY <3>1 DEF StapleHeld, OfferHeld, SameIds
    <3>2. CASE t.recv_cl = s.recv_cl + 1
      BY <1>6, <2>3, <3>2 DEF StapleHeld, OfferHeld
    <3> QED  BY <2>4, <3>1, <3>2
  <2>7. OfferHeld(t, NoOffer)  BY DEF OfferHeld
  <2>8. OfferHeld(t, t.pending_proposal_message)
    BY <1>7, <2>1, <2>2, <2>5, <2>7 DEF OfferMove, OfferHeld
  <2>9. /\ OfferHeld(t, r.offered_proposal) /\ OfferHeld(t, r.queued_proposal)
        /\ StapleHeld(t, r.current_staple)
    BY <2>1, <2>2, <2>3, <2>5, <2>6, <2>7
  <2>10. \A f \in frames' : /\ f.from = p => OfferHeld(t, f.offer)
                            /\ f.from = q => StapleHeld(t, f.staple)
    BY <1>1, <1>5, <2>1, <2>2, <2>3, <2>5, <2>6
  <2> QED  BY <1>4, <2>1, <2>8, <2>9, <2>10 DEF OffersHeld, t, q
<1> QED  BY <1>1, <1>8, <1>9 DEF CandidatesHeld

----------------------------------------------------------------------------
(* Every step is such a step.                                              *)

\* Two changes in a row that keep the ids are one.
LEMMA SameIdsTransitive ==
    ASSUME NEW s, NEW u, NEW t, SameIds(s, u), SameIds(u, t)
    PROVE  SameIds(s, t)
  BY DEF SameIds

\* The helpers of the side-band keep the ids.
LEMMA HelperIds ==
    ASSUME NEW s \in SessionInner
    PROVE  /\ SameIds(s, RewrapSideBand(s))
           /\ SameIds(s, MaybeStageNextRound(s))
           /\ SameIds(s, RegisterBootstrapRound(s))
           /\ SameIds(s, ExportAndOweBind(s))
           /\ SameIds(s, PreRegister(s))
<1>1. SameIds(s, RewrapSideBand(s))
  BY DEF SameIds, Presents, RewrapSideBand, EkLeg, CtLeg, SessionInner
<1>2. SameIds(s, MaybeStageNextRound(s))
  BY DEF SameIds, Presents, MaybeStageNextRound, StageRatchet, StageRekey, EkLeg, UpdLeg, SessionInner
<1>3. SameIds(s, RegisterBootstrapRound(s))
  BY DEF SameIds, Presents, RegisterBootstrapRound, KpLeg, SessionInner
<1>4. SameIds(s, ExportAndOweBind(s))
  BY DEF SameIds, Presents, ExportAndOweBind, CommitPqAndOweBind, NoLeg, SessionInner
<1>5. SameIds(s, PreRegister(s))
  BY DEF SameIds, PreRegister, SessionInner
<1> QED  BY <1>1, <1>2, <1>3, <1>4, <1>5

\* No side-band handler rotates a client; what it parks or sends presents its own.
LEMMA SideBandIds ==
    ASSUME TypeOK, NEW p \in Party,
           \/ PqPendingOutbound(p) \/ PqTakePendingOutbound(p)
           \/ PqBootstrapBegin(p) \/ PqBootstrapEnvelope(p)
           \/ ProcessSideBand(p)
    PROVE  /\ SameIds(session[p], session'[p])
           /\ \A l \in legs' : \/ l \in legs
                               \/ l.from = p /\ l.leg \in {session[p].pending_side_band, KpLeg}
<1> DEFINE s == session[p]
<1>1. s \in SessionInner /\ session \in [Party -> SessionInner]  BY DEF TypeOK
<1> USE <1>1
<1>2. ASSUME NEW t, session' = [session EXCEPT ![p] = t] PROVE session'[p] = t
  BY <1>2
<1>3. CASE PqPendingOutbound(p)
  BY <1>3 DEF PqPendingOutbound, SameIds
<1>4. CASE PqTakePendingOutbound(p)
  BY <1>4 DEF PqTakePendingOutbound, SameIds, Presents, NoLeg, SessionInner
<1>5. CASE PqBootstrapBegin(p) \/ PqBootstrapEnvelope(p)
  BY <1>2, <1>5, HelperIds DEF PqBootstrapBegin, PqBootstrapEnvelope
<1>6. CASE PqBootstrapRespond(p)
  BY <1>6
  DEF PqBootstrapRespond, RespondBootstrap, SameIds, Presents, KpWelcomeLeg, SessionInner
<1>7. CASE PqBootstrapBind(p)
  <2>1. PICK l \in legs :
          /\ session'[p] = ExportAndOweBind([s EXCEPT !.recv_pq = 1,
                                !.recv_pq_leaf = [mine |-> 0, theirs |-> l.leg.creator]])
          /\ legs' = legs
    BY <1>7 DEF PqBootstrapBind
  <2> QED
    BY <2>1 DEF ExportAndOweBind, CommitPqAndOweBind, SameIds, Presents, NoLeg, SessionInner
<1>8. CASE PqRatchetRespond(p)
  BY <1>8 DEF PqRatchetRespond, RespondRatchet, SameIds, Presents, CtLeg, SessionInner
<1>9. CASE PqRatchetBind(p)
  BY <1>9
  DEF PqRatchetBind, BindRatchet, CommitPqAndOweBind, SameIds, Presents, NoLeg, SessionInner
<1>10. CASE PqRekeyRespond(p)
  BY <1>10 DEF PqRekeyRespond, RespondRekey, SameIds, Presents, PqCommitLeg, SessionInner
<1>11. CASE PqRekeyApply(p)
  BY <1>11
  DEF PqRekeyApply, ApplyRekey, PreRegister, ExportAndOweBind, CommitPqAndOweBind,
      SameIds, Presents, NoLeg, SessionInner
<1> QED
  BY <1>3, <1>4, <1>5, <1>6, <1>7, <1>8, <1>9, <1>10, <1>11 DEF ProcessSideBand

\* Staging the Upd proposes the client, or a candidate it stages first.
LEMMA StageProposalIds ==
    ASSUME NEW s \in SessionInner, NEW selected \in Nat
    PROVE  SameIds(s, StageProposal(s, selected)) /\ OfferMove(s, StageProposal(s, selected))
<1> DEFINE id == Admitted(s, selected)
           s1 == IF selected = 0 /\ id # 0 THEN [s EXCEPT !.deferred_candidate = 0] ELSE s
           s2 == IF id # 0 THEN AdmitCandidate(s1, id) ELSE s1
           offer == [epoch |-> s.recv_cl, id |-> IF id # 0 THEN id ELSE s.client]
           staged == [s2 EXCEPT !.pending_proposal_hash = TRUE,
                                !.pending_proposal_message = offer]
<1>1. id \in Nat  BY SessionFields DEF Admitted
<1> HIDE DEF id
<1>2. /\ s1 \in SessionInner /\ SameIds(s, s1)
      /\ s1.pending_proposal_message = s.pending_proposal_message
  BY DEF SessionInner, SameIds
<1> HIDE DEF s1
<1>3. /\ s2 \in SessionInner /\ SameIds(s, s2)
      /\ s2.pending_proposal_message = s.pending_proposal_message
  <2>1. s1.staged_candidates \cup {id} \in SUBSET Nat  BY <1>1, <1>2, SessionFields
  <2>2. \A c \in SUBSET Nat : LET u == [s1 EXCEPT !.staged_candidates = c]
                              IN  /\ u \in SessionInner /\ u.client = s1.client
                                  /\ u.theirs = s1.theirs /\ u.staged_candidates = c
                                  /\ u.pending_side_band = s1.pending_side_band
                                  /\ u.pending_proposal_message = s1.pending_proposal_message
    BY <1>2 DEF SessionInner
  <2>3. LET u == [s1 EXCEPT !.deferred_candidate = id]
        IN  /\ u \in SessionInner /\ SameIds(s1, u)
            /\ u.pending_proposal_message = s1.pending_proposal_message
    BY <1>1, <1>2 DEF SessionInner, SameIds
  <2>4. LET u == [s1 EXCEPT !.staged_candidates = @ \cup {id}]
        IN  /\ u \in SessionInner /\ SameIds(s1, u)
            /\ u.pending_proposal_message = s1.pending_proposal_message
    BY <2>1, <2>2 DEF SameIds
  <2>5. LET u == AdmitCandidate(s1, id)
        IN  /\ u \in SessionInner /\ SameIds(s1, u)
            /\ u.pending_proposal_message = s1.pending_proposal_message
    BY <1>2, <2>3, <2>4 DEF AdmitCandidate, SameIds
  <2> QED  BY <1>2, <2>5, SameIdsTransitive
<1> HIDE DEF s2
<1>4. offer \in Offer /\ offer.id = IF id # 0 THEN id ELSE s.client
  BY <1>1, SessionFields DEF Offer
<1> HIDE DEF offer
<1>5. /\ staged \in SessionInner /\ SameIds(s2, staged)
      /\ staged.pending_proposal_message = offer
      /\ staged.staged_candidates = s2.staged_candidates /\ staged.client = s2.client
  BY <1>3, <1>4 DEF SessionInner, SameIds
<1> HIDE DEF staged
<1> DEFINE t == RewrapSideBand(staged)
<1>6. SameIds(staged, t) /\ SameClassical(staged, t)  BY <1>5, HelperIds, SideBandSame
<1> HIDE DEF t
<1>7. \/ StageProposal(s, selected) = s2
      \/ StageProposal(s, selected) = t /\ (id # 0 => id \in s2.staged_candidates)
  BY DEF StageProposal, t, staged, offer, s2, s1, id
<1>8. SameIds(s, t)  BY <1>3, <1>5, <1>6, SameIdsTransitive
<1>9. OfferMove(s, s2)  BY <1>3 DEF OfferMove
<1>10. (id # 0 => id \in s2.staged_candidates) => OfferMove(s, t)
  BY <1>3, <1>4, <1>5, <1>6 DEF OfferMove, SameClassical, SameIds
<1> QED  BY <1>3, <1>7, <1>8, <1>9, <1>10

\* A prepare folds the approved offer into its commit and records its id.
LEMMA PrepareIds ==
    ASSUME TypeOK, InStep, NEW p \in Party, NEW selected \in Ids, PrepareToEncrypt(p, selected)
    PROVE  CredMove(p)
<1> DEFINE q == Peer(p)  s == session[p]  t == session'[p]  r == session[q]
<1>1. q \in Party /\ q # p /\ Peer(q) = p  BY PeerType
<1>2. s \in SessionInner  BY DEF TypeOK
<1>3. /\ session'[q] = r
      /\ t = IF Joined(s) THEN PrepareRatchetCommit(s, selected) ELSE PreparePreEstablishment(s)
      /\ frames' = frames /\ legs' = legs
  BY <1>1 DEF PrepareToEncrypt, TypeOK
<1>4. s.pending_proposal_message.epoch <= s.recv_cl
  <2>1. OffersReached(q)  BY <1>1 DEF InStep
  <2> QED  BY <1>1, <2>1 DEF OffersReached
<1>5. selected \in Nat  BY BoundAssumption DEF Ids
<1> SUFFICES t.recv_cl = s.recv_cl /\ SameIds(s, t) /\ OfferMove(s, t) /\ FoldMove(s, t, q)
  BY <1>3 DEF CredMove
<1> HIDE DEF s, t, r, q
<1>6. CASE ~Joined(s)
  <2> DEFINE u == [s EXCEPT !.pending_proposal_hash = TRUE, !.pending_proposal_message = NoOffer]
  <2>1. u \in SessionInner /\ SameClassical(s, u) /\ SameIds(s, u)
    BY <1>2, AbsentTypes DEF SessionInner, SameClassical, SameIds
  <2> HIDE DEF u
  <2>2. SameClassical(u, RewrapSideBand(u)) /\ SameIds(u, RewrapSideBand(u))
    BY <2>1, SideBandSame, HelperIds
  <2>3. SameClassical(s, t) /\ SameIds(s, t)
    BY <1>3, <1>6, <2>1, <2>2, SameTransitive, SameIdsTransitive DEF PreparePreEstablishment, u
  <2> QED  BY <2>3 DEF FoldMove, OfferMove, SameClassical
<1>7. CASE Joined(s) /\ ~DidCommit(s)
  <2>1. t = StageProposal(s, selected)  BY <1>3, <1>7 DEF PrepareRatchetCommit
  <2> QED  BY <1>2, <1>4, <1>5, <2>1, StageProposalMove, StageProposalIds DEF FoldMove
<1>8. CASE Joined(s) /\ DidCommit(s) /\ ~ReservationHolds(s)
  <2>1. t = FailedDischarge(s)  BY <1>3, <1>8 DEF PrepareRatchetCommit
  <2> QED  BY <1>2, <2>1 DEF FailedDischarge, SessionInner, FoldMove, OfferMove, SameIds
<1>9. CASE Joined(s) /\ DidCommit(s) /\ ReservationHolds(s)
  <2> DEFINE d == DischargeAndCommit(s)
  <2>1. d \in SessionInner  BY <1>2, DischargeType
  <2>2. t = StageProposal(d, selected)  BY <1>3, <1>9 DEF PrepareRatchetCommit
  <2>3. /\ d.recv_cl = s.recv_cl
        /\ d.current_staple.folds = s.queued_proposal /\ d.current_staple.epoch = s.send_cl
        /\ d.queued_proposal = NoOffer /\ d.offered_proposal = NoOffer
        /\ d.pending_proposal_message = s.pending_proposal_message
        /\ d.theirs = TheirsAfterCommit(s) /\ d.client = s.client
        /\ d.staged_candidates = s.staged_candidates
        /\ d.pending_side_band = s.pending_side_band
    BY <1>2 DEF DischargeAndCommit, CommitStaple, SessionInner
  <2> HIDE DEF d
  <2>4. SameIds(s, d) /\ (s.queued_proposal # NoOffer => s.queued_proposal.id \in d.theirs)
    BY <2>3 DEF SameIds, TheirsAfterCommit
  <2>5. SameIds(d, t) /\ OfferMove(d, t)  BY <1>5, <2>1, <2>2, StageProposalIds
  <2>6. /\ t.recv_cl = s.recv_cl
        /\ t.current_staple = d.current_staple
        /\ t.queued_proposal = NoOffer /\ t.offered_proposal = NoOffer
    BY <1>4, <1>5, <2>1, <2>2, <2>3, StageProposalMove
  <2>7. FoldMove(s, t, q)  BY <2>3, <2>4, <2>5, <2>6 DEF FoldMove, SameIds
  <2>8. OfferMove(s, t)  BY <2>3, <2>5 DEF OfferMove
  <2> QED  BY <2>4, <2>5, <2>6, <2>7, <2>8, SameIdsTransitive
<1> QED  BY <1>6, <1>7, <1>8, <1>9

\* A staple that moves the mirror may hand p the id of an offer the peer folded.
LEMMA StapleIds ==
    ASSUME NEW s \in SessionInner, NEW staple \in Staple
    PROVE  LET t == ProcessStaple(s, staple)
           IN  /\ s.theirs \subseteq t.theirs
               /\ t.pending_side_band \in {s.pending_side_band, NoLeg}
               /\ \/ t.recv_cl = s.recv_cl /\ t.client = s.client
                        /\ t.staged_candidates = s.staged_candidates
                  \/ /\ t.recv_cl = s.recv_cl + 1
                     /\ \/ t.client = s.client
                        \/ staple.folds # NoOffer /\ t.client = staple.folds.id
<1>1. CASE staple.kind = "welcome"
  BY <1>1, SessionFields DEF ProcessStaple, ProcessWelcome, Joined, SessionInner
<1>2. CASE staple.kind # "welcome" /\ StapleEpochAction(s, staple) = "skip"
  BY <1>2 DEF ProcessStaple
<1>3. CASE staple.kind = "commit" /\ StapleEpochAction(s, staple) # "skip"
  BY <1>3 DEF ProcessStaple, ApplyCommit, LeafChanges, CanonicalizedOwn, SessionInner
<1>4. CASE staple.kind = "bind" /\ StapleEpochAction(s, staple) # "skip"
  BY <1>4
  DEF ProcessStaple, ApplyBind, BindOpens, LeafChanges, CanonicalizedOwn, SessionInner
<1>5. staple.kind \in {"welcome", "commit", "bind"}  BY DEF Staple
<1> QED  BY <1>1, <1>2, <1>3, <1>4, <1>5

\* So does a frame, whose offer is recorded last.
LEMMA ProcessIds ==
    ASSUME TypeOK, NEW p \in Party, ProcessIncoming(p)
    PROVE  CredMove(p)
<1> DEFINE q == Peer(p)  s == session[p]  t == session'[p]
<1>1. q \in Party /\ q # p  BY PeerType
<1>2. s \in SessionInner  BY DEF TypeOK
<1>3. PICK f \in frames : /\ f.from = q
                          /\ session' = [session EXCEPT ![p] = ProcessFrame(s, f)]
                          /\ frames' = frames /\ legs' = legs
  BY DEF ProcessIncoming, ProcessIncomingFrame
<1>4. f.staple \in Staple /\ f.offer \in Offer  BY DEF TypeOK, Frame
<1> DEFINE s1 == ProcessStaple(s, f.staple)  u == RecordOffer(s1, f.offer)
<1>5. t = ProcessFrame(s, f) /\ session'[q] = session[q]  BY <1>1, <1>3 DEF TypeOK
<1> SUFFICES /\ (t.recv_cl = s.recv_cl /\ SameIds(s, t)) \/ TakesEpoch(s, t, q)
             /\ OfferMove(s, t) /\ FoldMove(s, t, q)
  BY <1>3, <1>5 DEF CredMove
<1>6. t = s1 \/ t = u  BY <1>5 DEF ProcessFrame
<1>7. s1 \in SessionInner  BY <1>2, <1>4, ProcessStapleType
<1>8. /\ s1.send_cl = s.send_cl /\ s1.current_staple = s.current_staple
      /\ s1.offered_proposal = s.offered_proposal /\ s1.queued_proposal = s.queued_proposal
      /\ s1.pending_proposal_message = s.pending_proposal_message
  BY <1>2, <1>4, ProcessStapleMove
<1>9. /\ s.theirs \subseteq s1.theirs
      /\ s1.pending_side_band \in {s.pending_side_band, NoLeg}
      /\ \/ s1.recv_cl = s.recv_cl /\ s1.client = s.client
               /\ s1.staged_candidates = s.staged_candidates
         \/ /\ s1.recv_cl = s.recv_cl + 1
            /\ \/ s1.client = s.client
               \/ f.staple.folds # NoOffer /\ s1.client = f.staple.folds.id
  BY <1>2, <1>4, StapleIds
<1> HIDE DEF s1, s, t, q
<1>10. /\ u.send_cl = s1.send_cl /\ u.recv_cl = s1.recv_cl
       /\ u.current_staple = s1.current_staple /\ u.queued_proposal = s1.queued_proposal
       /\ u.offered_proposal = f.offer
       /\ u.pending_proposal_message = s1.pending_proposal_message
       /\ u.theirs = s1.theirs /\ u.client = s1.client
       /\ u.staged_candidates = s1.staged_candidates
       /\ u.pending_side_band = s1.pending_side_band
  BY <1>7 DEF RecordOffer, SessionInner
<1> HIDE DEF u
<1>11. Presents(NoLeg, s.client)  BY DEF Presents, NoLeg
<1>12. OfferMove(s, t) /\ FoldMove(s, t, q)
  BY <1>3, <1>6, <1>8, <1>10 DEF OfferMove, FoldMove
<1>13. (t.recv_cl = s.recv_cl /\ SameIds(s, t)) \/ TakesEpoch(s, t, q)
  BY <1>3, <1>6, <1>9, <1>10, <1>11 DEF SameIds, TakesEpoch
<1> QED  BY <1>12, <1>13

\* encrypt keeps the ids; the A.5 update it may park presents the client.
LEMMA EncryptIds ==
    ASSUME TypeOK, NEW p \in Party, Encrypt(p)
    PROVE  SameIds(session[p], session'[p]) /\ legs' = legs
<1> DEFINE s == session[p]
<1>1. s \in SessionInner /\ session \in [Party -> SessionInner]  BY DEF TypeOK
<1>2. CASE EncryptFrame(p)
  <2> DEFINE u == [s EXCEPT !.pending_proposal_hash = FALSE, !.pending_proposal_message = NoOffer]
  <2>1. u \in SessionInner /\ SameIds(s, u)
    BY <1>1, AbsentTypes DEF SessionInner, SameIds
  <2>2. session'[p] = AfterEncrypt(s) /\ legs' = legs
    BY <1>1, <1>2 DEF EncryptFrame, ComposeFrame
  <2>3. SameIds(s, MaybeStageNextRound(RewrapSideBand(u)))
    <3> HIDE DEF u, s
    <3>1. RewrapSideBand(u) \in SessionInner  BY <2>1, RewrapType
    <3>2. SameIds(s, RewrapSideBand(u))  BY <2>1, HelperIds, SameIdsTransitive
    <3> QED  BY <3>1, <3>2, HelperIds, SameIdsTransitive
  <2> QED  BY <2>2, <2>3 DEF AfterEncrypt
<1>3. CASE EncryptWithoutProposal(p)
  BY <1>1, <1>3 DEF EncryptWithoutProposal, SameIds, SessionInner
<1> QED  BY <1>2, <1>3 DEF Encrypt

\* Every step of the system moves offers and ids as one party may.
LEMMA NextCred ==
    ASSUME TypeOK, InStep, Next
    PROVE  \E p \in Party : StepMove(p) /\ CredMove(p)
<1>1. ASSUME NEW p \in Party, SameClassical(session[p], session'[p]),
             SameIds(session[p], session'[p]), session'[Peer(p)] = session[Peer(p)],
             \A f \in frames' : \/ f \in frames
                                \/ /\ f.from = p
                                   /\ f.staple = session[p].current_staple
                                   /\ f.offer = session[p].pending_proposal_message,
             \A l \in legs' : \/ l \in legs
                              \/ l.from = p /\ l.leg \in {session[p].pending_side_band, KpLeg}
      PROVE  StepMove(p) /\ CredMove(p)
  BY <1>1, QuietMove DEF CredMove, OfferMove, FoldMove, SameClassical
<1>2. ASSUME NEW p \in Party, Encrypt(p) PROVE StepMove(p) /\ CredMove(p)
  BY <1>1, <1>2, EncryptSame, EncryptIds
<1>3. ASSUME NEW p \in Party,
             \/ PqPendingOutbound(p) \/ PqTakePendingOutbound(p)
             \/ PqBootstrapBegin(p) \/ PqBootstrapEnvelope(p) \/ ProcessSideBand(p)
      PROVE  StepMove(p) /\ CredMove(p)
  BY <1>1, <1>3, SideBandActionSame, SideBandIds
<1>4. ASSUME NEW p \in Party, QueueProposal(p) PROVE CredMove(p)
  <2> DEFINE s == session[p]  t == session'[p]  q == Peer(p)
  <2>1. s \in SessionInner /\ q \in Party /\ q # p  BY PeerType DEF TypeOK
  <2>2. /\ session'[q] = session[q] /\ frames' = frames /\ legs' = legs
        /\ t.recv_cl = s.recv_cl /\ SameIds(s, t) /\ OfferMove(s, t) /\ FoldMove(s, t, q)
    BY <1>4, <2>1
    DEF QueueProposal, ValidateOfferedUpdate, SameIds, OfferMove, FoldMove, TypeOK, SessionInner
  <2> QED  BY <2>2 DEF CredMove
<1>5. ASSUME NEW p \in Party, ProcessIncomingWelcome(p) PROVE CredMove(p)
  <2> DEFINE s == session[p]  t == session'[p]  q == Peer(p)
  <2>1. s \in SessionInner /\ q \in Party /\ q # p  BY PeerType DEF TypeOK
  <2>2. s.recv_cl = 0  BY <1>5, <2>1, SessionFields DEF ProcessIncomingWelcome, Joined
  <2>3. /\ session'[q] = session[q] /\ frames' = frames /\ legs' = legs
        /\ TakesEpoch(s, t, q) /\ OfferMove(s, t) /\ FoldMove(s, t, q)
    BY <1>5, <2>1, <2>2
    DEF ProcessIncomingWelcome, ProcessWelcome, TakesEpoch, OfferMove, FoldMove, TypeOK, SessionInner
  <2> QED  BY <2>3 DEF CredMove
<1> QED
  BY <1>2, <1>3, <1>4, <1>5, PrepareMove, PrepareIds, ProcessMove, ProcessIds,
     WelcomeMove, QueueMove
  DEF Next, ProcessSideBand

----------------------------------------------------------------------------
(* What follows from it.                                                   *)

\* Both parties start with the id the other knows, and no offer.
LEMMA CredInit == Init => IdsInStep /\ CandidatesHeld
<1> SUFFICES ASSUME Init PROVE IdsInStep /\ CandidatesHeld  OBVIOUS
<1>1. \A p \in Party :
        /\ session[p].client = 0 /\ session[p].theirs = {0}
        /\ session[p].pending_side_band = NoLeg /\ session[p].current_staple = Welcome
        /\ session[p].pending_proposal_message = NoOffer
        /\ session[p].offered_proposal = NoOffer /\ session[p].queued_proposal = NoOffer
  BY DEF Init, Initiate, AcceptWith, NewSession
<1>2. frames = {} /\ legs = {}  BY DEF Init
<1>3. NoLeg.kind = "none" /\ Welcome.kind = "welcome" /\ Welcome.folds = NoOffer
  BY DEF NoLeg, Welcome
<1>4. \A p \in Party : Peer(p) \in Party  BY PeerType
<1>5. IdsInStep  BY <1>1, <1>2, <1>3, <1>4 DEF IdsInStep, IdsKnown
<1>6. CandidatesHeld
  BY <1>1, <1>2, <1>3, <1>4 DEF CandidatesHeld, OffersHeld, OfferHeld, StapleHeld
<1> QED  BY <1>5, <1>6

\* In every behaviour every id a party goes by, folds or presents is canonical at
\* the other.
THEOREM IdsStayInStep == Spec => []IdsInStep
<1>1. TypeOK /\ InStep /\ IdsInStep /\ [Next]_vars => IdsInStep'
  <2> SUFFICES ASSUME TypeOK, InStep, IdsInStep, [Next]_vars PROVE IdsInStep'  OBVIOUS
  <2>1. CASE Next  BY <2>1, NextCred, IdsMove
  <2>2. CASE UNCHANGED vars  BY <2>2 DEF vars, IdsInStep, IdsKnown
  <2> QED  BY <2>1, <2>2
<1> QED  BY <1>1, CredInit, TypeCorrect, StaysInStep, PTL DEF Spec

\* The ids an A.5 update or commit presents are canonical for the party that gets
\* it, whenever it arrives: the credential refusal of the A.5 handlers never meets
\* an honest peer.
THEOREM RekeyIdsStayCanonical == Spec => []RekeyIdsCanonical
<1>1. TypeOK /\ IdsInStep => RekeyIdsCanonical
  BY DEF TypeOK, IdsInStep, IdsKnown, RekeyIdsCanonical
<1> QED  BY <1>1, TypeCorrect, IdsStayInStep, PTL

\* In every behaviour an offer that could still be folded and applied proposes the
\* maker's own id or a candidate it has staged.
THEOREM CandidatesStayHeld == Spec => []CandidatesHeld
<1>1. TypeOK /\ TypeOK' /\ InStep /\ CandidatesHeld /\ [Next]_vars => CandidatesHeld'
  <2> SUFFICES ASSUME TypeOK, TypeOK', InStep, CandidatesHeld, [Next]_vars PROVE CandidatesHeld'
    OBVIOUS
  <2>1. CASE Next  BY <2>1, NextCred, HeldMove
  <2>2. CASE UNCHANGED vars  BY <2>2 DEF vars, CandidatesHeld, OffersHeld
  <2> QED  BY <2>1, <2>2
<1> QED  BY <1>1, CredInit, TypeCorrect, StaysInStep, PTL DEF Spec

\* A commit that is due folds an offer whose id is held.
LEMMA HeldIsCommittable == TypeOK /\ CandidatesHeld => CommittableCandidateHeld
<1> SUFFICES ASSUME TypeOK, CandidatesHeld, NEW f \in frames,
                    f.staple.kind # "welcome",
                    f.staple.epoch = session[Peer(f.from)].recv_cl
             PROVE  WinnerHeld(session[Peer(f.from)], f.staple)
  BY DEF CommittableCandidateHeld
<1> DEFINE p == Peer(f.from)
<1>1. p \in Party /\ f.from = Peer(p)  BY PeerType DEF TypeOK, Frame
<1>2. StapleHeld(session[p], f.staple)  BY <1>1 DEF CandidatesHeld, OffersHeld
<1> QED  BY <1>2 DEF StapleHeld, OfferHeld, WinnerHeld, CanonicalizedOwn

\* No commit a peer could still apply hands a party's leaf to a candidate whose
\* signing key it has pruned, for every size of the pool.
THEOREM CommittableStaysHeld == Spec => []CommittableCandidateHeld
  BY HeldIsCommittable, TypeCorrect, CandidatesStayHeld, PTL

=============================================================================
