---------------------------- MODULE RoundProofs ----------------------------
(***************************************************************************)
(* Proofs about Session for every value of its constants: the cross-party  *)
(* PSK of a commit stays within the ledger's window, and the post-quantum  *)
(* rounds keep one turn, one secret and a responder that is never left     *)
(* behind.                                                                 *)
(***************************************************************************)
EXTENDS SessionProofs, SessionInvariants, FiniteSetTheorems

----------------------------------------------------------------------------
(* The cross-party PSK.  What a step of p does to the fields CrossNear     *)
(* speaks of: s before, t after, q the peer.                               *)

\* p commits: on a license, with what the license was made of used up, and
\* injecting the mirror's epoch or nothing.
Commits(s, t) ==
    /\ s.queued_proposal # NoOffer \/ PeerAppliedOurSendEpoch(s)
    /\ t.send_cl = s.send_cl + 1
    /\ t.recv_cl = s.recv_cl
    /\ t.current_staple.kind # "welcome"
    /\ t.current_staple.cross \in {0, s.recv_cl}
    /\ t.queued_proposal = NoOffer /\ t.offered_proposal = NoOffer
    /\ t.peer_applied_send_epoch = s.peer_applied_send_epoch

\* p's mirror takes the epoch it was due.
Advances(s, t) ==
    /\ t.send_cl = s.send_cl /\ t.current_staple = s.current_staple
    /\ t.recv_cl = s.recv_cl + 1

\* p records the offer of a frame whose staple it does not need.
Records(s, t, f) ==
    /\ t.send_cl = s.send_cl /\ t.recv_cl = s.recv_cl /\ t.current_staple = s.current_staple
    /\ t.queued_proposal = s.queued_proposal
    /\ t.offered_proposal = f.offer
    /\ \/ t.peer_applied_send_epoch = s.peer_applied_send_epoch
       \/ f.offer.epoch = s.send_cl
    /\ f.staple.epoch < s.recv_cl \/ (f.staple.kind = "welcome" /\ s.recv_cl > 0)

\* p does neither: its evidence stays, or becomes a queued offer.
Keeps(s, t) ==
    /\ t.send_cl = s.send_cl /\ t.recv_cl = s.recv_cl /\ t.current_staple = s.current_staple
    /\ t.peer_applied_send_epoch = s.peer_applied_send_epoch
    /\ \/ t.queued_proposal \in {s.queued_proposal, NoOffer}
             /\ t.offered_proposal = s.offered_proposal
       \/ s.offered_proposal.epoch = s.send_cl

\* The peer of p stays, and p does one of these; a new frame has p's staple.
CrossMove(p) ==
    /\ session'[Peer(p)] = session[Peer(p)]
    /\ \/ Commits(session[p], session'[p])
       \/ Keeps(session[p], session'[p])
       \/ Advances(session[p], session'[p])
       \/ \E f \in frames : f.from = Peer(p) /\ Records(session[p], session'[p], f)
    /\ \A f \in frames' : f \in frames \/ (f.from = p /\ f.staple = session[p].current_staple)

\* Such a step keeps the PSK of the outstanding commit near.
LEMMA CrossNearMove ==
    ASSUME TypeOK, TypeOK', InStep, InStep', CrossInStep, NEW p \in Party, StepMove(p), CrossMove(p)
    PROVE  CrossInStep'
<1> DEFINE q == Peer(p)  s == session[p]  t == session'[p]  r == session[q]
<1>1. q \in Party /\ q # p /\ Peer(q) = p /\ \A x \in Party : x = p \/ x = q
  BY PeerType DEF Party
<1>2. s \in SessionInner /\ t \in SessionInner /\ r \in SessionInner  BY <1>1 DEF TypeOK
<1>3. /\ s.send_cl \in Nat /\ s.recv_cl \in Nat /\ t.send_cl \in Nat /\ t.recv_cl \in Nat
      /\ r.send_cl \in Nat /\ r.recv_cl \in Nat
      /\ s.current_staple.epoch \in Nat /\ t.current_staple.epoch \in Nat
      /\ r.current_staple.epoch \in Nat
      /\ s.current_staple.cross \in Nat /\ t.current_staple.cross \in Nat
      /\ r.current_staple.cross \in Nat
      /\ r.offered_proposal.epoch \in Nat /\ s.offered_proposal.epoch \in Nat
      /\ t.offered_proposal.epoch \in Nat
      /\ r.peer_applied_send_epoch \in Nat /\ s.peer_applied_send_epoch \in Nat
      /\ t.peer_applied_send_epoch \in Nat
      /\ NoOffer.epoch = 0
  BY <1>2, SessionFields DEF Staple, Offer, NoOffer
<1>4. \A f \in frames \cup frames' : f.staple.epoch \in Nat /\ f.offer.epoch \in Nat
  BY DEF TypeOK, Frame, Staple, Offer
<1>5. /\ MirrorClose(p) /\ StaplesBehind(p) /\ OffersReached(p) /\ LicenseIsTrue(p)
      /\ MirrorClose(q) /\ StaplesBehind(q) /\ OffersReached(q) /\ LicenseIsTrue(q)
  BY <1>1 DEF InStep
<1>6. CurrentOnWire(p) /\ CrossNear(p) /\ CurrentOnWire(q) /\ CrossNear(q)
  BY <1>1 DEF CrossInStep
<1>7. StaplesBehind(p)' /\ StaplesBehind(q)' /\ MirrorClose(p)' BY <1>1 DEF InStep
<1>8. /\ r = session'[q]
      /\ \A f \in frames' : f \in frames \/ (f.from = p /\ f.staple = s.current_staple)
      /\ \/ Commits(s, t) \/ Keeps(s, t) \/ Advances(s, t)
         \/ \E f \in frames : f.from = q /\ Records(s, t, f)
      /\ WriterMove(s, t, r)
  BY DEF CrossMove, StepMove
<1>9. CurrentOnWire(p)'
  BY <1>1, <1>3, <1>4, <1>5, <1>6, <1>8
  DEF CurrentOnWire, StaplesBehind, WriterMove, Commits, Keeps, Advances, Records
<1>10. CurrentOnWire(q)'
  BY <1>1, <1>6, <1>8 DEF CurrentOnWire
<1>11. CrossNear(p)'
  <2>1. CASE Commits(s, t)
    <3>1. /\ t.current_staple.cross \in {0, s.recv_cl}
          /\ t.send_cl = s.send_cl + 1 /\ s.current_staple.epoch + 1 = s.send_cl
      BY <1>5, <2>1 DEF Commits, StaplesBehind
    <3>2. s.recv_cl \in {r.send_cl - 1, r.send_cl}  BY <1>1, <1>5 DEF MirrorClose
    <3>3. /\ r.offered_proposal.epoch <= s.recv_cl /\ r.peer_applied_send_epoch <= r.send_cl
          /\ r.queued_proposal # NoOffer \/ r.peer_applied_send_epoch >= r.send_cl =>
                 s.recv_cl = r.send_cl
          /\ \A f \in frames : f.from = p => f.offer.epoch <= s.recv_cl
      BY <1>1, <1>5 DEF OffersReached, LicenseIsTrue, PeerAppliedOurSendEpoch
    <3>4. \A f \in frames' : f.from = p => f.offer.epoch <= s.recv_cl
      BY <1>1, <3>3 DEF StepMove
    <3> QED
      BY <1>1, <1>3, <1>4, <1>8, <3>1, <3>2, <3>3, <3>4 DEF CrossNear
  <2>2. CASE t.send_cl = s.send_cl /\ t.current_staple = s.current_staple
    BY <2>2, <1>1, <1>3, <1>4, <1>5, <1>6, <1>8 DEF CrossNear, StaplesBehind
  <2> QED  BY <1>8, <2>1, <2>2 DEF Keeps, Advances, Records
<1>12. CrossNear(q)'
  <2>1. CASE Commits(s, t)
    BY <2>1, <1>1, <1>3, <1>4, <1>5, <1>6, <1>8
    DEF CrossNear, LicenseIsTrue, Commits, PeerAppliedOurSendEpoch
  <2>2. CASE Keeps(s, t)
    BY <2>2, <1>1, <1>3, <1>4, <1>5, <1>6, <1>8 DEF CrossNear, Keeps
  <2>3. ASSUME NEW f \in frames, f.from = q, Records(s, t, f)
        PROVE  CrossNear(q)'
    BY <2>3, <1>1, <1>3, <1>4, <1>5, <1>6, <1>8
    DEF CrossNear, Records, CurrentOnWire, StaplesBehind, MirrorClose
  <2>4. CASE Advances(s, t)
    BY <2>4, <1>1, <1>3, <1>5, <1>8 DEF CrossNear, Advances, MirrorClose
  <2> QED  BY <1>8, <2>1, <2>2, <2>3, <2>4
<1> QED  BY <1>1, <1>9, <1>10, <1>11, <1>12 DEF CrossInStep

\* A prepare commits on its license or leaves the evidence as it is.
LEMMA PrepareCross ==
    ASSUME TypeOK, InStep, NEW p \in Party, NEW selected \in Ids,
           PrepareToEncrypt(p, selected)
    PROVE  CrossMove(p)
<1> DEFINE q == Peer(p)  s == session[p]  t == session'[p]  r == session[q]
<1>1. q \in Party /\ q # p /\ Peer(q) = p  BY PeerType
<1>2. s \in SessionInner  BY DEF TypeOK
<1>3. /\ r = session'[q]
      /\ t = IF Joined(s) THEN PrepareRatchetCommit(s, selected) ELSE PreparePreEstablishment(s)
      /\ frames' = frames
  BY <1>1 DEF PrepareToEncrypt, TypeOK
<1>4. s.pending_proposal_message.epoch <= s.recv_cl
  <2>1. OffersReached(q)  BY <1>1 DEF InStep
  <2> QED  BY <1>1, <2>1 DEF OffersReached
<1>5. selected \in Nat  BY BoundAssumption DEF Ids
<1> SUFFICES Commits(s, t) \/ Keeps(s, t)  BY <1>3 DEF CrossMove
<1> HIDE DEF s, t, r, q
<1>6. CASE ~Joined(s)
  <2> DEFINE u == [s EXCEPT !.pending_proposal_hash = TRUE, !.pending_proposal_message = NoOffer]
  <2>1. u \in SessionInner /\ SameClassical(s, u)
    BY <1>2, AbsentTypes DEF SessionInner, SameClassical
  <2> HIDE DEF u
  <2>2. SameClassical(u, RewrapSideBand(u))  BY <2>1, SideBandSame
  <2>3. SameClassical(s, t)
    BY <1>3, <1>6, <2>1, <2>2, SameTransitive DEF PreparePreEstablishment, u
  <2> QED  BY <2>3 DEF Keeps, SameClassical
<1>7. CASE Joined(s) /\ ~DidCommit(s)
  <2>1. t = StageProposal(s, selected)  BY <1>3, <1>7 DEF PrepareRatchetCommit
  <2> QED  BY <1>2, <1>4, <1>5, <2>1, StageProposalMove DEF Keeps
<1>8. CASE Joined(s) /\ DidCommit(s) /\ ~ReservationHolds(s)
  <2>1. t = FailedDischarge(s)  BY <1>3, <1>8 DEF PrepareRatchetCommit
  <2> QED  BY <1>2, <2>1 DEF FailedDischarge, SessionInner, Keeps
<1>9. CASE Joined(s) /\ DidCommit(s) /\ ReservationHolds(s)
  <2> DEFINE d == DischargeAndCommit(s)
  <2>1. d \in SessionInner  BY <1>2, DischargeType
  <2>2. t = StageProposal(d, selected)  BY <1>3, <1>9 DEF PrepareRatchetCommit
  <2>3. /\ d.send_cl = s.send_cl + 1 /\ d.recv_cl = s.recv_cl
        /\ d.current_staple.kind # "welcome" /\ d.current_staple.cross \in {0, s.recv_cl}
        /\ d.queued_proposal = NoOffer /\ d.offered_proposal = NoOffer
        /\ d.pending_proposal_message = s.pending_proposal_message
        /\ d.peer_applied_send_epoch = s.peer_applied_send_epoch
    BY <1>2 DEF DischargeAndCommit, CommitStaple, SessionInner
  <2> HIDE DEF d
  <2> QED  BY <1>4, <1>5, <1>9, <2>1, <2>2, <2>3, StageProposalMove DEF Commits, DidCommit
<1> QED  BY <1>6, <1>7, <1>8, <1>9

\* A staple that is due advances the mirror unless its bind breaks; one that is
\* not due changes nothing.
LEMMA StapleAdvances ==
    ASSUME NEW s \in SessionInner, NEW staple \in Staple, StapleAdmitted(s, staple)
    PROVE  LET t == ProcessStaple(s, staple)
           IN  \/ t.recv_cl = s.recv_cl + 1
               \/ t.recv_cl = s.recv_cl /\ t.bind_apply_broken
               \/ t = s /\ staple.epoch < s.recv_cl
               \/ t = s /\ staple.kind = "welcome" /\ s.recv_cl > 0
<1>1. CASE staple.kind = "welcome"
  BY <1>1, SessionFields DEF ProcessStaple, ProcessWelcome, Joined, SessionInner
<1>2. CASE staple.kind # "welcome" /\ StapleEpochAction(s, staple) = "skip"
  BY <1>2, SessionFields DEF ProcessStaple, StapleEpochAction, Staple
<1>3. CASE staple.kind = "commit" /\ StapleEpochAction(s, staple) # "skip"
  BY <1>3 DEF ProcessStaple, ApplyCommit, LeafChanges, SessionInner
<1>4. CASE staple.kind = "bind" /\ StapleEpochAction(s, staple) # "skip"
  BY <1>4 DEF ProcessStaple, ApplyBind, BindOpens, LeafChanges, SessionInner
<1>5. staple.kind \in {"welcome", "commit", "bind"}  BY DEF Staple
<1> QED  BY <1>1, <1>2, <1>3, <1>4, <1>5

\* A frame advances the mirror, or its offer is recorded beside an old staple.
LEMMA ProcessCross ==
    ASSUME TypeOK, NEW p \in Party, ProcessIncoming(p)
    PROVE  CrossMove(p)
<1> DEFINE q == Peer(p)  s == session[p]  t == session'[p]
<1>1. q \in Party /\ q # p  BY PeerType
<1>2. s \in SessionInner  BY DEF TypeOK
<1>3. PICK f \in frames : /\ f.from = q
                          /\ StapleAdmitted(s, f.staple)
                          /\ session' = [session EXCEPT ![p] = ProcessFrame(s, f)]
                          /\ frames' = frames
  BY DEF ProcessIncoming, ProcessIncomingFrame
<1>4. f.staple \in Staple /\ f.offer \in Offer  BY DEF TypeOK, Frame
<1> DEFINE s1 == ProcessStaple(s, f.staple)  u == RecordOffer(s1, f.offer)
<1>5. t = ProcessFrame(s, f) /\ session'[q] = session[q]  BY <1>1, <1>3 DEF TypeOK
<1> SUFFICES Advances(s, t) \/ Keeps(s, t) \/ Records(s, t, f)  BY <1>3, <1>5 DEF CrossMove
<1>6. t = s1 \/ (t = u /\ ~s1.bind_apply_broken)  BY <1>5 DEF ProcessFrame, FrameFails
<1>7. s1 \in SessionInner  BY <1>2, <1>4, ProcessStapleType
<1>8. \/ s1.recv_cl = s.recv_cl + 1
      \/ s1.recv_cl = s.recv_cl /\ s1.bind_apply_broken
      \/ s1 = s /\ f.staple.epoch < s.recv_cl
      \/ s1 = s /\ f.staple.kind = "welcome" /\ s.recv_cl > 0
  BY <1>2, <1>3, <1>4, StapleAdvances
<1>9. /\ s1.send_cl = s.send_cl /\ s1.current_staple = s.current_staple
      /\ s1.offered_proposal = s.offered_proposal /\ s1.queued_proposal = s.queued_proposal
      /\ s1.peer_applied_send_epoch = s.peer_applied_send_epoch
  BY <1>2, <1>4, ProcessStapleMove
<1> HIDE DEF s1, s, t
<1>10. /\ u.send_cl = s1.send_cl /\ u.recv_cl = s1.recv_cl
       /\ u.current_staple = s1.current_staple /\ u.queued_proposal = s1.queued_proposal
       /\ u.offered_proposal = f.offer
       /\ \/ u.peer_applied_send_epoch = s1.peer_applied_send_epoch
          \/ f.offer.epoch = s1.send_cl
  BY <1>7 DEF RecordOffer, ValidateOfferedUpdate, SessionInner
<1> HIDE DEF u
<1> QED  BY <1>6, <1>8, <1>9, <1>10 DEF Advances, Keeps, Records

\* Every step of the system is such a step of one party.
LEMMA NextCross ==
    ASSUME TypeOK, InStep, Next
    PROVE  \E p \in Party : StepMove(p) /\ CrossMove(p)
<1>1. ASSUME NEW p \in Party, SameClassical(session[p], session'[p]),
             session'[Peer(p)] = session[Peer(p)],
             \A f \in frames' : f \in frames \/ (f.from = p /\ f.staple = session[p].current_staple)
      PROVE  CrossMove(p)
  BY <1>1 DEF CrossMove, Keeps, SameClassical
<1>2. ASSUME NEW p \in Party, Encrypt(p) PROVE StepMove(p) /\ CrossMove(p)
  BY <1>1, <1>2, EncryptSame, EncryptMove
<1>3. ASSUME NEW p \in Party,
             \/ PqPendingOutbound(p) \/ PqTakePendingOutbound(p)
             \/ PqBootstrapBegin(p) \/ PqBootstrapEnvelope(p) \/ ProcessSideBand(p)
      PROVE  StepMove(p) /\ CrossMove(p)
  BY <1>1, <1>3, SideBandActionSame, QuietMove
<1>4. ASSUME NEW p \in Party, QueueProposal(p) PROVE CrossMove(p)
  <2>1. session[p] \in SessionInner /\ Peer(p) \in Party /\ Peer(p) # p
    BY PeerType DEF TypeOK
  <2>2. Keeps(session[p], session'[p]) /\ session'[Peer(p)] = session[Peer(p)] /\ frames' = frames
    BY <1>4, <2>1 DEF QueueProposal, ValidateOfferedUpdate, Keeps, TypeOK, SessionInner
  <2> QED  BY <2>2 DEF CrossMove
<1>5. ASSUME NEW p \in Party, ProcessIncomingWelcome(p) PROVE CrossMove(p)
  <2>1. session[p] \in SessionInner /\ Peer(p) \in Party /\ Peer(p) # p
    BY PeerType DEF TypeOK
  <2>2. /\ Advances(session[p], session'[p]) /\ session'[Peer(p)] = session[Peer(p)]
        /\ frames' = frames
    BY <1>5, <2>1 DEF ProcessIncomingWelcome, ProcessWelcome, Joined, Advances, TypeOK, SessionInner
  <2> QED  BY <2>2 DEF CrossMove
<1> QED
  BY <1>2, <1>3, <1>4, <1>5, PrepareMove, PrepareCross, ProcessMove, ProcessCross,
     WelcomeMove, QueueMove
  DEF Next, ProcessSideBand

\* The welcome injects nothing.
LEMMA CrossInit == Init => CrossInStep
<1> SUFFICES ASSUME Init PROVE CrossInStep  OBVIOUS
<1>1. \A p \in Party : session[p].current_staple = Welcome
  BY DEF Init, Initiate, AcceptWith, NewSession
<1>2. frames = {} /\ Welcome.cross = 0 /\ Welcome.epoch = 0  BY DEF Init, Welcome
<1> QED  BY <1>1, <1>2 DEF CrossInStep, CurrentOnWire, CrossNear

\* In every behaviour a commit that is still to be applied injects the reader's
\* current send epoch, the one before it, or nothing.
THEOREM CrossStaysNear == Spec => []CrossInStep
<1>1. TypeOK /\ TypeOK' /\ InStep /\ InStep' /\ CrossInStep /\ [Next]_vars => CrossInStep'
  <2> SUFFICES ASSUME TypeOK, TypeOK', InStep, InStep', CrossInStep, [Next]_vars
               PROVE  CrossInStep'
    OBVIOUS
  <2>1. CASE Next  BY <2>1, NextCross, CrossNearMove
  <2>2. CASE UNCHANGED vars
    BY <2>2 DEF vars, CrossInStep, CurrentOnWire, CrossNear
  <2> QED  BY <2>1, <2>2
<1> QED  BY <1>1, CrossInit, TypeCorrect, StaysInStep, PTL DEF Spec

\* So its PSK resolves, for every window of two epochs or more.
LEMMA CrossResolves ==
    ASSUME TypeOK, InStep, CrossInStep, NEW f \in frames,
           f.staple.epoch = session[Peer(f.from)].recv_cl
    PROVE  /\ f.staple = session[f.from].current_staple
           /\ session[Peer(f.from)].recv_cl + 1 = session[f.from].send_cl
           /\ SendPskResolves(session[Peer(f.from)], f.staple.cross)
<1> DEFINE p == f.from  s == session[p]  r == session[Peer(p)]
<1>1. p \in Party /\ Peer(p) \in Party /\ f.staple \in Staple  BY PeerType DEF TypeOK, Frame
<1>2. /\ s.send_cl \in Nat /\ r.recv_cl \in Nat /\ r.send_cl \in Nat
      /\ f.staple.epoch \in Nat /\ f.staple.cross \in Nat
  BY <1>1, SessionFields DEF TypeOK, Staple
<1>3. MirrorClose(p) /\ StaplesBehind(p) /\ CurrentOnWire(p) /\ CrossNear(p)
  BY <1>1 DEF InStep, CrossInStep
<1>4. r.recv_cl \in {s.send_cl - 1, s.send_cl} /\ f.staple.epoch < s.send_cl
  BY <1>3 DEF MirrorClose, StaplesBehind
<1>5. r.recv_cl + 1 = s.send_cl  BY <1>2, <1>4
<1>6. f.staple = s.current_staple  BY <1>3, <1>5 DEF CurrentOnWire
<1>7. f.staple.cross = 0 \/ f.staple.cross \in {r.send_cl - 1, r.send_cl}
  BY <1>2, <1>3, <1>5, <1>6 DEF CrossNear
<1> HIDE DEF r, s, p
<1>8. SendPskResolves(r, f.staple.cross)
  BY <1>2, <1>7, WindowAssumption DEF SendPskResolves
<1> QED  BY <1>5, <1>6, <1>8 DEF r, s, p

\* The cross-party PSK of every commit still to be applied is in the ledger of the
\* party that must resolve it: inject_send_psks never misses it.
THEOREM PskStaysInWindow == Spec => []CrossPskInWindow
<1>1. TypeOK /\ InStep /\ CrossInStep => CrossPskInWindow
  BY CrossResolves DEF CrossPskInWindow
<1> QED  BY <1>1, TypeCorrect, StaysInStep, CrossStaysNear, PTL

----------------------------------------------------------------------------
(* The rounds, step by step.  A step of one party takes its session from s *)
(* to t while the peer's is r.                                             *)

\* An in-flight state is determined by its kind and its payload.
LEMMA InflightKinds ==
    /\ Idle.kind = "none"
    /\ BootstrapInitiated.kind = "BootstrapInitiated"
    /\ BootstrapResponded.kind = "BootstrapResponded"
    /\ RekeyInitiated.kind = "RekeyInitiated" /\ RekeyResponded.kind = "RekeyResponded"
    /\ \A e : Initiating(e).kind = "Initiating" /\ Initiating(e).eph = e
    /\ \A ct : Responding(ct).kind = "Responding" /\ Responding(ct).ct = ct
    /\ \A i \in Inflight :
          /\ i.kind = "none" => i = Idle
          /\ i.kind = "BootstrapInitiated" => i = BootstrapInitiated
          /\ i.kind = "BootstrapResponded" => i = BootstrapResponded
          /\ i.kind = "RekeyInitiated" => i = RekeyInitiated
          /\ i.kind = "RekeyResponded" => i = RekeyResponded
          /\ i.kind = "Initiating" => i = Initiating(i.eph)
  BY DEF Inflight, Idle, BootstrapInitiated, BootstrapResponded, RekeyInitiated, RekeyResponded,
         Initiating, Responding

\* The fields of a session that its round speaks of have their types.
LEMMA RoundFields ==
    ASSUME NEW s \in SessionInner
    PROVE  /\ s.send_cl \in Nat /\ s.recv_cl \in Nat /\ s.send_pq \in Nat /\ s.recv_pq \in Nat
           /\ s.last_cross_injected_pq \in Nat /\ s.last_send_pq_exported \in Nat
           /\ s.pq_turn_mine \in BOOLEAN
           /\ s.pq_inflight \in Inflight
           /\ Kind(s) = "Initiating" => s.pq_inflight.eph \in Nat
           /\ Kind(s) = "Responding" => s.pq_inflight.ct.eph \in Nat
<1>1. s.pq_inflight \in Inflight  BY SessionFields
<1>2. /\ Kind(s) = "Initiating" => s.pq_inflight.eph \in Nat
      /\ Kind(s) = "Responding" => s.pq_inflight.ct.eph \in Nat
  BY <1>1, InflightFields DEF Kind, Ciphertexts
<1> QED  BY <1>2, SessionFields

\* What a leg carries has its type.
LEMMA LegNumbers ==
    ASSUME NEW leg \in Leg
    PROVE  /\ leg.kind \in {"ek", "ct", "rekey_upd", "rekey_commit"} => leg.epoch \in Nat
           /\ leg.kind = "ek" => leg.eph \in Nat
           /\ leg.kind = "ct" => leg.ct.eph \in Nat
  BY LegFields DEF Ciphertexts

\* The step leaves the PQ halves and the slot in flight as they were.
SamePq(s, t) ==
    /\ t.send_pq = s.send_pq /\ t.recv_pq = s.recv_pq
    /\ t.pq_inflight = s.pq_inflight /\ t.bootstrap_kp = s.bootstrap_kp
    /\ t.last_cross_injected_pq = s.last_cross_injected_pq
    /\ t.last_send_pq_exported = s.last_send_pq_exported
    /\ t.pq_wedged = s.pq_wedged /\ t.bind_apply_broken = s.bind_apply_broken

\* It leaves the turn and the debt as they were, too.
SameRound(s, t) ==
    SamePq(s, t) /\ t.owed_bind = s.owed_bind /\ t.pq_turn_mine = s.pq_turn_mine

\* It leaves the classical epochs and the staple as they were.
SameEpochs(s, t) ==
    t.send_cl = s.send_cl /\ t.recv_cl = s.recv_cl /\ t.current_staple = s.current_staple

\* A step of one party from s to t, with r the peer and the names below n and then
\* below m in use, keeps the round, takes no PQ
\* half back, and every frame sent by either still fits.
RoundStep(s, t, r, n, m) ==
    /\ InRound(t, r, m)
    /\ t.send_pq >= s.send_pq /\ t.recv_pq >= s.recv_pq
    /\ \A leg \in Leg : /\ LegFits(s, r, leg, n) => LegFits(t, r, leg, m)
                        /\ LegFits(r, s, leg, n) => LegFits(r, t, leg, m)

\* Two such steps in a row are one.
LEMMA RoundStepTransitive ==
    ASSUME NEW s \in SessionInner, NEW u \in SessionInner, NEW t \in SessionInner,
           NEW r, NEW n, NEW k, NEW m,
           RoundStep(s, u, r, n, k), RoundStep(u, t, r, k, m)
    PROVE  RoundStep(s, t, r, n, m)
<1>1. t.send_pq >= s.send_pq /\ t.recv_pq >= s.recv_pq  BY RoundFields DEF RoundStep
<1> QED  BY <1>1 DEF RoundStep

\* A step that touches neither the round nor the epochs.
LEMMA StillStep ==
    ASSUME NEW s \in SessionInner, NEW t \in SessionInner, NEW r \in SessionInner,
           NEW n \in Nat, NEW m \in Nat, n <= m,
           InRound(s, r, n), SameRound(s, t), SameEpochs(s, t), Slot(t)
    PROVE  RoundStep(s, t, r, n, m)
<1> USE DEF SameRound, SamePq, SameEpochs
<1>1. Round(t, r) \/ Round(r, t)
  BY DEF InRound, Round, Outstanding, Quiet, Opened, Answered, Closing, Level, Kind,
         AwaitsBind, HeldSecret
<1>2. Health(t, m) /\ Health(r, m)
  BY RoundFields DEF InRound, Health, Kind, ReExports
<1>3. ASSUME NEW leg \in Leg
      PROVE  /\ LegFits(s, r, leg, n) => LegFits(t, r, leg, m)
             /\ LegFits(r, s, leg, n) => LegFits(r, t, leg, m)
  BY LegNumbers DEF LegFits, Kind, Outstanding
<1>4. t.send_pq >= s.send_pq /\ t.recv_pq >= s.recv_pq  BY RoundFields
<1> QED  BY <1>1, <1>2, <1>3, <1>4 DEF RoundStep, InRound

\* A classical commit that discharges no bind.
LEMMA FoldStep ==
    ASSUME NEW s \in SessionInner, NEW t \in SessionInner, NEW r \in SessionInner,
           NEW n \in Nat, InRound(s, r, n), SameRound(s, t), Slot(t),
           s.owed_bind = NoBind, r.recv_cl = s.send_cl,
           t.send_cl = s.send_cl + 1, t.recv_cl = s.recv_cl, t.current_staple.kind = "commit"
    PROVE  RoundStep(s, t, r, n, n)
<1> USE DEF SameRound, SamePq
<1>1. ~Outstanding(s, r) /\ ~Outstanding(t, r) /\ (Outstanding(r, t) <=> Outstanding(r, s))
  BY RoundFields DEF Outstanding
<1>2. Round(t, r) \/ Round(r, t)
  BY <1>1 DEF InRound, Round, Quiet, Opened, Answered, Closing, Level, Kind, AwaitsBind, HeldSecret
<1>3. Health(t, n) /\ Health(r, n)
  BY DEF InRound, Health, Kind, ReExports
<1>4. ASSUME NEW leg \in Leg
      PROVE  /\ LegFits(s, r, leg, n) => LegFits(t, r, leg, n)
             /\ LegFits(r, s, leg, n) => LegFits(r, t, leg, n)
  BY <1>1, LegNumbers, RoundFields DEF LegFits, Kind
<1>5. t.send_pq >= s.send_pq /\ t.recv_pq >= s.recv_pq  BY RoundFields
<1> QED  BY <1>2, <1>3, <1>4, <1>5 DEF RoundStep, InRound

\* The classical commit that discharges the owed bind: the turn rides on it.
LEMMA DischargeStep ==
    ASSUME NEW s \in SessionInner, NEW t \in SessionInner, NEW r \in SessionInner,
           NEW n \in Nat, InRound(s, r, n), Slot(t),
           s.owed_bind # NoBind, r.recv_cl = s.send_cl,
           t.send_cl = s.send_cl + 1, t.recv_cl = s.recv_cl,
           t.current_staple.kind = "bind", t.current_staple.bind = s.owed_bind,
           t.owed_bind = NoBind, ~t.pq_turn_mine, SamePq(s, t)
    PROVE  RoundStep(s, t, r, n, n)
<1> USE DEF SamePq
<1>1. /\ Round(s, r) /\ Closing(s, r, s.owed_bind) /\ s.owed_bind.t_epoch = s.send_cl + 1
      /\ ~r.pq_turn_mine /\ r.owed_bind = NoBind /\ ~Outstanding(r, s)
  BY DEF InRound, Round
<1>2. ~Outstanding(s, r) /\ Outstanding(t, r) /\ ~Outstanding(r, t)
  BY <1>1, RoundFields DEF Outstanding
<1>3. Round(t, r)
  BY <1>1, <1>2 DEF Round, Closing, Kind
<1>4. Health(t, n) /\ Health(r, n)
  BY <1>1, RoundFields DEF InRound, Health, Kind, ReExports, Closing
<1>5. ASSUME NEW leg \in Leg
      PROVE  /\ LegFits(s, r, leg, n) => LegFits(t, r, leg, n)
             /\ LegFits(r, s, leg, n) => LegFits(r, t, leg, n)
  BY <1>1, <1>2, LegNumbers, RoundFields DEF LegFits, Kind
<1>6. t.send_pq >= s.send_pq /\ t.recv_pq >= s.recv_pq  BY RoundFields
<1> QED  BY <1>3, <1>4, <1>5, <1>6 DEF RoundStep, InRound

\* The mirror takes an epoch that carries no bind: a commit or the welcome.
LEMMA ApplyCommitStep ==
    ASSUME NEW s \in SessionInner, NEW t \in SessionInner, NEW r \in SessionInner,
           NEW n \in Nat, InRound(s, r, n), SameRound(s, t), Slot(t),
           r.current_staple.kind # "bind",
           t.send_cl = s.send_cl, t.recv_cl = s.recv_cl + 1, t.current_staple = s.current_staple
    PROVE  RoundStep(s, t, r, n, n)
<1> USE DEF SameRound, SamePq
<1>1. ~Outstanding(r, s) /\ ~Outstanding(r, t) /\ (Outstanding(t, r) <=> Outstanding(s, r))
  BY DEF Outstanding
<1>2. Round(t, r) \/ Round(r, t)
  BY <1>1 DEF InRound, Round, Quiet, Opened, Answered, Closing, Level, Kind, AwaitsBind, HeldSecret
<1>3. Health(t, n) /\ Health(r, n)
  BY DEF InRound, Health, Kind, ReExports
<1>4. ASSUME NEW leg \in Leg
      PROVE  /\ LegFits(s, r, leg, n) => LegFits(t, r, leg, n)
             /\ LegFits(r, s, leg, n) => LegFits(r, t, leg, n)
  BY <1>1, LegNumbers, RoundFields DEF LegFits, Kind
<1>5. t.send_pq >= s.send_pq /\ t.recv_pq >= s.recv_pq  BY RoundFields
<1> QED  BY <1>2, <1>3, <1>4, <1>5 DEF RoundStep, InRound

\* The mirror takes the bind it waited for: both halves move and the turn arrives.
LEMMA ApplyBindStep ==
    ASSUME NEW s \in SessionInner, NEW t \in SessionInner, NEW r \in SessionInner,
           NEW n \in Nat, InRound(s, r, n), Outstanding(r, s), s.recv_cl + 1 = r.send_cl,
           t.send_cl = s.send_cl, t.recv_cl = s.recv_cl + 1, t.current_staple = s.current_staple,
           t.send_pq = s.send_pq, t.recv_pq = s.recv_pq + 1, t.pq_inflight = Idle,
           t.owed_bind = s.owed_bind, t.pq_turn_mine, t.pending_side_band = NoLeg,
           t.last_cross_injected_pq = s.last_cross_injected_pq,
           t.last_send_pq_exported = IF ReExports(s) THEN s.send_pq ELSE s.last_send_pq_exported,
           t.bootstrap_kp = s.bootstrap_kp,
           t.pq_wedged = s.pq_wedged, t.bind_apply_broken = s.bind_apply_broken
    PROVE  RoundStep(s, t, r, n, n)
<1>1. /\ Closing(r, s, r.current_staple.bind) /\ ~r.pq_turn_mine /\ r.owed_bind = NoBind
      /\ ~s.pq_turn_mine /\ s.owed_bind = NoBind /\ ~Outstanding(s, r)
  BY DEF InRound, Round
<1>2. ~Outstanding(r, t) /\ ~Outstanding(t, r)
  BY <1>1, RoundFields DEF Outstanding
<1>3. Kind(t) = "none"  BY InflightKinds DEF Kind
<1>4. Round(t, r)
  BY <1>1, <1>2, <1>3 DEF Round, Closing, Quiet, Level
<1>5. Health(t, n) /\ Health(r, n)
  BY <1>1, <1>3, RoundFields DEF InRound, Health, ReExports, Kind
<1>6. Slot(t) /\ Slot(r)  BY DEF InRound, Slot, NoLeg
<1>7. ASSUME NEW leg \in Leg
      PROVE  /\ LegFits(s, r, leg, n) => LegFits(t, r, leg, n)
             /\ LegFits(r, s, leg, n) => LegFits(r, t, leg, n)
  BY <1>1, <1>2, <1>3, LegNumbers, RoundFields DEF LegFits, Closing, AwaitsBind, Kind
<1>8. t.send_pq >= s.send_pq /\ t.recv_pq >= s.recv_pq  BY RoundFields
<1> QED  BY <1>4, <1>5, <1>6, <1>7, <1>8 DEF RoundStep, InRound

\* What the holder of the turn does when it opens a round.
OpensRound(s, t, n, m) ==
    /\ Kind(s) = "none" /\ s.owed_bind = NoBind /\ s.pq_turn_mine
    /\ SameEpochs(s, t) /\ t.send_pq = s.send_pq /\ t.recv_pq = s.recv_pq
    /\ t.owed_bind = s.owed_bind /\ t.pq_turn_mine = s.pq_turn_mine
    /\ t.last_cross_injected_pq = s.last_cross_injected_pq
    /\ t.last_send_pq_exported = s.last_send_pq_exported
    /\ t.pq_wedged = s.pq_wedged /\ t.bind_apply_broken = s.bind_apply_broken
    /\ ~t.bootstrap_kp
    /\ \/ Kind(t) = "Initiating" /\ t.pq_inflight.eph = n /\ n < m /\ s.recv_pq > 0
       \/ Kind(t) = "BootstrapInitiated" /\ s.recv_pq = 0
       \/ Kind(t) = "RekeyInitiated"
    /\ Slot(t)

\* Opening a round keeps the two sessions in it together.
LEMMA OpenStep ==
    ASSUME NEW s \in SessionInner, NEW t \in SessionInner, NEW r \in SessionInner,
           NEW n \in Nat, NEW m \in Nat, n <= m, InRound(s, r, n), OpensRound(s, t, n, m)
    PROVE  RoundStep(s, t, r, n, m)
<1> USE DEF OpensRound
<1>1. /\ Quiet(s, r) /\ ~r.pq_turn_mine /\ r.owed_bind = NoBind
      /\ ~Outstanding(s, r) /\ ~Outstanding(r, s)
  BY RoundFields DEF InRound, Round, Opened, Answered, Closing
<1>2. ~Outstanding(r, t) /\ ~Outstanding(t, r)
  BY <1>1 DEF Outstanding, SameEpochs
<1>3. Round(t, r)
  BY <1>1, <1>2 DEF Round, Quiet, Opened, Level
<1>4. Health(t, m) /\ Health(r, m)
  BY <1>1, RoundFields DEF InRound, Health, ReExports, Quiet, Kind
<1>5. ASSUME NEW leg \in Leg
      PROVE  /\ LegFits(s, r, leg, n) => LegFits(t, r, leg, m)
             /\ LegFits(r, s, leg, n) => LegFits(r, t, leg, m)
  BY <1>1, <1>2, LegNumbers, RoundFields DEF LegFits, Quiet, SameEpochs
<1>6. t.send_pq >= s.send_pq /\ t.recv_pq >= s.recv_pq  BY RoundFields
<1> QED  BY <1>3, <1>4, <1>5, <1>6 DEF RoundStep, InRound

\* What the responder of a round does, whatever its kind.
Answers(s, t, r) ==
    /\ SameEpochs(s, t) /\ t.recv_pq = s.recv_pq
    /\ t.owed_bind = s.owed_bind /\ t.pq_turn_mine = s.pq_turn_mine
    /\ t.last_cross_injected_pq <= s.recv_pq
    /\ t.last_send_pq_exported = s.last_send_pq_exported
    /\ t.pq_wedged = s.pq_wedged /\ t.bind_apply_broken = s.bind_apply_broken
    /\ t.bootstrap_kp = s.bootstrap_kp
    /\ \/ /\ Kind(r) = "Initiating" /\ Kind(t) = "Responding"
          /\ t.pq_inflight.ct.eph = r.pq_inflight.eph
          /\ t.send_pq = s.send_pq
       \/ /\ \/ Kind(r) = "BootstrapInitiated" /\ Kind(t) = "BootstrapResponded"
             \/ Kind(r) = "RekeyInitiated" /\ Kind(t) = "RekeyResponded"
          /\ t.send_pq = s.send_pq + 1
    /\ Slot(t)

\* The peer answers: with a ciphertext, or with the welcome or the commit that
\* moves its own PQ half.
LEMMA AnswerStep ==
    ASSUME NEW s \in SessionInner, NEW t \in SessionInner, NEW r \in SessionInner,
           NEW n \in Nat, NEW m \in Nat, n <= m, InRound(s, r, n), Round(r, s), Opened(r, s),
           Answers(s, t, r)
    PROVE  RoundStep(s, t, r, n, m)
<1> USE DEF Answers
<1>1. /\ ~s.pq_turn_mine /\ s.owed_bind = NoBind /\ r.pq_turn_mine /\ r.owed_bind = NoBind
      /\ ~Outstanding(s, r) /\ ~Outstanding(r, s)
      /\ Kind(s) = "none" /\ Level(r, s)
  BY DEF Round, Closing, Opened
<1>2. ~Outstanding(r, t) /\ ~Outstanding(t, r)
  BY <1>1 DEF Outstanding, SameEpochs
<1>3. Answered(r, t)
  BY <1>1, RoundFields DEF Answered, Level
<1>4. Round(r, t)
  BY <1>1, <1>2, <1>3 DEF Round
<1>5. Health(t, m) /\ Health(r, m)
  BY <1>1, RoundFields DEF InRound, Health, ReExports, Kind
<1>6. ASSUME NEW leg \in Leg
      PROVE  /\ LegFits(s, r, leg, n) => LegFits(t, r, leg, m)
             /\ LegFits(r, s, leg, n) => LegFits(r, t, leg, m)
  BY <1>1, <1>2, LegNumbers, RoundFields DEF LegFits, SameEpochs
<1>7. t.send_pq >= s.send_pq /\ t.recv_pq >= s.recv_pq  BY RoundFields
<1> QED  BY <1>4, <1>5, <1>6, <1>7 DEF RoundStep, InRound

\* What the owner does when it lands the PQ commit of an answered round: the bind
\* it owes injects the secret the peer holds.
Lands(s, t, r) ==
    /\ SameEpochs(s, t) /\ t.send_pq = s.send_pq + 1
    /\ t.recv_pq = r.send_pq /\ t.pq_inflight = Idle
    /\ t.owed_bind = [t_epoch |-> s.send_cl + 1, pq_epoch |-> s.send_pq + 1,
                      secret |-> HeldSecret(r)]
    /\ t.pq_turn_mine = s.pq_turn_mine /\ t.pending_side_band = NoLeg
    /\ t.last_cross_injected_pq <= t.recv_pq
    /\ t.last_send_pq_exported <= s.send_pq
    /\ t.pq_wedged = s.pq_wedged /\ t.bind_apply_broken = s.bind_apply_broken
    /\ t.bootstrap_kp = s.bootstrap_kp

\* Landing it keeps the two sessions in the round together.
LEMMA LandStep ==
    ASSUME NEW s \in SessionInner, NEW t \in SessionInner, NEW r \in SessionInner,
           NEW n \in Nat, InRound(s, r, n), Round(s, r), Answered(s, r), Lands(s, t, r)
    PROVE  RoundStep(s, t, r, n, n)
<1> USE DEF Lands
<1>1. /\ t.owed_bind.t_epoch = s.send_cl + 1 /\ t.owed_bind.pq_epoch = s.send_pq + 1
      /\ t.owed_bind.secret = HeldSecret(r) /\ t.owed_bind # NoBind
  BY RoundFields DEF NoBind
<1>2. /\ s.pq_turn_mine /\ ~r.pq_turn_mine /\ r.owed_bind = NoBind
      /\ ~Outstanding(s, r) /\ ~Outstanding(r, s)
  BY DEF Round, Closing, Answered
<1>3. ~Outstanding(r, t) /\ ~Outstanding(t, r)
  BY <1>2 DEF Outstanding, SameEpochs
<1>4. Kind(t) = "none"  BY InflightKinds DEF Kind
<1>5. t.recv_pq > 0 /\ t.recv_pq >= s.recv_pq
  BY RoundFields DEF Answered, InRound, Health
<1>6. Closing(t, r, t.owed_bind)
  BY <1>1, <1>4, <1>5, RoundFields DEF Closing, Answered, AwaitsBind, Kind
<1>7. Round(t, r)
  BY <1>1, <1>2, <1>3, <1>6 DEF Round, SameEpochs
<1>8. Health(t, n) /\ Health(r, n)
  BY <1>4, RoundFields DEF InRound, Health, ReExports, Kind, Answered
<1>9. Slot(t) /\ Slot(r)  BY DEF InRound, Slot, NoLeg
<1>10. ASSUME NEW leg \in Leg
      PROVE  /\ LegFits(s, r, leg, n) => LegFits(t, r, leg, n)
             /\ LegFits(r, s, leg, n) => LegFits(r, t, leg, n)
  BY <1>1, <1>2, <1>3, <1>4, <1>5, LegNumbers, RoundFields DEF LegFits, SameEpochs, Answered
<1>11. t.send_pq >= s.send_pq /\ t.recv_pq >= s.recv_pq  BY <1>5, RoundFields
<1> QED  BY <1>7, <1>8, <1>9, <1>10, <1>11 DEF RoundStep, InRound

\* An export is stamped and nothing else: a refused update, a commit that does not
\* apply.
LEMMA StampStep ==
    ASSUME NEW s \in SessionInner, NEW t \in SessionInner, NEW r \in SessionInner,
           NEW n \in Nat, InRound(s, r, n),
           ~ReExports(s), SameEpochs(s, t), t.send_pq = s.send_pq, t.recv_pq = s.recv_pq,
           t.pq_inflight = s.pq_inflight, t.pending_side_band = s.pending_side_band,
           t.owed_bind = s.owed_bind, t.pq_turn_mine = s.pq_turn_mine,
           t.last_cross_injected_pq \in {s.last_cross_injected_pq, s.recv_pq},
           t.last_send_pq_exported \in {s.last_send_pq_exported, s.send_pq},
           t.pq_wedged = s.pq_wedged, t.bind_apply_broken = s.bind_apply_broken,
           t.bootstrap_kp = s.bootstrap_kp
    PROVE  RoundStep(s, t, r, n, n)
<1> USE DEF SameEpochs
<1>1. Round(t, r) \/ Round(r, t)
  BY DEF InRound, Round, Outstanding, Quiet, Opened, Answered, Closing, Level, Kind,
         AwaitsBind, HeldSecret
<1>2. Health(t, n) /\ Health(r, n)
  BY RoundFields DEF InRound, Health, Kind, ReExports
<1>3. Slot(t) /\ Slot(r)  BY DEF InRound, Slot, Kind
<1>4. ASSUME NEW leg \in Leg
      PROVE  /\ LegFits(s, r, leg, n) => LegFits(t, r, leg, n)
             /\ LegFits(r, s, leg, n) => LegFits(r, t, leg, n)
  BY LegNumbers DEF LegFits, Kind, Outstanding
<1>5. t.send_pq >= s.send_pq /\ t.recv_pq >= s.recv_pq  BY RoundFields
<1> QED  BY <1>1, <1>2, <1>3, <1>4, <1>5 DEF RoundStep, InRound

\* The parked frame fits its round when it is handed out.
LEMMA ParkedFits ==
    ASSUME NEW s \in SessionInner, NEW r \in SessionInner, NEW n \in Nat, InRound(s, r, n),
           s.pending_side_band \in Leg
    PROVE  LegFits(s, r, s.pending_side_band, n)
<1> DEFINE leg == s.pending_side_band
<1>1. leg \in Leg  OBVIOUS
<1>2. /\ leg.kind = "rekey_upd" => leg.epoch \in Nat
      /\ leg.kind = "rekey_commit" => leg.epoch \in Nat
  BY <1>1, LegNumbers
<1>3. leg.kind = "ek" => LegFits(s, r, leg, n)
  BY DEF InRound, Slot, Health, LegFits, Round, Closing
<1>4. leg.kind = "ct" => LegFits(s, r, leg, n)
  BY DEF InRound, Slot, Health, LegFits
<1>5. leg.kind = "rekey_upd" => LegFits(s, r, leg, n)
  BY <1>2, RoundFields
  DEF InRound, Slot, LegFits, Round, Quiet, Opened, Answered, Closing, Level, AwaitsBind, Kind
<1>6. leg.kind = "rekey_commit" => LegFits(s, r, leg, n)
  BY <1>2, RoundFields
  DEF InRound, Slot, LegFits, Round, Quiet, Opened, Answered, Closing, Level, AwaitsBind, Kind
<1> QED  BY <1>3, <1>4, <1>5, <1>6 DEF InRound, Slot, LegFits

----------------------------------------------------------------------------
(* The handlers are such steps.                                            *)

\* Re-minting the parked leg leaves the round, and parks a leg of it.
LEMMA RewrapRound ==
    ASSUME NEW s \in SessionInner
    PROVE  LET t == RewrapSideBand(s)
           IN  SameRound(s, t) /\ SameEpochs(s, t) /\ (Slot(s) => Slot(t))
<1> DEFINE t == RewrapSideBand(s)
<1>1. SameRound(s, t) /\ SameEpochs(s, t)
  BY DEF RewrapSideBand, SameRound, SamePq, SameEpochs, SessionInner
<1>2. \/ t = s
      \/ /\ s.pq_inflight.kind = "Initiating"
         /\ t.pending_side_band = EkLeg(s.send_cl, s.pq_inflight.eph)
      \/ /\ s.pq_inflight.kind = "Responding"
         /\ t.pending_side_band = CtLeg(s.send_cl, s.pq_inflight.ct)
  BY DEF RewrapSideBand, SessionInner
<1>3. s.send_cl <= s.send_cl  BY RoundFields
<1> HIDE DEF t
<1>4. Slot(s) => Slot(t)
  BY <1>1, <1>2, <1>3 DEF Slot, Kind, EkLeg, CtLeg, SameRound, SamePq, SameEpochs
<1> QED  BY <1>1, <1>4 DEF t

\* The step leaves the round, the epochs and the parked leg as they were.
Untouched(s, t) ==
    SameRound(s, t) /\ SameEpochs(s, t) /\ t.pending_side_band = s.pending_side_band

\* Then the parked leg still belongs to the round.
LEMMA UntouchedSlot ==
    ASSUME NEW s, NEW t, Untouched(s, t)
    PROVE  Slot(s) => Slot(t)
  BY DEF Untouched, Slot, Kind, SameRound, SamePq, SameEpochs

\* Staging the Upd leaves the round.
LEMMA StageProposalRound ==
    ASSUME NEW s \in SessionInner, NEW selected \in Nat
    PROVE  LET t == StageProposal(s, selected)
           IN  t \in SessionInner /\ SameRound(s, t) /\ SameEpochs(s, t) /\ (Slot(s) => Slot(t))
<1> DEFINE id == Admitted(s, selected)
           s1 == IF selected = 0 /\ id # 0 THEN [s EXCEPT !.deferred_candidate = 0] ELSE s
           s2 == IF id # 0 THEN AdmitCandidate(s1, id) ELSE s1
           offer == [epoch |-> s.recv_cl, id |-> IF id # 0 THEN id ELSE s.client]
           staged == [s2 EXCEPT !.pending_proposal_hash = TRUE,
                                !.pending_proposal_message = offer]
<1>1. id \in Nat  BY SessionFields DEF Admitted
<1> HIDE DEF id
<1>2. s1 \in SessionInner /\ Untouched(s, s1)
  BY DEF SessionInner, Untouched, SameRound, SamePq, SameEpochs
<1> HIDE DEF s1
<1>3. s2 \in SessionInner /\ Untouched(s, s2)
  <2>1. s1.staged_candidates \cup {id} \in SUBSET Nat  BY <1>1, <1>2, SessionFields
  <2>2. \A c \in SUBSET Nat : LET u == [s1 EXCEPT !.staged_candidates = c]
                              IN  u \in SessionInner /\ Untouched(s1, u)
    BY <1>2 DEF SessionInner, Untouched, SameRound, SamePq, SameEpochs
  <2>3. LET u == [s1 EXCEPT !.deferred_candidate = id] IN u \in SessionInner /\ Untouched(s1, u)
    BY <1>1, <1>2 DEF SessionInner, Untouched, SameRound, SamePq, SameEpochs
  <2>4. LET u == [s1 EXCEPT !.staged_candidates = @ \cup {id}]
        IN  u \in SessionInner /\ Untouched(s1, u)
    BY <2>1, <2>2
  <2>5. LET u == AdmitCandidate(s1, id) IN u \in SessionInner /\ Untouched(s1, u)
    BY <1>2, <2>3, <2>4 DEF AdmitCandidate, Untouched, SameRound, SamePq, SameEpochs
  <2> QED  BY <1>2, <2>5 DEF Untouched, SameRound, SamePq, SameEpochs
<1> HIDE DEF s2
<1>4. offer \in Offer  BY <1>1, SessionFields DEF Offer
<1> HIDE DEF offer
<1>5. staged \in SessionInner /\ Untouched(s2, staged)
  BY <1>3, <1>4 DEF SessionInner, Untouched, SameRound, SamePq, SameEpochs
<1> HIDE DEF staged
<1>6. LET t == RewrapSideBand(staged)
      IN  /\ t \in SessionInner
          /\ SameRound(staged, t) /\ SameEpochs(staged, t) /\ (Slot(staged) => Slot(t))
  BY <1>5, RewrapRound, RewrapType
<1>7. StageProposal(s, selected) \in {s2, RewrapSideBand(staged)}
  BY DEF StageProposal, staged, offer, s2, s1, id
<1>8. Slot(s) => Slot(s2) /\ Slot(staged)  BY <1>3, <1>5, UntouchedSlot
<1> QED
  BY <1>3, <1>5, <1>6, <1>7, <1>8 DEF Untouched, SameRound, SamePq, SameEpochs

\* prepare_to_encrypt keeps the round: a fold leaves it, a discharge hands the
\* turn to the staple, and the reservation always holds.
LEMMA PrepareRound ==
    ASSUME NEW s \in SessionInner, NEW r \in SessionInner, NEW n \in Nat, NEW selected \in Nat,
           InRound(s, r, n), DidCommit(s) => r.recv_cl = s.send_cl
    PROVE  /\ RoundStep(s, PrepareRatchetCommit(s, selected), r, n, n)
           /\ RoundStep(s, PreparePreEstablishment(s), r, n, n)
<1>1. Slot(s) /\ n <= n  BY DEF InRound
<1>2. RoundStep(s, PreparePreEstablishment(s), r, n, n)
  <2> DEFINE u == [s EXCEPT !.pending_proposal_hash = TRUE, !.pending_proposal_message = NoOffer]
  <2>1. u \in SessionInner /\ Untouched(s, u)
    BY AbsentTypes DEF SessionInner, Untouched, SameRound, SamePq, SameEpochs
  <2> HIDE DEF u
  <2>2. Slot(u)  BY <1>1, <2>1, UntouchedSlot
  <2>3. RewrapSideBand(u) \in SessionInner  BY <2>1, RewrapType
  <2>4. LET t == RewrapSideBand(u) IN SameRound(u, t) /\ SameEpochs(u, t) /\ Slot(t)
    BY <2>1, <2>2, RewrapRound
  <2>5. LET t == RewrapSideBand(u) IN SameRound(s, t) /\ SameEpochs(s, t) /\ Slot(t)
    BY <2>1, <2>4 DEF Untouched, SameRound, SamePq, SameEpochs
  <2> QED  BY <1>1, <2>3, <2>5, StillStep DEF PreparePreEstablishment, u
<1>3. CASE ~DidCommit(s)
  <2>1. RoundStep(s, StageProposal(s, selected), r, n, n)
    BY <1>1, StageProposalRound, StillStep
  <2> QED  BY <1>2, <1>3, <2>1 DEF PrepareRatchetCommit
<1>4. CASE DidCommit(s)
  <2> DEFINE d == DischargeAndCommit(s)
  <2>1. ReservationHolds(s)
    BY RoundFields DEF InRound, Round, Closing, ReservationHolds
  <2>2. d \in SessionInner  BY DischargeType
  <2>3. /\ d.send_cl = s.send_cl + 1 /\ d.recv_cl = s.recv_cl
        /\ d.current_staple.kind = IF s.owed_bind = NoBind THEN "commit" ELSE "bind"
        /\ d.current_staple.bind = s.owed_bind
        /\ d.owed_bind = NoBind
        /\ d.pq_turn_mine = (s.pq_turn_mine /\ s.owed_bind = NoBind)
        /\ d.pending_side_band = s.pending_side_band
        /\ SamePq(s, d)
    BY DEF DischargeAndCommit, CommitStaple, TurnAfterCommit, SamePq, SessionInner
  <2> HIDE DEF d
  <2>4. Slot(d)
    BY <1>1, <2>3, RoundFields, LegNumbers, SessionFields DEF Slot, Kind, SamePq, NoLeg
  <2>5. RoundStep(s, d, r, n, n)
    <3>1. CASE s.owed_bind = NoBind
      <4>1. SameRound(s, d)  BY <2>3, <3>1, RoundFields DEF SameRound
      <4> QED  BY <1>4, <2>2, <2>3, <2>4, <3>1, <4>1, FoldStep
    <3>2. CASE s.owed_bind # NoBind
      BY <1>4, <2>2, <2>3, <2>4, <3>2, DischargeStep
    <3> QED  BY <3>1, <3>2
  <2>6. RoundStep(d, StageProposal(d, selected), r, n, n)
    BY <1>1, <2>2, <2>4, <2>5, StageProposalRound, StillStep DEF RoundStep
  <2>7. RoundStep(s, StageProposal(d, selected), r, n, n)
    BY <2>2, <2>5, <2>6, StageProposalType, RoundStepTransitive
  <2> QED  BY <1>2, <1>4, <2>1, <2>7 DEF PrepareRatchetCommit, d
<1> QED  BY <1>2, <1>3, <1>4

\* encrypt keeps the round, and may open the next one.
LEMMA EncryptRound ==
    ASSUME NEW s \in SessionInner, NEW r \in SessionInner, fresh \in Nat, InRound(s, r, fresh)
    PROVE  LET t == AfterEncrypt(s)
               m == IF t.pq_inflight = Initiating(fresh) THEN fresh + 1 ELSE fresh
           IN  RoundStep(s, t, r, fresh, m)
<1> DEFINE u == [s EXCEPT !.pending_proposal_hash = FALSE, !.pending_proposal_message = NoOffer]
           v == RewrapSideBand(u)
           t == MaybeStageNextRound(v)
<1>1. u \in SessionInner /\ Untouched(s, u)
  BY AbsentTypes DEF SessionInner, Untouched, SameRound, SamePq, SameEpochs
<1> HIDE DEF u
<1>2. Slot(u)  BY <1>1, UntouchedSlot DEF InRound
<1>3. v \in SessionInner /\ SameRound(u, v) /\ SameEpochs(u, v) /\ Slot(v)
  BY <1>1, <1>2, RewrapRound, RewrapType
<1> HIDE DEF v
<1>4. SameRound(s, v) /\ SameEpochs(s, v)
  BY <1>1, <1>3 DEF Untouched, SameRound, SamePq, SameEpochs
<1>5. RoundStep(s, v, r, fresh, fresh)  BY <1>3, <1>4, StillStep
<1>6. InRound(v, r, fresh) /\ Health(v, fresh)  BY <1>5 DEF RoundStep, InRound
<1>7. t = AfterEncrypt(s)  BY DEF AfterEncrypt, t, v, u
<1>8. CASE ~CanStage(v)
  <2>1. t = v  BY <1>8 DEF MaybeStageNextRound
  <2>2. v.pq_inflight # Initiating(fresh)
    BY <1>3, <1>6, RoundFields, InflightKinds DEF Health, Kind
  <2> QED  BY <1>5, <1>7, <2>1, <2>2
<1>9. CASE CanStage(v)
  <2>1. /\ Kind(v) = "none" /\ v.owed_bind = NoBind /\ v.pq_turn_mine /\ v.recv_pq > 0
        /\ ~v.bootstrap_kp
    BY <1>3, <1>6, <1>9, InflightKinds, RoundFields DEF CanStage, PqHalvesLive, Kind, Health
  <2>2. CASE SendPqLeafLags(v)
    <3>1. t = StageRekey(v)  BY <1>9, <2>2 DEF MaybeStageNextRound
    <3>2. /\ t.pq_inflight = RekeyInitiated /\ t.pending_side_band = UpdLeg(v.recv_pq, v.client)
          /\ SameEpochs(v, t) /\ t.send_pq = v.send_pq /\ t.recv_pq = v.recv_pq
          /\ t.owed_bind = v.owed_bind /\ t.pq_turn_mine = v.pq_turn_mine
          /\ t.last_cross_injected_pq = v.last_cross_injected_pq
          /\ t.last_send_pq_exported = v.last_send_pq_exported
          /\ t.pq_wedged = v.pq_wedged /\ t.bind_apply_broken = v.bind_apply_broken
          /\ t.bootstrap_kp = v.bootstrap_kp
      BY <1>3, <3>1 DEF StageRekey, SameEpochs, SessionInner
    <3>3. t \in SessionInner  BY <1>7, AfterEncryptType
    <3>4. Kind(t) = "RekeyInitiated" /\ t.pq_inflight # Initiating(fresh)
      BY <3>2, InflightKinds DEF Kind
    <3> HIDE DEF t
    <3>5. Slot(t)  BY <3>2, <3>4 DEF Slot, UpdLeg
    <3>6. OpensRound(v, t, fresh, fresh)  BY <2>1, <3>2, <3>4, <3>5 DEF OpensRound
    <3>7. RoundStep(v, t, r, fresh, fresh)
      BY <1>3, <1>6, <3>3, <3>6, OpenStep
    <3> QED  BY <1>3, <1>5, <1>7, <3>3, <3>4, <3>7, RoundStepTransitive
  <2>3. CASE ~SendPqLeafLags(v)
    <3>1. t = StageRatchet(v)  BY <1>9, <2>3 DEF MaybeStageNextRound
    <3>2. /\ t.pq_inflight = Initiating(fresh) /\ t.pending_side_band = EkLeg(v.send_cl, fresh)
          /\ SameEpochs(v, t) /\ t.send_pq = v.send_pq /\ t.recv_pq = v.recv_pq
          /\ t.owed_bind = v.owed_bind /\ t.pq_turn_mine = v.pq_turn_mine
          /\ t.last_cross_injected_pq = v.last_cross_injected_pq
          /\ t.last_send_pq_exported = v.last_send_pq_exported
          /\ t.pq_wedged = v.pq_wedged /\ t.bind_apply_broken = v.bind_apply_broken
          /\ t.bootstrap_kp = v.bootstrap_kp
      BY <1>3, <3>1 DEF StageRatchet, SameEpochs, SessionInner
    <3>3. t \in SessionInner  BY <1>7, AfterEncryptType
    <3>4. Kind(t) = "Initiating" /\ t.pq_inflight.eph = fresh
      BY <3>2, InflightKinds DEF Kind
    <3> HIDE DEF t
    <3>5. Slot(t)  BY <1>3, <3>2, <3>4, RoundFields DEF Slot, EkLeg, SameEpochs
    <3>6. OpensRound(v, t, fresh, fresh + 1)  BY <2>1, <3>2, <3>4, <3>5 DEF OpensRound
    <3>7. RoundStep(v, t, r, fresh, fresh + 1)
      BY <1>3, <1>6, <3>3, <3>6, OpenStep
    <3> QED  BY <1>3, <1>5, <1>7, <3>2, <3>3, <3>7, RoundStepTransitive
  <2> QED  BY <2>2, <2>3
<1> QED  BY <1>8, <1>9

\* The identity bookkeeping and the record of an offer leave the round.
LEMMA ReaderUntouched ==
    ASSUME NEW s \in SessionInner, NEW staple \in Staple, NEW offer \in Offer
    PROVE  /\ Untouched(s, LeafChanges(s, staple))
           /\ Untouched(s, RecordOffer(s, offer)) /\ RecordOffer(s, offer) \in SessionInner
<1>1. Untouched(s, LeafChanges(s, staple))
  BY DEF LeafChanges, Untouched, SameRound, SamePq, SameEpochs, SessionInner
<1>2. Untouched(s, RecordOffer(s, offer))
  BY DEF RecordOffer, Untouched, SameRound, SamePq, SameEpochs, SessionInner
<1>3. RecordOffer(s, offer) \in SessionInner  BY DEF RecordOffer, SessionInner
<1> QED  BY <1>1, <1>2, <1>3

\* A bind that is due meets the responder that waits for it.
LEMMA BindIsMet ==
    ASSUME NEW s \in SessionInner, NEW r \in SessionInner, NEW n \in Nat, InRound(s, r, n),
           r.current_staple.kind = "bind", r.send_cl = s.recv_cl + 1,
           SendPskResolves(s, r.current_staple.cross)
    PROVE  /\ Outstanding(r, s)
           /\ AwaitsBind(s)
           /\ ReExports(s) => ~SendPqLeafSpent(s)
           /\ BindOpens(s, r.current_staple)
<1>1. Outstanding(r, s)  BY RoundFields DEF Outstanding
<1>2. /\ Closing(r, s, r.current_staple.bind) /\ r.current_staple.bind.t_epoch = r.send_cl
  BY <1>1 DEF InRound, Round
<1>3. AwaitsBind(s) /\ BindOpens(s, r.current_staple)
  BY <1>2 DEF Closing, BindOpens, PairApplies, PqCommitOpens
<1>4. ReExports(s) => ~SendPqLeafSpent(s)
  BY RoundFields DEF InRound, Health, SendPqLeafSpent
<1> QED  BY <1>1, <1>3, <1>4

\* A frame of the peer keeps the round; the one staple that is due is the peer's
\* current one, and its PSK resolves.
LEMMA ProcessRound ==
    ASSUME NEW s \in SessionInner, NEW r \in SessionInner, NEW n \in Nat, NEW f \in Frame,
           InRound(s, r, n), StapleAdmitted(s, f.staple),
           f.staple.kind = "welcome" /\ s.recv_cl = 0 => r.current_staple.kind # "bind",
           f.staple.epoch = s.recv_cl =>
               /\ f.staple = r.current_staple /\ r.send_cl = s.recv_cl + 1
               /\ SendPskResolves(s, f.staple.cross)
    PROVE  RoundStep(s, ProcessFrame(s, f), r, n, n)
<1> DEFINE s1 == ProcessStaple(s, f.staple)
<1>1. f.staple \in Staple /\ f.offer \in Offer  BY DEF Frame
<1>2. s1 \in SessionInner  BY <1>1, ProcessStapleType
<1>3. Slot(s) /\ n <= n  BY DEF InRound
<1>4. RoundStep(s, s1, r, n, n)
  <2>1. CASE s1 = s
    BY <2>1, <1>3, StillStep DEF SameRound, SamePq, SameEpochs
  <2>2. CASE f.staple.kind = "welcome" /\ s1 # s
    <3>1. /\ s.recv_cl = 0 /\ s1 = [s EXCEPT !.recv_cl = 1]
      BY <2>2, RoundFields DEF ProcessStaple, ProcessWelcome, Joined
    <3>2. /\ s1.recv_cl = s.recv_cl + 1 /\ s1.send_cl = s.send_cl
          /\ s1.current_staple = s.current_staple /\ SameRound(s, s1)
          /\ s1.pending_side_band = s.pending_side_band
      BY <3>1 DEF SessionInner, SameRound, SamePq
    <3>3. Slot(s1)  BY <1>3, <3>2 DEF Slot, Kind, SameRound, SamePq
    <3> QED  BY <1>2, <2>2, <3>1, <3>2, <3>3, ApplyCommitStep
  <2>3. CASE f.staple.kind # "welcome" /\ s1 # s
    <3>1. f.staple.epoch = s.recv_cl /\ StapleEpochAction(s, f.staple) # "skip"
      BY <1>1, <2>3, RoundFields DEF ProcessStaple, StapleAdmitted, StapleEpochAction, Staple
    <3>2. CASE f.staple.kind = "commit"
      <4> DEFINE u == [s EXCEPT !.recv_cl = @ + 1]
      <4>1. s1 = LeafChanges(u, f.staple)  BY <3>1, <3>2 DEF ProcessStaple, ApplyCommit
      <4>2. u \in SessionInner  BY DEF SessionInner
      <4>3. /\ u.recv_cl = s.recv_cl + 1 /\ u.send_cl = s.send_cl
            /\ u.current_staple = s.current_staple /\ SameRound(s, u)
            /\ u.pending_side_band = s.pending_side_band
        BY DEF SessionInner, SameRound, SamePq
      <4> HIDE DEF u
      <4>4. Untouched(u, s1)  BY <1>1, <4>1, <4>2, ReaderUntouched
      <4>5. /\ s1.recv_cl = s.recv_cl + 1 /\ s1.send_cl = s.send_cl
            /\ s1.current_staple = s.current_staple /\ SameRound(s, s1)
            /\ s1.pending_side_band = s.pending_side_band
        BY <4>3, <4>4 DEF Untouched, SameRound, SamePq, SameEpochs
      <4>6. Slot(s1)  BY <1>3, <4>5 DEF Slot, Kind, SameRound, SamePq
      <4> QED  BY <1>2, <3>1, <3>2, <4>5, <4>6, ApplyCommitStep
    <3>3. CASE f.staple.kind = "bind"
      <4>1. /\ Outstanding(r, s) /\ BindOpens(s, f.staple) /\ s.recv_cl + 1 = r.send_cl
            /\ PairApplies(s, f.staple) /\ PqCommitOpens(s, f.staple)
        BY <3>1, <3>3, BindIsMet DEF BindOpens, PairApplies
      <4> DEFINE ex == IF ReExports(s) THEN s.send_pq ELSE s.last_send_pq_exported
                 v == [s EXCEPT !.pq_inflight = Idle, !.last_send_pq_exported = ex,
                                !.recv_pq = @ + 1, !.recv_cl = @ + 1]
                 u == [v EXCEPT !.pq_turn_mine = TRUE, !.pending_side_band = NoLeg]
      <4>2. s1 = LeafChanges(u, f.staple)
        BY <3>1, <3>3, <4>1 DEF ProcessStaple, ApplyBind, SessionInner
      <4>3. ex \in Nat /\ s.recv_pq + 1 \in Nat /\ s.recv_cl + 1 \in Nat  BY RoundFields
      <4>4. u \in SessionInner
        <5> HIDE DEF ex
        <5>1. v \in SessionInner  BY <4>3, InflightTypes DEF SessionInner
        <5> HIDE DEF v
        <5> QED  BY <5>1 DEF SessionInner
      <4>5. /\ u.send_cl = s.send_cl /\ u.recv_cl = s.recv_cl + 1
            /\ u.current_staple = s.current_staple
            /\ u.send_pq = s.send_pq /\ u.recv_pq = s.recv_pq + 1 /\ u.pq_inflight = Idle
            /\ u.owed_bind = s.owed_bind /\ u.pq_turn_mine /\ u.pending_side_band = NoLeg
            /\ u.last_cross_injected_pq = s.last_cross_injected_pq
            /\ u.last_send_pq_exported = ex
            /\ u.bootstrap_kp = s.bootstrap_kp
            /\ u.pq_wedged = s.pq_wedged /\ u.bind_apply_broken = s.bind_apply_broken
        BY DEF SessionInner
      <4> HIDE DEF u
      <4>6. Untouched(u, s1)  BY <1>1, <4>2, <4>4, ReaderUntouched
      <4>7. RoundStep(s, s1, r, n, n)
        <5>1. /\ s1.send_cl = s.send_cl /\ s1.recv_cl = s.recv_cl + 1
              /\ s1.current_staple = s.current_staple
              /\ s1.send_pq = s.send_pq /\ s1.recv_pq = s.recv_pq + 1 /\ s1.pq_inflight = Idle
              /\ s1.owed_bind = s.owed_bind /\ s1.pq_turn_mine /\ s1.pending_side_band = NoLeg
              /\ s1.last_cross_injected_pq = s.last_cross_injected_pq
              /\ s1.last_send_pq_exported = ex
              /\ s1.bootstrap_kp = s.bootstrap_kp
              /\ s1.pq_wedged = s.pq_wedged /\ s1.bind_apply_broken = s.bind_apply_broken
          BY <4>5, <4>6 DEF Untouched, SameRound, SamePq, SameEpochs
        <5> HIDE DEF s1
        <5> QED  BY <1>2, <4>1, <5>1, ApplyBindStep
      <4> QED  BY <4>7
    <3>4. f.staple.kind \in {"commit", "bind"}  BY <1>1, <2>3 DEF Staple
    <3> QED  BY <3>2, <3>3, <3>4
  <2> QED  BY <2>1, <2>2, <2>3
<1> HIDE DEF s1
<1>5. InRound(s1, r, n) /\ Slot(s1)  BY <1>4 DEF RoundStep, InRound
<1>6. LET u == RecordOffer(s1, f.offer) IN u \in SessionInner /\ Untouched(s1, u)
  BY <1>1, <1>2, ReaderUntouched
<1>7. RoundStep(s1, RecordOffer(s1, f.offer), r, n, n)
  BY <1>2, <1>3, <1>5, <1>6, UntouchedSlot, StillStep DEF Untouched
<1>8. RoundStep(s, RecordOffer(s1, f.offer), r, n, n)  BY <1>2, <1>4, <1>6, <1>7, RoundStepTransitive
<1> QED  BY <1>4, <1>8 DEF ProcessFrame, s1

\* Opening the bootstrap: an unused key package means the turn is there and no
\* round is open.
LEMMA RegisterRound ==
    ASSUME NEW s \in SessionInner, NEW r \in SessionInner, NEW n \in Nat, InRound(s, r, n),
           s.bootstrap_kp
    PROVE  LET t == RegisterBootstrapRound(s)
           IN  RoundStep(s, t, r, n, n) /\ LegFits(t, r, KpLeg, n)
<1> DEFINE t == RegisterBootstrapRound(s)
<1>1. Kind(s) = "none" /\ s.recv_pq = 0 /\ s.pq_turn_mine  BY DEF InRound, Health
<1>2. s.owed_bind = NoBind  BY <1>1 DEF InRound, Round, Closing
<1>3. t \in SessionInner  BY SideBandTypes
<1>4. /\ t.pq_inflight = BootstrapInitiated /\ t.pending_side_band = KpLeg
      /\ SameEpochs(s, t) /\ t.send_pq = s.send_pq /\ t.recv_pq = s.recv_pq
      /\ t.owed_bind = s.owed_bind /\ t.pq_turn_mine = s.pq_turn_mine
      /\ t.last_cross_injected_pq = s.last_cross_injected_pq
      /\ t.last_send_pq_exported = s.last_send_pq_exported
      /\ t.pq_wedged = s.pq_wedged /\ t.bind_apply_broken = s.bind_apply_broken
      /\ ~t.bootstrap_kp
  BY DEF RegisterBootstrapRound, SameEpochs, SessionInner
<1> HIDE DEF t
<1>5. Kind(t) = "BootstrapInitiated"  BY <1>4, InflightKinds DEF Kind
<1>6. Slot(t)  BY <1>4, <1>5 DEF Slot, KpLeg
<1>7. OpensRound(s, t, n, n)  BY <1>1, <1>2, <1>4, <1>5, <1>6 DEF OpensRound
<1>8. RoundStep(s, t, r, n, n)  BY <1>3, <1>7, OpenStep
<1>9. LegFits(t, r, KpLeg, n)  BY <1>5 DEF LegFits, KpLeg
<1> QED  BY <1>8, <1>9 DEF t

\* The acceptor answers a key package only while its initiator waits for that.
LEMMA RespondBootstrapRound ==
    ASSUME NEW s \in SessionInner, NEW r \in SessionInner, NEW n \in Nat, InRound(s, r, n),
           LegFits(r, s, KpLeg, n), CanRespondBootstrap(s), RespondBootstrap(s) \in SessionInner
    PROVE  RoundStep(s, RespondBootstrap(s), r, n, n)
<1> DEFINE t == RespondBootstrap(s)
<1>1. s.send_pq = 0 /\ Kind(r) = "BootstrapInitiated"
  BY DEF CanRespondBootstrap, LegFits, KpLeg
<1>2. Round(r, s) /\ Opened(r, s)
  BY <1>1, RoundFields DEF InRound, Round, Quiet, Opened, Answered, Closing, AwaitsBind, Kind
<1>3. /\ t.pq_inflight = BootstrapResponded /\ t.pending_side_band = KpWelcomeLeg(s.client)
      /\ SameEpochs(s, t) /\ t.send_pq = 1 /\ t.recv_pq = s.recv_pq
      /\ t.owed_bind = s.owed_bind /\ t.pq_turn_mine = s.pq_turn_mine
      /\ t.last_cross_injected_pq = s.last_cross_injected_pq
      /\ t.last_send_pq_exported = s.last_send_pq_exported
      /\ t.pq_wedged = s.pq_wedged /\ t.bind_apply_broken = s.bind_apply_broken
      /\ t.bootstrap_kp = s.bootstrap_kp
  BY DEF RespondBootstrap, SameEpochs, SessionInner
<1> HIDE DEF t
<1>4. Kind(t) = "BootstrapResponded"  BY <1>3, InflightKinds DEF Kind
<1>5. Slot(t)  BY <1>3, <1>4 DEF Slot, KpWelcomeLeg
<1>6. s.last_cross_injected_pq <= s.recv_pq  BY DEF InRound, Health
<1>7. Answers(s, t, r)  BY <1>1, <1>3, <1>4, <1>5, <1>6 DEF Answers
<1> QED  BY <1>2, <1>7, AnswerStep DEF t

\* An ephemeral that decrypts meets the round its initiator still has open.
LEMMA RespondRatchetRound ==
    ASSUME NEW s \in SessionInner, NEW r \in SessionInner, fresh \in Nat, InRound(s, r, fresh),
           NEW leg \in Leg, leg.kind = "ek", LegFits(r, s, leg, fresh), leg.epoch = s.recv_cl,
           CanRespondRatchet(s)
    PROVE  RoundStep(s, RespondRatchet(s, leg), r, fresh, fresh + 1)
<1> DEFINE t == RespondRatchet(s, leg)
           ct == Ciphertext(leg.eph, Random(fresh), s.recv_pq)
<1>1. t \in SessionInner  BY RatchetTypes
<1>2. Kind(s) = "none"  BY InflightKinds DEF CanRespondRatchet, Kind
<1>3. Kind(r) = "Initiating" /\ r.pq_inflight.eph = leg.eph
  BY <1>2, RoundFields DEF LegFits, InRound, Round, Closing, AwaitsBind, Kind
<1>4. Round(r, s) /\ Opened(r, s)
  BY <1>2, <1>3 DEF InRound, Round, Quiet, Opened, Answered, Closing, AwaitsBind, Kind
<1>5. /\ t.pq_inflight = Responding(ct) /\ t.pending_side_band = CtLeg(s.send_cl, ct)
      /\ SameEpochs(s, t) /\ t.send_pq = s.send_pq /\ t.recv_pq = s.recv_pq
      /\ t.owed_bind = s.owed_bind /\ t.pq_turn_mine = s.pq_turn_mine
      /\ t.last_cross_injected_pq = s.last_cross_injected_pq
      /\ t.last_send_pq_exported = s.last_send_pq_exported
      /\ t.pq_wedged = s.pq_wedged /\ t.bind_apply_broken = s.bind_apply_broken
      /\ t.bootstrap_kp = s.bootstrap_kp
  BY DEF RespondRatchet, SameEpochs, SessionInner
<1>6. ct.eph = leg.eph  BY DEF Ciphertext
<1> HIDE DEF t, ct
<1>7. Kind(t) = "Responding" /\ t.pq_inflight.ct = ct  BY <1>5, InflightKinds DEF Kind
<1>8. Slot(t)  BY <1>5, <1>7 DEF Slot, CtLeg
<1>9. s.last_cross_injected_pq <= s.recv_pq  BY DEF InRound, Health
<1>10. Answers(s, t, r)  BY <1>3, <1>5, <1>6, <1>7, <1>8, <1>9 DEF Answers
<1> QED  BY <1>1, <1>4, <1>10, AnswerStep DEF t

\* An A.5 update is accepted only while its initiator waits for the commit; a
\* refused one leaves a stamped export.
LEMMA RespondRekeyRound ==
    ASSUME NEW s \in SessionInner, NEW r \in SessionInner, NEW n \in Nat, InRound(s, r, n),
           NEW leg \in Leg, leg.kind = "rekey_upd", LegFits(r, s, leg, n),
           s.pq_inflight = Idle
    PROVE  RoundStep(s, RespondRekey(s, leg), r, n, n)
<1> DEFINE t == RespondRekey(s, leg)
           leaves == [mine |-> s.client, theirs |-> leg.id]
           cross == IF RecvPqLeafSpent(s) THEN 0 ELSE s.recv_pq
<1>1. t \in SessionInner  BY RekeyTypes
<1>2. Kind(s) = "none"  BY InflightKinds DEF Kind
<1>3. CASE UpdAccepted(s, leg)
  <2>1. Kind(r) = "RekeyInitiated"
    BY <1>3, RoundFields DEF UpdAccepted, LegFits
  <2>2. Round(r, s) /\ Opened(r, s)
    BY <1>2, <2>1 DEF InRound, Round, Quiet, Opened, Answered, Closing, AwaitsBind, Kind
  <2>3. /\ t.pq_inflight = RekeyResponded
        /\ t.pending_side_band = PqCommitLeg(s.send_pq, cross, leaves)
        /\ SameEpochs(s, t) /\ t.send_pq = s.send_pq + 1 /\ t.recv_pq = s.recv_pq
        /\ t.owed_bind = s.owed_bind /\ t.pq_turn_mine = s.pq_turn_mine
        /\ t.last_cross_injected_pq = s.recv_pq
        /\ t.last_send_pq_exported = s.last_send_pq_exported
        /\ t.pq_wedged = s.pq_wedged /\ t.bind_apply_broken = s.bind_apply_broken
        /\ t.bootstrap_kp = s.bootstrap_kp
    BY <1>3 DEF RespondRekey, SameEpochs, SessionInner
  <2> HIDE DEF t, leaves, cross
  <2>4. Kind(t) = "RekeyResponded"  BY <2>3, InflightKinds DEF Kind
  <2>5. Slot(t)  BY <2>3, <2>4, RoundFields DEF Slot, PqCommitLeg
  <2>6. s.recv_pq <= s.recv_pq  BY RoundFields
  <2>7. Answers(s, t, r)  BY <2>1, <2>3, <2>4, <2>5, <2>6 DEF Answers
  <2> QED  BY <1>1, <2>2, <2>7, AnswerStep DEF t
<1>4. CASE ~UpdAccepted(s, leg)
  <2>1. /\ SameEpochs(s, t) /\ t.send_pq = s.send_pq /\ t.recv_pq = s.recv_pq
        /\ t.pq_inflight = s.pq_inflight /\ t.pending_side_band = s.pending_side_band
        /\ t.owed_bind = s.owed_bind /\ t.pq_turn_mine = s.pq_turn_mine
        /\ t.last_cross_injected_pq = s.recv_pq
        /\ t.last_send_pq_exported = s.last_send_pq_exported
        /\ t.pq_wedged = s.pq_wedged /\ t.bind_apply_broken = s.bind_apply_broken
        /\ t.bootstrap_kp = s.bootstrap_kp
    BY <1>4 DEF RespondRekey, SameEpochs, SessionInner
  <2>2. ~ReExports(s)  BY <1>2 DEF ReExports, Kind
  <2> HIDE DEF t
  <2> QED  BY <1>1, <2>1, <2>2, StampStep DEF t
<1> QED  BY <1>3, <1>4

\* A ciphertext that opens is the one the responder holds: the bind injects it.
LEMMA BindRatchetRound ==
    ASSUME NEW s \in SessionInner, NEW r \in SessionInner, fresh \in Nat, InRound(s, r, fresh),
           NEW leg \in Leg, leg.kind = "ct", LegFits(r, s, leg, fresh),
           s.pq_inflight.kind = "Initiating"
    PROVE  RoundStep(s, BindRatchet(s, leg), r, fresh, fresh)
<1> DEFINE t == BindRatchet(s, leg)
<1>1. t \in SessionInner  BY RatchetTypes
<1>2. CASE ~OpenInjectedSecret(s, leg.ct)
  <2>1. Untouched(s, t)
    BY <1>2 DEF BindRatchet, Untouched, SameRound, SamePq, SameEpochs, SessionInner
  <2>2. Slot(t)  BY <2>1, UntouchedSlot DEF InRound
  <2> HIDE DEF t
  <2> QED  BY <1>1, <2>1, <2>2, StillStep DEF Untouched, t
<1>3. CASE OpenInjectedSecret(s, leg.ct)
  <2>1. Kind(s) = "Initiating" /\ Kind(r) = "Responding" /\ r.pq_inflight.ct = leg.ct
    BY <1>3 DEF OpenInjectedSecret, LegFits, Kind
  <2>2. Round(s, r) /\ Answered(s, r) /\ r.send_pq = s.recv_pq
    BY <2>1 DEF InRound, Round, Quiet, Opened, Answered, Closing, AwaitsBind, Kind
  <2>3. HeldSecret(r) = leg.ct.secret  BY <2>1 DEF HeldSecret, Kind
  <2>4. /\ SameEpochs(s, t) /\ t.send_pq = s.send_pq + 1
        /\ t.recv_pq = s.recv_pq /\ t.pq_inflight = Idle
        /\ t.owed_bind = [t_epoch |-> s.send_cl + 1, pq_epoch |-> s.send_pq + 1,
                          secret |-> leg.ct.secret]
        /\ t.pq_turn_mine = s.pq_turn_mine /\ t.pending_side_band = NoLeg
        /\ t.last_cross_injected_pq = s.last_cross_injected_pq
        /\ t.last_send_pq_exported = s.last_send_pq_exported
        /\ t.pq_wedged = s.pq_wedged /\ t.bind_apply_broken = s.bind_apply_broken
        /\ t.bootstrap_kp = s.bootstrap_kp
    BY <1>3 DEF BindRatchet, CommitPqAndOweBind, SameEpochs, SessionInner
  <2> HIDE DEF t
  <2>5. Lands(s, t, r)
    BY <2>2, <2>3, <2>4 DEF Lands, InRound, Health
  <2> QED  BY <1>1, <2>2, <2>5, LandStep DEF t
<1> QED  BY <1>2, <1>3

\* A mirror that has just moved has an unspent leaf: the export behind the point
\* of no return never fails.
LEMMA ExportLands ==
    ASSUME NEW s \in SessionInner, s.last_cross_injected_pq < s.recv_pq
    PROVE  LET t == ExportAndOweBind(s)
           IN  /\ SameEpochs(s, t) /\ t.send_pq = s.send_pq + 1
               /\ t.recv_pq = s.recv_pq /\ t.pq_inflight = Idle
               /\ t.owed_bind = [t_epoch |-> s.send_cl + 1, pq_epoch |-> s.send_pq + 1,
                                 secret |-> Export(s.recv_pq)]
               /\ t.pq_turn_mine = s.pq_turn_mine /\ t.pending_side_band = NoLeg
               /\ t.last_cross_injected_pq = s.recv_pq
               /\ t.last_send_pq_exported = s.last_send_pq_exported
               /\ t.pq_wedged = s.pq_wedged /\ t.bind_apply_broken = s.bind_apply_broken
               /\ t.bootstrap_kp = s.bootstrap_kp
<1>1. ~RecvPqLeafSpent(s)  BY RoundFields DEF RecvPqLeafSpent
<1> QED  BY <1>1 DEF ExportAndOweBind, CommitPqAndOweBind, SameEpochs, SessionInner

\* The initiator joins the acceptor's new PQ half and lands the bootstrap's commit.
LEMMA BootstrapBindRound ==
    ASSUME NEW s \in SessionInner, NEW r \in SessionInner, NEW n \in Nat, InRound(s, r, n),
           NEW leg \in Leg, leg.kind = "bootstrap_welcome", LegFits(r, s, leg, n),
           s.recv_pq = 0, s.pq_inflight = BootstrapInitiated
    PROVE  RoundStep(s, ExportAndOweBind([s EXCEPT !.recv_pq = 1,
                            !.recv_pq_leaf = [mine |-> 0, theirs |-> leg.creator]]), r, n, n)
<1> DEFINE leaves == [mine |-> 0, theirs |-> leg.creator]
           u == [s EXCEPT !.recv_pq = 1, !.recv_pq_leaf = leaves]
           t == ExportAndOweBind(u)
<1>1. leaves \in LeafPair  BY LegFields DEF LeafPair
<1> HIDE DEF leaves
<1>2. u \in SessionInner  BY <1>1 DEF SessionInner
<1>3. Kind(s) = "BootstrapInitiated" /\ Kind(r) = "BootstrapResponded"
  BY InflightKinds DEF Kind, LegFits
<1>4. Round(s, r) /\ Answered(s, r) /\ r.send_pq = s.recv_pq + 1
  BY <1>3 DEF InRound, Round, Quiet, Opened, Answered, Closing, AwaitsBind, Kind
<1>5. /\ u.recv_pq = 1 /\ u.send_pq = s.send_pq /\ SameEpochs(s, u)
      /\ u.pq_turn_mine = s.pq_turn_mine
      /\ u.last_cross_injected_pq = s.last_cross_injected_pq
      /\ u.last_send_pq_exported = s.last_send_pq_exported
      /\ u.pq_wedged = s.pq_wedged /\ u.bind_apply_broken = s.bind_apply_broken
      /\ u.bootstrap_kp = s.bootstrap_kp
  BY DEF SessionInner, SameEpochs
<1> HIDE DEF u
<1>6. /\ s.last_cross_injected_pq = 0 /\ s.last_send_pq_exported <= s.send_pq
  BY RoundFields DEF InRound, Health
<1>7. HeldSecret(r) = Export(u.recv_pq)
  BY <1>3, <1>4, <1>5 DEF HeldSecret, Kind
<1>8. u.last_cross_injected_pq < u.recv_pq  BY <1>5, <1>6
<1>9. t \in SessionInner  BY <1>2, SideBandTypes
<1>10. Lands(s, t, r)
  <2>1. /\ SameEpochs(u, t) /\ t.send_pq = u.send_pq + 1
        /\ t.recv_pq = u.recv_pq /\ t.pq_inflight = Idle
        /\ t.owed_bind = [t_epoch |-> u.send_cl + 1, pq_epoch |-> u.send_pq + 1,
                          secret |-> Export(u.recv_pq)]
        /\ t.pq_turn_mine = u.pq_turn_mine /\ t.pending_side_band = NoLeg
        /\ t.last_cross_injected_pq = u.recv_pq
        /\ t.last_send_pq_exported = u.last_send_pq_exported
        /\ t.pq_wedged = u.pq_wedged /\ t.bind_apply_broken = u.bind_apply_broken
        /\ t.bootstrap_kp = u.bootstrap_kp
    BY <1>2, <1>8, ExportLands
  <2> HIDE DEF t
  <2> QED  BY <1>4, <1>5, <1>6, <1>7, <2>1 DEF Lands, SameEpochs
<1> QED  BY <1>4, <1>9, <1>10, LandStep DEF t, u, leaves

\* An A.5 commit that applies is the responder's answer to the round in flight;
\* one that does not leaves a stamped export.
LEMMA ApplyRekeyRound ==
    ASSUME NEW s \in SessionInner, NEW r \in SessionInner, NEW n \in Nat, InRound(s, r, n),
           NEW leg \in Leg, leg.kind = "rekey_commit", LegFits(r, s, leg, n),
           s.pq_inflight = RekeyInitiated
    PROVE  RoundStep(s, ApplyRekey(s, leg), r, n, n)
<1> DEFINE s1 == PreRegister(s)
           leaves == [mine |-> leg.leaves.theirs, theirs |-> leg.leaves.mine]
           psks == IF SendPqLeafSpent(s) THEN s1.psk_stores
                   ELSE s1.psk_stores \ {SendPsk(s.send_pq)}
           u == [s1 EXCEPT !.pq_inflight = Idle, !.recv_pq = @ + 1, !.recv_pq_update = 0,
                           !.recv_pq_leaf = leaves, !.psk_stores = psks]
           t == ExportAndOweBind(u)
<1>1. s1 \in SessionInner  BY SideBandTypes
<1>2. /\ SameEpochs(s, s1) /\ s1.send_pq = s.send_pq /\ s1.recv_pq = s.recv_pq
      /\ s1.pq_inflight = s.pq_inflight /\ s1.pending_side_band = s.pending_side_band
      /\ s1.owed_bind = s.owed_bind /\ s1.pq_turn_mine = s.pq_turn_mine
      /\ s1.last_cross_injected_pq = s.last_cross_injected_pq
      /\ s1.last_send_pq_exported \in {s.last_send_pq_exported, s.send_pq}
      /\ s1.pq_wedged = s.pq_wedged /\ s1.bind_apply_broken = s.bind_apply_broken
      /\ s1.bootstrap_kp = s.bootstrap_kp
  BY DEF PreRegister, SameEpochs, SessionInner
<1>3. Kind(s) = "RekeyInitiated" /\ ~ReExports(s)  BY InflightKinds DEF Kind, ReExports
<1>4. ApplyRekey(s, leg) = IF RekeyCommitApplies(s1, leg) THEN t ELSE s1
  BY DEF ApplyRekey
<1> HIDE DEF s1
<1>5. RoundStep(s, s1, r, n, n)  BY <1>1, <1>2, <1>3, StampStep
<1>6. ASSUME RekeyCommitApplies(s1, leg) PROVE RoundStep(s, t, r, n, n)
  <2>1. leg.epoch = s.recv_pq  BY <1>2, <1>6 DEF RekeyCommitApplies
  <2>2. Kind(r) = "RekeyResponded"  BY <2>1, RoundFields DEF LegFits
  <2>3. Round(s, r) /\ Answered(s, r) /\ r.send_pq = s.recv_pq + 1
    BY <1>3, <2>2 DEF InRound, Round, Quiet, Opened, Answered, Closing, AwaitsBind, Kind
  <2>4. u \in SessionInner
    <3>1. leaves \in LeafPair  BY LegFields DEF LeafPair
    <3> HIDE DEF leaves
    <3>2. psks \in SUBSET StoredPsk  BY <1>1, SessionFields
    <3> HIDE DEF psks
    <3>3. s1.recv_pq + 1 \in Nat  BY <1>1, SessionFields
    <3> QED  BY <1>1, <3>1, <3>2, <3>3, RekeyedType, InflightTypes
  <2> HIDE DEF psks, leaves
  <2>5. /\ u.recv_pq = s1.recv_pq + 1 /\ u.send_pq = s1.send_pq /\ SameEpochs(s1, u)
        /\ u.pq_turn_mine = s1.pq_turn_mine
        /\ u.last_cross_injected_pq = s1.last_cross_injected_pq
        /\ u.last_send_pq_exported = s1.last_send_pq_exported
        /\ u.pq_wedged = s1.pq_wedged /\ u.bind_apply_broken = s1.bind_apply_broken
        /\ u.bootstrap_kp = s1.bootstrap_kp
    BY <1>1 DEF SessionInner, SameEpochs
  <2> HIDE DEF u
  <2>6. s.last_cross_injected_pq <= s.recv_pq /\ s.last_send_pq_exported <= s.send_pq
    BY DEF InRound, Health
  <2>7. HeldSecret(r) = Export(u.recv_pq)
    BY <1>2, <2>2, <2>3, <2>5 DEF HeldSecret, Kind
  <2>8. u.last_cross_injected_pq < u.recv_pq  BY <1>2, <2>5, <2>6, RoundFields
  <2>9. t \in SessionInner  BY <2>4, SideBandTypes
  <2>10. Lands(s, t, r)
    <3>1. /\ SameEpochs(u, t) /\ t.send_pq = u.send_pq + 1
          /\ t.recv_pq = u.recv_pq /\ t.pq_inflight = Idle
          /\ t.owed_bind = [t_epoch |-> u.send_cl + 1, pq_epoch |-> u.send_pq + 1,
                            secret |-> Export(u.recv_pq)]
          /\ t.pq_turn_mine = u.pq_turn_mine /\ t.pending_side_band = NoLeg
          /\ t.last_cross_injected_pq = u.recv_pq
          /\ t.last_send_pq_exported = u.last_send_pq_exported
          /\ t.pq_wedged = u.pq_wedged /\ t.bind_apply_broken = u.bind_apply_broken
          /\ t.bootstrap_kp = u.bootstrap_kp
      BY <2>4, <2>8, ExportLands
    <3> HIDE DEF t
    <3>2. s.send_pq <= s.send_pq /\ u.recv_pq <= u.recv_pq  BY <2>4, RoundFields
    <3> QED  BY <1>2, <2>3, <2>5, <2>6, <2>7, <3>1, <3>2 DEF Lands, SameEpochs
  <2> QED  BY <2>3, <2>9, <2>10, LandStep
<1> HIDE DEF t
<1> QED  BY <1>4, <1>5, <1>6

----------------------------------------------------------------------------
(* The rounds stay in step.                                                *)

\* Both parties see the same round, and the frames of either fit it.
LEMMA RoundOf ==
    ASSUME TypeOK, RoundsInStep, NEW p \in Party
    PROVE  /\ session[p] \in SessionInner /\ session[Peer(p)] \in SessionInner /\ fresh \in Nat
           /\ InRound(session[p], session[Peer(p)], fresh)
           /\ \A l \in legs : /\ l.leg \in Leg
                              /\ l.from = Peer(p) =>
                                    LegFits(session[Peer(p)], session[p], l.leg, fresh)
<1>1. p \in {"initiator", "acceptor"} /\ Peer(p) \in Party /\ Peer(Peer(p)) = p
  BY PeerType DEF Party
<1>2. InRound(session[p], session[Peer(p)], fresh)
  BY <1>1 DEF RoundsInStep, InRound, Peer
<1> QED  BY <1>1, <1>2 DEF RoundsInStep, TypeOK

\* A step of p alone that keeps the round and sends only frames that fit it.
RoundMove(p) ==
    /\ session'[Peer(p)] = session[Peer(p)]
    /\ RoundStep(session[p], session'[p], session[Peer(p)], fresh, fresh')
    /\ \A l \in legs' :
          \/ l \in legs
          \/ l.from = p /\ LegFits(session'[p], session[Peer(p)], l.leg, fresh')

\* After such a step the two parties are in one round again.
LEMMA RoundUpdate ==
    ASSUME TypeOK, RoundsInStep, NEW p \in Party, RoundMove(p)
    PROVE  RoundsInStep'
<1> DEFINE q == Peer(p)
<1>1. q \in Party /\ Peer(q) = p /\ p \in {"initiator", "acceptor"} /\ q # p
      /\ \A x \in Party : x = p \/ x = q
  BY PeerType DEF Party
<1>2. InRound(session'[p], session'[q], fresh')  BY DEF RoundMove, RoundStep
<1>3. InRound(session'["initiator"], session'["acceptor"], fresh')
  BY <1>1, <1>2 DEF InRound, Peer
<1>4. ASSUME NEW l \in legs
      PROVE  LegFits(session'[l.from], session'[Peer(l.from)], l.leg, fresh')
  <2>1. l.from \in Party /\ l.leg \in Leg /\ LegFits(session[l.from], session[Peer(l.from)], l.leg, fresh)
    BY DEF TypeOK, RoundsInStep
  <2> QED  BY <1>1, <2>1 DEF RoundMove, RoundStep
<1>5. \A l \in legs' : LegFits(session'[l.from], session'[Peer(l.from)], l.leg, fresh')
  BY <1>1, <1>4 DEF RoundMove
<1> QED  BY <1>3, <1>5 DEF RoundsInStep

\* The messaging handlers keep the round.
LEMMA RoundMessaging ==
    ASSUME TypeOK, InStep, CrossInStep, RoundsInStep, NEW p \in Party,
           \/ \E selected \in Ids : PrepareToEncrypt(p, selected)
           \/ Encrypt(p) \/ ProcessIncoming(p) \/ ProcessIncomingWelcome(p) \/ QueueProposal(p)
    PROVE  RoundMove(p)
<1> DEFINE q == Peer(p)  s == session[p]  r == session[q]
<1>1. q \in Party /\ q # p /\ Peer(q) = p  BY PeerType
<1>2. s \in SessionInner /\ r \in SessionInner /\ fresh \in Nat /\ InRound(s, r, fresh)
  BY RoundOf
<1>3. legs' = legs
  BY DEF PrepareToEncrypt, Encrypt, EncryptFrame, ComposeFrame, EncryptWithoutProposal,
         ProcessIncoming, ProcessIncomingFrame, ProcessIncomingWelcome, QueueProposal
<1>4. ASSUME NEW t, session' = [session EXCEPT ![p] = t], RoundStep(s, t, r, fresh, fresh')
      PROVE  RoundMove(p)
  BY <1>1, <1>3, <1>4 DEF RoundMove, TypeOK
<1>5. ASSUME NEW t \in SessionInner, Untouched(s, t) PROVE RoundStep(s, t, r, fresh, fresh)
  BY <1>2, <1>5, UntouchedSlot, StillStep DEF Untouched, InRound
<1> HIDE DEF s, r, q
<1>6. CASE \E selected \in Ids : PrepareToEncrypt(p, selected)
  <2>1. PICK selected \in Ids : PrepareToEncrypt(p, selected)  BY <1>6
  <2>2. selected \in Nat  BY BoundAssumption DEF Ids
  <2>3. DidCommit(s) => r.recv_cl = s.send_cl
    BY DEF InStep, LicenseIsTrue, DidCommit, s, r, q
  <2>4. PICK t \in {PrepareRatchetCommit(s, selected), PreparePreEstablishment(s)} :
          session' = [session EXCEPT ![p] = t] /\ fresh' = fresh
    BY <2>1 DEF PrepareToEncrypt, s
  <2>5. RoundStep(s, t, r, fresh, fresh)  BY <1>2, <2>2, <2>3, <2>4, PrepareRound
  <2> QED  BY <1>4, <2>4, <2>5
<1>7. CASE EncryptFrame(p)
  <2>1. session' = [session EXCEPT ![p] = AfterEncrypt(s)]
    BY <1>7 DEF EncryptFrame, ComposeFrame, s
  <2>2. session'[p] = AfterEncrypt(s)  BY <2>1 DEF TypeOK
  <2>3. fresh' = IF AfterEncrypt(s).pq_inflight = Initiating(fresh) THEN fresh + 1 ELSE fresh
    BY <1>7, <2>2 DEF EncryptFrame, ComposeFrame
  <2>4. RoundStep(s, AfterEncrypt(s), r, fresh, fresh')  BY <1>2, <2>3, EncryptRound
  <2> QED  BY <1>4, <2>1, <2>4
<1>8. CASE EncryptWithoutProposal(p)
  <2> DEFINE t == [s EXCEPT !.pending_proposal_hash = FALSE]
  <2>1. t \in SessionInner /\ Untouched(s, t)
    BY <1>2 DEF SessionInner, Untouched, SameRound, SamePq, SameEpochs
  <2>2. session' = [session EXCEPT ![p] = t] /\ fresh' = fresh
    BY <1>8 DEF EncryptWithoutProposal, s
  <2> HIDE DEF t
  <2> QED  BY <1>4, <1>5, <2>1, <2>2
<1>9. CASE ProcessIncoming(p)
  <2>1. PICK f \in frames : /\ f.from = q
                            /\ StapleAdmitted(s, f.staple)
                            /\ session' = [session EXCEPT ![p] = ProcessFrame(s, f)]
                            /\ fresh' = fresh
    BY <1>9 DEF ProcessIncoming, ProcessIncomingFrame, s, q
  <2>2. f \in Frame  BY DEF TypeOK
  <2>3. f.staple.epoch = s.recv_cl =>
            /\ f.staple = r.current_staple /\ r.send_cl = s.recv_cl + 1
            /\ SendPskResolves(s, f.staple.cross)
    BY <1>1, <2>1, CrossResolves DEF s, r
  <2>4. s.recv_cl = 0 => r.current_staple.kind # "bind"
    <3>1. MirrorClose(q) /\ StaplesBehind(q)  BY <1>1 DEF InStep
    <3>2. s.recv_cl \in Nat /\ r.send_cl \in Nat /\ r.current_staple.epoch \in Nat
      BY <1>2, SessionFields DEF Staple
    <3> QED  BY <1>1, <3>1, <3>2 DEF MirrorClose, StaplesBehind, s, r
  <2>5. RoundStep(s, ProcessFrame(s, f), r, fresh, fresh)
    BY <1>2, <2>1, <2>2, <2>3, <2>4, ProcessRound
  <2> QED  BY <1>4, <2>1, <2>5
<1>10. CASE ProcessIncomingWelcome(p)
  <2> DEFINE t == ProcessWelcome(s)
  <2>1. session' = [session EXCEPT ![p] = t] /\ fresh' = fresh /\ ~Joined(s)
    BY <1>10 DEF ProcessIncomingWelcome, s
  <2>2. s.recv_cl = 0  BY <1>2, <2>1, RoundFields DEF Joined
  <2>3. /\ t \in SessionInner /\ t.recv_cl = s.recv_cl + 1 /\ t.send_cl = s.send_cl
        /\ t.current_staple = s.current_staple /\ SameRound(s, t)
        /\ t.pending_side_band = s.pending_side_band
    BY <1>2, <2>1, <2>2 DEF ProcessWelcome, SessionInner, SameRound, SamePq
  <2> HIDE DEF t
  <2>4. r.current_staple.kind # "bind"
    <3>1. MirrorClose(q) /\ StaplesBehind(q)  BY <1>1 DEF InStep
    <3>2. r.send_cl \in Nat /\ r.current_staple.epoch \in Nat
      BY <1>2, SessionFields DEF Staple
    <3> QED  BY <1>1, <2>2, <3>1, <3>2 DEF MirrorClose, StaplesBehind, s, r
  <2>5. Slot(t)  BY <1>2, <2>3 DEF InRound, Slot, Kind, SameRound, SamePq
  <2>6. RoundStep(s, t, r, fresh, fresh)  BY <1>2, <2>3, <2>4, <2>5, ApplyCommitStep
  <2> QED  BY <1>4, <2>1, <2>6
<1>11. CASE QueueProposal(p)
  <2> DEFINE t == [s EXCEPT !.queued_proposal = s.offered_proposal, !.offered_proposal = NoOffer]
  <2>1. t \in SessionInner /\ Untouched(s, t)
    BY <1>2, AbsentTypes DEF SessionInner, Untouched, SameRound, SamePq, SameEpochs
  <2>2. session' = [session EXCEPT ![p] = t] /\ fresh' = fresh
    BY <1>11 DEF QueueProposal, s, TypeOK
  <2> HIDE DEF t
  <2> QED  BY <1>4, <1>5, <2>1, <2>2
<1> QED  BY <1>6, <1>7, <1>8, <1>9, <1>10, <1>11 DEF Encrypt

\* So do handing out a frame and opening the bootstrap.
LEMMA RoundOutbound ==
    ASSUME TypeOK, RoundsInStep, NEW p \in Party,
           \/ PqPendingOutbound(p) \/ PqTakePendingOutbound(p)
           \/ PqBootstrapBegin(p) \/ PqBootstrapEnvelope(p)
    PROVE  RoundMove(p)
<1> DEFINE q == Peer(p)  s == session[p]  r == session[q]
<1>1. q \in Party /\ q # p /\ Peer(q) = p  BY PeerType
<1>2. s \in SessionInner /\ r \in SessionInner /\ fresh \in Nat /\ InRound(s, r, fresh)
  BY RoundOf
<1>3. fresh' = fresh
  BY DEF PqPendingOutbound, PqTakePendingOutbound, PqBootstrapBegin, PqBootstrapEnvelope
<1>4. ASSUME NEW leg \in Leg, NEW t, session' = [session EXCEPT ![p] = t],
             legs' = legs \cup {[from |-> p, leg |-> leg]},
             RoundStep(s, t, r, fresh, fresh), LegFits(t, r, leg, fresh)
      PROVE  RoundMove(p)
  BY <1>1, <1>3, <1>4 DEF RoundMove, TypeOK
<1> HIDE DEF s, r, q
<1>5. CASE PqPendingOutbound(p) \/ PqTakePendingOutbound(p)
  <2> DEFINE leg == s.pending_side_band
  <2>1. leg \in Leg /\ legs' = legs \cup {[from |-> p, leg |-> leg]}
    BY <1>2, <1>5, SessionFields DEF PqPendingOutbound, PqTakePendingOutbound, s
  <2>2. LegFits(s, r, leg, fresh)  BY <1>2, <2>1, ParkedFits
  <2>3. CASE PqPendingOutbound(p)
    <3>1. session' = [session EXCEPT ![p] = s]  BY <2>3 DEF PqPendingOutbound, TypeOK, s
    <3>2. RoundStep(s, s, r, fresh, fresh)
      BY <1>2, StillStep DEF SameRound, SamePq, SameEpochs, InRound
    <3> QED  BY <1>4, <2>1, <2>2, <3>1, <3>2
  <2>4. CASE PqTakePendingOutbound(p)
    <3> DEFINE t == [s EXCEPT !.pending_side_band = NoLeg]
    <3>1. session' = [session EXCEPT ![p] = t]  BY <2>4 DEF PqTakePendingOutbound, s
    <3>2. t \in SessionInner /\ SameRound(s, t) /\ SameEpochs(s, t) /\ t.pending_side_band = NoLeg
      BY <1>2 DEF SessionInner, SameRound, SamePq, SameEpochs
    <3> HIDE DEF t
    <3>3. Slot(t)  BY <3>2 DEF Slot, NoLeg
    <3>4. RoundStep(s, t, r, fresh, fresh)  BY <1>2, <3>2, <3>3, StillStep
    <3>5. LegFits(t, r, leg, fresh)  BY <2>1, <2>2, <3>4 DEF RoundStep
    <3> QED  BY <1>4, <2>1, <3>1, <3>4, <3>5
  <2> QED  BY <1>5, <2>3, <2>4
<1>6. CASE PqBootstrapBegin(p) \/ PqBootstrapEnvelope(p)
  <2>1. /\ session' = [session EXCEPT ![p] = RegisterBootstrapRound(s)] /\ s.bootstrap_kp
        /\ legs' = legs \cup {[from |-> p, leg |-> KpLeg]}
    BY <1>6
    DEF PqBootstrapBegin, PqBootstrapEnvelope, CanBeginBootstrap, CanBeginEnvelope, s
  <2> QED  BY <1>2, <1>4, <2>1, RegisterRound, LegTypes
<1> QED  BY <1>5, <1>6

\* So do the handlers of the side-band frames.
LEMMA RoundSideBand ==
    ASSUME TypeOK, RoundsInStep, NEW p \in Party, ProcessSideBand(p)
    PROVE  RoundMove(p)
<1> DEFINE q == Peer(p)  s == session[p]  r == session[q]
<1>1. q \in Party /\ q # p /\ Peer(q) = p  BY PeerType
<1>2. /\ s \in SessionInner /\ r \in SessionInner /\ fresh \in Nat /\ InRound(s, r, fresh)
      /\ \A l \in legs : l.leg \in Leg /\ (l.from = q => LegFits(r, s, l.leg, fresh))
  BY RoundOf
<1>3. legs' = legs
  BY DEF ProcessSideBand, PqBootstrapRespond, PqBootstrapBind, PqRatchetRespond, PqRatchetBind,
         PqRekeyRespond, PqRekeyApply
<1>4. ASSUME NEW t, session' = [session EXCEPT ![p] = t], RoundStep(s, t, r, fresh, fresh')
      PROVE  RoundMove(p)
  BY <1>1, <1>3, <1>4 DEF RoundMove, TypeOK
<1>5. CASE PqBootstrapRespond(p)
  <2>1. /\ session' = [session EXCEPT ![p] = RespondBootstrap(s)] /\ fresh' = fresh
        /\ CanRespondBootstrap(s) /\ [from |-> q, leg |-> KpLeg] \in legs
    BY <1>5 DEF PqBootstrapRespond, Arrives
  <2>2. LegFits(r, s, KpLeg, fresh)  BY <1>2, <2>1
  <2>3. [mine |-> s.client, theirs |-> 0] \in LeafPair  BY <1>2, SessionFields DEF LeafPair
  <2>5. RespondBootstrap(s) \in SessionInner
    BY <1>2, <2>3, FoundedType, SessionFields, InflightTypes, LegTypes DEF RespondBootstrap
  <2>6. RoundStep(s, RespondBootstrap(s), r, fresh, fresh)
    BY <1>2, <2>1, <2>2, <2>5, RespondBootstrapRound
  <2> QED  BY <1>4, <2>1, <2>6
<1>6. CASE PqBootstrapBind(p)
  <2>1. PICK l \in legs :
          /\ l.from = q /\ l.leg.kind = "bootstrap_welcome"
          /\ s.recv_pq = 0 /\ s.pq_inflight = BootstrapInitiated
          /\ session' = [session EXCEPT ![p] =
               ExportAndOweBind([s EXCEPT !.recv_pq = 1,
                                          !.recv_pq_leaf = [mine |-> 0, theirs |-> l.leg.creator]])]
          /\ fresh' = fresh
    BY <1>6 DEF PqBootstrapBind
  <2> HIDE DEF s, r, q
  <2> QED  BY <1>2, <1>4, <2>1, BootstrapBindRound
<1>7. CASE PqRatchetRespond(p)
  <2>1. PICK l \in legs :
          /\ l.from = q /\ l.leg.kind = "ek" /\ l.leg.epoch = s.recv_cl /\ CanRespondRatchet(s)
          /\ session' = [session EXCEPT ![p] = RespondRatchet(s, l.leg)]
          /\ fresh' = fresh + 1
    BY <1>7 DEF PqRatchetRespond, LegDecrypts
  <2> HIDE DEF s, r, q
  <2> QED  BY <1>2, <1>4, <2>1, RespondRatchetRound
<1>8. CASE PqRatchetBind(p)
  <2>1. PICK l \in legs :
          /\ l.from = q /\ l.leg.kind = "ct" /\ s.pq_inflight.kind = "Initiating"
          /\ session' = [session EXCEPT ![p] = BindRatchet(s, l.leg)]
          /\ fresh' = fresh
    BY <1>8 DEF PqRatchetBind
  <2> HIDE DEF s, r, q
  <2> QED  BY <1>2, <1>4, <2>1, BindRatchetRound
<1>9. CASE PqRekeyRespond(p)
  <2>1. PICK l \in legs :
          /\ l.from = q /\ l.leg.kind = "rekey_upd" /\ s.pq_inflight = Idle
          /\ session' = [session EXCEPT ![p] = RespondRekey(s, l.leg)]
          /\ fresh' = fresh
    BY <1>9 DEF PqRekeyRespond
  <2> HIDE DEF s, r, q
  <2> QED  BY <1>2, <1>4, <2>1, RespondRekeyRound
<1>10. CASE PqRekeyApply(p)
  <2>1. PICK l \in legs :
          /\ l.from = q /\ l.leg.kind = "rekey_commit" /\ s.pq_inflight = RekeyInitiated
          /\ session' = [session EXCEPT ![p] = ApplyRekey(s, l.leg)]
          /\ fresh' = fresh
    BY <1>10 DEF PqRekeyApply
  <2> HIDE DEF s, r, q
  <2> QED  BY <1>2, <1>4, <2>1, ApplyRekeyRound
<1> QED  BY <1>5, <1>6, <1>7, <1>8, <1>9, <1>10 DEF ProcessSideBand

----------------------------------------------------------------------------
(* What follows from it.                                                   *)

\* Every step of the system is such a step of one party.
LEMMA NextRound ==
    ASSUME TypeOK, InStep, CrossInStep, RoundsInStep, Next
    PROVE  \E p \in Party : RoundMove(p)
<1>1. PICK p \in Party :
        \/ \/ \E selected \in Ids : PrepareToEncrypt(p, selected)
           \/ Encrypt(p) \/ ProcessIncoming(p) \/ ProcessIncomingWelcome(p) \/ QueueProposal(p)
        \/ \/ PqPendingOutbound(p) \/ PqTakePendingOutbound(p)
           \/ PqBootstrapBegin(p) \/ PqBootstrapEnvelope(p)
        \/ ProcessSideBand(p)
  BY DEF Next, ProcessSideBand
<1> QED  BY <1>1, RoundMessaging, RoundOutbound, RoundSideBand

\* The initiator starts with the turn and no round.
LEMMA RoundInit == Init => RoundsInStep
<1> SUFFICES ASSUME Init PROVE RoundsInStep  OBVIOUS
<1> DEFINE s == session["initiator"]  r == session["acceptor"]
<1>1. /\ s.send_cl = 1 /\ s.recv_cl = 0 /\ s.send_pq = 1 /\ s.recv_pq = 0
      /\ s.current_staple.kind = "welcome" /\ s.pq_inflight = Idle
      /\ s.pending_side_band = NoLeg /\ s.owed_bind = NoBind /\ s.pq_turn_mine
      /\ s.last_cross_injected_pq = 0 /\ s.last_send_pq_exported = 0
      /\ ~s.pq_wedged /\ ~s.bind_apply_broken
  BY DEF Init, Party, Initiate, NewSession, Welcome
<1>2. /\ r.send_cl = 1 /\ r.recv_cl = 1 /\ r.send_pq = 0 /\ r.recv_pq = 1
      /\ r.current_staple.kind = "welcome" /\ r.pq_inflight = Idle
      /\ r.pending_side_band = NoLeg /\ r.owed_bind = NoBind /\ ~r.pq_turn_mine
      /\ r.last_cross_injected_pq = 0 /\ r.last_send_pq_exported = 0
      /\ ~r.pq_wedged /\ ~r.bind_apply_broken /\ ~r.bootstrap_kp
  BY DEF Init, Party, AcceptWith, NewSession, Welcome
<1>3. legs = {}  BY DEF Init
<1> HIDE DEF s, r
<1>4. Round(s, r)  BY <1>1, <1>2, InflightKinds DEF Round, Outstanding, Quiet, Level, Kind
<1>5. Health(s, fresh) /\ Health(r, fresh)
  BY <1>1, <1>2, InflightKinds DEF Health, ReExports, Kind
<1>6. Slot(s) /\ Slot(r)  BY <1>1, <1>2 DEF Slot, NoLeg
<1> QED  BY <1>3, <1>4, <1>5, <1>6 DEF RoundsInStep, InRound, s, r

\* In every behaviour, for every window and bound, the two parties agree on the one
\* round there is, on who owns it and on how far it has come.
THEOREM RoundsStayInStep == Spec => []RoundsInStep
<1>1. TypeOK /\ InStep /\ CrossInStep /\ RoundsInStep /\ [Next]_vars => RoundsInStep'
  <2> SUFFICES ASSUME TypeOK, InStep, CrossInStep, RoundsInStep, [Next]_vars
               PROVE  RoundsInStep'
    OBVIOUS
  <2>1. CASE Next  BY <2>1, NextRound, RoundUpdate
  <2>2. CASE UNCHANGED vars  BY <2>2 DEF vars, RoundsInStep
  <2> QED  BY <2>1, <2>2
<1> QED  BY <1>1, RoundInit, TypeCorrect, StaysInStep, CrossStaysNear, PTL DEF Spec

\* A round has one owner: it holds the turn, or the turn rides its bind.
LEMMA RoundHasOneTurn == TypeOK /\ RoundsInStep => TurnIsOneToken
<1> SUFFICES ASSUME TypeOK, RoundsInStep PROVE TurnIsOneToken  OBVIOUS
<1> DEFINE Holds == {p \in Party : session[p].pq_turn_mine}
           Rides == {p \in Party : BindOutstanding(p)}
<1>1. PICK p \in Party : Round(session[p], session[Peer(p)])
  BY DEF RoundsInStep, InRound, Party, Peer
<1>2. \A x \in Party : x = p \/ x = Peer(p)  BY DEF Party, Peer
<1>3. Peer(p) \in Party /\ Peer(p) # p /\ Peer(Peer(p)) = p  BY PeerType
<1>4. \/ Holds = {p} /\ Rides = {}
      \/ Holds = {} /\ Rides = {p}
  BY <1>1, <1>2, <1>3 DEF Round, Outstanding, BindOutstanding
<1>5. Cardinality({}) = 0 /\ Cardinality({p}) = 1  BY FS_EmptySet, FS_Singleton
<1> HIDE DEF Holds, Rides
<1>6. Cardinality(Holds) + Cardinality(Rides) = 1  BY <1>4, <1>5
<1> QED  BY <1>6 DEF TurnIsOneToken, Holds, Rides

\* The right to open a PQ round is never lost and never held twice: one party
\* holds it, or it rides a bind the peer has not applied.
THEOREM TurnStaysOneToken == Spec => []TurnIsOneToken
  BY RoundHasOneTurn, TypeCorrect, RoundsStayInStep, PTL

\* The epochs reserved for an owed bind stay the next ones until prepare_to_encrypt
\* discharges it, and the side-band is never wedged past the point of no return.
THEOREM ReservationStays == Spec => []ReservationKept
<1>1. TypeOK /\ RoundsInStep => ReservationKept
  <2> SUFFICES ASSUME TypeOK, RoundsInStep, NEW p \in Party
               PROVE  ReservationHolds(session[p]) /\ ~session[p].pq_wedged
    BY DEF ReservationKept
  <2>1. InRound(session[p], session[Peer(p)], fresh)  BY RoundOf
  <2> QED  BY <2>1 DEF InRound, Round, Closing, Health, ReservationHolds
<1> QED  BY <1>1, TypeCorrect, RoundsStayInStep, PTL

\* A round that is answered is still open or closing at its owner.
LEMMA RoundKeepsResponder == TypeOK /\ RoundsInStep => ResponderNeverStranded
<1> SUFFICES ASSUME TypeOK, RoundsInStep, NEW p \in Party, AwaitsBind(session[p])
             PROVE  LET s == session[p]
                        i == session[Peer(p)].pq_inflight
                    IN  \/ BindCarries(Peer(p), HeldSecret(s))
                        \/ s.pq_inflight.kind = "Responding" /\ i = Initiating(s.pq_inflight.ct.eph)
                        \/ s.pq_inflight = BootstrapResponded /\ i = BootstrapInitiated
                        \/ s.pq_inflight = RekeyResponded /\ i = RekeyInitiated
  BY DEF ResponderNeverStranded
<1> DEFINE s == session[p]  r == session[Peer(p)]
<1>1. /\ s \in SessionInner /\ r \in SessionInner /\ InRound(s, r, fresh)
      /\ Peer(Peer(p)) = p
  BY RoundOf, PeerType
<1>2. s.pq_inflight \in Inflight /\ r.pq_inflight \in Inflight  BY <1>1, RoundFields
<1>3. Outstanding(r, s) <=> BindOutstanding(Peer(p))
  BY <1>1 DEF Outstanding, BindOutstanding
<1>4. /\ r.owed_bind.secret = HeldSecret(s) => BindCarries(Peer(p), HeldSecret(s))
      /\ Outstanding(r, s) /\ r.current_staple.bind.secret = HeldSecret(s) =>
            BindCarries(Peer(p), HeldSecret(s))
  BY <1>3 DEF BindCarries
<1> HIDE DEF s, r
<1>5. AwaitsBind(s)  BY DEF s
<1>6. Answered(r, s) \/ Closing(r, s, r.owed_bind)
      \/ (Outstanding(r, s) /\ Closing(r, s, r.current_staple.bind))
  BY <1>1, <1>5 DEF InRound, Round, Quiet, Opened, Answered, Closing, AwaitsBind, Kind
<1>7. ASSUME Answered(r, s)
      PROVE  \/ s.pq_inflight.kind = "Responding" /\ r.pq_inflight = Initiating(s.pq_inflight.ct.eph)
             \/ s.pq_inflight = BootstrapResponded /\ r.pq_inflight = BootstrapInitiated
             \/ s.pq_inflight = RekeyResponded /\ r.pq_inflight = RekeyInitiated
  BY <1>2, <1>7, InflightKinds DEF Answered, Kind
<1> QED  BY <1>4, <1>6, <1>7 DEF Closing, s, r

\* A responder that waits for a bind waits for one that its peer still works on,
\* owes or has sent.
THEOREM NobodyStranded == Spec => []ResponderNeverStranded
  BY RoundKeepsResponder, TypeCorrect, RoundsStayInStep, PTL

\* A bind that is due is the one its round's responder waits for.
LEMMA RoundMeetsBind == TypeOK /\ InStep /\ CrossInStep /\ RoundsInStep => BindMeetsResponder
<1> SUFFICES ASSUME TypeOK, InStep, CrossInStep, RoundsInStep, NEW f \in frames,
                    f.staple.kind = "bind",
                    f.staple.epoch = session[Peer(f.from)].recv_cl
             PROVE  LET s == session[Peer(f.from)]
                    IN  /\ AwaitsBind(s)
                        /\ ReExports(s) => ~SendPqLeafSpent(s)
                        /\ BindOpens(s, f.staple)
  BY DEF BindMeetsResponder
<1> DEFINE p == Peer(f.from)  s == session[p]  r == session[f.from]
<1>1. f.from \in Party /\ p \in Party /\ Peer(p) = f.from  BY PeerType DEF TypeOK, Frame
<1>2. s \in SessionInner /\ r \in SessionInner /\ fresh \in Nat /\ InRound(s, r, fresh)
  BY <1>1, RoundOf
<1>3. /\ f.staple = r.current_staple /\ s.recv_cl + 1 = r.send_cl
      /\ SendPskResolves(s, f.staple.cross)
  BY CrossResolves
<1> HIDE DEF p, s, r
<1>4. AwaitsBind(s) /\ (ReExports(s) => ~SendPqLeafSpent(s)) /\ BindOpens(s, f.staple)
  BY <1>2, <1>3, BindIsMet
<1> QED  BY <1>4 DEF s, p

\* Every bind staple that is due meets a responder that waits for it, with the
\* secret it injects and at the epochs it attests: it applies as a whole.
THEOREM BindAlwaysMet == Spec => []BindMeetsResponder
  BY RoundMeetsBind, TypeCorrect, StaysInStep, CrossStaysNear, RoundsStayInStep, PTL

\* In a round the writer of a PQ half is at most one epoch ahead of its mirror.
LEMMA PqClose ==
    ASSUME NEW s \in SessionInner, NEW r \in SessionInner, NEW n, InRound(s, r, n)
    PROVE  s.send_pq \in {r.recv_pq, r.recv_pq + 1} /\ r.send_pq \in {s.recv_pq, s.recv_pq + 1}
  BY DEF InRound, Round, Quiet, Opened, Answered, Closing, Level

\* The post-quantum half of each send group implements SendChannel too, from the
\* bootstrap that creates it on: no PQ commit is made while the mirror misses one.
THEOREM PostQuantumRefinement == Spec => PostQuantumIsStopAndWait
<1> DEFINE committed == [p \in Party |-> session[p].send_pq]
           applied == [p \in Party |-> session[Peer(p)].recv_pq]
<1>1. Init => PostQuantum!Init
  <2> SUFFICES ASSUME Init, NEW w \in Party
               PROVE  /\ committed[w] \in {0, 1} /\ applied[w] \in {0, 1}
                      /\ applied[w] <= committed[w]
    BY DEF PostQuantum!Init
  <2>1. /\ session["initiator"].send_pq = 1 /\ session["initiator"].recv_pq = 0
        /\ session["acceptor"].send_pq = 0 /\ session["acceptor"].recv_pq = 1
    BY DEF Init, Party, Initiate, AcceptWith, NewSession
  <2> QED  BY <2>1 DEF Party, Peer
<1>2. TypeOK /\ TypeOK' /\ InStep /\ CrossInStep /\ RoundsInStep /\ [Next]_vars
        => [PostQuantum!Next]_(PostQuantum!chan)
  <2> SUFFICES ASSUME TypeOK, TypeOK', InStep, CrossInStep, RoundsInStep, [Next]_vars
               PROVE  [PostQuantum!Next]_(PostQuantum!chan)
    OBVIOUS
  <2>1. CASE UNCHANGED vars  BY <2>1 DEF vars, PostQuantum!chan
  <2>2. CASE Next
    <3>1. PICK p \in Party : RoundMove(p)  BY <2>2, NextRound
    <3> DEFINE q == Peer(p)  s == session[p]  t == session'[p]  r == session[q]
    <3>2. q \in Party /\ Peer(q) = p /\ q # p /\ \A x \in Party : x = p \/ x = q
      BY PeerType DEF Party
    <3>3. s \in SessionInner /\ r \in SessionInner /\ t \in SessionInner  BY <3>2 DEF TypeOK
    <3>4. /\ session'[q] = r /\ t.send_pq >= s.send_pq /\ t.recv_pq >= s.recv_pq
          /\ InRound(s, r, fresh) /\ InRound(t, r, fresh')
      BY <3>1, RoundOf DEF RoundMove, RoundStep
    <3>5. /\ s.send_pq \in Nat /\ s.recv_pq \in Nat /\ t.send_pq \in Nat /\ t.recv_pq \in Nat
          /\ r.send_pq \in Nat /\ r.recv_pq \in Nat
      BY <3>3, RoundFields
    <3>6. /\ s.send_pq \in {r.recv_pq, r.recv_pq + 1} /\ r.send_pq \in {s.recv_pq, s.recv_pq + 1}
          /\ t.send_pq \in {r.recv_pq, r.recv_pq + 1} /\ r.send_pq \in {t.recv_pq, t.recv_pq + 1}
      BY <3>3, <3>4, PqClose
    <3>7. /\ committed[p] = s.send_pq /\ committed[q] = r.send_pq
          /\ applied[p] = r.recv_pq /\ applied[q] = s.recv_pq
          /\ committed'[p] = t.send_pq /\ committed'[q] = r.send_pq
          /\ applied'[p] = r.recv_pq /\ applied'[q] = t.recv_pq
      BY <3>2, <3>4
    <3> HIDE DEF s, r, t, committed, applied
    <3>8. /\ t.send_pq = s.send_pq \/ (s.send_pq = r.recv_pq /\ t.send_pq = s.send_pq + 1)
          /\ t.recv_pq = s.recv_pq \/ (s.recv_pq < r.send_pq /\ t.recv_pq = s.recv_pq + 1)
      BY <3>4, <3>5, <3>6
    <3>9. PostQuantum!Commit(p) \/ PostQuantum!Rest(p)
      BY <3>7, <3>8 DEF PostQuantum!Commit, PostQuantum!Rest, committed, applied
    <3>10. PostQuantum!Apply(q) \/ PostQuantum!Rest(q)
      BY <3>7, <3>8 DEF PostQuantum!Apply, PostQuantum!Rest, committed, applied
    <3> QED  BY <3>2, <3>9, <3>10 DEF PostQuantum!Next
  <2> QED  BY <2>1, <2>2
<1> QED
  BY <1>1, <1>2, TypeCorrect, StaysInStep, CrossStaysNear, RoundsStayInStep, PTL
  DEF Spec, PostQuantumIsStopAndWait, PostQuantum!Spec

=============================================================================
