--------------------------- MODULE SessionProofs ---------------------------
(***************************************************************************)
(* Proofs about Session for every value of its constants: types, and that  *)
(* the classical halves of the two send groups never lose step.            *)
(***************************************************************************)
EXTENDS Session, TLAPS

----------------------------------------------------------------------------
(* Types of the data.                                                      *)

\* The absent offer, bind and leg, and the welcome, are values of their types.
LEMMA AbsentTypes ==
    /\ NoOffer \in Offer
    /\ NoSecret \in Secret
    /\ NoBind \in OwedBind
    /\ Welcome \in Staple
  BY DEF NoOffer, Offer, NoSecret, Secret, NoBind, OwedBind, Welcome, Staple

\* What the rounds inject is a secret.
LEMMA SecretTypes == \A n \in Nat : Random(n) \in Secret /\ Export(n) \in Secret
  BY DEF Random, Export, Secret

\* Every in-flight state a handler sets is one of PqInflight.
LEMMA InflightTypes ==
    /\ Idle \in Inflight
    /\ BootstrapInitiated \in Inflight /\ BootstrapResponded \in Inflight
    /\ RekeyInitiated \in Inflight /\ RekeyResponded \in Inflight
    /\ \A n \in Nat : Initiating(n) \in Inflight
    /\ \A ct \in Ciphertexts : Responding(ct) \in Inflight
  BY DEF Inflight, Initiating, Responding

\* Every frame a handler parks is a side-band leg.
LEMMA LegTypes ==
    /\ KpLeg \in Leg
    /\ \A n \in Nat : KpWelcomeLeg(n) \in Leg
    /\ \A e, n \in Nat : EkLeg(e, n) \in Leg
    /\ \A e \in Nat, ct \in Ciphertexts : CtLeg(e, ct) \in Leg
    /\ \A e, n \in Nat : UpdLeg(e, n) \in Leg
    /\ \A e, n \in Nat, leaves \in LeafPair : PqCommitLeg(e, n, leaves) \in Leg
  BY DEF Leg, KpWelcomeLeg, EkLeg, CtLeg, UpdLeg, PqCommitLeg

\* The payload of a leg has the type its kind says.
LEMMA LegFields ==
    ASSUME NEW leg \in Leg
    PROVE  /\ leg.kind = "bootstrap_welcome" => leg.creator \in Nat
           /\ leg.kind = "ek" => leg.epoch \in Nat /\ leg.eph \in Nat
           /\ leg.kind = "ct" => leg.epoch \in Nat /\ leg.ct \in Ciphertexts
           /\ leg.kind = "rekey_upd" => leg.epoch \in Nat /\ leg.id \in Nat
           /\ leg.kind = "rekey_commit" =>
                  leg.epoch \in Nat /\ leg.cross \in Nat /\ leg.leaves \in LeafPair
  BY DEF Leg, KpLeg

\* So has the payload of an in-flight state.
LEMMA InflightFields ==
    ASSUME NEW i \in Inflight
    PROVE  /\ i.kind = "Initiating" => i.eph \in Nat
           /\ i.kind = "Responding" => i.ct \in Ciphertexts
  BY DEF Inflight, Idle, BootstrapInitiated, BootstrapResponded, RekeyInitiated, RekeyResponded

\* The fields the handlers read.
LEMMA SessionFields ==
    ASSUME NEW s \in SessionInner
    PROVE  /\ s.send_cl \in Nat /\ s.send_pq \in Nat /\ s.recv_cl \in Nat /\ s.recv_pq \in Nat
           /\ s.current_staple \in Staple /\ s.owed_bind \in OwedBind
           /\ s.pending_proposal_message \in Offer
           /\ s.offered_proposal \in Offer /\ s.queued_proposal \in Offer
           /\ s.peer_applied_send_epoch \in Nat /\ s.last_cross_injected \in Nat
           /\ s.pq_inflight \in Inflight /\ s.pending_side_band \in Leg \cup {NoLeg}
           /\ s.pq_turn_mine \in BOOLEAN
           /\ s.last_cross_injected_pq \in Nat /\ s.last_send_pq_exported \in Nat
           /\ s.psk_stores \subseteq StoredPsk /\ s.opened \subseteq Leg
           /\ s.client \in Nat /\ s.staged_candidates \subseteq Nat
           /\ s.deferred_candidate \in Nat /\ s.theirs \subseteq Nat
  BY DEF SessionInner

----------------------------------------------------------------------------
(* Every handler maps a session to a session.                              *)

\* A session is born well typed on both sides.
LEMMA NewSessionType == Initiate \in SessionInner /\ AcceptWith \in SessionInner
<1>1. NewSession \in SessionInner
  <2>1. [mine |-> 0, theirs |-> 0] \in LeafPair  BY DEF LeafPair
  <2> QED  BY <2>1, AbsentTypes, InflightTypes DEF NewSession, SessionInner
<1>2. Initiate \in SessionInner  BY <1>1 DEF Initiate, SessionInner
<1>3. AcceptWith \in SessionInner  BY <1>1 DEF AcceptWith, SessionInner
<1> QED  BY <1>2, <1>3

\* Re-minting a parked leg keeps the session well typed.
LEMMA RewrapType ==
    ASSUME NEW s \in SessionInner
    PROVE  RewrapSideBand(s) \in SessionInner
<1>1. s.pq_inflight.kind = "Initiating" => EkLeg(s.send_cl, s.pq_inflight.eph) \in Leg
  BY SessionFields, InflightFields, LegTypes
<1>2. s.pq_inflight.kind = "Responding" => CtLeg(s.send_cl, s.pq_inflight.ct) \in Leg
  BY SessionFields, InflightFields, LegTypes
<1>3. \A leg \in Leg : [s EXCEPT !.pending_side_band = leg] \in SessionInner  BY DEF SessionInner
<1> QED  BY <1>1, <1>2, <1>3 DEF RewrapSideBand

\* So does a commit in the PQ send group whose leg is parked, and
LEMMA FoundedType ==
    ASSUME NEW s \in SessionInner, NEW n \in Nat, NEW leaves \in LeafPair, NEW i \in Inflight,
           NEW leg \in Leg
    PROVE  [s EXCEPT !.send_pq = n, !.send_pq_leaf = leaves, !.pq_inflight = i,
                     !.pending_side_band = leg] \in SessionInner
  BY DEF SessionInner

\* the application of one in the receive group.
LEMMA RekeyedType ==
    ASSUME NEW s \in SessionInner, NEW i \in Inflight, NEW n \in Nat, NEW leaves \in LeafPair,
           NEW psks \in SUBSET StoredPsk
    PROVE  [s EXCEPT !.pq_inflight = i, !.recv_pq = n, !.recv_pq_update = 0,
                     !.recv_pq_leaf = leaves, !.psk_stores = psks] \in SessionInner
  BY DEF SessionInner

\* So does the PQ commit that leaves a bind owed.
LEMMA CommitPqType ==
    ASSUME NEW s \in SessionInner, NEW secret \in Secret
    PROVE  CommitPqAndOweBind(s, secret) \in SessionInner
<1>1. [t_epoch |-> s.send_cl + 1, pq_epoch |-> s.send_pq + 1, secret |-> secret] \in OwedBind
  BY SessionFields DEF OwedBind
<1>2. \A n \in Nat, b \in OwedBind : [s EXCEPT !.send_pq = n, !.owed_bind = b] \in SessionInner
  BY DEF SessionInner
<1>3. s.send_pq + 1 \in Nat  BY SessionFields
<1> QED  BY <1>1, <1>2, <1>3 DEF CommitPqAndOweBind

\* So does the classical commit, and a discharge that fails.
LEMMA DischargeType ==
    ASSUME NEW s \in SessionInner
    PROVE  DischargeAndCommit(s) \in SessionInner /\ FailedDischarge(s) \in SessionInner
<1>1. CommitStaple(s) \in Staple  BY SessionFields DEF CommitStaple, Staple
<1>2. TheirsAfterCommit(s) \subseteq Nat  BY SessionFields DEF TheirsAfterCommit, Offer
<1>3. TurnAfterCommit(s) \in BOOLEAN  BY DEF TurnAfterCommit
<1>4. s.send_cl + 1 \in Nat /\ s.recv_cl \in Nat  BY SessionFields
<1>5. ASSUME NEW n \in Nat, NEW turn \in BOOLEAN, NEW ids \in SUBSET Nat,
             NEW staple \in Staple, NEW cross \in Nat
      PROVE  [s EXCEPT !.queued_proposal = NoOffer, !.last_cross_injected = cross,
                       !.owed_bind = NoBind, !.pq_turn_mine = turn, !.send_cl = n,
                       !.theirs = ids, !.current_staple = staple,
                       !.offered_proposal = NoOffer] \in SessionInner
  BY AbsentTypes DEF SessionInner
<1>6. DischargeAndCommit(s) \in SessionInner
  BY <1>1, <1>2, <1>3, <1>4, <1>5 DEF DischargeAndCommit
<1>7. FailedDischarge(s) \in SessionInner
  BY <1>4, AbsentTypes DEF FailedDischarge, SessionInner
<1> QED  BY <1>6, <1>7

\* So does staging the Upd, with or without a rotation candidate.
LEMMA StageProposalType ==
    ASSUME NEW s \in SessionInner, NEW selected \in Nat
    PROVE  StageProposal(s, selected) \in SessionInner
<1> DEFINE id == Admitted(s, selected)
           s1 == IF selected = 0 /\ id # 0 THEN [s EXCEPT !.deferred_candidate = 0] ELSE s
           s2 == IF id # 0 THEN AdmitCandidate(s1, id) ELSE s1
           offer == [epoch |-> s.recv_cl, id |-> IF id # 0 THEN id ELSE s.client]
           staged == [s2 EXCEPT !.pending_proposal_hash = TRUE,
                                !.pending_proposal_message = offer]
<1>1. id \in Nat  BY SessionFields DEF Admitted
<1> HIDE DEF id
<1>2. s1 \in SessionInner  BY DEF SessionInner
<1> HIDE DEF s1
<1>3. AdmitCandidate(s1, id) \in SessionInner
  <2>1. s1.staged_candidates \cup {id} \in SUBSET Nat  BY <1>1, <1>2, SessionFields
  <2>2. \A c \in SUBSET Nat : [s1 EXCEPT !.staged_candidates = c] \in SessionInner
    BY <1>2 DEF SessionInner
  <2>3. [s1 EXCEPT !.deferred_candidate = id] \in SessionInner  BY <1>1, <1>2 DEF SessionInner
  <2>4. [s1 EXCEPT !.staged_candidates = @ \cup {id}] \in SessionInner  BY <2>1, <2>2
  <2> QED  BY <1>2, <2>3, <2>4 DEF AdmitCandidate
<1>4. s2 \in SessionInner  BY <1>2, <1>3
<1> HIDE DEF s2
<1>5. offer \in Offer  BY <1>1, SessionFields DEF Offer
<1> HIDE DEF offer
<1>6. staged \in SessionInner  BY <1>4, <1>5 DEF SessionInner
<1> HIDE DEF staged
<1>7. RewrapSideBand(staged) \in SessionInner  BY <1>6, RewrapType
<1>8. StageProposal(s, selected) \in {s2, RewrapSideBand(staged)}
  BY DEF StageProposal, staged, offer, s2, s1, id
<1> QED  BY <1>4, <1>7, <1>8

\* So does a prepare, before and after the session is established.
LEMMA PrepareType ==
    ASSUME NEW s \in SessionInner, NEW selected \in Nat
    PROVE  /\ PrepareRatchetCommit(s, selected) \in SessionInner
           /\ PreparePreEstablishment(s) \in SessionInner
<1>1. PrepareRatchetCommit(s, selected) \in SessionInner
  BY DischargeType, StageProposalType DEF PrepareRatchetCommit
<1>2. [s EXCEPT !.pending_proposal_hash = TRUE, !.pending_proposal_message = NoOffer]
        \in SessionInner
  BY AbsentTypes DEF SessionInner
<1>3. PreparePreEstablishment(s) \in SessionInner
  BY <1>2, RewrapType DEF PreparePreEstablishment
<1> QED  BY <1>1, <1>3

\* So does the tail of encrypt, which may open a round.
LEMMA AfterEncryptType ==
    ASSUME NEW s \in SessionInner, fresh \in Nat
    PROVE  AfterEncrypt(s) \in SessionInner
<1>1. ASSUME NEW t \in SessionInner
      PROVE  MaybeStageNextRound(t) \in SessionInner
  <2>1. EkLeg(t.send_cl, fresh) \in Leg /\ UpdLeg(t.recv_pq, t.client) \in Leg
    BY SessionFields, LegTypes
  <2>2. ASSUME NEW i \in Inflight, NEW leg \in Leg
        PROVE  [t EXCEPT !.pq_inflight = i, !.pending_side_band = leg] \in SessionInner
    BY DEF SessionInner
  <2>3. StageRatchet(t) \in SessionInner  BY <2>1, <2>2, InflightTypes DEF StageRatchet
  <2>4. StageRekey(t) \in SessionInner
    <3>1. ASSUME NEW i \in Inflight, NEW leg \in Leg, NEW n \in Nat
          PROVE  [t EXCEPT !.pq_inflight = i, !.pending_side_band = leg, !.recv_pq_update = n]
                     \in SessionInner
      BY DEF SessionInner
    <3>2. t.recv_pq \in Nat  BY SessionFields
    <3> QED  BY <2>1, <3>1, <3>2, InflightTypes DEF StageRekey
  <2> QED  BY <2>3, <2>4 DEF MaybeStageNextRound
<1>2. [s EXCEPT !.pending_proposal_hash = FALSE, !.pending_proposal_message = NoOffer]
        \in SessionInner
  BY AbsentTypes DEF SessionInner
<1> QED  BY <1>1, <1>2, RewrapType DEF AfterEncrypt

\* So does the identity bookkeeping of an applied commit.
LEMMA LeafChangesType ==
    ASSUME NEW s \in SessionInner, NEW staple \in Staple
    PROVE  LeafChanges(s, staple) \in SessionInner
<1>1. staple.sender \in Nat /\ staple.folds.id \in Nat  BY DEF Staple, Offer
<1>2. s.theirs \cup {staple.sender} \in SUBSET Nat  BY <1>1, SessionFields
<1>3. \A ids \in SUBSET Nat : [s EXCEPT !.theirs = ids] \in SessionInner  BY DEF SessionInner
<1> DEFINE s1 == [s EXCEPT !.theirs = @ \cup {staple.sender}]
<1>4. s1 \in SessionInner  BY <1>2, <1>3
<1> HIDE DEF s1
<1>5. [s1 EXCEPT !.client = staple.folds.id, !.staged_candidates = {}] \in SessionInner
  BY <1>1, <1>4 DEF SessionInner
<1> QED  BY <1>4, <1>5 DEF LeafChanges, s1

\* So does a staple of any kind.
LEMMA ProcessStapleType ==
    ASSUME NEW s \in SessionInner, NEW staple \in Staple
    PROVE  ProcessStaple(s, staple) \in SessionInner
<1>1. ProcessWelcome(s) \in SessionInner  BY DEF ProcessWelcome, SessionInner
<1>2. ApplyCommit(s, staple) \in SessionInner
  <2>1. [s EXCEPT !.recv_cl = @ + 1] \in SessionInner  BY DEF SessionInner
  <2> QED  BY <2>1, LeafChangesType DEF ApplyCommit
<1>3. ApplyBind(s, staple) \in SessionInner
  <2> DEFINE pq == IF PqCommitOpens(s, staple) THEN s.recv_pq + 1 ELSE s.recv_pq
             cl == IF PairApplies(s, staple) THEN s.recv_cl + 1 ELSE s.recv_cl
             ex == IF ReExports(s) THEN s.send_pq ELSE s.last_send_pq_exported
             s1 == [s EXCEPT !.pq_inflight = Idle, !.last_send_pq_exported = ex,
                             !.recv_pq = pq, !.recv_cl = cl]
  <2>1. pq \in Nat /\ cl \in Nat /\ ex \in Nat  BY SessionFields
  <2>2. ApplyBind(s, staple) =
          IF BindOpens(s, staple)
          THEN LeafChanges([s1 EXCEPT !.pq_turn_mine = TRUE, !.pending_side_band = NoLeg], staple)
          ELSE [s1 EXCEPT !.bind_apply_broken = TRUE]
    BY DEF ApplyBind
  <2> HIDE DEF pq, cl, ex
  <2>3. s1 \in SessionInner  BY <2>1, InflightTypes DEF SessionInner
  <2> HIDE DEF s1
  <2>4. /\ [s1 EXCEPT !.pq_turn_mine = TRUE, !.pending_side_band = NoLeg] \in SessionInner
        /\ [s1 EXCEPT !.bind_apply_broken = TRUE] \in SessionInner
    BY <2>3 DEF SessionInner
  <2> QED  BY <2>2, <2>4, LeafChangesType
<1> QED  BY <1>1, <1>2, <1>3 DEF ProcessStaple

\* So does a whole message frame.
LEMMA ProcessFrameType ==
    ASSUME NEW s \in SessionInner, NEW f \in Frame
    PROVE  ProcessFrame(s, f) \in SessionInner
<1>1. f.staple \in Staple /\ f.offer \in Offer  BY DEF Frame
<1>2. ASSUME NEW t \in SessionInner
      PROVE  RecordOffer(t, f.offer) \in SessionInner
  <2>1. ASSUME NEW e \in Nat
        PROVE  [t EXCEPT !.offered_proposal = f.offer, !.peer_applied_send_epoch = e] \in SessionInner
    BY <1>1 DEF SessionInner
  <2>2. t.send_cl \in Nat /\ t.peer_applied_send_epoch \in Nat  BY SessionFields
  <2> QED  BY <2>1, <2>2 DEF RecordOffer
<1> QED  BY <1>1, <1>2, ProcessStapleType DEF ProcessFrame

\* So do the shared parts of the side-band handlers.
LEMMA SideBandTypes ==
    ASSUME NEW s \in SessionInner
    PROVE  /\ RegisterBootstrapRound(s) \in SessionInner
           /\ ExportAndOweBind(s) \in SessionInner
           /\ PreRegister(s) \in SessionInner
<1>1. RegisterBootstrapRound(s) \in SessionInner
  BY InflightTypes, LegTypes DEF RegisterBootstrapRound, SessionInner
<1>2. ExportAndOweBind(s) \in SessionInner
  <2> DEFINE c == CommitPqAndOweBind(s, Export(s.recv_pq))
  <2>1. c \in SessionInner  BY SessionFields, SecretTypes, CommitPqType
  <2> HIDE DEF c
  <2>2. [c EXCEPT !.last_cross_injected_pq = s.recv_pq, !.pq_inflight = Idle,
                  !.pending_side_band = NoLeg] \in SessionInner
    BY <2>1, SessionFields, InflightTypes DEF SessionInner
  <2>3. [s EXCEPT !.pq_wedged = TRUE] \in SessionInner  BY DEF SessionInner
  <2> QED  BY <2>2, <2>3 DEF ExportAndOweBind, c
<1>3. PreRegister(s) \in SessionInner
  <2>1. s.psk_stores \cup {SendPsk(s.send_pq)} \in SUBSET StoredPsk
    BY SessionFields DEF SendPsk, StoredPsk
  <2>2. \A psks \in SUBSET StoredPsk :
          [s EXCEPT !.last_send_pq_exported = s.send_pq, !.psk_stores = psks] \in SessionInner
    BY SessionFields DEF SessionInner
  <2>3. [s EXCEPT !.last_send_pq_exported = s.send_pq,
                  !.psk_stores = @ \cup {SendPsk(s.send_pq)}] \in SessionInner
    BY <2>1, <2>2
  <2> QED  BY <2>3 DEF PreRegister
<1> QED  BY <1>1, <1>2, <1>3

----------------------------------------------------------------------------
(* Type correctness.                                                       *)

\* The two parties are each other's peers.
LEMMA PeerType == \A p \in Party : Peer(p) \in Party /\ Peer(p) # p /\ Peer(Peer(p)) = p
  BY DEF Peer, Party

\* A step that replaces one session by another and sends well-typed frames.
LEMMA UpdateType ==
    ASSUME TypeOK, NEW p \in Party, NEW s \in SessionInner,
           session' = [session EXCEPT ![p] = s],
           frames' \subseteq Frame, legs' \subseteq [from : Party, leg : Leg], fresh' \in Nat
    PROVE  TypeOK'
  BY DEF TypeOK

\* The sessions that initiate and accept leave are well typed.
LEMMA TypeInit == Init => TypeOK
  BY NewSessionType DEF Init, TypeOK

\* encrypt keeps the types.
LEMMA TypeEncrypt ==
    ASSUME TypeOK, NEW p \in Party, Encrypt(p)
    PROVE  TypeOK'
<1> DEFINE s == session[p]
<1>1. s \in SessionInner /\ fresh \in Nat  BY DEF TypeOK
<1>2. CASE EncryptFrame(p)
  <2>1. AfterEncrypt(s) \in SessionInner  BY <1>1, AfterEncryptType
  <2>2. [from |-> p, staple |-> s.current_staple, offer |-> s.pending_proposal_message] \in Frame
    BY <1>1, SessionFields DEF Frame
  <2>3. frames' \subseteq Frame  BY <1>2, <2>2 DEF EncryptFrame, ComposeFrame, MessageFrame, TypeOK
  <2>4. fresh' \in Nat /\ legs' = legs  BY <1>1, <1>2 DEF EncryptFrame, ComposeFrame, MessageFrame
  <2>5. session' = [session EXCEPT ![p] = AfterEncrypt(s)]  BY <1>2 DEF EncryptFrame, ComposeFrame, MessageFrame
  <2> HIDE DEF s
  <2> QED  BY <2>1, <2>3, <2>4, <2>5, UpdateType DEF TypeOK
<1>3. CASE EncryptWithoutProposal(p)
  <2>1. [s EXCEPT !.pending_proposal_hash = FALSE] \in SessionInner  BY <1>1 DEF SessionInner
  <2>2. session' = [session EXCEPT ![p] = [s EXCEPT !.pending_proposal_hash = FALSE]]
    BY <1>3 DEF EncryptWithoutProposal
  <2>3. frames' = frames /\ legs' = legs /\ fresh' = fresh  BY <1>3 DEF EncryptWithoutProposal
  <2> HIDE DEF s
  <2> QED  BY <2>1, <2>2, <2>3, UpdateType DEF TypeOK
<1> QED  BY <1>2, <1>3 DEF Encrypt

\* So do prepare_to_encrypt, process_incoming and queue_proposal.
LEMMA TypeMessaging ==
    ASSUME TypeOK, NEW p \in Party,
           \/ \E selected \in Ids : PrepareToEncrypt(p, selected)
           \/ ProcessIncoming(p) \/ ProcessIncomingWelcome(p) \/ QueueProposal(p)
    PROVE  TypeOK'
<1> DEFINE s == session[p]
<1>1. s \in SessionInner  BY DEF TypeOK
<1> HIDE DEF s
<1>2. CASE \E selected \in Ids : PrepareToEncrypt(p, selected)
  <2>1. PICK selected \in Ids : PrepareToEncrypt(p, selected)  BY <1>2
  <2>2. selected \in Nat  BY BoundAssumption DEF Ids
  <2>3. PICK t \in SessionInner : session' = [session EXCEPT ![p] = t]
    BY <1>1, <2>1, <2>2, PrepareType DEF PrepareToEncrypt, s
  <2> QED  BY <2>1, <2>3, UpdateType DEF PrepareToEncrypt, TypeOK
<1>3. CASE ProcessIncoming(p)
  <2>1. PICK f \in frames : /\ session' = [session EXCEPT ![p] = ProcessFrame(s, f)]
                            /\ UNCHANGED <<frames, legs, fresh>>
    BY <1>3 DEF ProcessIncoming, ProcessIncomingFrame, s
  <2>2. ProcessFrame(s, f) \in SessionInner  BY <1>1, ProcessFrameType DEF TypeOK
  <2> QED  BY <2>1, <2>2, UpdateType DEF TypeOK
<1>4. CASE ProcessIncomingWelcome(p)
  <2>1. session' = [session EXCEPT ![p] = ProcessWelcome(s)] /\ UNCHANGED <<frames, legs, fresh>>
    BY <1>4 DEF ProcessIncomingWelcome, s
  <2>2. ProcessWelcome(s) \in SessionInner  BY <1>1 DEF ProcessWelcome, SessionInner
  <2> QED  BY <2>1, <2>2, UpdateType DEF TypeOK
<1>5. CASE QueueProposal(p)
  <2> DEFINE t == [s EXCEPT !.queued_proposal = s.offered_proposal, !.offered_proposal = NoOffer]
  <2>1. t \in SessionInner  BY <1>1, AbsentTypes DEF SessionInner
  <2>2. session' = [session EXCEPT ![p] = t] /\ UNCHANGED <<frames, legs, fresh>>
    BY <1>5 DEF QueueProposal, s, TypeOK
  <2> HIDE DEF t
  <2> QED  BY <2>1, <2>2, UpdateType DEF TypeOK
<1> QED  BY <1>2, <1>3, <1>4, <1>5

\* So does handing out a side-band frame, and opening the bootstrap.
LEMMA TypeOutbound ==
    ASSUME TypeOK, NEW p \in Party,
           \/ PqPendingOutbound(p) \/ PqTakePendingOutbound(p)
           \/ PqBootstrapBegin(p) \/ PqBootstrapEnvelope(p)
    PROVE  TypeOK'
<1> DEFINE s == session[p]
<1>1. s \in SessionInner  BY DEF TypeOK
<1>2. s.pending_side_band \in Leg \cup {NoLeg}  BY <1>1, SessionFields
<1> HIDE DEF s
<1>3. \A leg \in Leg : [from |-> p, leg |-> leg] \in [from : Party, leg : Leg]  OBVIOUS
<1>4. CASE PqPendingOutbound(p)
  BY <1>2, <1>3, <1>4 DEF PqPendingOutbound, TypeOK, s
<1>5. CASE PqTakePendingOutbound(p)
  <2>1. [s EXCEPT !.pending_side_band = NoLeg] \in SessionInner  BY <1>1 DEF SessionInner
  <2>2. session' = [session EXCEPT ![p] = [s EXCEPT !.pending_side_band = NoLeg]]
    BY <1>5 DEF PqTakePendingOutbound, s
  <2>3. legs' \subseteq [from : Party, leg : Leg] /\ UNCHANGED <<frames, fresh>>
    BY <1>2, <1>3, <1>5 DEF PqTakePendingOutbound, TypeOK, s
  <2> QED  BY <2>1, <2>2, <2>3, UpdateType DEF TypeOK
<1>6. CASE PqBootstrapBegin(p) \/ PqBootstrapEnvelope(p)
  <2>1. session' = [session EXCEPT ![p] = RegisterBootstrapRound(s)]
    BY <1>6 DEF PqBootstrapBegin, PqBootstrapEnvelope, s
  <2>2. legs' \subseteq [from : Party, leg : Leg] /\ UNCHANGED <<frames, fresh>>
    BY <1>3, <1>6, LegTypes DEF PqBootstrapBegin, PqBootstrapEnvelope, TypeOK
  <2> QED  BY <1>1, <2>1, <2>2, SideBandTypes, UpdateType DEF TypeOK
<1> QED  BY <1>4, <1>5, <1>6

\* So do the bootstrap's responder and bind.
LEMMA TypeBootstrap ==
    ASSUME TypeOK, NEW p \in Party, PqBootstrapRespond(p) \/ PqBootstrapBind(p)
    PROVE  TypeOK'
<1> DEFINE s == session[p]
<1>1. s \in SessionInner  BY DEF TypeOK
<1> HIDE DEF s
<1>2. UNCHANGED <<frames, legs, fresh>>  BY DEF PqBootstrapRespond, PqBootstrapBind
<1>3. CASE PqBootstrapRespond(p)
  <2>1. [mine |-> s.client, theirs |-> 0] \in LeafPair  BY <1>1, SessionFields DEF LeafPair
  <2>3. RespondBootstrap(s) \in SessionInner
    BY <1>1, <2>1, FoundedType, SessionFields, InflightTypes, LegTypes DEF RespondBootstrap
  <2>4. session' = [session EXCEPT ![p] = RespondBootstrap(s)]  BY <1>3 DEF PqBootstrapRespond, s
  <2> QED  BY <1>2, <2>3, <2>4, UpdateType DEF TypeOK
<1>4. CASE PqBootstrapBind(p)
  <2>1. PICK l \in legs :
          /\ l.leg.kind = "bootstrap_welcome"
          /\ session' = [session EXCEPT ![p] =
               ExportAndOweBind([s EXCEPT !.recv_pq = 1,
                                          !.recv_pq_leaf = [mine |-> 0, theirs |-> l.leg.creator]])]
    BY <1>4 DEF PqBootstrapBind, s
  <2>2. l.leg \in Leg  BY DEF TypeOK
  <2>3. [mine |-> 0, theirs |-> l.leg.creator] \in LeafPair  BY <2>1, <2>2, LegFields DEF LeafPair
  <2>4. \A leaves \in LeafPair :
          [s EXCEPT !.recv_pq = 1, !.recv_pq_leaf = leaves] \in SessionInner
    BY <1>1 DEF SessionInner
  <2> QED  BY <1>2, <2>1, <2>3, <2>4, SideBandTypes, UpdateType DEF TypeOK
<1> QED  BY <1>3, <1>4

\* Both ends of an A.4 exchange map a session and a leg to a session.
LEMMA RatchetTypes ==
    ASSUME NEW s \in SessionInner, NEW leg \in Leg, fresh \in Nat
    PROVE  /\ leg.kind = "ek" => RespondRatchet(s, leg) \in SessionInner
           /\ leg.kind = "ct" => BindRatchet(s, leg) \in SessionInner
<1>1. s.opened \cup {leg} \in SUBSET Leg  BY SessionFields
<1>2. ASSUME leg.kind = "ek" PROVE RespondRatchet(s, leg) \in SessionInner
  <2> DEFINE ct == Ciphertext(leg.eph, Random(fresh), s.recv_pq)
  <2>1. ct \in Ciphertexts
    BY <1>2, LegFields, SecretTypes, SessionFields DEF Ciphertext, Ciphertexts
  <2> HIDE DEF ct
  <2>2. Responding(ct) \in Inflight /\ CtLeg(s.send_cl, ct) \in Leg
    BY <2>1, InflightTypes, LegTypes, SessionFields
  <2>3. ASSUME NEW o \in SUBSET Leg, NEW i \in Inflight, NEW l \in Leg
        PROVE  [s EXCEPT !.opened = o, !.pq_inflight = i, !.pending_side_band = l] \in SessionInner
    BY DEF SessionInner
  <2> QED  BY <1>1, <2>2, <2>3 DEF RespondRatchet, ct
<1>3. ASSUME leg.kind = "ct" PROVE BindRatchet(s, leg) \in SessionInner
  <2> DEFINE s1 == [s EXCEPT !.opened = @ \cup {leg}]
             c == CommitPqAndOweBind(s1, leg.ct.secret)
             t == [c EXCEPT !.pq_inflight = Idle, !.pending_side_band = NoLeg]
  <2>1. leg.ct.secret \in Secret  BY <1>3, LegFields DEF Ciphertexts
  <2>2. \A o \in SUBSET Leg : [s EXCEPT !.opened = o] \in SessionInner  BY DEF SessionInner
  <2>3. s1 \in SessionInner  BY <1>1, <2>2
  <2> HIDE DEF s1
  <2>4. c \in SessionInner  BY <2>1, <2>3, CommitPqType
  <2> HIDE DEF c
  <2>5. t \in SessionInner  BY <2>4, InflightTypes DEF SessionInner
  <2> HIDE DEF t
  <2>6. BindRatchet(s, leg) \in {t, s1}  BY DEF BindRatchet, t, c, s1
  <2> QED  BY <2>3, <2>5, <2>6
<1> QED  BY <1>2, <1>3

\* Both ends of an A.5 exchange map a session and a leg to a session.
LEMMA RekeyTypes ==
    ASSUME NEW s \in SessionInner, NEW leg \in Leg
    PROVE  /\ leg.kind = "rekey_upd" => RespondRekey(s, leg) \in SessionInner
           /\ leg.kind = "rekey_commit" => ApplyRekey(s, leg) \in SessionInner
<1>1. ASSUME leg.kind = "rekey_upd" PROVE RespondRekey(s, leg) \in SessionInner
  <2> DEFINE stamped == [s EXCEPT !.last_cross_injected_pq = s.recv_pq]
             cross == IF RecvPqLeafSpent(s) THEN 0 ELSE s.recv_pq
             leaves == [mine |-> s.client, theirs |-> leg.id]
             commit == PqCommitLeg(s.send_pq, cross, leaves)
             psks == stamped.psk_stores \cup
                         (IF RecvPqLeafSpent(s) THEN {} ELSE {RecvPsk(s.recv_pq)})
             t == [stamped EXCEPT !.send_pq = @ + 1, !.send_pq_leaf = leaves,
                                  !.pq_inflight = RekeyResponded, !.pending_side_band = commit]
             u == [stamped EXCEPT !.psk_stores = psks]
  <2>1. leaves \in LeafPair  BY <1>1, LegFields, SessionFields DEF LeafPair
  <2> HIDE DEF leaves
  <2>2. cross \in Nat  BY SessionFields
  <2> HIDE DEF cross
  <2>3. commit \in Leg  BY <2>1, <2>2, LegTypes, SessionFields
  <2> HIDE DEF commit
  <2>4. stamped \in SessionInner  BY DEF SessionInner
  <2> HIDE DEF stamped
  <2>5. psks \in SUBSET StoredPsk  BY <2>4, SessionFields DEF RecvPsk, StoredPsk
  <2> HIDE DEF psks
  <2>6. stamped.send_pq + 1 \in Nat  BY <2>4, SessionFields
  <2>8. t \in SessionInner  BY <2>1, <2>3, <2>4, <2>6, FoundedType, InflightTypes
  <2>9. u \in SessionInner  BY <2>4, <2>5 DEF SessionInner
  <2> HIDE DEF t, u
  <2>10. RespondRekey(s, leg) \in {t, u}
    BY DEF RespondRekey, t, u, commit, leaves, cross, psks, stamped
  <2> QED  BY <2>8, <2>9, <2>10
<1>2. ASSUME leg.kind = "rekey_commit" PROVE ApplyRekey(s, leg) \in SessionInner
  <2> DEFINE s1 == PreRegister(s)
             leaves == [mine |-> leg.leaves.theirs, theirs |-> leg.leaves.mine]
             psks == IF SendPqLeafSpent(s) THEN s1.psk_stores
                     ELSE s1.psk_stores \ {SendPsk(s.send_pq)}
             s2 == [s1 EXCEPT !.pq_inflight = Idle, !.recv_pq = @ + 1, !.recv_pq_update = 0,
                              !.recv_pq_leaf = leaves, !.psk_stores = psks]
  <2>1. leaves \in LeafPair  BY <1>2, LegFields DEF LeafPair
  <2> HIDE DEF leaves
  <2>2. s1 \in SessionInner  BY SideBandTypes
  <2> HIDE DEF s1
  <2>3. psks \in SUBSET StoredPsk  BY <2>2, SessionFields
  <2> HIDE DEF psks
  <2>4. s1.recv_pq + 1 \in Nat  BY <2>2, SessionFields
  <2>6. s2 \in SessionInner  BY <2>1, <2>2, <2>3, <2>4, RekeyedType, InflightTypes
  <2> HIDE DEF s2
  <2>7. ApplyRekey(s, leg) \in {ExportAndOweBind(s2), s1}
    BY DEF ApplyRekey, s2, s1, psks, leaves
  <2> QED  BY <2>2, <2>6, <2>7, SideBandTypes
<1> QED  BY <1>1, <1>2

\* The A.4 and A.5 handlers keep the types.
LEMMA TypeRound ==
    ASSUME TypeOK, NEW p \in Party,
           \/ PqRatchetRespond(p) \/ PqRatchetBind(p) \/ PqRekeyRespond(p) \/ PqRekeyApply(p)
    PROVE  TypeOK'
<1>1. session[p] \in SessionInner /\ fresh \in Nat /\ \A l \in legs : l.leg \in Leg  BY DEF TypeOK
<1>2. PICK t \in SessionInner : session' = [session EXCEPT ![p] = t]
  BY <1>1, RatchetTypes, RekeyTypes DEF PqRatchetRespond, PqRatchetBind, PqRekeyRespond, PqRekeyApply
<1>3. UNCHANGED <<frames, legs>> /\ fresh' \in {fresh, fresh + 1}
  BY DEF PqRatchetRespond, PqRatchetBind, PqRekeyRespond, PqRekeyApply
<1> QED  BY <1>1, <1>2, <1>3, UpdateType DEF TypeOK

\* Every step of every handler keeps both sessions and the wire well typed.
LEMMA TypeNext == TypeOK /\ [Next]_vars => TypeOK'
<1> SUFFICES ASSUME TypeOK, [Next]_vars PROVE TypeOK'  OBVIOUS
<1>1. CASE UNCHANGED vars  BY <1>1 DEF vars, TypeOK
<1>2. CASE Next
  BY <1>2, TypeEncrypt, TypeMessaging, TypeOutbound, TypeBootstrap, TypeRound DEF Next
<1> QED  BY <1>1, <1>2

\* In every behaviour both sessions and every frame on the wire are well typed,
\* whatever the windows and bounds.
THEOREM TypeCorrect == Spec => []TypeOK
<1>1. TypeOK /\ [Next]_vars => TypeOK'  BY TypeNext
<1> QED  BY <1>1, TypeInit, PTL DEF Spec

----------------------------------------------------------------------------
(* The classical halves stay in step.  A handler of p is described by how  *)
(* it moves the seven fields InStep speaks of: s before, t after, r the    *)
(* peer's session.                                                         *)

\* p's send group stays, or p commits with the mirror at its epoch.
WriterMove(s, t, r) ==
    \/ t.send_cl = s.send_cl /\ t.current_staple = s.current_staple
    \/ /\ r.recv_cl = s.send_cl
       /\ t.send_cl = s.send_cl + 1
       /\ t.current_staple.epoch = s.send_cl

\* p's mirror stays, or takes the one epoch it misses.
ReaderMove(s, t, r) ==
    \/ t.recv_cl = s.recv_cl
    \/ t.recv_cl = s.recv_cl + 1 /\ s.recv_cl < r.send_cl

\* p's offers are reached and its license is true after the step.
EvidenceKept(t, r) ==
    /\ t.pending_proposal_message.epoch <= t.recv_cl
    /\ t.offered_proposal.epoch <= r.recv_cl
    /\ t.peer_applied_send_epoch <= t.send_cl
    /\ t.queued_proposal # NoOffer \/ PeerAppliedOurSendEpoch(t) => r.recv_cl = t.send_cl

\* The step leaves the classical halves alone and at most drops the pending Upd.
SameClassical(s, t) ==
    /\ t.send_cl = s.send_cl /\ t.recv_cl = s.recv_cl
    /\ t.current_staple = s.current_staple
    /\ t.offered_proposal = s.offered_proposal /\ t.queued_proposal = s.queued_proposal
    /\ t.peer_applied_send_epoch = s.peer_applied_send_epoch
    /\ t.pending_proposal_message \in {s.pending_proposal_message, NoOffer}

\* A step of p: it moves its own session only, and sends at most a frame with its
\* current staple and an offer its mirror has reached.
StepMove(p) ==
    /\ session'[Peer(p)] = session[Peer(p)]
    /\ WriterMove(session[p], session'[p], session[Peer(p)])
    /\ ReaderMove(session[p], session'[p], session[Peer(p)])
    /\ EvidenceKept(session'[p], session[Peer(p)])
    /\ \A f \in frames' : \/ f \in frames
                          \/ /\ f.from = p
                             /\ f.staple = session[p].current_staple
                             /\ f.offer.epoch <= session[p].recv_cl

\* Such a step keeps both parties in step.
LEMMA InStepMove ==
    ASSUME TypeOK, TypeOK', InStep, NEW p \in Party, StepMove(p)
    PROVE  InStep'
<1> DEFINE q == Peer(p)  s == session[p]  t == session'[p]  r == session[q]
<1>1. q \in Party /\ q # p /\ Peer(q) = p /\ \A x \in Party : x = p \/ x = q
  BY PeerType DEF Party
<1>2. s \in SessionInner /\ t \in SessionInner /\ r \in SessionInner  BY <1>1 DEF TypeOK
<1>3. /\ s.send_cl \in Nat /\ s.recv_cl \in Nat /\ t.send_cl \in Nat /\ t.recv_cl \in Nat
      /\ r.send_cl \in Nat /\ r.recv_cl \in Nat
      /\ s.current_staple.epoch \in Nat /\ t.current_staple.epoch \in Nat
      /\ r.current_staple.epoch \in Nat
      /\ r.pending_proposal_message.epoch \in Nat /\ r.offered_proposal.epoch \in Nat
      /\ r.peer_applied_send_epoch \in Nat
  BY <1>2, SessionFields DEF Staple, Offer
<1>4. \A f \in frames \cup frames' : f.staple.epoch \in Nat /\ f.offer.epoch \in Nat
  BY DEF TypeOK, Frame, Staple, Offer
<1>5. /\ MirrorClose(p) /\ StaplesBehind(p) /\ OffersReached(p) /\ LicenseIsTrue(p)
      /\ MirrorClose(q) /\ StaplesBehind(q) /\ OffersReached(q) /\ LicenseIsTrue(q)
  BY <1>1 DEF InStep
<1> USE DEF StepMove
<1>6. MirrorClose(p)' /\ MirrorClose(q)'
  BY <1>1, <1>3, <1>5 DEF MirrorClose, WriterMove, ReaderMove
<1>7. StaplesBehind(p)'
  BY <1>1, <1>3, <1>4, <1>5 DEF StaplesBehind, WriterMove
<1>8. StaplesBehind(q)'
  BY <1>1, <1>3, <1>4, <1>5 DEF StaplesBehind
<1>9. OffersReached(p)'
  BY <1>1, <1>3, <1>4, <1>5 DEF OffersReached, EvidenceKept
<1>10. OffersReached(q)'
  BY <1>1, <1>3, <1>4, <1>5 DEF OffersReached, ReaderMove, EvidenceKept
<1>11. LicenseIsTrue(p)'
  BY <1>1, <1>3, <1>5 DEF LicenseIsTrue, EvidenceKept, PeerAppliedOurSendEpoch
<1>12. LicenseIsTrue(q)'
  BY <1>1, <1>3, <1>5 DEF LicenseIsTrue, ReaderMove, MirrorClose, PeerAppliedOurSendEpoch
<1> QED  BY <1>1, <1>6, <1>7, <1>8, <1>9, <1>10, <1>11, <1>12 DEF InStep

\* A step that leaves the classical halves alone, and may send the pending Upd.
LEMMA QuietMove ==
    ASSUME TypeOK, InStep, NEW p \in Party,
           session'[Peer(p)] = session[Peer(p)],
           SameClassical(session[p], session'[p]),
           \A f \in frames' : \/ f \in frames
                              \/ /\ f.from = p
                                 /\ f.staple = session[p].current_staple
                                 /\ f.offer = session[p].pending_proposal_message
    PROVE  StepMove(p)
<1> DEFINE q == Peer(p)  s == session[p]  t == session'[p]  r == session[q]
<1>1. q \in Party /\ q # p /\ Peer(q) = p  BY PeerType
<1>2. s \in SessionInner  BY DEF TypeOK
<1>3. OffersReached(p) /\ OffersReached(q) /\ LicenseIsTrue(p)  BY <1>1 DEF InStep
<1>4. NoOffer.epoch <= s.recv_cl  BY <1>2, SessionFields DEF NoOffer
<1>5. EvidenceKept(t, r)
  BY <1>1, <1>3, <1>4
  DEF SameClassical, EvidenceKept, OffersReached, LicenseIsTrue, PeerAppliedOurSendEpoch
<1>6. WriterMove(s, t, r) /\ ReaderMove(s, t, r)
  BY DEF SameClassical, WriterMove, ReaderMove
<1>7. s.pending_proposal_message.epoch <= s.recv_cl  BY <1>1, <1>3 DEF OffersReached
<1> QED  BY <1>5, <1>6, <1>7 DEF StepMove

\* Two quiet changes in a row are one.
LEMMA SameTransitive ==
    ASSUME NEW s, NEW t, NEW u, SameClassical(s, t), SameClassical(t, u)
    PROVE  SameClassical(s, u)
  BY DEF SameClassical

\* The helpers of the side-band leave the classical halves alone.
LEMMA SideBandSame ==
    ASSUME NEW s \in SessionInner
    PROVE  /\ SameClassical(s, RewrapSideBand(s))
           /\ SameClassical(s, MaybeStageNextRound(s))
           /\ SameClassical(s, RegisterBootstrapRound(s))
           /\ SameClassical(s, ExportAndOweBind(s))
           /\ SameClassical(s, PreRegister(s))
<1>1. SameClassical(s, RewrapSideBand(s))
  BY DEF SameClassical, RewrapSideBand, SessionInner
<1>2. SameClassical(s, MaybeStageNextRound(s))
  BY DEF SameClassical, MaybeStageNextRound, StageRatchet, StageRekey, SessionInner
<1>3. SameClassical(s, RegisterBootstrapRound(s))
  BY DEF SameClassical, RegisterBootstrapRound, SessionInner
<1>4. SameClassical(s, ExportAndOweBind(s))
  BY DEF SameClassical, ExportAndOweBind, CommitPqAndOweBind, SessionInner
<1>5. SameClassical(s, PreRegister(s))
  BY DEF SameClassical, PreRegister, SessionInner
<1> QED  BY <1>1, <1>2, <1>3, <1>4, <1>5

\* No side-band handler touches the classical halves or sends a message frame.
LEMMA SideBandActionSame ==
    ASSUME TypeOK, NEW p \in Party,
           \/ PqPendingOutbound(p) \/ PqTakePendingOutbound(p)
           \/ PqBootstrapBegin(p) \/ PqBootstrapEnvelope(p)
           \/ ProcessSideBand(p)
    PROVE  /\ SameClassical(session[p], session'[p])
           /\ session'[Peer(p)] = session[Peer(p)]
           /\ frames' = frames
<1> DEFINE s == session[p]
<1>1. s \in SessionInner /\ session \in [Party -> SessionInner]  BY DEF TypeOK
<1>2. Peer(p) \in Party /\ Peer(p) # p  BY PeerType
<1> USE <1>1, <1>2
<1>3. ASSUME NEW t, session' = [session EXCEPT ![p] = t]
      PROVE  session'[p] = t /\ session'[Peer(p)] = session[Peer(p)]
  BY <1>3
<1>4. CASE PqPendingOutbound(p)
  BY <1>4 DEF PqPendingOutbound, SameClassical
<1>5. CASE PqTakePendingOutbound(p)
  BY <1>5 DEF PqTakePendingOutbound, SameClassical, SessionInner
<1>6. CASE PqBootstrapBegin(p) \/ PqBootstrapEnvelope(p)
  BY <1>3, <1>6, SideBandSame DEF PqBootstrapBegin, PqBootstrapEnvelope
<1>7. CASE PqBootstrapRespond(p)
  BY <1>7 DEF PqBootstrapRespond, RespondBootstrap, SameClassical, SessionInner
<1>8. CASE PqBootstrapBind(p)
  BY <1>8 DEF PqBootstrapBind, ExportAndOweBind, CommitPqAndOweBind, SameClassical, SessionInner
<1>9. CASE PqRatchetRespond(p)
  BY <1>9 DEF PqRatchetRespond, RespondRatchet, SameClassical, SessionInner
<1>10. CASE PqRatchetBind(p)
  BY <1>10 DEF PqRatchetBind, BindRatchet, CommitPqAndOweBind, SameClassical, SessionInner
<1>11. CASE PqRekeyRespond(p)
  BY <1>11 DEF PqRekeyRespond, RespondRekey, SameClassical, SessionInner
<1>12. CASE PqRekeyApply(p)
  BY <1>12
  DEF PqRekeyApply, ApplyRekey, PreRegister, ExportAndOweBind, CommitPqAndOweBind,
      SameClassical, SessionInner
<1> QED
  BY <1>4, <1>5, <1>6, <1>7, <1>8, <1>9, <1>10, <1>11, <1>12 DEF ProcessSideBand

\* Staging the Upd changes no epoch and leaves one made at the mirror's epoch.
LEMMA StageProposalMove ==
    ASSUME NEW s \in SessionInner, NEW selected \in Nat,
           s.pending_proposal_message.epoch <= s.recv_cl
    PROVE  LET t == StageProposal(s, selected)
           IN  /\ t.send_cl = s.send_cl /\ t.recv_cl = s.recv_cl
               /\ t.current_staple = s.current_staple
               /\ t.offered_proposal = s.offered_proposal
               /\ t.queued_proposal = s.queued_proposal
               /\ t.peer_applied_send_epoch = s.peer_applied_send_epoch
               /\ t.pending_proposal_message.epoch <= s.recv_cl
<1> DEFINE id == Admitted(s, selected)
           s1 == IF selected = 0 /\ id # 0 THEN [s EXCEPT !.deferred_candidate = 0] ELSE s
           s2 == IF id # 0 THEN AdmitCandidate(s1, id) ELSE s1
           offer == [epoch |-> s.recv_cl, id |-> IF id # 0 THEN id ELSE s.client]
           staged == [s2 EXCEPT !.pending_proposal_hash = TRUE,
                                !.pending_proposal_message = offer]
<1>1. id \in Nat  BY SessionFields DEF Admitted
<1> HIDE DEF id
<1>2. s1 \in SessionInner /\ SameClassical(s, s1)  BY DEF SessionInner, SameClassical
<1> HIDE DEF s1
<1>3. s2 \in SessionInner /\ SameClassical(s, s2)
  <2>1. s1.staged_candidates \cup {id} \in SUBSET Nat  BY <1>1, <1>2, SessionFields
  <2>2. \A c \in SUBSET Nat : LET u == [s1 EXCEPT !.staged_candidates = c]
                              IN  u \in SessionInner /\ SameClassical(s1, u)
    BY <1>2 DEF SessionInner, SameClassical
  <2>3. LET u == [s1 EXCEPT !.deferred_candidate = id] IN u \in SessionInner /\ SameClassical(s1, u)
    BY <1>1, <1>2 DEF SessionInner, SameClassical
  <2>4. LET u == [s1 EXCEPT !.staged_candidates = @ \cup {id}]
        IN  u \in SessionInner /\ SameClassical(s1, u)
    BY <2>1, <2>2
  <2>5. LET u == AdmitCandidate(s1, id) IN u \in SessionInner /\ SameClassical(s1, u)
    BY <1>2, <2>3, <2>4 DEF AdmitCandidate, SameClassical
  <2> QED  BY <1>2, <2>5, SameTransitive
<1> HIDE DEF s2
<1>4. offer \in Offer /\ offer.epoch = s.recv_cl  BY <1>1, SessionFields DEF Offer
<1> HIDE DEF offer
<1>5. /\ staged \in SessionInner
      /\ staged.pending_proposal_message = offer
      /\ staged.send_cl = s2.send_cl /\ staged.recv_cl = s2.recv_cl
      /\ staged.current_staple = s2.current_staple
      /\ staged.offered_proposal = s2.offered_proposal
      /\ staged.queued_proposal = s2.queued_proposal
      /\ staged.peer_applied_send_epoch = s2.peer_applied_send_epoch
  BY <1>3, <1>4 DEF SessionInner, SameClassical
<1> HIDE DEF staged
<1>6. SameClassical(staged, RewrapSideBand(staged))  BY <1>5, SideBandSame
<1>7. StageProposal(s, selected) \in {s2, RewrapSideBand(staged)}
  BY DEF StageProposal, staged, offer, s2, s1, id
<1>8. NoOffer.epoch <= s.recv_cl /\ s.recv_cl <= s.recv_cl  BY SessionFields DEF NoOffer
<1> QED  BY <1>3, <1>4, <1>5, <1>6, <1>7, <1>8 DEF SameClassical

\* A prepare commits only on a true license; then the mirror is one behind.
LEMMA PrepareMove ==
    ASSUME TypeOK, InStep, NEW p \in Party, NEW selected \in Ids,
           PrepareToEncrypt(p, selected)
    PROVE  StepMove(p)
<1> DEFINE q == Peer(p)  s == session[p]  t == session'[p]  r == session[q]
<1>1. q \in Party /\ q # p /\ Peer(q) = p  BY PeerType
<1>2. s \in SessionInner /\ r \in SessionInner  BY <1>1 DEF TypeOK
<1>3. /\ r = session'[q]
      /\ t = IF Joined(s) THEN PrepareRatchetCommit(s, selected) ELSE PreparePreEstablishment(s)
      /\ frames' = frames
  BY <1>1 DEF PrepareToEncrypt, TypeOK
<1>4. OffersReached(p) /\ OffersReached(q) /\ LicenseIsTrue(p)  BY <1>1 DEF InStep
<1>5. s.pending_proposal_message.epoch <= s.recv_cl /\ s.offered_proposal.epoch <= r.recv_cl
  BY <1>1, <1>4 DEF OffersReached
<1>6. selected \in Nat  BY BoundAssumption DEF Ids
<1>7. /\ s.send_cl \in Nat /\ s.recv_cl \in Nat /\ r.recv_cl \in Nat
      /\ s.peer_applied_send_epoch \in Nat
  BY <1>2, SessionFields
<1> HIDE DEF s, t, r, q
<1>8. CASE ~Joined(s)
  <2> DEFINE u == [s EXCEPT !.pending_proposal_hash = TRUE, !.pending_proposal_message = NoOffer]
  <2>1. u \in SessionInner /\ SameClassical(s, u)
    BY <1>2, AbsentTypes DEF SessionInner, SameClassical
  <2> HIDE DEF u
  <2>2. SameClassical(u, RewrapSideBand(u))  BY <2>1, SideBandSame
  <2>3. SameClassical(s, t)
    BY <1>3, <1>8, <2>1, <2>2, SameTransitive DEF PreparePreEstablishment, u
  <2> QED  BY <1>3, <2>3, QuietMove DEF s, t, r, q
<1>9. CASE Joined(s) /\ ~DidCommit(s)
  <2>1. t = StageProposal(s, selected)  BY <1>3, <1>9 DEF PrepareRatchetCommit
  <2>2. EvidenceKept(t, r) /\ WriterMove(s, t, r) /\ ReaderMove(s, t, r)
    BY <1>2, <1>4, <1>5, <1>6, <2>1, StageProposalMove
    DEF EvidenceKept, WriterMove, ReaderMove, LicenseIsTrue, PeerAppliedOurSendEpoch, s, r, q
  <2> QED  BY <1>3, <2>2 DEF StepMove, s, t, r, q
<1>10. CASE Joined(s) /\ DidCommit(s) /\ ~ReservationHolds(s)
  <2>1. t = FailedDischarge(s)  BY <1>3, <1>10 DEF PrepareRatchetCommit
  <2>2. /\ t.send_cl = s.send_cl /\ t.recv_cl = s.recv_cl /\ t.current_staple = s.current_staple
        /\ t.queued_proposal = NoOffer /\ t.offered_proposal = s.offered_proposal
        /\ t.pending_proposal_message = s.pending_proposal_message
        /\ t.peer_applied_send_epoch = s.peer_applied_send_epoch
    BY <1>2, <2>1 DEF FailedDischarge, SessionInner
  <2>3. EvidenceKept(t, r) /\ WriterMove(s, t, r) /\ ReaderMove(s, t, r)
    BY <1>4, <1>5, <2>2
    DEF EvidenceKept, WriterMove, ReaderMove, LicenseIsTrue, PeerAppliedOurSendEpoch, s, r, q
  <2> QED  BY <1>3, <2>3 DEF StepMove, s, t, r, q
<1>11. CASE Joined(s) /\ DidCommit(s) /\ ReservationHolds(s)
  <2> DEFINE d == DischargeAndCommit(s)
  <2>1. d \in SessionInner  BY <1>2, DischargeType
  <2>2. t = StageProposal(d, selected)  BY <1>3, <1>11 DEF PrepareRatchetCommit
  <2>3. /\ d.send_cl = s.send_cl + 1 /\ d.recv_cl = s.recv_cl
        /\ d.current_staple.epoch = s.send_cl
        /\ d.queued_proposal = NoOffer /\ d.offered_proposal = NoOffer
        /\ d.pending_proposal_message = s.pending_proposal_message
        /\ d.peer_applied_send_epoch = s.peer_applied_send_epoch
    BY <1>2 DEF DischargeAndCommit, CommitStaple, SessionInner
  <2> HIDE DEF d
  <2>4. /\ t.send_cl = s.send_cl + 1 /\ t.recv_cl = s.recv_cl
        /\ t.current_staple.epoch = s.send_cl
        /\ t.queued_proposal = NoOffer /\ t.offered_proposal = NoOffer
        /\ t.pending_proposal_message.epoch <= s.recv_cl
        /\ t.peer_applied_send_epoch = s.peer_applied_send_epoch
    BY <1>5, <1>6, <2>1, <2>2, <2>3, StageProposalMove
  <2>5. r.recv_cl = s.send_cl /\ s.peer_applied_send_epoch <= s.send_cl
    BY <1>4, <1>11 DEF LicenseIsTrue, DidCommit, s, r, q
  <2>6. NoOffer.epoch <= r.recv_cl  BY <1>7 DEF NoOffer
  <2>7. EvidenceKept(t, r)
    BY <1>7, <2>4, <2>5, <2>6 DEF EvidenceKept, PeerAppliedOurSendEpoch
  <2>8. WriterMove(s, t, r) /\ ReaderMove(s, t, r)
    BY <2>4, <2>5 DEF WriterMove, ReaderMove
  <2> QED  BY <1>3, <2>7, <2>8 DEF StepMove, s, t, r, q
<1> QED  BY <1>8, <1>9, <1>10, <1>11

\* encrypt sends the staple and the pending Upd, and drops the latter.
LEMMA EncryptSame ==
    ASSUME TypeOK, NEW p \in Party, Encrypt(p)
    PROVE  /\ SameClassical(session[p], session'[p])
           /\ session'[Peer(p)] = session[Peer(p)]
           /\ \A f \in frames' : \/ f \in frames
                                 \/ /\ f.from = p
                                    /\ f.staple = session[p].current_staple
                                    /\ f.offer = session[p].pending_proposal_message
<1> DEFINE s == session[p]
<1>1. s \in SessionInner /\ session \in [Party -> SessionInner]  BY DEF TypeOK
<1>2. Peer(p) \in Party /\ Peer(p) # p  BY PeerType
<1>3. CASE EncryptFrame(p)
  <2> DEFINE u == [s EXCEPT !.pending_proposal_hash = FALSE, !.pending_proposal_message = NoOffer]
  <2>1. u \in SessionInner /\ SameClassical(s, u)
    BY <1>1, AbsentTypes DEF SessionInner, SameClassical
  <2>2. session'[p] = AfterEncrypt(s) /\ session'[Peer(p)] = session[Peer(p)]
    BY <1>1, <1>2, <1>3 DEF EncryptFrame, ComposeFrame, MessageFrame
  <2>3. frames' = frames \cup {[from |-> p, staple |-> s.current_staple,
                                offer |-> s.pending_proposal_message]}
    BY <1>3 DEF EncryptFrame, ComposeFrame, MessageFrame
  <2>4. SameClassical(s, MaybeStageNextRound(RewrapSideBand(u)))
    <3> HIDE DEF u, s
    <3>1. RewrapSideBand(u) \in SessionInner  BY <2>1, RewrapType
    <3>2. SameClassical(s, RewrapSideBand(u))  BY <2>1, SideBandSame, SameTransitive
    <3> QED  BY <3>1, <3>2, SideBandSame, SameTransitive
  <2>5. SameClassical(s, session'[p])  BY <2>2, <2>4 DEF AfterEncrypt
  <2> QED  BY <2>2, <2>3, <2>5
<1>4. CASE EncryptWithoutProposal(p)
  <2>1. SameClassical(s, session'[p]) /\ session'[Peer(p)] = session[Peer(p)] /\ frames' = frames
    BY <1>1, <1>2, <1>4 DEF EncryptWithoutProposal, SameClassical, SessionInner
  <2> QED  BY <2>1
<1> QED  BY <1>3, <1>4 DEF Encrypt

\* So it moves neither half.
LEMMA EncryptMove ==
    ASSUME TypeOK, InStep, NEW p \in Party, Encrypt(p)
    PROVE  StepMove(p)
  BY EncryptSame, QuietMove

\* A staple moves the mirror by one epoch, from the epoch it was made in, or not
\* at all; nothing else of the classical halves moves.
LEMMA ProcessStapleMove ==
    ASSUME NEW s \in SessionInner, NEW staple \in Staple
    PROVE  LET t == ProcessStaple(s, staple)
           IN  /\ t.send_cl = s.send_cl
               /\ t.current_staple = s.current_staple
               /\ t.offered_proposal = s.offered_proposal
               /\ t.queued_proposal = s.queued_proposal
               /\ t.peer_applied_send_epoch = s.peer_applied_send_epoch
               /\ t.pending_proposal_message = s.pending_proposal_message
               /\ \/ t.recv_cl = s.recv_cl
                  \/ /\ t.recv_cl = s.recv_cl + 1
                     /\ \/ staple.kind = "welcome" /\ s.recv_cl = 0
                        \/ staple.kind # "welcome" /\ StapleEpochAction(s, staple) # "skip"
<1>1. CASE staple.kind = "welcome"
  BY <1>1 DEF ProcessStaple, ProcessWelcome, Joined, SessionInner
<1>2. CASE staple.kind # "welcome" /\ StapleEpochAction(s, staple) = "skip"
  BY <1>2 DEF ProcessStaple
<1>3. CASE staple.kind = "commit" /\ StapleEpochAction(s, staple) # "skip"
  BY <1>3 DEF ProcessStaple, ApplyCommit, LeafChanges, SessionInner
<1>4. CASE staple.kind = "bind" /\ StapleEpochAction(s, staple) # "skip"
  BY <1>4 DEF ProcessStaple, ApplyBind, LeafChanges, SessionInner
<1>5. staple.kind \in {"welcome", "commit", "bind"}  BY DEF Staple
<1> QED  BY <1>1, <1>2, <1>3, <1>4, <1>5

\* A frame moves the reader by at most the epoch it misses, and its offer is
\* evidence only of what the mirror really applied.
LEMMA ProcessMove ==
    ASSUME TypeOK, InStep, NEW p \in Party, ProcessIncoming(p)
    PROVE  StepMove(p)
<1> DEFINE q == Peer(p)  s == session[p]  t == session'[p]  r == session[q]
<1>1. q \in Party /\ q # p /\ Peer(q) = p  BY PeerType
<1>2. s \in SessionInner /\ r \in SessionInner  BY <1>1 DEF TypeOK
<1>3. PICK f \in frames : /\ f.from = q
                          /\ StapleAdmitted(s, f.staple)
                          /\ session' = [session EXCEPT ![p] = ProcessFrame(s, f)]
                          /\ frames' = frames
  BY DEF ProcessIncoming, ProcessIncomingFrame
<1>4. f.staple \in Staple /\ f.offer \in Offer  BY DEF TypeOK, Frame
<1> DEFINE s1 == ProcessStaple(s, f.staple)
<1>5. t = ProcessFrame(s, f) /\ session'[q] = r  BY <1>1, <1>3 DEF TypeOK
<1>6. t \in {s1, RecordOffer(s1, f.offer)}  BY <1>5 DEF ProcessFrame
<1>7. s1 \in SessionInner  BY <1>2, <1>4, ProcessStapleType
<1>8. /\ MirrorClose(p) /\ OffersReached(p) /\ OffersReached(q) /\ LicenseIsTrue(p)
      /\ StaplesBehind(q)
  BY <1>1 DEF InStep
<1>9. /\ f.offer.epoch \in Nat /\ f.staple.epoch \in Nat
      /\ s.send_cl \in Nat /\ s.recv_cl \in Nat /\ r.send_cl \in Nat /\ r.recv_cl \in Nat
      /\ s.pending_proposal_message.epoch \in Nat /\ r.current_staple.epoch \in Nat
  BY <1>2, <1>4, SessionFields DEF Offer, Staple
<1>10. /\ f.offer.epoch <= r.recv_cl /\ f.staple.epoch < r.send_cl /\ r.send_cl > 0
       /\ r.recv_cl <= s.send_cl
       /\ s.pending_proposal_message.epoch <= s.recv_cl /\ s.offered_proposal.epoch <= r.recv_cl
  BY <1>1, <1>3, <1>8, <1>9 DEF OffersReached, StaplesBehind, MirrorClose
<1>11. f.staple.kind # "welcome" /\ StapleEpochAction(s, f.staple) # "skip" =>
           f.staple.epoch = s.recv_cl
  BY <1>3, <1>9 DEF StapleAdmitted, StapleEpochAction
<1> HIDE DEF s, t, r, q, s1
<1>12. /\ s1.send_cl = s.send_cl /\ s1.current_staple = s.current_staple
       /\ s1.offered_proposal = s.offered_proposal /\ s1.queued_proposal = s.queued_proposal
       /\ s1.peer_applied_send_epoch = s.peer_applied_send_epoch
       /\ s1.pending_proposal_message = s.pending_proposal_message
       /\ \/ s1.recv_cl = s.recv_cl
          \/ /\ s1.recv_cl = s.recv_cl + 1
             /\ \/ f.staple.kind = "welcome" /\ s.recv_cl = 0
                \/ f.staple.kind # "welcome" /\ StapleEpochAction(s, f.staple) # "skip"
  BY <1>2, <1>4, ProcessStapleMove DEF s1
<1>13. WriterMove(s, s1, r) /\ ReaderMove(s, s1, r) /\ EvidenceKept(s1, r)
  BY <1>8, <1>9, <1>10, <1>11, <1>12
  DEF WriterMove, ReaderMove, EvidenceKept, LicenseIsTrue, PeerAppliedOurSendEpoch, s, r, q
<1>14. LET u == RecordOffer(s1, f.offer)
       IN  WriterMove(s, u, r) /\ ReaderMove(s, u, r) /\ EvidenceKept(u, r)
  <2> DEFINE u == RecordOffer(s1, f.offer)
  <2>1. /\ u.send_cl = s1.send_cl /\ u.recv_cl = s1.recv_cl
        /\ u.current_staple = s1.current_staple /\ u.queued_proposal = s1.queued_proposal
        /\ u.pending_proposal_message = s1.pending_proposal_message
        /\ u.offered_proposal = f.offer
        /\ \/ u.peer_applied_send_epoch = s1.peer_applied_send_epoch
           \/ u.peer_applied_send_epoch = s1.send_cl /\ f.offer.epoch = s1.send_cl
    BY <1>7 DEF RecordOffer, ValidateOfferedUpdate, SessionInner
  <2> HIDE DEF u
  <2>2. WriterMove(s, u, r) /\ ReaderMove(s, u, r)
    BY <1>13, <2>1, <1>12 DEF WriterMove, ReaderMove
  <2>3. EvidenceKept(u, r)
    BY <1>9, <1>10, <1>12, <1>13, <2>1 DEF EvidenceKept, PeerAppliedOurSendEpoch
  <2> QED  BY <2>2, <2>3 DEF u
<1> QED  BY <1>3, <1>5, <1>6, <1>13, <1>14 DEF StepMove, s, t, r, q

\* The return welcome takes the unjoined mirror to its first epoch.
LEMMA WelcomeMove ==
    ASSUME TypeOK, InStep, NEW p \in Party, ProcessIncomingWelcome(p)
    PROVE  StepMove(p)
<1> DEFINE q == Peer(p)  s == session[p]  t == session'[p]  r == session[q]
<1>1. q \in Party /\ q # p /\ Peer(q) = p  BY PeerType
<1>2. s \in SessionInner /\ r \in SessionInner  BY <1>1 DEF TypeOK
<1>3. t = ProcessWelcome(s) /\ session'[q] = r /\ frames' = frames /\ ~Joined(s)
  BY <1>1 DEF ProcessIncomingWelcome, TypeOK
<1>4. OffersReached(p) /\ OffersReached(q) /\ LicenseIsTrue(p) /\ StaplesBehind(q)
  BY <1>1 DEF InStep
<1>5. /\ s.recv_cl \in Nat /\ r.send_cl \in Nat /\ r.current_staple.epoch \in Nat
      /\ s.pending_proposal_message.epoch \in Nat
  BY <1>2, SessionFields DEF Staple, Offer
<1>6. /\ s.recv_cl = 0 /\ t.recv_cl = 1 /\ t.send_cl = s.send_cl
      /\ t.current_staple = s.current_staple
      /\ t.offered_proposal = s.offered_proposal /\ t.queued_proposal = s.queued_proposal
      /\ t.pending_proposal_message = s.pending_proposal_message
      /\ t.peer_applied_send_epoch = s.peer_applied_send_epoch
  BY <1>2, <1>3, <1>5 DEF ProcessWelcome, Joined, SessionInner
<1>7. r.send_cl > 0  BY <1>4, <1>5 DEF StaplesBehind
<1>8. s.pending_proposal_message.epoch <= s.recv_cl /\ s.offered_proposal.epoch <= r.recv_cl
  BY <1>1, <1>4 DEF OffersReached
<1>9. EvidenceKept(t, r)
  BY <1>4, <1>5, <1>6, <1>8 DEF EvidenceKept, LicenseIsTrue, PeerAppliedOurSendEpoch
<1>10. WriterMove(s, t, r) /\ ReaderMove(s, t, r)
  BY <1>6, <1>7 DEF WriterMove, ReaderMove
<1> QED  BY <1>3, <1>9, <1>10 DEF StepMove

\* The offer the host approves is bound to the current epoch, so its maker, the
\* mirror, has applied that epoch.
LEMMA QueueMove ==
    ASSUME TypeOK, InStep, NEW p \in Party, QueueProposal(p)
    PROVE  StepMove(p)
<1> DEFINE q == Peer(p)  s == session[p]  t == session'[p]  r == session[q]
<1>1. q \in Party /\ q # p /\ Peer(q) = p  BY PeerType
<1>2. s \in SessionInner /\ r \in SessionInner  BY <1>1 DEF TypeOK
<1>3. /\ session'[q] = r /\ frames' = frames
      /\ s.offered_proposal.epoch = s.send_cl
      /\ t.send_cl = s.send_cl /\ t.recv_cl = s.recv_cl /\ t.current_staple = s.current_staple
      /\ t.queued_proposal = s.offered_proposal /\ t.offered_proposal = NoOffer
      /\ t.pending_proposal_message = s.pending_proposal_message
      /\ t.peer_applied_send_epoch = s.peer_applied_send_epoch
  BY <1>1, <1>2 DEF QueueProposal, ValidateOfferedUpdate, TypeOK, SessionInner
<1>4. MirrorClose(p) /\ OffersReached(p) /\ OffersReached(q) /\ LicenseIsTrue(p)
  BY <1>1 DEF InStep
<1>5. s.send_cl \in Nat /\ r.recv_cl \in Nat  BY <1>2, SessionFields
<1>6. r.recv_cl = s.send_cl  BY <1>3, <1>4, <1>5 DEF MirrorClose, OffersReached
<1>7. NoOffer.epoch <= r.recv_cl  BY <1>5 DEF NoOffer
<1>8. s.pending_proposal_message.epoch <= s.recv_cl  BY <1>1, <1>4 DEF OffersReached
<1>9. EvidenceKept(t, r)
  BY <1>3, <1>4, <1>6, <1>7, <1>8 DEF EvidenceKept, LicenseIsTrue
<1>10. WriterMove(s, t, r) /\ ReaderMove(s, t, r)  BY <1>3 DEF WriterMove, ReaderMove
<1> QED  BY <1>3, <1>9, <1>10 DEF StepMove

\* Every step of the system is such a step of one party.
LEMMA NextMove ==
    ASSUME TypeOK, InStep, Next
    PROVE  \E p \in Party : StepMove(p)
<1>1. ASSUME NEW p \in Party,
             \/ PqPendingOutbound(p) \/ PqTakePendingOutbound(p)
             \/ PqBootstrapBegin(p) \/ PqBootstrapEnvelope(p) \/ ProcessSideBand(p)
      PROVE  StepMove(p)
  BY <1>1, SideBandActionSame, QuietMove
<1> QED
  BY <1>1, PrepareMove, EncryptMove, ProcessMove, WelcomeMove, QueueMove DEF Next, ProcessSideBand

\* The two sessions start in step.
LEMMA InStepInit == Init => InStep
<1> SUFFICES ASSUME Init PROVE InStep  OBVIOUS
<1>1. /\ session["initiator"] = Initiate /\ session["acceptor"] = AcceptWith
      /\ frames = {} /\ Peer("initiator") = "acceptor" /\ Peer("acceptor") = "initiator"
  BY DEF Init, Party, Peer
<1>2. /\ Initiate.send_cl = 1 /\ Initiate.recv_cl = 0 /\ Initiate.current_staple = Welcome
      /\ Initiate.pending_proposal_message = NoOffer /\ Initiate.offered_proposal = NoOffer
      /\ Initiate.queued_proposal = NoOffer /\ Initiate.peer_applied_send_epoch = 0
  BY DEF Initiate, NewSession
<1>3. /\ AcceptWith.send_cl = 1 /\ AcceptWith.recv_cl = 1 /\ AcceptWith.current_staple = Welcome
      /\ AcceptWith.pending_proposal_message = NoOffer /\ AcceptWith.offered_proposal = NoOffer
      /\ AcceptWith.queued_proposal = NoOffer /\ AcceptWith.peer_applied_send_epoch = 0
  BY DEF AcceptWith, NewSession
<1>4. NoOffer.epoch = 0 /\ Welcome.epoch = 0 /\ Welcome.kind = "welcome"  BY DEF NoOffer, Welcome
<1> QED
  BY <1>1, <1>2, <1>3, <1>4
  DEF InStep, Party, MirrorClose, StaplesBehind, OffersReached, LicenseIsTrue,
      PeerAppliedOurSendEpoch

\* In every behaviour, for every window and bound, a writer is at most one epoch
\* ahead of its mirror, every frame's staple is behind its writer, and whatever
\* licenses a commit is true.
THEOREM StaysInStep == Spec => []InStep
<1>1. TypeOK /\ TypeOK' /\ InStep /\ [Next]_vars => InStep'
  <2> SUFFICES ASSUME TypeOK, TypeOK', InStep, [Next]_vars PROVE InStep'  OBVIOUS
  <2>1. CASE Next  BY <2>1, NextMove, InStepMove
  <2>2. CASE UNCHANGED vars
    BY <2>2 DEF vars, InStep, MirrorClose, StaplesBehind, OffersReached, LicenseIsTrue
  <2> QED  BY <2>1, <2>2
<1> QED  BY <1>1, InStepInit, TypeCorrect, PTL DEF Spec

\* A frame behind its writer is at most at the epoch of its reader.
LEMMA InStepNoDesync == TypeOK /\ InStep => NoEpochDesync
<1> SUFFICES ASSUME TypeOK, InStep, NEW f \in frames
             PROVE  LET s == session[Peer(f.from)]
                    IN  IF Joined(s) THEN StapleEpochAction(s, f.staple) # "desync"
                        ELSE f.staple.kind = "welcome"
  BY DEF NoEpochDesync
<1> DEFINE p == f.from  s == session[Peer(p)]
<1>1. p \in Party /\ Peer(p) \in Party /\ f.staple \in Staple  BY PeerType DEF TypeOK, Frame
<1>2. s.recv_cl \in Nat /\ session[p].send_cl \in Nat /\ f.staple.epoch \in Nat
  BY <1>1, SessionFields DEF TypeOK, Staple
<1>3. MirrorClose(p) /\ StaplesBehind(p)  BY <1>1 DEF InStep
<1>4. f.staple.epoch <= s.recv_cl /\ (f.staple.epoch = 0 => f.staple.kind = "welcome")
  BY <1>2, <1>3 DEF MirrorClose, StaplesBehind
<1> HIDE DEF p, s
<1>5. Joined(s) => StapleEpochAction(s, f.staple) # "desync"
  BY <1>2, <1>4 DEF StapleEpochAction
<1>6. ~Joined(s) => f.staple.kind = "welcome"  BY <1>2, <1>4 DEF Joined
<1> QED  BY <1>5, <1>6 DEF p, s

\* No frame ever sent, however late or often it arrives, makes process_incoming
\* answer EpochDesync, or reaches an unjoined party with anything but the welcome.
THEOREM NeverDesyncs == Spec => []NoEpochDesync
  BY InStepNoDesync, TypeCorrect, StaysInStep, PTL

\* A staple is replaced only when the peer has applied the epoch it leads to.
THEOREM StapleKept == Spec => StapleNotDisplaced
<1> DEFINE Kept == \A p \in Party :
                      session'[p].current_staple # session[p].current_staple =>
                          session[Peer(p)].recv_cl = session[p].send_cl
<1>1. TypeOK /\ InStep /\ [Next]_vars => [Kept]_vars
  <2> SUFFICES ASSUME TypeOK, InStep, Next PROVE Kept  BY DEF Kept
  <2>1. PICK p \in Party : StepMove(p)  BY NextMove
  <2>2. \A x \in Party : x = p \/ x = Peer(p)  BY DEF Party, Peer
  <2> QED  BY <2>1, <2>2 DEF StepMove, WriterMove
<1> QED  BY <1>1, TypeCorrect, StaysInStep, PTL DEF Spec, StapleNotDisplaced

\* The classical half of each send group implements SendChannel: the writer opens
\* an epoch only when the mirror has the one before, the mirror follows one by one.
THEOREM ClassicalRefinement == Spec => ClassicalIsStopAndWait
<1> DEFINE committed == [p \in Party |-> session[p].send_cl]
           applied == [p \in Party |-> session[Peer(p)].recv_cl]
<1>1. Init => Classical!Init
  <2> SUFFICES ASSUME Init, NEW w \in Party
               PROVE  /\ committed[w] \in {0, 1} /\ applied[w] \in {0, 1}
                      /\ applied[w] <= committed[w]
    BY DEF Classical!Init
  <2>1. session[w].send_cl = 1 /\ session[Peer(w)].recv_cl \in {0, 1}
    BY PeerType DEF Init, Initiate, AcceptWith, NewSession
  <2> QED  BY <2>1
<1>2. TypeOK /\ InStep /\ [Next]_vars => [Classical!Next]_(Classical!chan)
  <2> SUFFICES ASSUME TypeOK, InStep, [Next]_vars
               PROVE  [Classical!Next]_(Classical!chan)
    OBVIOUS
  <2>1. CASE UNCHANGED vars  BY <2>1 DEF vars, Classical!chan
  <2>2. CASE Next
    <3>1. PICK p \in Party : StepMove(p)  BY <2>2, NextMove
    <3> DEFINE q == Peer(p)
    <3>2. q \in Party /\ Peer(q) = p /\ \A x \in Party : x = p \/ x = q  BY PeerType DEF Party
    <3>3. /\ session[p].send_cl \in Nat /\ session[q].send_cl \in Nat
          /\ session[p].recv_cl \in Nat /\ session[q].recv_cl \in Nat
      BY <3>2, SessionFields DEF TypeOK
    <3>4. Classical!Commit(p) \/ Classical!Rest(p)
      BY <3>1, <3>2, <3>3 DEF StepMove, WriterMove, Classical!Commit, Classical!Rest
    <3>5. Classical!Apply(q) \/ Classical!Rest(q)
      BY <3>1, <3>2, <3>3 DEF StepMove, ReaderMove, Classical!Apply, Classical!Rest
    <3> QED  BY <3>2, <3>4, <3>5 DEF Classical!Next
  <2> QED  BY <2>1, <2>2
<1> QED
  BY <1>1, <1>2, TypeCorrect, StaysInStep, PTL DEF Spec, ClassicalIsStopAndWait, Classical!Spec

=============================================================================
