--------------------------- MODULE RecoveryProofs ---------------------------
(***************************************************************************)
(* Proofs about Recovery: what is durable is never ahead of memory, nothing *)
(* on the wire and nothing the peer applied is ahead of what is durable,   *)
(* and what is durable can be restored.  When hosts transmit nothing while *)
(* a push lags, a crash changes nothing the two sessions agree on.         *)
(***************************************************************************)
EXTENDS Recovery, RoundProofs, CredentialProofs

----------------------------------------------------------------------------
(* The inductive invariant.                                                *)

\* What a session says of itself whatever its peer does: key material of an open
\* round is there, and its staple, its debt and its parked frame name no epoch
\* beyond the ones it stands at.
Sound(s) ==
    /\ s \in SessionInner
    /\ s.send_cl > 0
    /\ s.pq_inflight.kind = "Initiating" => s.pq_inflight.eph # 0
    /\ s.pq_inflight.kind = "Responding" => s.pq_inflight.ct.secret # NoSecret
    /\ s.current_staple.epoch < s.send_cl
    /\ s.current_staple.bind.pq_epoch <= s.send_pq
    /\ s.owed_bind.pq_epoch <= s.send_pq
    /\ s.pending_side_band.kind = "bootstrap_welcome" => s.send_pq > 0
    /\ s.pending_side_band.kind = "rekey_commit" => s.pending_side_band.epoch < s.send_pq

TreesOf == [send_pq : Nat, recv_pq : Nat, joined : BOOLEAN,
            send_pq_leaf : LeafPair, recv_pq_leaf : LeafPair, recv_pq_update : Nat]

\* The slots hold a sound session, but for its stores and latch, and some trees.
Saved(d) ==
    /\ Sound(SessionFromWire(d.wire)) /\ d.wire = Archived(SessionFromWire(d.wire))
    /\ d.trees \in TreesOf
    /\ d.core_newer \in BOOLEAN

Lags == [on : BOOLEAN, staple : BOOLEAN, gate : BOOLEAN]

\* What p has in memory and what it has on disk: the disk is never ahead, it is
\* level while no push is lost, and has the staple while no push of a staple is.
Behind(s, b, g) ==
    /\ b.send_cl <= s.send_cl /\ b.send_pq <= s.send_pq
    /\ ~g.on => b.send_cl = s.send_cl /\ b.send_pq = s.send_pq /\ ~g.staple
    /\ ~g.staple => b.current_staple = s.current_staple

DiskBehind(p) == Behind(session[p], disk[p].wire.body, lag[p])

\* Both copies of the peer's mirrors are at epochs that p has on disk.
MirrorsDurable(p) ==
    LET b == disk[p].wire.body
        r == session[Peer(p)]
        c == disk[Peer(p)].wire.body
    IN  /\ r.recv_cl <= b.send_cl /\ r.recv_pq <= b.send_pq
        /\ c.recv_cl <= b.send_cl /\ c.recv_pq <= b.send_pq

\* A frame, and a side-band frame, whose commits b has on disk.
FrameDurable(f, b) == f.staple.epoch < b.send_cl /\ f.staple.bind.pq_epoch <= b.send_pq

LegDurable(leg, b) ==
    /\ leg.kind = "bootstrap_welcome" => b.send_pq > 0
    /\ leg.kind = "rekey_commit" => leg.epoch < b.send_pq

WireDurable ==
    /\ \A f \in frames : FrameDurable(f, disk[f.from].wire.body)
    /\ \A l \in legs : LegDurable(l.leg, disk[l.from].wire.body)

DurableTypes ==
    /\ TypeOK /\ fresh > 0
    /\ disk = [p \in Party |-> disk[p]] /\ lag \in [Party -> Lags] /\ crashes \in Nat

DurableInv ==
    /\ DurableTypes
    /\ \A p \in Party : /\ Sound(session[p]) /\ Saved(disk[p])
                        /\ DiskBehind(p) /\ MirrorsDurable(p)
    /\ WireDurable

\* While memory and disk are level, a Core written now has the PQ epochs of the
\* Checkpoint it will be read with, and the receive group.
TreesLevel(s, t) ==
    s.send_pq = t.send_pq /\ s.recv_pq = t.recv_pq /\ (t.joined => Joined(s))

\* Unless a bind failed half-way, the slots reconcile, now and after a Core.
RestoreInv ==
    \A p \in Party :
        ~session[p].bind_apply_broken =>
            /\ Reconciles(disk[p])
            /\ ~lag[p].on => TreesLevel(session[p], disk[p].trees)

----------------------------------------------------------------------------
(* The codec.                                                              *)

\* The open round survives the wire.
LEMMA InflightRoundTrip ==
    ASSUME NEW i \in Inflight
    PROVE  LET ct == IF i.kind = "Responding" THEN i.ct ELSE NoCt
           IN  PqInflightFromWire(WirePqInflight(i), ct) = i
<1>1. CASE i.kind = "Initiating"
  <2>1. i = Initiating(i.eph)  BY <1>1, InflightKinds
  <2> QED  BY <1>1, <2>1 DEF PqInflightFromWire, WirePqInflight
<1>2. CASE i.kind = "Responding"
  <2>1. i = [kind |-> "Responding", ct |-> i.ct] /\ i.ct \in Ciphertexts
    BY <1>2 DEF Inflight, Idle, BootstrapInitiated, BootstrapResponded, RekeyInitiated, RekeyResponded
  <2>2. [i.ct EXCEPT !.secret = i.ct.secret] = i.ct  BY <2>1 DEF Ciphertexts
  <2>3. WirePqInflight(i).kind = "Responding" /\ WirePqInflight(i).secret = i.ct.secret
    BY <1>2 DEF WirePqInflight
  <2> QED  BY <1>2, <2>1, <2>2, <2>3 DEF PqInflightFromWire, Responding
<1>3. CASE i.kind \notin {"Initiating", "Responding"}
  <2>1. i = [kind |-> i.kind]
    BY <1>3 DEF Inflight, Idle, BootstrapInitiated, BootstrapResponded, RekeyInitiated, RekeyResponded
  <2>2. WirePqInflight(i).kind = i.kind  BY DEF WirePqInflight
  <2> QED  BY <1>3, <2>1, <2>2 DEF PqInflightFromWire
<1> QED  BY <1>1, <1>2, <1>3

\* What the body of a wire says.
LEMMA ArchivedFields ==
    ASSUME NEW s \in SessionInner
    PROVE  LET b == Archived(s).body
           IN  /\ b.send_cl = s.send_cl /\ b.send_pq = s.send_pq
               /\ b.recv_cl = s.recv_cl /\ b.recv_pq = s.recv_pq
               /\ b.current_staple = s.current_staple
               /\ b.pending_side_band = s.pending_side_band
               /\ b.pq_inflight = WirePqInflight(s.pq_inflight)
               /\ Joined(b) <=> Joined(s)
  BY DEF Archived, SessionInner, Joined

\* A wire gives back the session it was made of, without stores and latch.
LEMMA RoundTrip ==
    ASSUME NEW s \in SessionInner
    PROVE  SessionFromWire(Archived(s)) =
               [s EXCEPT !.psk_stores = {}, !.bind_apply_broken = FALSE]
<1> DEFINE w == Archived(s)
           i == PqInflightFromWire(WirePqInflight(s.pq_inflight), w.tail.responder_wire_ct)
<1>1. s.pq_inflight \in Inflight  BY DEF SessionInner
<1>2. i = s.pq_inflight  BY <1>1, InflightRoundTrip DEF Archived, TailFrom
<1>3. w.tail.pq_wedged = s.pq_wedged  BY DEF Archived, TailFrom
<1>4. w.body.pq_inflight = WirePqInflight(s.pq_inflight)  BY ArchivedFields
<1>5. SessionFromWire(w) = [w.body EXCEPT !.pq_inflight = s.pq_inflight, !.pq_wedged = s.pq_wedged]
  BY <1>2, <1>3, <1>4 DEF SessionFromWire
<1>6. w.body = [s EXCEPT !.psk_stores = {}, !.bind_apply_broken = FALSE, !.pq_wedged = FALSE,
                         !.pq_inflight = WirePqInflight(s.pq_inflight)]
  BY DEF Archived
<1> HIDE DEF w, i
<1> DEFINE a == WirePqInflight(s.pq_inflight)
           u == [s EXCEPT !.psk_stores = {}, !.bind_apply_broken = FALSE]
<1>7. [[s EXCEPT !.psk_stores = {}, !.bind_apply_broken = FALSE, !.pq_wedged = FALSE, !.pq_inflight = a]
          EXCEPT !.pq_inflight = s.pq_inflight, !.pq_wedged = s.pq_wedged] = u
  <2> HIDE DEF a
  <2>1. u.pq_inflight = s.pq_inflight /\ u.pq_wedged = s.pq_wedged  BY DEF SessionInner
  <2>2. [s EXCEPT !.psk_stores = {}, !.bind_apply_broken = FALSE, !.pq_wedged = FALSE, !.pq_inflight = a]
        = [u EXCEPT !.pq_wedged = FALSE, !.pq_inflight = a]
    OBVIOUS
  <2>3. u \in SessionInner  BY DEF SessionInner
  <2> HIDE DEF u
  <2>4. [[u EXCEPT !.pq_wedged = FALSE, !.pq_inflight = a]
            EXCEPT !.pq_inflight = u.pq_inflight, !.pq_wedged = u.pq_wedged] = u
    BY <2>3 DEF SessionInner
  <2> QED  BY <2>1, <2>2, <2>4
<1> QED  BY <1>5, <1>6, <1>7 DEF w

\* session_from_wire refuses no sound session.
LEMMA SoundAdmitted ==
    ASSUME NEW s, Sound(s)
    PROVE  SessionAdmitted(Archived(s))
<1> DEFINE i == s.pq_inflight
           w == WirePqInflight(i)
           ct == Archived(s).tail.responder_wire_ct
<1>1. s \in SessionInner /\ i \in Inflight  BY DEF Sound, SessionInner
<1>2. Archived(s).body.pq_inflight = w  BY <1>1, ArchivedFields
<1>3. w.kind = i.kind /\ w.ephemeral = (IF i.kind = "Initiating" THEN i.eph ELSE 0)
      /\ w.secret = (IF i.kind = "Responding" THEN i.ct.secret ELSE NoSecret)
  BY DEF WirePqInflight
<1>4. ct = IF i.kind = "Responding" THEN i.ct ELSE NoCt  BY DEF Archived, TailFrom
<1>5. NoCt.secret = NoSecret  BY DEF NoCt, Ciphertext
<1>6. /\ i.kind = "Initiating" => i.eph # 0
      /\ i.kind = "Responding" => i.ct.secret # NoSecret
  BY DEF Sound
<1> HIDE DEF w, ct, i
<1>7. InflightAdmitted(w, ct)  BY <1>3, <1>4, <1>6 DEF InflightAdmitted
<1>8. w.kind = "Responding" => ct # NoCt  BY <1>3, <1>4, <1>5, <1>6
<1> QED  BY <1>2, <1>7, <1>8 DEF SessionAdmitted, ct

\* What a sound session writes is saved, and what is saved is read back sound.
LEMMA ArchiveSaves ==
    ASSUME NEW s, Sound(s)
    PROVE  LET u == SessionFromWire(Archived(s))
           IN  Sound(u) /\ Archived(u) = Archived(s)
<1> DEFINE u == [s EXCEPT !.psk_stores = {}, !.bind_apply_broken = FALSE]
<1>1. s \in SessionInner  BY DEF Sound
<1>2. SessionFromWire(Archived(s)) = u  BY <1>1, RoundTrip
<1>3. u \in SessionInner  BY <1>1 DEF SessionInner
<1>4. /\ u.pq_inflight = s.pq_inflight /\ u.pq_wedged = s.pq_wedged /\ u.send_cl = s.send_cl
      /\ u.send_pq = s.send_pq /\ u.current_staple = s.current_staple
      /\ u.owed_bind = s.owed_bind /\ u.pending_side_band = s.pending_side_band
  BY <1>1 DEF SessionInner
<1>5. Sound(u)  BY <1>3, <1>4 DEF Sound
<1>6. \A i : [u EXCEPT !.psk_stores = {}, !.bind_apply_broken = FALSE, !.pq_wedged = FALSE, !.pq_inflight = i]
            = [s EXCEPT !.psk_stores = {}, !.bind_apply_broken = FALSE, !.pq_wedged = FALSE, !.pq_inflight = i]
  BY <1>1 DEF SessionInner
<1> HIDE DEF u
<1>7. TailFrom(u) = TailFrom(s)  BY <1>4 DEF TailFrom
<1>8. Archived(u) = Archived(s)  BY <1>4, <1>6, <1>7 DEF Archived
<1> QED  BY <1>2, <1>5, <1>8

\* The trees of a session have their type.
LEMMA TreesType == ASSUME NEW s \in SessionInner PROVE Trees(s) \in TreesOf
  BY DEF Trees, TreesOf, SessionInner, Joined

\* The two ways to write leave saved slots.
LEMMA WriteSaves ==
    ASSUME NEW d, d.trees \in TreesOf, NEW s, Sound(s), NEW kind
    PROVE  /\ Saved(Write(d, kind, s)) /\ Write(d, kind, s).wire = Archived(s)
           /\ Saved(Slots(s)) /\ Slots(s).wire = Archived(s)
<1>1. s \in SessionInner  BY DEF Sound
<1>2. /\ Write(d, kind, s).wire = Archived(s) /\ Write(d, kind, s).core_newer \in BOOLEAN
      /\ Write(d, kind, s).trees \in TreesOf
  BY <1>1, TreesType DEF Write
<1>3. /\ Slots(s).wire = Archived(s) /\ Slots(s).core_newer \in BOOLEAN
      /\ Slots(s).trees \in TreesOf
  BY <1>1, TreesType DEF Slots
<1> QED  BY <1>2, <1>3, ArchiveSaves DEF Saved

\* A restore gives back a sound session with the epochs on disk.
LEMMA RestoredSound ==
    ASSUME NEW d, Saved(d)
    PROVE  LET t == Restored(d)
               b == d.wire.body
           IN  /\ Sound(t)
               /\ t.send_cl = b.send_cl /\ t.send_pq = b.send_pq
               /\ t.recv_cl = b.recv_cl /\ t.recv_pq = b.recv_pq
               /\ t.current_staple = b.current_staple
<1> DEFINE s == SessionFromWire(d.wire)
           t == Restored(d)
<1>1. Sound(s) /\ d.wire = Archived(s) /\ s \in SessionInner /\ d.trees \in TreesOf
  BY DEF Saved, Sound
<1>2. /\ d.wire.body.send_cl = s.send_cl /\ d.wire.body.send_pq = s.send_pq
      /\ d.wire.body.recv_cl = s.recv_cl /\ d.wire.body.recv_pq = s.recv_pq
      /\ d.wire.body.current_staple = s.current_staple
  BY <1>1, ArchivedFields
<1>3. \/ t = s
      \/ t = [s EXCEPT !.send_pq_leaf = d.trees.send_pq_leaf, !.recv_pq_leaf = d.trees.recv_pq_leaf,
                       !.recv_pq_update = d.trees.recv_pq_update]
  BY DEF Restored
<1>4. /\ d.trees.send_pq_leaf \in LeafPair /\ d.trees.recv_pq_leaf \in LeafPair
      /\ d.trees.recv_pq_update \in Nat
  BY <1>1 DEF TreesOf
<1> HIDE DEF s, t
<1> DEFINE x == [s EXCEPT !.send_pq_leaf = d.trees.send_pq_leaf,
                          !.recv_pq_leaf = d.trees.recv_pq_leaf,
                          !.recv_pq_update = d.trees.recv_pq_update]
<1>5. /\ x \in SessionInner
      /\ x.pq_inflight = s.pq_inflight /\ x.send_cl = s.send_cl /\ x.recv_cl = s.recv_cl
      /\ x.recv_pq = s.recv_pq /\ x.send_pq = s.send_pq /\ x.current_staple = s.current_staple
      /\ x.owed_bind = s.owed_bind /\ x.pending_side_band = s.pending_side_band
  <2>1. s \in SessionInner  BY <1>1
  <2> QED  BY <2>1, <1>4 DEF SessionInner
<1>6. t = s \/ t = x  BY <1>3
<1> HIDE DEF x
<1>7. /\ t \in SessionInner
      /\ t.pq_inflight = s.pq_inflight /\ t.send_cl = s.send_cl /\ t.recv_cl = s.recv_cl
      /\ t.recv_pq = s.recv_pq /\ t.send_pq = s.send_pq /\ t.current_staple = s.current_staple
      /\ t.owed_bind = s.owed_bind /\ t.pending_side_band = s.pending_side_band
  BY <1>1, <1>5, <1>6
<1> QED  BY <1>1, <1>2, <1>7 DEF Sound, t

----------------------------------------------------------------------------
(* What the handlers do to one session.                                    *)

\* A handler keeps the session sound and takes nothing back.
Forward(s, t) ==
    /\ Sound(t)
    /\ t.send_cl >= s.send_cl /\ t.send_pq >= s.send_pq
    /\ Joined(s) => Joined(t)
    /\ s.bind_apply_broken => t.bind_apply_broken

\* It leaves what others may know of the send group.
SameSend(s, t) ==
    t.send_cl = s.send_cl /\ t.send_pq = s.send_pq /\ t.current_staple = s.current_staple

SameMirror(s, t) == t.recv_cl = s.recv_cl /\ t.recv_pq = s.recv_pq

\* It leaves everything that Sound speaks of, but may re-mint a parked A.4 leg.
Still(s, t) ==
    /\ t \in SessionInner
    /\ SameSend(s, t) /\ SameMirror(s, t)
    /\ t.pq_inflight = s.pq_inflight /\ t.owed_bind = s.owed_bind
    /\ t.bind_apply_broken = s.bind_apply_broken
    /\ t.pending_side_band = s.pending_side_band \/ t.pending_side_band.kind \in {"ek", "ct", "none"}

\* A step that leaves all of it is sound and forward.
LEMMA StillForward ==
    ASSUME NEW s, NEW t, Sound(s), Still(s, t)
    PROVE  Forward(s, t) /\ SameSend(s, t) /\ SameMirror(s, t)
<1>1. s \in SessionInner  BY DEF Sound
<1>2. s.send_cl \in Nat /\ s.send_pq \in Nat /\ s.recv_cl \in Nat  BY <1>1, SessionFields
<1>3. Sound(t)  BY DEF Sound, Still, SameSend
<1> QED  BY <1>2, <1>3 DEF Forward, Still, SameSend, SameMirror, Joined

\* Two such steps are one.
LEMMA StillTransitive ==
    ASSUME NEW s, NEW t, NEW u, Still(s, t), Still(t, u)
    PROVE  Still(s, u)
  BY DEF Still, SameSend, SameMirror

\* Re-minting the parked A.4 leg is one.
LEMMA RewrapStill == ASSUME NEW s \in SessionInner PROVE Still(s, RewrapSideBand(s))
<1>1. RewrapSideBand(s) \in SessionInner  BY RewrapType
<1>2. ASSUME NEW leg, leg.kind \in {"ek", "ct"}, [s EXCEPT !.pending_side_band = leg] \in SessionInner
      PROVE  Still(s, [s EXCEPT !.pending_side_band = leg])
  BY <1>2 DEF Still, SameSend, SameMirror, SessionInner
<1>3. ASSUME NEW e, NEW x PROVE EkLeg(e, x).kind = "ek" /\ CtLeg(e, x).kind = "ct"
  BY DEF EkLeg, CtLeg
<1>4. Still(s, s)  BY DEF Still, SameSend, SameMirror
<1> QED  BY <1>1, <1>2, <1>3, <1>4 DEF RewrapSideBand

\* So is staging the Upd, whichever candidate it proposes.
LEMMA StageProposalStill ==
    ASSUME NEW s \in SessionInner, NEW selected \in Nat
    PROVE  Still(s, StageProposal(s, selected))
<1> DEFINE id == Admitted(s, selected)
           s1 == IF selected = 0 /\ id # 0 THEN [s EXCEPT !.deferred_candidate = 0] ELSE s
           s2 == IF id # 0 THEN AdmitCandidate(s1, id) ELSE s1
           offer == [epoch |-> s.recv_cl, id |-> IF id # 0 THEN id ELSE s.client]
           staged == [s2 EXCEPT !.pending_proposal_hash = TRUE,
                                !.pending_proposal_message = offer]
<1>1. id \in Nat  BY SessionFields DEF Admitted
<1>2. offer \in Offer  BY <1>1, SessionFields DEF Offer
<1> HIDE DEF id, offer
<1>3. Still(s, s1)  BY DEF SessionInner, Still, SameSend, SameMirror
<1>4. s1 \in SessionInner  BY <1>3 DEF Still
<1> HIDE DEF s1
<1>5. Still(s1, s2)
  <2>1. s1.staged_candidates \cup {id} \in SUBSET Nat  BY <1>1, <1>4, SessionFields
  <2>2. \A c \in SUBSET Nat : Still(s1, [s1 EXCEPT !.staged_candidates = c])
    BY <1>4 DEF SessionInner, Still, SameSend, SameMirror
  <2>3. Still(s1, [s1 EXCEPT !.deferred_candidate = id]) /\ Still(s1, s1)
    BY <1>1, <1>4 DEF SessionInner, Still, SameSend, SameMirror
  <2> QED  BY <2>1, <2>2, <2>3 DEF AdmitCandidate
<1>6. s2 \in SessionInner  BY <1>5 DEF Still
<1> HIDE DEF s2
<1>7. Still(s2, staged)  BY <1>2, <1>6 DEF SessionInner, Still, SameSend, SameMirror
<1>8. staged \in SessionInner  BY <1>7 DEF Still
<1> HIDE DEF staged
<1>9. Still(s, s2) /\ Still(s, RewrapSideBand(staged))
  BY <1>3, <1>5, <1>7, <1>8, RewrapStill, StillTransitive
<1> QED  BY <1>9 DEF StageProposal, staged, s2, s1, id, offer

\* A prepare commits in the classical half or not at all; the mirrors stay.
LEMMA PrepareForward ==
    ASSUME NEW s, Sound(s), NEW selected \in Nat
    PROVE  LET t == PrepareRatchetCommit(s, selected)
               u == PreparePreEstablishment(s)
           IN  /\ Forward(s, t) /\ SameMirror(s, t) /\ t.send_pq = s.send_pq
               /\ t.bind_apply_broken = s.bind_apply_broken
               /\ Still(s, u)
<1>1. s \in SessionInner  BY DEF Sound
<1>2. /\ s.send_cl \in Nat /\ s.send_pq \in Nat /\ s.recv_cl \in Nat
      /\ s.owed_bind \in OwedBind /\ s.owed_bind.pq_epoch \in Nat
  BY <1>1, SessionFields DEF OwedBind
<1>3. Still(s, PreparePreEstablishment(s))
  <2> DEFINE u == [s EXCEPT !.pending_proposal_hash = TRUE, !.pending_proposal_message = NoOffer]
  <2>1. Still(s, u)  BY <1>1, AbsentTypes DEF SessionInner, Still, SameSend, SameMirror
  <2>2. u \in SessionInner  BY <2>1 DEF Still
  <2> HIDE DEF u
  <2> QED  BY <2>1, <2>2, RewrapStill, StillTransitive DEF PreparePreEstablishment, u
<1>4. NoBind.pq_epoch = 0  BY DEF NoBind
<1>5. LET t == DischargeAndCommit(s)
      IN  Forward(s, t) /\ SameMirror(s, t) /\ t.send_pq = s.send_pq
          /\ t.bind_apply_broken = s.bind_apply_broken
  <2> DEFINE t == DischargeAndCommit(s)
  <2>1. t \in SessionInner  BY <1>1, DischargeType
  <2>2. /\ t.send_cl = s.send_cl + 1 /\ t.send_pq = s.send_pq /\ SameMirror(s, t)
        /\ t.current_staple = CommitStaple(s) /\ t.owed_bind = NoBind
        /\ t.pq_inflight = s.pq_inflight /\ t.pending_side_band = s.pending_side_band
        /\ t.bind_apply_broken = s.bind_apply_broken
    BY <1>1 DEF DischargeAndCommit, SessionInner, SameMirror
  <2>3. CommitStaple(s).epoch = s.send_cl /\ CommitStaple(s).bind = s.owed_bind  BY DEF CommitStaple
  <2> HIDE DEF t
  <2>4. Sound(t)  BY <1>2, <1>4, <2>1, <2>2, <2>3 DEF Sound
  <2> QED  BY <1>2, <2>2, <2>4 DEF Forward, SameMirror, Joined, t
<1>6. LET t == FailedDischarge(s)
      IN  Forward(s, t) /\ SameMirror(s, t) /\ t.send_pq = s.send_pq
          /\ t.bind_apply_broken = s.bind_apply_broken
  <2> DEFINE t == FailedDischarge(s)
  <2>1. t \in SessionInner  BY <1>1, DischargeType
  <2>2. /\ t.send_cl = s.send_cl /\ t.send_pq = s.send_pq /\ SameMirror(s, t)
        /\ t.current_staple = s.current_staple /\ t.owed_bind = NoBind
        /\ t.pq_inflight = s.pq_inflight /\ t.pending_side_band = s.pending_side_band
        /\ t.bind_apply_broken = s.bind_apply_broken
    BY <1>1 DEF FailedDischarge, SessionInner, SameMirror
  <2> HIDE DEF t
  <2>3. Sound(t)  BY <1>2, <1>4, <2>1, <2>2 DEF Sound
  <2> QED  BY <1>2, <2>2, <2>3 DEF Forward, SameMirror, Joined, t
<1>7. ASSUME NEW u, Forward(s, u), SameMirror(s, u), u.send_pq = s.send_pq,
             u.bind_apply_broken = s.bind_apply_broken
      PROVE  LET t == StageProposal(u, selected)
             IN  Forward(s, t) /\ SameMirror(s, t) /\ t.send_pq = s.send_pq
                 /\ t.bind_apply_broken = s.bind_apply_broken
  <2>1. Sound(u) /\ u \in SessionInner  BY <1>7 DEF Forward, Sound
  <2>2. Still(u, StageProposal(u, selected))  BY <2>1, StageProposalStill
  <2>3. Forward(u, StageProposal(u, selected))  BY <2>1, <2>2, StillForward
  <2> QED  BY <1>7, <2>2, <2>3 DEF Still, Forward, SameSend, SameMirror, Joined
<1>8. Forward(s, s) /\ SameMirror(s, s)  BY <1>2 DEF Forward, SameMirror
<1>9. /\ Forward(s, StageProposal(s, selected)) /\ SameMirror(s, StageProposal(s, selected))
      /\ StageProposal(s, selected).send_pq = s.send_pq
      /\ StageProposal(s, selected).bind_apply_broken = s.bind_apply_broken
  BY <1>7, <1>8
<1> QED  BY <1>3, <1>5, <1>6, <1>7, <1>9 DEF PrepareRatchetCommit

\* An encrypt may open a round; every epoch stays.
LEMMA EncryptForward ==
    ASSUME NEW s, Sound(s), fresh \in Nat, fresh > 0
    PROVE  LET t == AfterEncrypt(s)
           IN  /\ Forward(s, t) /\ SameSend(s, t) /\ SameMirror(s, t)
               /\ t.bind_apply_broken = s.bind_apply_broken
<1> DEFINE u == [s EXCEPT !.pending_proposal_hash = FALSE, !.pending_proposal_message = NoOffer]
           v == RewrapSideBand(u)
           t == MaybeStageNextRound(v)
<1>1. s \in SessionInner  BY DEF Sound
<1>2. Still(s, u)  BY <1>1, AbsentTypes DEF SessionInner, Still, SameSend, SameMirror
<1>3. u \in SessionInner  BY <1>2 DEF Still
<1> HIDE DEF u
<1>4. Still(s, v)  BY <1>2, <1>3, RewrapStill, StillTransitive
<1>5. v \in SessionInner /\ Sound(v)  BY <1>4, StillForward DEF Still, Forward
<1>6. v.send_cl \in Nat /\ v.send_pq \in Nat /\ v.recv_cl \in Nat /\ s.recv_cl \in Nat
  BY <1>1, <1>5, SessionFields
<1>7. t \in SessionInner  BY <1>1, AfterEncryptType DEF AfterEncrypt, u
<1>8. t = AfterEncrypt(s)  BY DEF AfterEncrypt, u
<1> HIDE DEF v
<1>9. /\ SameSend(v, t) /\ SameMirror(v, t) /\ t.owed_bind = v.owed_bind
      /\ t.bind_apply_broken = v.bind_apply_broken
      /\ \/ t.pq_inflight = v.pq_inflight /\ t.pending_side_band = v.pending_side_band
         \/ t.pq_inflight = Initiating(fresh) /\ t.pending_side_band.kind = "ek"
         \/ t.pq_inflight = RekeyInitiated /\ t.pending_side_band.kind = "rekey_upd"
  BY <1>5 DEF MaybeStageNextRound, StageRekey, StageRatchet, SameSend, SameMirror, SessionInner,
              EkLeg, UpdLeg
<1> HIDE DEF t
<1>10. Sound(t)  BY <1>5, <1>7, <1>9, InflightKinds DEF Sound, SameSend
<1>11. SameSend(s, t) /\ SameMirror(s, t) /\ t.bind_apply_broken = s.bind_apply_broken
  BY <1>4, <1>9 DEF Still, SameSend, SameMirror
<1>12. s.send_cl \in Nat /\ s.send_pq \in Nat  BY <1>1, SessionFields
<1> QED  BY <1>8, <1>10, <1>11, <1>12 DEF Forward, SameSend, SameMirror, Joined

\* The bookkeeping of leaves and offers is of no concern to the disk.
LEMMA ReaderStill ==
    ASSUME NEW s \in SessionInner, NEW staple \in Staple, NEW offer \in Offer
    PROVE  Still(s, LeafChanges(s, staple)) /\ Still(s, RecordOffer(s, offer))
<1>1. LeafChanges(s, staple) \in SessionInner  BY LeafChangesType
<1>2. RecordOffer(s, offer) \in SessionInner  BY ReaderUntouched
<1>3. Still(s, LeafChanges(s, staple))
  BY <1>1 DEF LeafChanges, Still, SameSend, SameMirror, SessionInner
<1>4. Still(s, RecordOffer(s, offer))
  BY <1>2 DEF RecordOffer, Still, SameSend, SameMirror, SessionInner
<1> QED  BY <1>3, <1>4

\* A staple moves each mirror to the epoch it leads to, or not at all.
LEMMA StapleForward ==
    ASSUME NEW s, Sound(s), NEW staple \in Staple, StapleAdmitted(s, staple)
    PROVE  LET t == ProcessStaple(s, staple)
           IN  /\ Forward(s, t) /\ SameSend(s, t)
               /\ t.recv_cl = s.recv_cl \/ t.recv_cl = 1 \/ t.recv_cl = staple.epoch + 1
               /\ \/ t.recv_pq = s.recv_pq
                  \/ /\ t.recv_pq = staple.bind.pq_epoch
                     /\ staple.kind = "bind" /\ staple.epoch = s.recv_cl
<1> DEFINE t == ProcessStaple(s, staple)
<1>1. s \in SessionInner  BY DEF Sound
<1>2. /\ s.send_cl \in Nat /\ s.send_pq \in Nat /\ s.recv_cl \in Nat /\ s.recv_pq \in Nat
      /\ staple.epoch \in Nat /\ staple.kind \in {"welcome", "commit", "bind"}
  BY <1>1, SessionFields DEF Staple
<1>3. t \in SessionInner  BY <1>1, ProcessStapleType
<1>4. Forward(s, s) /\ SameSend(s, s)  BY <1>2 DEF Forward, SameSend
<1>5. ASSUME NEW u, u \in SessionInner, Forward(s, u), SameSend(s, u)
      PROVE  LET v == LeafChanges(u, staple)
             IN  Forward(s, v) /\ SameSend(s, v) /\ SameMirror(u, v)
  <2>1. Sound(u)  BY <1>5 DEF Forward
  <2>2. Still(u, LeafChanges(u, staple))  BY <1>5, AbsentTypes, ReaderStill
  <2>3. Forward(u, LeafChanges(u, staple))  BY <2>1, <2>2, StillForward
  <2> QED  BY <1>5, <2>2, <2>3 DEF Still, Forward, SameSend
<1>6. CASE staple.kind = "welcome"
  <2>1. t = s \/ t = [s EXCEPT !.recv_cl = 1]  BY <1>6 DEF ProcessStaple, ProcessWelcome
  <2> DEFINE u == [s EXCEPT !.recv_cl = 1]
  <2>2. /\ u.recv_cl = 1 /\ u.recv_pq = s.recv_pq /\ SameSend(s, u) /\ u.pq_inflight = s.pq_inflight
        /\ u.owed_bind = s.owed_bind /\ u.pending_side_band = s.pending_side_band
        /\ u.bind_apply_broken = s.bind_apply_broken /\ u \in SessionInner
    BY <1>1 DEF SessionInner, SameSend
  <2> HIDE DEF u
  <2>3. Sound(u)  BY <2>2 DEF Sound, SameSend
  <2>4. Forward(s, u)  BY <1>2, <2>2, <2>3 DEF Forward, SameSend, Joined
  <2> QED  BY <1>4, <2>1, <2>2, <2>4 DEF u
<1>7. CASE staple.kind # "welcome" /\ StapleEpochAction(s, staple) = "skip"
  BY <1>4, <1>7 DEF ProcessStaple
<1>8. ASSUME staple.kind # "welcome", StapleEpochAction(s, staple) # "skip"
      PROVE  staple.epoch = s.recv_cl
  BY <1>2, <1>8 DEF StapleAdmitted, StapleEpochAction
<1>9. CASE staple.kind = "commit" /\ StapleEpochAction(s, staple) # "skip"
  <2> DEFINE u == [s EXCEPT !.recv_cl = @ + 1]
  <2>1. /\ u.recv_cl = s.recv_cl + 1 /\ u.recv_pq = s.recv_pq /\ SameSend(s, u)
        /\ u.pq_inflight = s.pq_inflight
        /\ u.owed_bind = s.owed_bind /\ u.pending_side_band = s.pending_side_band
        /\ u.bind_apply_broken = s.bind_apply_broken /\ u \in SessionInner
    BY <1>1, <1>2 DEF SessionInner, SameSend
  <2>2. t = LeafChanges(u, staple)  BY <1>9 DEF ProcessStaple, ApplyCommit
  <2> HIDE DEF u, t
  <2>3. Sound(u)  BY <2>1 DEF Sound, SameSend
  <2>4. Forward(s, u)  BY <1>2, <2>1, <2>3 DEF Forward, SameSend, Joined
  <2>5. Forward(s, t) /\ SameSend(s, t) /\ SameMirror(u, t)  BY <1>5, <2>1, <2>2, <2>4
  <2> QED  BY <1>8, <1>9, <2>1, <2>5 DEF SameMirror, t
<1>10. CASE staple.kind = "bind" /\ StapleEpochAction(s, staple) # "skip"
  <2> DEFINE pq == IF PqCommitOpens(s, staple) THEN s.recv_pq + 1 ELSE s.recv_pq
             cl == IF PairApplies(s, staple) THEN s.recv_cl + 1 ELSE s.recv_cl
             ex == IF ReExports(s) THEN s.send_pq ELSE s.last_send_pq_exported
             u == [s EXCEPT !.pq_inflight = Idle, !.last_send_pq_exported = ex,
                            !.recv_pq = pq, !.recv_cl = cl]
             v == [u EXCEPT !.pq_turn_mine = TRUE, !.pending_side_band = NoLeg]
             w == [u EXCEPT !.bind_apply_broken = TRUE]
  <2>0. /\ pq \in Nat /\ cl \in Nat /\ ex \in Nat /\ cl \in {s.recv_cl, s.recv_cl + 1}
        /\ pq = s.recv_pq \/ (pq = s.recv_pq + 1 /\ PqCommitOpens(s, staple))
    BY <1>1, SessionFields
  <2>5. t = LeafChanges(v, staple) \/ t = w
    BY <1>10 DEF ProcessStaple, ApplyBind
  <2> HIDE DEF pq, cl, ex
  <2>1. u \in SessionInner  BY <1>1, <2>0, InflightTypes DEF SessionInner
  <2>2. /\ u.recv_cl = cl /\ u.recv_pq = pq
        /\ SameSend(s, u) /\ u.pq_inflight = Idle
        /\ u.owed_bind = s.owed_bind /\ u.pending_side_band = s.pending_side_band
        /\ u.bind_apply_broken = s.bind_apply_broken
    BY <1>1 DEF SessionInner, SameSend
  <2> HIDE DEF u
  <2>3. /\ v \in SessionInner /\ SameMirror(u, v) /\ SameSend(u, v) /\ v.pq_inflight = u.pq_inflight
        /\ v.owed_bind = u.owed_bind /\ v.pending_side_band = NoLeg
        /\ v.bind_apply_broken = u.bind_apply_broken
    BY <2>1 DEF SessionInner, SameSend, SameMirror
  <2>4. /\ w \in SessionInner /\ SameMirror(u, w) /\ SameSend(u, w) /\ w.pq_inflight = u.pq_inflight
        /\ w.owed_bind = u.owed_bind /\ w.pending_side_band = u.pending_side_band
        /\ w.bind_apply_broken = TRUE
    BY <2>1 DEF SessionInner, SameSend, SameMirror
  <2> HIDE DEF v, w, t
  <2>6. NoLeg.kind = "none" /\ Idle.kind = "none"  BY DEF NoLeg, Idle
  <2>7. Sound(v)  BY <2>2, <2>3, <2>6 DEF Sound, SameSend
  <2>8. Sound(w)  BY <2>2, <2>4, <2>6 DEF Sound, SameSend
  <2>9. Forward(s, v) /\ SameSend(s, v)
    BY <1>2, <2>0, <2>2, <2>3, <2>7 DEF Forward, SameSend, SameMirror, Joined
  <2>10. Forward(s, w) /\ SameSend(s, w)
    BY <1>2, <2>0, <2>2, <2>4, <2>8 DEF Forward, SameSend, SameMirror, Joined
  <2>11. Forward(s, t) /\ SameSend(s, t) /\ SameMirror(u, t)
    BY <1>5, <2>3, <2>4, <2>5, <2>9, <2>10 DEF SameMirror
  <2>12. PqCommitOpens(s, staple) => staple.bind.pq_epoch = s.recv_pq + 1  BY DEF PqCommitOpens
  <2> QED  BY <1>8, <1>10, <2>0, <2>2, <2>11, <2>12 DEF SameMirror, t
<1> QED  BY <1>2, <1>6, <1>7, <1>9, <1>10

\* So does a frame.  When it fails without the latch, a commit folded a candidate
\* that is not held.
LEMMA ReadForward ==
    ASSUME NEW s, Sound(s), NEW f \in Frame, StapleAdmitted(s, f.staple)
    PROVE  LET t == ProcessFrame(s, f)
           IN  /\ Forward(s, t) /\ SameSend(s, t)
               /\ t.recv_cl = s.recv_cl \/ t.recv_cl = 1 \/ t.recv_cl = f.staple.epoch + 1
               /\ t.recv_pq = s.recv_pq \/ t.recv_pq = f.staple.bind.pq_epoch
               /\ FrameFails(s, f) /\ t.recv_pq # s.recv_pq =>
                     \/ t.bind_apply_broken
                     \/ /\ f.staple.kind = "bind" /\ f.staple.epoch = s.recv_cl
                        /\ ~WinnerHeld(s, f.staple)
<1> DEFINE u == ProcessStaple(s, f.staple)
           t == ProcessFrame(s, f)
<1>1. f.staple \in Staple /\ f.offer \in Offer  BY DEF Frame
<1>2. /\ Forward(s, u) /\ SameSend(s, u)
      /\ u.recv_cl = s.recv_cl \/ u.recv_cl = 1 \/ u.recv_cl = f.staple.epoch + 1
      /\ \/ u.recv_pq = s.recv_pq
         \/ /\ u.recv_pq = f.staple.bind.pq_epoch
            /\ f.staple.kind = "bind" /\ f.staple.epoch = s.recv_cl
  BY <1>1, StapleForward
<1>3. FrameFails(s, f) => u.bind_apply_broken \/ ~WinnerHeld(s, f.staple)  BY DEF FrameFails
<1>4. t = (IF FrameFails(s, f) THEN u ELSE RecordOffer(u, f.offer))  BY DEF ProcessFrame
<1> HIDE DEF u, t
<1>5. Sound(u) /\ u \in SessionInner  BY <1>2 DEF Forward, Sound
<1>6. Still(u, RecordOffer(u, f.offer))  BY <1>1, <1>5, ReaderStill
<1>7. Forward(u, RecordOffer(u, f.offer))  BY <1>5, <1>6, StillForward
<1>8. CASE FrameFails(s, f)  BY <1>2, <1>3, <1>4, <1>8 DEF t
<1>9. CASE ~FrameFails(s, f)
  <2>1. t = RecordOffer(u, f.offer)  BY <1>4, <1>9
  <2>2. Forward(s, t) /\ SameSend(s, t) /\ SameMirror(u, t)
    BY <1>2, <1>6, <1>7, <2>1 DEF Forward, Still, SameSend
  <2> QED  BY <1>2, <1>9, <2>2 DEF SameMirror, t
<1> QED  BY <1>8, <1>9

\* A side-band handler moves PQ halves only.
SideStep(s, t) ==
    /\ Forward(s, t)
    /\ t.send_cl = s.send_cl /\ t.recv_cl = s.recv_cl /\ t.current_staple = s.current_staple
    /\ t.bind_apply_broken = s.bind_apply_broken

\* What makes a step one of the side-band.
LEMMA SideStepFrom ==
    ASSUME NEW s, NEW t, Sound(s), Sound(t), t.send_pq >= s.send_pq,
           t.send_cl = s.send_cl, t.recv_cl = s.recv_cl, t.current_staple = s.current_staple,
           t.bind_apply_broken = s.bind_apply_broken
    PROVE  SideStep(s, t)
<1>1. s.send_cl \in Nat /\ s.recv_cl \in Nat  BY SessionFields DEF Sound
<1> QED  BY <1>1 DEF SideStep, Forward, Joined

\* Past the point of no return: the PQ commit and the bind it leaves owed.
LEMMA OweBindSide ==
    ASSUME NEW s, Sound(s), NEW secret \in Secret
    PROVE  LET t == CommitPqAndOweBind(s, secret)
           IN  SideStep(s, t) /\ t.recv_pq = s.recv_pq
<1> DEFINE t == CommitPqAndOweBind(s, secret)
           b == [t_epoch |-> s.send_cl + 1, pq_epoch |-> s.send_pq + 1, secret |-> secret]
<1>1. s \in SessionInner  BY DEF Sound
<1>2. s.send_cl \in Nat /\ s.send_pq \in Nat /\ s.current_staple \in Staple
  BY <1>1, SessionFields
<1>3. s.current_staple.bind.pq_epoch \in Nat  BY <1>2 DEF Staple, OwedBind
<1>4. t \in SessionInner  BY <1>1, CommitPqType
<1>5. b.pq_epoch = s.send_pq + 1  OBVIOUS
<1> HIDE DEF b
<1>6. /\ t.send_pq = s.send_pq + 1 /\ t.owed_bind = b /\ t.send_cl = s.send_cl
      /\ t.recv_cl = s.recv_cl /\ t.recv_pq = s.recv_pq /\ t.current_staple = s.current_staple
      /\ t.pq_inflight = s.pq_inflight /\ t.pending_side_band = s.pending_side_band
      /\ t.bind_apply_broken = s.bind_apply_broken
  BY <1>1 DEF CommitPqAndOweBind, SessionInner, b
<1> HIDE DEF t
<1>7. s.pending_side_band.kind = "rekey_commit" => s.pending_side_band.epoch \in Nat
  BY <1>1, SessionFields, LegNumbers DEF NoLeg
<1>8. Sound(t)  BY <1>2, <1>3, <1>4, <1>5, <1>6, <1>7 DEF Sound
<1> QED  BY <1>2, <1>6, <1>8, SideStepFrom DEF t

\* Ending the round in the same call changes none of that.
LEMMA RoundEnded ==
    ASSUME NEW s, Sound(s), NEW n \in Nat
    PROVE  LET t == [s EXCEPT !.last_cross_injected_pq = n, !.pq_inflight = Idle,
                              !.pending_side_band = NoLeg]
               u == [s EXCEPT !.pq_inflight = Idle, !.pending_side_band = NoLeg]
           IN  /\ SideStep(s, t) /\ t.recv_pq = s.recv_pq
               /\ SideStep(s, u) /\ u.recv_pq = s.recv_pq
<1> DEFINE t == [s EXCEPT !.last_cross_injected_pq = n, !.pq_inflight = Idle,
                          !.pending_side_band = NoLeg]
           u == [s EXCEPT !.pq_inflight = Idle, !.pending_side_band = NoLeg]
<1>1. s \in SessionInner  BY DEF Sound
<1>2. s.send_pq \in Nat  BY <1>1, SessionFields
<1>3. NoLeg.kind = "none" /\ Idle.kind = "none"  BY DEF NoLeg, Idle
<1>4. /\ t \in SessionInner /\ SameSend(s, t) /\ SameMirror(s, t) /\ t.pq_inflight = Idle
      /\ t.owed_bind = s.owed_bind /\ t.pending_side_band = NoLeg
      /\ t.bind_apply_broken = s.bind_apply_broken
  BY <1>1, InflightTypes DEF SessionInner, SameSend, SameMirror
<1>5. /\ u \in SessionInner /\ SameSend(s, u) /\ SameMirror(s, u) /\ u.pq_inflight = Idle
      /\ u.owed_bind = s.owed_bind /\ u.pending_side_band = NoLeg
      /\ u.bind_apply_broken = s.bind_apply_broken
  BY <1>1, InflightTypes DEF SessionInner, SameSend, SameMirror
<1> HIDE DEF t, u
<1>6. Sound(t) /\ Sound(u)  BY <1>3, <1>4, <1>5 DEF Sound, SameSend
<1>7. SideStep(s, t) /\ t.recv_pq = s.recv_pq
  <2>1. /\ t.send_pq >= s.send_pq /\ t.send_cl = s.send_cl /\ t.recv_cl = s.recv_cl
        /\ t.current_staple = s.current_staple /\ t.recv_pq = s.recv_pq
    BY <1>2, <1>4 DEF SameSend, SameMirror
  <2> QED  BY <1>4, <1>6, <2>1, SideStepFrom
<1>8. SideStep(s, u) /\ u.recv_pq = s.recv_pq
  <2>1. /\ u.send_pq >= s.send_pq /\ u.send_cl = s.send_cl /\ u.recv_cl = s.recv_cl
        /\ u.current_staple = s.current_staple /\ u.recv_pq = s.recv_pq
    BY <1>2, <1>5 DEF SameSend, SameMirror
  <2> QED  BY <1>5, <1>6, <2>1, SideStepFrom
<1> QED  BY <1>7, <1>8 DEF t, u

\* Two steps of the side-band are one.
LEMMA SideTransitive ==
    ASSUME NEW s, NEW t, NEW u, Sound(s), SideStep(s, t), SideStep(t, u)
    PROVE  SideStep(s, u)
<1>1. s.send_pq \in Nat /\ t.send_pq \in Nat /\ u.send_pq \in Nat
  BY SessionFields DEF Sound, SideStep, Forward
<1>2. u.send_pq >= s.send_pq  BY <1>1 DEF SideStep, Forward
<1> QED  BY <1>2, SideStepFrom DEF SideStep, Forward

\* The export with its PQ commit, or the wedge when the leaf is spent.
LEMMA ExportSide ==
    ASSUME NEW s, Sound(s)
    PROVE  LET t == ExportAndOweBind(s)
           IN  SideStep(s, t) /\ t.recv_pq = s.recv_pq
<1> DEFINE u == CommitPqAndOweBind(s, Export(s.recv_pq))
           v == [u EXCEPT !.last_cross_injected_pq = s.recv_pq, !.pq_inflight = Idle,
                          !.pending_side_band = NoLeg]
           w == [s EXCEPT !.pq_wedged = TRUE]
<1>1. s \in SessionInner  BY DEF Sound
<1>2. s.recv_pq \in Nat /\ Export(s.recv_pq) \in Secret  BY <1>1, SessionFields, SecretTypes
<1>3. SideStep(s, u) /\ u.recv_pq = s.recv_pq  BY <1>2, OweBindSide
<1>4. ExportAndOweBind(s) = IF RecvPqLeafSpent(s) THEN w ELSE v  BY DEF ExportAndOweBind
<1> HIDE DEF u
<1>5. Sound(u)  BY <1>3 DEF SideStep, Forward
<1>6. SideStep(u, v) /\ v.recv_pq = u.recv_pq  BY <1>2, <1>5, RoundEnded
<1>7. Still(s, w)  BY <1>1 DEF SessionInner, Still, SameSend, SameMirror
<1>8. SideStep(s, w) /\ w.recv_pq = s.recv_pq
  BY <1>7, StillForward DEF SideStep, SameSend, SameMirror, Still
<1> HIDE DEF v, w
<1> QED  BY <1>3, <1>4, <1>6, <1>8, SideTransitive

\* The bootstrap: its opening, the answer that creates the responder's half, and
\* the initiator's join of it.
LEMMA BootstrapSide ==
    ASSUME NEW s, Sound(s), NEW creator \in Nat
    PROVE  /\ LET t == RegisterBootstrapRound(s)
               IN  SideStep(s, t) /\ SameSend(s, t) /\ SameMirror(s, t)
           /\ s.send_pq = 0 => LET t == RespondBootstrap(s)
                                IN  SideStep(s, t) /\ t.recv_pq = s.recv_pq
           /\ LET t == ExportAndOweBind([s EXCEPT !.recv_pq = 1,
                                                  !.recv_pq_leaf = [mine |-> 0, theirs |-> creator]])
               IN  SideStep(s, t) /\ t.recv_pq = 1
<1>1. s \in SessionInner  BY DEF Sound
<1>2. s.client \in Nat /\ s.send_pq \in Nat  BY <1>1, SessionFields
<1>3. LET t == RegisterBootstrapRound(s)
      IN  SideStep(s, t) /\ SameSend(s, t) /\ SameMirror(s, t)
  <2> DEFINE t == RegisterBootstrapRound(s)
  <2>1. t \in SessionInner  BY <1>1, SideBandTypes
  <2>2. /\ SameSend(s, t) /\ SameMirror(s, t) /\ t.owed_bind = s.owed_bind
        /\ t.pq_inflight.kind = "BootstrapInitiated" /\ t.pending_side_band.kind = "bootstrap_kp"
        /\ t.bind_apply_broken = s.bind_apply_broken
    BY <1>1 DEF RegisterBootstrapRound, SessionInner, SameSend, SameMirror, BootstrapInitiated, KpLeg
  <2> HIDE DEF t
  <2>3. Sound(t)  BY <2>1, <2>2 DEF Sound, SameSend
  <2> QED  BY <1>2, <2>2, <2>3, SideStepFrom DEF SameSend, SameMirror, t
<1>4. ASSUME s.send_pq = 0
      PROVE  LET t == RespondBootstrap(s)
             IN  SideStep(s, t) /\ t.recv_pq = s.recv_pq
  <2> DEFINE t == RespondBootstrap(s)
             leaves == [mine |-> s.client, theirs |-> 0]
  <2>1. leaves \in LeafPair /\ KpWelcomeLeg(s.client) \in Leg  BY <1>2, LegTypes DEF LeafPair
  <2> HIDE DEF leaves
  <2>2. t \in SessionInner  BY <1>1, <2>1, InflightTypes DEF RespondBootstrap, SessionInner, leaves
  <2>3. /\ t.send_pq = 1 /\ t.send_cl = s.send_cl /\ t.current_staple = s.current_staple
        /\ SameMirror(s, t) /\ t.owed_bind = s.owed_bind
        /\ t.pq_inflight.kind = "BootstrapResponded"
        /\ t.pending_side_band.kind = "bootstrap_welcome"
        /\ t.bind_apply_broken = s.bind_apply_broken
    BY <1>1 DEF RespondBootstrap, SessionInner, SameMirror, BootstrapResponded, KpWelcomeLeg
  <2>4. s.current_staple.bind.pq_epoch \in Nat /\ s.owed_bind.pq_epoch \in Nat
    BY <1>1, SessionFields DEF Staple, OwedBind
  <2> HIDE DEF t
  <2>5. Sound(t)  BY <1>4, <2>2, <2>3, <2>4 DEF Sound
  <2> QED  BY <1>2, <1>4, <2>3, <2>5, SideStepFrom DEF SameMirror, t
<1>5. LET t == ExportAndOweBind([s EXCEPT !.recv_pq = 1,
                                          !.recv_pq_leaf = [mine |-> 0, theirs |-> creator]])
      IN  SideStep(s, t) /\ t.recv_pq = 1
  <2> DEFINE leaves == [mine |-> 0, theirs |-> creator]
             u == [s EXCEPT !.recv_pq = 1, !.recv_pq_leaf = leaves]
  <2>1. leaves \in LeafPair  BY DEF LeafPair
  <2>2. /\ u \in SessionInner /\ SameSend(s, u) /\ u.recv_cl = s.recv_cl /\ u.recv_pq = 1
        /\ u.owed_bind = s.owed_bind /\ u.pq_inflight = s.pq_inflight
        /\ u.pending_side_band = s.pending_side_band /\ u.bind_apply_broken = s.bind_apply_broken
    <3> HIDE DEF leaves
    <3> QED  BY <1>1, <2>1 DEF SessionInner, SameSend
  <2> HIDE DEF u
  <2>3. Sound(u)  BY <2>2 DEF Sound, SameSend
  <2>4. SideStep(s, u)  BY <1>2, <2>2, <2>3, SideStepFrom DEF SameSend
  <2>5. SideStep(u, ExportAndOweBind(u)) /\ ExportAndOweBind(u).recv_pq = 1
    BY <2>2, <2>3, ExportSide
  <2> QED  BY <2>4, <2>5, SideTransitive DEF u
<1> QED  BY <1>3, <1>4, <1>5

\* A.4: the answer, which seals a fresh secret, and the bind.
LEMMA RatchetSide ==
    ASSUME NEW s, Sound(s), NEW leg \in Leg, fresh \in Nat
    PROVE  /\ leg.kind = "ek" => LET t == RespondRatchet(s, leg)
                                 IN  SideStep(s, t) /\ SameSend(s, t) /\ SameMirror(s, t)
           /\ leg.kind = "ct" => LET t == BindRatchet(s, leg)
                                 IN  SideStep(s, t) /\ t.recv_pq = s.recv_pq
<1>1. s \in SessionInner  BY DEF Sound
<1>2. s.send_pq \in Nat  BY <1>1, SessionFields
<1>3. ASSUME leg.kind = "ek"
      PROVE  LET t == RespondRatchet(s, leg)
             IN  SideStep(s, t) /\ SameSend(s, t) /\ SameMirror(s, t)
  <2> DEFINE t == RespondRatchet(s, leg)
             ct == Ciphertext(leg.eph, Random(fresh), s.recv_pq)
  <2>1. t \in SessionInner  BY <1>1, <1>3, RatchetTypes
  <2>2. ct.secret # NoSecret  BY DEF Ciphertext, Random, NoSecret
  <2>3. t = [s EXCEPT !.opened = @ \cup {leg}, !.pq_inflight = Responding(ct),
                      !.pending_side_band = CtLeg(s.send_cl, ct)]
    BY DEF RespondRatchet
  <2> HIDE DEF ct, t
  <2>4. CtLeg(s.send_cl, ct).kind = "ct"  BY DEF CtLeg
  <2>5. /\ SameSend(s, t) /\ SameMirror(s, t) /\ t.owed_bind = s.owed_bind
        /\ t.pq_inflight = Responding(ct) /\ t.pending_side_band = CtLeg(s.send_cl, ct)
        /\ t.bind_apply_broken = s.bind_apply_broken
    BY <1>1, <2>3 DEF SessionInner, SameSend, SameMirror
  <2>6. t.pq_inflight.kind = "Responding" /\ t.pq_inflight.ct = ct /\ t.pending_side_band.kind = "ct"
    BY <2>4, <2>5, InflightKinds
  <2>7. Sound(t)  BY <2>1, <2>2, <2>5, <2>6 DEF Sound, SameSend
  <2>8. /\ t.send_pq >= s.send_pq /\ t.send_cl = s.send_cl /\ t.recv_cl = s.recv_cl
        /\ t.current_staple = s.current_staple
    BY <1>2, <2>5 DEF SameSend, SameMirror
  <2> QED  BY <2>5, <2>7, <2>8, SideStepFrom DEF t
<1>4. ASSUME leg.kind = "ct"
      PROVE  LET t == BindRatchet(s, leg)
             IN  SideStep(s, t) /\ t.recv_pq = s.recv_pq
  <2> DEFINE u == [s EXCEPT !.opened = @ \cup {leg}]
             v == CommitPqAndOweBind(u, leg.ct.secret)
             w == [v EXCEPT !.pq_inflight = Idle, !.pending_side_band = NoLeg]
  <2>1. leg.ct.secret \in Secret  BY <1>4, LegFields DEF Ciphertexts
  <2>2. Still(s, u)
    <3>1. s.opened \cup {leg} \in SUBSET Leg  BY <1>1, SessionFields
    <3>2. \A o \in SUBSET Leg : Still(s, [s EXCEPT !.opened = o])
      BY <1>1 DEF SessionInner, Still, SameSend, SameMirror
    <3> QED  BY <3>1, <3>2
  <2>3. SideStep(s, u) /\ u.recv_pq = s.recv_pq
    BY <2>2, StillForward DEF SideStep, Still, SameSend, SameMirror
  <2>4. BindRatchet(s, leg) \in {u, w}  BY DEF BindRatchet
  <2> HIDE DEF u
  <2>5. Sound(u)  BY <2>3 DEF SideStep, Forward
  <2>6. SideStep(u, v) /\ v.recv_pq = u.recv_pq  BY <2>1, <2>5, OweBindSide
  <2> HIDE DEF v
  <2>7. Sound(v)  BY <2>6 DEF SideStep, Forward
  <2>8. SideStep(v, w) /\ w.recv_pq = v.recv_pq  BY <2>7, RoundEnded
  <2> HIDE DEF w
  <2>9. SideStep(s, w)  BY <2>3, <2>6, <2>8, SideTransitive
  <2> QED  BY <2>3, <2>4, <2>6, <2>8, <2>9
<1> QED  BY <1>3, <1>4

\* A.5: the PQ commit that answers an update, and its application at the peer.
LEMMA RekeySide ==
    ASSUME NEW s, Sound(s), NEW leg \in Leg
    PROVE  /\ leg.kind = "rekey_upd" => LET t == RespondRekey(s, leg)
                                        IN  SideStep(s, t) /\ t.recv_pq = s.recv_pq
           /\ leg.kind = "rekey_commit" =>
                  LET t == ApplyRekey(s, leg)
                  IN  SideStep(s, t) /\ (t.recv_pq = s.recv_pq \/ t.recv_pq = leg.epoch + 1)
<1>1. s \in SessionInner  BY DEF Sound
<1>2. s.send_pq \in Nat /\ s.recv_pq \in Nat  BY <1>1, SessionFields
<1>3. ASSUME leg.kind = "rekey_upd"
      PROVE  LET t == RespondRekey(s, leg)
             IN  SideStep(s, t) /\ t.recv_pq = s.recv_pq
  <2> DEFINE t == RespondRekey(s, leg)
             commit == PqCommitLeg(s.send_pq, IF RecvPqLeafSpent(s) THEN 0 ELSE s.recv_pq,
                                   [mine |-> s.client, theirs |-> leg.id])
  <2>1. t \in SessionInner  BY <1>1, <1>3, RekeyTypes
  <2>2. commit.kind = "rekey_commit" /\ commit.epoch = s.send_pq  BY DEF PqCommitLeg
  <2>3. /\ SameMirror(s, t) /\ t.send_cl = s.send_cl /\ t.current_staple = s.current_staple
        /\ t.owed_bind = s.owed_bind /\ t.bind_apply_broken = s.bind_apply_broken
        /\ \/ /\ t.send_pq = s.send_pq + 1 /\ t.pq_inflight = RekeyResponded
              /\ t.pending_side_band = commit
           \/ /\ t.send_pq = s.send_pq /\ t.pq_inflight = s.pq_inflight
              /\ t.pending_side_band = s.pending_side_band
    <3>1. CASE UpdAccepted(s, leg)
      <4> HIDE DEF commit
      <4>1. t = [s EXCEPT !.last_cross_injected_pq = s.recv_pq,
                          !.send_pq = @ + 1, !.send_pq_leaf = [mine |-> s.client, theirs |-> leg.id],
                          !.pq_inflight = RekeyResponded, !.pending_side_band = commit]
        BY <1>1, <3>1 DEF RespondRekey, SessionInner, commit
      <4> HIDE DEF t
      <4> QED  BY <1>1, <4>1 DEF SessionInner, SameMirror
    <3>2. CASE ~UpdAccepted(s, leg)
      BY <1>1, <3>2 DEF RespondRekey, SessionInner, SameMirror
    <3> QED  BY <3>1, <3>2
  <2> HIDE DEF t, commit
  <2>4. s.current_staple.bind.pq_epoch \in Nat /\ s.owed_bind.pq_epoch \in Nat
    BY <1>1, SessionFields DEF Staple, OwedBind
  <2>5. RekeyResponded.kind = "RekeyResponded"  BY InflightKinds
  <2>6. Sound(t)  BY <1>2, <2>1, <2>2, <2>3, <2>4, <2>5 DEF Sound
  <2>7. /\ t.send_pq >= s.send_pq /\ t.recv_cl = s.recv_cl /\ t.recv_pq = s.recv_pq
    BY <1>2, <2>3 DEF SameMirror
  <2> QED  BY <2>3, <2>6, <2>7, SideStepFrom DEF t
<1>4. ASSUME leg.kind = "rekey_commit"
      PROVE  LET t == ApplyRekey(s, leg)
             IN  SideStep(s, t) /\ (t.recv_pq = s.recv_pq \/ t.recv_pq = leg.epoch + 1)
  <2> DEFINE u == PreRegister(s)
             leaves == [mine |-> leg.leaves.theirs, theirs |-> leg.leaves.mine]
             psks == IF SendPqLeafSpent(s) THEN u.psk_stores
                     ELSE u.psk_stores \ {SendPsk(s.send_pq)}
             v == [u EXCEPT !.pq_inflight = Idle, !.recv_pq = @ + 1, !.recv_pq_update = 0,
                            !.recv_pq_leaf = leaves, !.psk_stores = psks]
             w == ExportAndOweBind(v)
  <2>1. u \in SessionInner  BY <1>1, SideBandTypes
  <2>2. Still(s, u)  BY <1>1, <2>1 DEF PreRegister, SessionInner, Still, SameSend, SameMirror
  <2>3. SideStep(s, u) /\ u.recv_pq = s.recv_pq
    BY <2>2, StillForward DEF SideStep, Still, SameSend, SameMirror
  <2>4. ApplyRekey(s, leg) = IF RekeyCommitApplies(u, leg) THEN w ELSE u  BY DEF ApplyRekey
  <2>5. RekeyCommitApplies(u, leg) => leg.epoch = u.recv_pq  BY DEF RekeyCommitApplies
  <2>6. Sound(u) /\ u.send_pq \in Nat /\ u.recv_pq \in Nat
    BY <2>1, <2>3, SessionFields DEF SideStep, Forward
  <2> HIDE DEF u
  <2>7. leaves \in LeafPair /\ psks \in SUBSET StoredPsk
    BY <1>4, <2>1, LegFields, SessionFields DEF LeafPair
  <2> HIDE DEF leaves, psks
  <2>14. v \in SessionInner
    <3>1. u.recv_pq + 1 \in Nat  BY <2>6
    <3> QED  BY <2>1, <2>7, <3>1, RekeyedType, InflightTypes
  <2>8. /\ v.recv_pq = u.recv_pq + 1 /\ v.recv_cl = u.recv_cl
        /\ SameSend(u, v) /\ v.pq_inflight = Idle /\ v.owed_bind = u.owed_bind
        /\ v.pending_side_band = u.pending_side_band /\ v.bind_apply_broken = u.bind_apply_broken
    BY <2>1 DEF SessionInner, SameSend
  <2> HIDE DEF v
  <2>9. Sound(v)  BY <2>6, <2>8, <2>14, InflightKinds DEF Sound, SameSend
  <2>10. /\ v.send_pq >= u.send_pq /\ v.send_cl = u.send_cl /\ v.current_staple = u.current_staple
    BY <2>6, <2>8 DEF SameSend
  <2>11. SideStep(u, v)  BY <2>6, <2>8, <2>9, <2>10, SideStepFrom
  <2>12. SideStep(v, w) /\ w.recv_pq = v.recv_pq  BY <2>9, ExportSide
  <2> HIDE DEF w
  <2>13. SideStep(s, w)  BY <2>3, <2>6, <2>11, <2>12, SideTransitive
  <2> QED  BY <2>3, <2>4, <2>5, <2>8, <2>12, <2>13
<1> QED  BY <1>3, <1>4

----------------------------------------------------------------------------
(* What a step does to memory, disk and wire together.                     *)

\* The epochs on disk are numbers, and the staple on disk is one of them.
LEMMA SavedFields ==
    ASSUME NEW d, Saved(d)
    PROVE  LET b == d.wire.body
           IN  /\ b.send_cl \in Nat /\ b.send_pq \in Nat /\ b.recv_cl \in Nat /\ b.recv_pq \in Nat
               /\ b.send_cl > 0
               /\ b.current_staple.epoch < b.send_cl
               /\ b.current_staple.bind.pq_epoch <= b.send_pq
<1> DEFINE s == SessionFromWire(d.wire)
<1>1. Sound(s) /\ d.wire = Archived(s) /\ s \in SessionInner  BY DEF Saved, Sound
<1> HIDE DEF s
<1> QED  BY <1>1, ArchivedFields, SessionFields DEF Sound

\* What is true of one party's memory, disk and lag, when both the wire and the
\* peer are as they were or know no more than that disk.
LEMMA DurableMove ==
    ASSUME DurableInv, NEW p \in Party, NEW t, NEW d, NEW g \in Lags,
           session' = [session EXCEPT ![p] = t],
           disk' = [disk EXCEPT ![p] = d],
           lag' = [lag EXCEPT ![p] = g],
           crashes' \in Nat, fresh' \in Nat, fresh' > 0,
           frames' \subseteq Frame, legs' \subseteq [from : Party, leg : Leg],
           Sound(t), Saved(d), Behind(t, d.wire.body, g),
           d.wire.body.send_cl >= disk[p].wire.body.send_cl,
           d.wire.body.send_pq >= disk[p].wire.body.send_pq,
           t.recv_cl <= disk[Peer(p)].wire.body.send_cl,
           t.recv_pq <= disk[Peer(p)].wire.body.send_pq,
           d.wire.body.recv_cl <= disk[Peer(p)].wire.body.send_cl,
           d.wire.body.recv_pq <= disk[Peer(p)].wire.body.send_pq,
           \A f \in frames' \ frames : f.from = p /\ FrameDurable(f, disk[p].wire.body),
           \A l \in legs' \ legs : l.from = p /\ LegDurable(l.leg, disk[p].wire.body)
    PROVE  DurableInv'
<1> DEFINE q == Peer(p)
           b == disk[p].wire.body
           c == disk[q].wire.body
           e == d.wire.body
<1>1. q \in Party /\ q # p /\ Peer(q) = p /\ \A x \in Party : x = p \/ x = q
  BY PeerType DEF Party
<1>2. /\ session'[p] = t /\ session'[q] = session[q]
      /\ disk'[p] = d /\ disk'[q] = disk[q]
      /\ lag'[p] = g /\ lag'[q] = lag[q]
  BY <1>1 DEF DurableInv, DurableTypes, TypeOK
<1>3. Saved(disk[p]) /\ Saved(disk[q])  BY <1>1 DEF DurableInv
<1>4. /\ b.send_cl \in Nat /\ b.send_pq \in Nat /\ c.send_cl \in Nat /\ c.send_pq \in Nat
      /\ c.recv_cl \in Nat /\ c.recv_pq \in Nat
      /\ e.send_cl \in Nat /\ e.send_pq \in Nat
  BY <1>3, SavedFields
<1>5. session[q] \in SessionInner /\ session[q].recv_cl \in Nat /\ session[q].recv_pq \in Nat
  BY <1>1, SessionFields DEF DurableInv, DurableTypes, TypeOK
<1>6. DurableTypes'
  <2>1. t \in SessionInner  BY DEF Sound
  <2>2. TypeOK'  BY <2>1, UpdateType DEF DurableInv, DurableTypes
  <2>3. disk' = [x \in Party |-> disk'[x]]  BY DEF DurableInv, DurableTypes
  <2>4. lag' \in [Party -> Lags]  BY DEF DurableInv, DurableTypes
  <2> QED  BY <2>2, <2>3, <2>4 DEF DurableTypes
<1>7. Sound(session[q]) /\ DiskBehind(q) /\ MirrorsDurable(p) /\ MirrorsDurable(q)
  BY <1>1 DEF DurableInv
<1>8. DiskBehind(p)' /\ DiskBehind(q)'
  BY <1>2, <1>7 DEF DiskBehind
<1>9. MirrorsDurable(p)'
  <2>1. /\ session[q].recv_cl <= b.send_cl /\ session[q].recv_pq <= b.send_pq
        /\ c.recv_cl <= b.send_cl /\ c.recv_pq <= b.send_pq
    BY <1>7 DEF MirrorsDurable
  <2>2. /\ session[q].recv_cl <= e.send_cl /\ session[q].recv_pq <= e.send_pq
        /\ c.recv_cl <= e.send_cl /\ c.recv_pq <= e.send_pq
    BY <1>4, <1>5, <2>1
  <2> QED  BY <1>2, <2>2 DEF MirrorsDurable
<1>10. MirrorsDurable(q)'
  BY <1>1, <1>2 DEF MirrorsDurable
<1>11. WireDurable'
  <2>1. ASSUME NEW f \in frames' PROVE FrameDurable(f, disk'[f.from].wire.body)
    <3>1. f \in Frame /\ f.staple.epoch \in Nat /\ f.staple.bind.pq_epoch \in Nat /\ f.from \in Party
      BY DEF Frame, Staple, OwedBind
    <3>2. FrameDurable(f, disk[f.from].wire.body)  BY DEF DurableInv, WireDurable
    <3>3. CASE f.from = p  BY <1>2, <1>4, <3>1, <3>2, <3>3 DEF FrameDurable
    <3>4. CASE f.from = q  BY <1>2, <3>2, <3>4
    <3> QED  BY <1>1, <3>1, <3>3, <3>4
  <2>2. ASSUME NEW l \in legs' PROVE LegDurable(l.leg, disk'[l.from].wire.body)
    <3>1. l.leg \in Leg /\ l.from \in Party  OBVIOUS
    <3>2. l.leg.kind = "rekey_commit" => l.leg.epoch \in Nat  BY <3>1, LegNumbers
    <3>3. LegDurable(l.leg, disk[l.from].wire.body)  BY DEF DurableInv, WireDurable
    <3>4. CASE l.from = p  BY <1>2, <1>4, <3>2, <3>3, <3>4 DEF LegDurable
    <3>5. CASE l.from = q  BY <1>2, <3>3, <3>5
    <3> QED  BY <1>1, <3>1, <3>4, <3>5
  <2> QED  BY <2>1, <2>2 DEF WireDurable
<1>12. \A x \in Party : Sound(session'[x]) /\ Saved(disk'[x])
  BY <1>1, <1>2, <1>3, <1>7
<1> QED  BY <1>1, <1>6, <1>8, <1>9, <1>10, <1>11, <1>12 DEF DurableInv

\* A handler takes p to t: forward, on the strength of what the peer has on disk,
\* showing only what p has on disk; and it pushes what it changes.  Only a frame
\* with a commit that this party cannot take on may move a PQ epoch and not push.
SamePqEpochs(s, t) == t.send_pq = s.send_pq /\ t.recv_pq = s.recv_pq

Pushes(p, t) ==
    \/ Push(p, "Checkpoint")
    \/ Push(p, "Core") /\ SamePqEpochs(session[p], t)
    \/ PushBetween(p) /\ SamePqEpochs(session[p], t)
    \/ /\ NoPush /\ SameSend(session[p], t)
       /\ CommittableCandidateHeld => t.bind_apply_broken \/ SamePqEpochs(session[p], t)

Handles(p, t) ==
    /\ session' = [session EXCEPT ![p] = t]
    /\ Forward(session[p], t)
    /\ t.recv_cl <= disk[Peer(p)].wire.body.send_cl
    /\ t.recv_pq <= disk[Peer(p)].wire.body.send_pq
    /\ fresh' \in Nat /\ fresh' > 0
    /\ frames' \subseteq Frame /\ legs' \subseteq [from : Party, leg : Leg]
    /\ \A f \in frames' \ frames : f.from = p /\ FrameDurable(f, disk[p].wire.body)
    /\ \A l \in legs' \ legs : l.from = p /\ LegDurable(l.leg, disk[p].wire.body)
    /\ Pushes(p, t)

\* Such a step keeps the invariant, whether its push is durable, lost or half-way.
LEMMA HandlesDurable ==
    ASSUME DurableInv, NEW p \in Party, NEW t, Handles(p, t)
    PROVE  DurableInv'
<1> DEFINE s == session[p]
           b == disk[p].wire.body
           q == Peer(p)
<1>1. /\ Sound(s) /\ Saved(disk[p]) /\ Behind(s, b, lag[p]) /\ MirrorsDurable(q)
      /\ lag[p] \in Lags /\ crashes \in Nat
  BY PeerType DEF DurableInv, DurableTypes, DiskBehind
<1>2. /\ b.send_cl \in Nat /\ b.send_pq \in Nat /\ b.recv_cl \in Nat /\ b.recv_pq \in Nat
  BY <1>1, SavedFields
<1>3. Sound(t) /\ t.send_cl >= s.send_cl /\ t.send_pq >= s.send_pq  BY DEF Handles, Forward
<1>4. /\ s.send_cl \in Nat /\ s.send_pq \in Nat /\ t.send_cl \in Nat /\ t.send_pq \in Nat
      /\ t \in SessionInner
  BY <1>1, <1>3, SessionFields DEF Sound
<1>5. b.recv_cl <= disk[q].wire.body.send_cl /\ b.recv_pq <= disk[q].wire.body.send_pq
  BY <1>1, PeerType DEF MirrorsDurable
<1>6. session'[p] = t  BY DEF Handles, DurableInv, DurableTypes, TypeOK
<1>7. ASSUME NEW g \in Lags, lag' = [lag EXCEPT ![p] = g], crashes' = crashes,
             UNCHANGED disk, Behind(t, b, g)
      PROVE  DurableInv'
  <2>1. disk' = [disk EXCEPT ![p] = disk[p]]  BY <1>7 DEF DurableInv, DurableTypes
  <2>2. b.send_cl >= b.send_cl /\ b.send_pq >= b.send_pq  BY <1>2
  <2>3. crashes' \in Nat  BY <1>1, <1>7
  <2> QED  BY <1>1, <1>3, <1>5, <1>7, <2>1, <2>2, <2>3, DurableMove DEF Handles
<1>8. ASSUME NEW g \in Lags, lag' = [lag EXCEPT ![p] = g], crashes' = crashes, ~g.staple,
             NEW kind, disk' = [disk EXCEPT ![p] = Write(@, kind, session'[p])]
      PROVE  DurableInv'
  <2> DEFINE d == Write(disk[p], kind, t)
  <2>1. disk' = [disk EXCEPT ![p] = d]  BY <1>6, <1>8
  <2>2. Saved(d) /\ d.wire = Archived(t)  BY <1>1, <1>3, WriteSaves DEF Saved
  <2> HIDE DEF d
  <2>3. /\ d.wire.body.send_cl = t.send_cl /\ d.wire.body.send_pq = t.send_pq
        /\ d.wire.body.recv_cl = t.recv_cl /\ d.wire.body.recv_pq = t.recv_pq
        /\ d.wire.body.current_staple = t.current_staple
    BY <1>4, <2>2, ArchivedFields
  <2>4. Behind(t, d.wire.body, g)  BY <1>4, <1>8, <2>3 DEF Behind
  <2>5. d.wire.body.send_cl >= b.send_cl /\ d.wire.body.send_pq >= b.send_pq
    BY <1>1, <1>2, <1>3, <1>4, <2>3 DEF Behind
  <2>6. crashes' \in Nat  BY <1>1, <1>8
  <2>7. /\ d.wire.body.recv_cl <= disk[q].wire.body.send_cl
        /\ d.wire.body.recv_pq <= disk[q].wire.body.send_pq
    BY <2>3 DEF Handles
  <2> QED  BY <1>3, <1>8, <2>1, <2>2, <2>4, <2>5, <2>6, <2>7, DurableMove DEF Handles
<1>9. lag = [lag EXCEPT ![p] = lag[p]]  BY DEF DurableInv, DurableTypes
<1>10. CASE PushLost(p)
  <2> DEFINE g == [lag[p] EXCEPT !.on = TRUE,
                                 !.staple = @ \/ session'[p].current_staple # session[p].current_staple]
  <2>1. lag' = [lag EXCEPT ![p] = g] /\ crashes' = crashes /\ UNCHANGED disk
    <3>1. lag' = [lag EXCEPT ![p].on = TRUE,
                             ![p].staple = @ \/ session'[p].current_staple # session[p].current_staple]
      BY <1>10 DEF PushLost
    <3>2. lag \in [Party -> Lags]  BY DEF DurableInv, DurableTypes
    <3>3. lag' = [lag EXCEPT ![p] = g]  BY <3>1, <3>2 DEF Lags
    <3> QED  BY <3>3, <1>10 DEF PushLost
  <2>2. g \in Lags /\ g.on = TRUE /\ (g.staple <=> lag[p].staple \/ t.current_staple # s.current_staple)
    BY <1>1, <1>6 DEF Lags
  <2> HIDE DEF g
  <2>3. Behind(t, b, g)  BY <1>1, <1>2, <1>3, <1>4, <2>2 DEF Behind
  <2> QED  BY <1>7, <2>1, <2>2, <2>3
<1>11. ASSUME NEW kind, PushDurable(p, kind) PROVE DurableInv'
  <2>1. lag' = [lag EXCEPT ![p] = lag[p]] /\ crashes' = crashes /\ ~lag[p].on
    BY <1>9, <1>11 DEF PushDurable
  <2>2. ~lag[p].staple  BY <1>1, <2>1 DEF Behind
  <2> QED  BY <1>1, <1>8, <1>11, <2>1, <2>2 DEF PushDurable
<1>12. CASE PushBetween(p)
  <2> DEFINE g == [lag[p] EXCEPT !.on = TRUE]
  <2>1. lag' = [lag EXCEPT ![p] = g] /\ crashes' = crashes /\ ~lag[p].on
    BY <1>12 DEF PushBetween
  <2>2. g \in Lags /\ g.staple = lag[p].staple /\ ~lag[p].staple
    BY <1>1, <2>1 DEF Lags, Behind
  <2> HIDE DEF g
  <2>3. disk' = [disk EXCEPT ![p] = Write(@, "Core", session'[p])]  BY <1>12 DEF PushBetween
  <2> QED  BY <1>8, <2>1, <2>2, <2>3
<1>13. CASE NoPush /\ SameSend(s, t)
  <2>1. Behind(t, b, lag[p])  BY <1>1, <1>13 DEF Behind, SameSend
  <2> QED  BY <1>1, <1>7, <1>9, <1>13, <2>1 DEF NoPush
<1> QED  BY <1>10, <1>11, <1>12, <1>13 DEF Handles, Pushes, Push

\* Whatever p pushed last, its slots reconcile.
LEMMA HandlesReconciles ==
    ASSUME DurableInv, RestoreInv, CommittableCandidateHeld, NEW p \in Party, NEW t, Handles(p, t)
    PROVE  RestoreInv'
<1> DEFINE s == session[p]
<1>1. session'[p] = t /\ \A x \in Party : x # p => session'[x] = session[x]
  BY DEF Handles, DurableInv, DurableTypes, TypeOK
<1>2. ASSUME NEW x \in Party, x # p, ~session'[x].bind_apply_broken
      PROVE  Reconciles(disk'[x]) /\ (~lag'[x].on => TreesLevel(session'[x], disk'[x].trees))
  <2>1. disk'[x] = disk[x] /\ lag'[x] = lag[x]
    BY <1>2 DEF Handles, Pushes, Push, PushDurable, PushLost, PushBetween, NoPush,
                DurableInv, DurableTypes
  <2> QED  BY <1>1, <1>2, <2>1 DEF RestoreInv
<1>3. ASSUME ~t.bind_apply_broken
      PROVE  Reconciles(disk'[p]) /\ (~lag'[p].on => TreesLevel(t, disk'[p].trees))
  <2>1. /\ ~s.bind_apply_broken /\ Sound(t) /\ t \in SessionInner
        /\ Joined(s) => Joined(t)
    BY <1>3 DEF Handles, Forward, Sound
  <2>2. /\ Reconciles(disk[p])
        /\ ~lag[p].on => TreesLevel(s, disk[p].trees)
    BY <2>1 DEF RestoreInv
  <2>3. disk = [x \in Party |-> disk[x]] /\ lag \in [Party -> Lags]  BY DEF DurableInv, DurableTypes
  <2>4. CASE PushLost(p)
    <3>1. lag'[p].on = TRUE /\ disk'[p] = disk[p]  BY <2>3, <2>4 DEF PushLost, Lags
    <3> QED  BY <2>2, <3>1
  <2>5. CASE PushDurable(p, "Checkpoint")
    <3>1. disk'[p] = Write(disk[p], "Checkpoint", t)  BY <1>1, <2>3, <2>5 DEF PushDurable
    <3>2. Write(disk[p], "Checkpoint", t).trees = Trees(t)  BY DEF Write
    <3>4. ~Write(disk[p], "Checkpoint", t).core_newer
      <4>1. Write(disk[p], "Checkpoint", t).core_newer <=> "Checkpoint" = "Core"  BY DEF Write
      <4> QED  BY <4>1
    <3>3. TreesLevel(t, Trees(t))  BY DEF TreesLevel, Trees
    <3> QED  BY <3>1, <3>2, <3>3, <3>4 DEF Reconciles
  <2>6. ASSUME disk' = [disk EXCEPT ![p] = Write(@, "Core", session'[p])],
               SamePqEpochs(s, t), ~lag[p].on
        PROVE  Reconciles(disk'[p]) /\ TreesLevel(t, disk'[p].trees)
    <3>1. disk'[p] = Write(disk[p], "Core", t)  BY <1>1, <2>3, <2>6
    <3>2. disk'[p].trees = disk[p].trees /\ disk'[p].wire = Archived(t)  BY <3>1 DEF Write
    <3>3. TreesLevel(t, disk[p].trees)  BY <2>1, <2>2, <2>6 DEF TreesLevel, SamePqEpochs
    <3>4. /\ Archived(t).body.send_pq = t.send_pq /\ Archived(t).body.recv_pq = t.recv_pq
          /\ Joined(Archived(t).body) <=> Joined(t)
      BY <2>1, ArchivedFields
    <3> QED  BY <3>2, <3>3, <3>4 DEF Reconciles, TreesLevel
  <2>7. CASE NoPush /\ SamePqEpochs(s, t)
    BY <2>1, <2>2, <2>7 DEF NoPush, TreesLevel, SamePqEpochs
  <2> QED  BY <1>3, <2>4, <2>5, <2>6, <2>7
           DEF Handles, Pushes, Push, PushDurable, PushBetween
<1> QED  BY <1>1, <1>2, <1>3 DEF RestoreInv

\* So is a crash: what it gives back is what was saved, and that is saved again.
LEMMA CrashDurable ==
    ASSUME DurableInv, NEW p \in Party, Crash(p)
    PROVE  DurableInv' /\ (RestoreInv => RestoreInv')
<1> DEFINE t == Restored(disk[p])
           d == Slots(t)
           g == InStepWithDisk(lag[p].gate)
           b == disk[p].wire.body
           q == Peer(p)
<1>1. /\ Saved(disk[p]) /\ lag \in [Party -> Lags] /\ crashes \in Nat /\ fresh \in Nat /\ fresh > 0
      /\ frames \subseteq Frame /\ legs \subseteq [from : Party, leg : Leg]
      /\ MirrorsDurable(q) /\ session \in [Party -> SessionInner]
      /\ disk = [x \in Party |-> disk[x]]
  BY PeerType DEF DurableInv, DurableTypes, TypeOK
<1>2. /\ Sound(t) /\ t.send_cl = b.send_cl /\ t.send_pq = b.send_pq
      /\ t.recv_cl = b.recv_cl /\ t.recv_pq = b.recv_pq /\ t.current_staple = b.current_staple
  BY <1>1, RestoredSound
<1>3. session' = [session EXCEPT ![p] = t] /\ session'[p] = t  BY <1>1 DEF Crash
<1>4. disk' = [disk EXCEPT ![p] = d] /\ lag' = [lag EXCEPT ![p] = g]
  BY <1>3 DEF Crash
<1>5. /\ crashes' \in Nat /\ fresh' \in Nat /\ fresh' > 0 /\ frames' = frames /\ legs' = legs
  BY <1>1 DEF Crash
<1>6. g \in Lags /\ ~g.staple  BY <1>1 DEF InStepWithDisk, Lags
<1> HIDE DEF t
<1>7. Saved(d) /\ d.wire = Archived(t)  BY <1>1, <1>2, WriteSaves DEF Saved
<1>8. d.trees = Trees(t) /\ d.core_newer = FALSE  BY DEF Slots
<1> HIDE DEF d, g
<1>9. t \in SessionInner /\ t.send_cl \in Nat /\ t.send_pq \in Nat  BY <1>2, SessionFields DEF Sound
<1>10. /\ d.wire.body.send_cl = t.send_cl /\ d.wire.body.send_pq = t.send_pq
       /\ d.wire.body.recv_cl = t.recv_cl /\ d.wire.body.recv_pq = t.recv_pq
       /\ d.wire.body.current_staple = t.current_staple
  BY <1>7, <1>9, ArchivedFields
<1>11. Behind(t, d.wire.body, g)  BY <1>6, <1>9, <1>10 DEF Behind
<1>12. d.wire.body.send_cl >= b.send_cl /\ d.wire.body.send_pq >= b.send_pq
  BY <1>2, <1>9, <1>10
<1>13. b.recv_cl <= disk[q].wire.body.send_cl /\ b.recv_pq <= disk[q].wire.body.send_pq
  BY <1>1, PeerType DEF MirrorsDurable
<1>14. /\ t.recv_cl <= disk[q].wire.body.send_cl /\ t.recv_pq <= disk[q].wire.body.send_pq
       /\ d.wire.body.recv_cl <= disk[q].wire.body.send_cl
       /\ d.wire.body.recv_pq <= disk[q].wire.body.send_pq
  BY <1>2, <1>10, <1>13
<1>15. DurableInv'
  BY <1>1, <1>2, <1>3, <1>4, <1>5, <1>6, <1>7, <1>11, <1>12, <1>14, DurableMove
<1>16. ASSUME RestoreInv PROVE RestoreInv'
  <2>1. disk'[p] = d /\ \A x \in Party : x # p => /\ disk'[x] = disk[x] /\ lag'[x] = lag[x]
                                                  /\ session'[x] = session[x]
    BY <1>1, <1>3, <1>4
  <2>2. TreesLevel(t, Trees(t))  BY DEF TreesLevel, Trees
  <2>3. Reconciles(disk'[p]) /\ TreesLevel(session'[p], disk'[p].trees)
    BY <1>3, <1>8, <2>1, <2>2 DEF Reconciles
  <2> QED  BY <1>16, <2>1, <2>3 DEF RestoreInv
<1> QED  BY <1>15, <1>16

----------------------------------------------------------------------------
(* Every action but a crash is a handler's step.                           *)

\* What a handler may count on before it starts.
LEMMA Standing ==
    ASSUME DurableInv, NEW p \in Party
    PROVE  /\ Sound(session[p]) /\ session[p] \in SessionInner
           /\ disk[Peer(p)].wire.body.send_cl \in Nat /\ disk[Peer(p)].wire.body.send_pq \in Nat
           /\ disk[Peer(p)].wire.body.send_cl > 0
           /\ session[p].recv_cl <= disk[Peer(p)].wire.body.send_cl
           /\ session[p].recv_pq <= disk[Peer(p)].wire.body.send_pq
           /\ fresh \in Nat /\ fresh > 0
           /\ frames \subseteq Frame /\ legs \subseteq [from : Party, leg : Leg]
<1>1. Peer(p) \in Party /\ Peer(Peer(p)) = p  BY PeerType
<1>2. Saved(disk[Peer(p)]) /\ MirrorsDurable(Peer(p))  BY <1>1 DEF DurableInv
<1>3. /\ session[p].recv_cl <= disk[Peer(p)].wire.body.send_cl
      /\ session[p].recv_pq <= disk[Peer(p)].wire.body.send_pq
  BY <1>1, <1>2 DEF MirrorsDurable
<1> QED  BY <1>2, <1>3, SavedFields DEF DurableInv, DurableTypes, TypeOK, Sound

\* A step that sends nothing and leaves the mirrors.
LEMMA QuietHandles ==
    ASSUME DurableInv, NEW p \in Party, NEW t,
           session' = [session EXCEPT ![p] = t],
           Forward(session[p], t), SameMirror(session[p], t), Pushes(p, t),
           UNCHANGED <<frames, legs>>, fresh' \in Nat, fresh' > 0
    PROVE  Handles(p, t)
  BY Standing DEF Handles, SameMirror

\* Preparing, encrypting and approving are such steps: a frame that may go out shows the
\* staple that is on disk.
LEMMA MessagingHandles ==
    ASSUME DurableInv, NEW p \in Party
    PROVE  /\ \A selected \in Ids : Prepare(p, selected) => \E t : Handles(p, t)
           /\ SendMessage(p) \/ WithholdMessage(p) => \E t : Handles(p, t)
           /\ SendNothing(p) \/ Approve(p) => \E t : Handles(p, t)
<1> DEFINE s == session[p]
<1>1. Sound(s) /\ s \in SessionInner /\ fresh \in Nat /\ fresh > 0  BY Standing
<1>2. ASSUME NEW selected \in Ids, Prepare(p, selected) PROVE \E t : Handles(p, t)
  <2> DEFINE t == IF Joined(s) THEN PrepareRatchetCommit(s, selected) ELSE PreparePreEstablishment(s)
  <2>1. selected \in Nat  BY DEF Ids
  <2>2. /\ session' = [session EXCEPT ![p] = t] /\ UNCHANGED <<frames, legs, fresh>>
        /\ Push(p, "Core")
    BY <1>2 DEF Prepare, PrepareToEncrypt
  <2>3. Forward(s, t) /\ SameMirror(s, t) /\ t.send_pq = s.send_pq
    BY <1>1, <2>1, PrepareForward, StillForward DEF SameSend
  <2> HIDE DEF t
  <2>4. Pushes(p, t)  BY <2>2, <2>3 DEF Pushes, SamePqEpochs, SameMirror
  <2>5. Handles(p, t)  BY <1>1, <2>2, <2>3, <2>4, QuietHandles
  <2> QED  BY <2>5
<1>3. ASSUME SendMessage(p) \/ WithholdMessage(p) PROVE \E t : Handles(p, t)
  <2> DEFINE t == AfterEncrypt(s)
             f == MessageFrame(p)
  <2>1. /\ session' = [session EXCEPT ![p] = t] /\ UNCHANGED legs /\ PushEncrypted(p)
        /\ fresh' = fresh \/ fresh' = fresh + 1
        /\ \/ UNCHANGED frames
           \/ frames' = frames \cup {f} /\ ~lag[p].staple
    BY <1>3 DEF SendMessage, WithholdMessage, EncryptFrame, ComposeFrame, MessageGate
  <2>2. Forward(s, t) /\ SameSend(s, t) /\ SameMirror(s, t)  BY <1>1, EncryptForward
  <2> HIDE DEF t
  <2>3. Pushes(p, t)
    BY <2>1, <2>2 DEF PushEncrypted, Pushes, SamePqEpochs, SameSend, SameMirror
  <2>4. fresh' \in Nat /\ fresh' > 0  BY <1>1, <2>1
  <2>5. f \in Frame /\ f.from = p /\ f.staple = s.current_staple
    BY <1>1, SessionFields DEF MessageFrame, Frame
  <2>6. ~lag[p].staple => FrameDurable(f, disk[p].wire.body)
    <3>1. Saved(disk[p]) /\ Behind(s, disk[p].wire.body, lag[p])  BY DEF DurableInv, DiskBehind
    <3> HIDE DEF f
    <3> QED  BY <2>5, <3>1, SavedFields DEF Behind, FrameDurable
  <2> HIDE DEF f
  <2>7. Handles(p, t)  BY <1>1, <2>1, <2>2, <2>3, <2>4, <2>5, <2>6, Standing DEF Handles, SameMirror
  <2> QED  BY <2>7
<1>4. ASSUME SendNothing(p) \/ Approve(p) PROVE \E t : Handles(p, t)
  <2> DEFINE u == [s EXCEPT !.pending_proposal_hash = FALSE]
             v == [s EXCEPT !.queued_proposal = s.offered_proposal, !.offered_proposal = NoOffer]
  <2>1. Still(s, u) /\ Still(s, v)
    BY <1>1, AbsentTypes, SessionFields DEF SessionInner, Still, SameSend, SameMirror
  <2>2. PICK t \in {u, v} : session' = [session EXCEPT ![p] = t]
    BY <1>4 DEF SendNothing, EncryptWithoutProposal, Approve, QueueProposal
  <2>3. UNCHANGED <<frames, legs, fresh>> /\ Push(p, "Core")
    BY <1>4 DEF SendNothing, EncryptWithoutProposal, Approve, QueueProposal
  <2>4. Still(s, t)  BY <2>1, <2>2
  <2>5. Forward(s, t) /\ SameSend(s, t) /\ SameMirror(s, t)  BY <1>1, <2>4, StillForward
  <2>6. Pushes(p, t)  BY <2>3, <2>5 DEF Pushes, SamePqEpochs, SameSend, SameMirror
  <2>7. Handles(p, t)  BY <1>1, <2>2, <2>3, <2>5, <2>6, QuietHandles
  <2> QED  BY <2>7
<1> QED  BY <1>2, <1>3, <1>4

\* Receiving is one: what a frame leads to is on the sender's disk.
LEMMA ReceivingHandles ==
    ASSUME DurableInv, NEW p \in Party
    PROVE  /\ \A f \in frames : Receive(p, f) => \E t : Handles(p, t)
           /\ ReceiveWelcome(p) => \E t : Handles(p, t)
<1> DEFINE s == session[p]
           c == disk[Peer(p)].wire.body
<1>1. /\ Sound(s) /\ s \in SessionInner /\ fresh \in Nat /\ fresh > 0
      /\ c.send_cl \in Nat /\ c.send_pq \in Nat /\ c.send_cl > 0
      /\ s.recv_cl <= c.send_cl /\ s.recv_pq <= c.send_pq
  BY Standing
<1>2. ASSUME NEW f \in frames, Receive(p, f) PROVE \E t : Handles(p, t)
  <2> DEFINE t == ProcessFrame(s, f)
  <2>1. /\ f.from = Peer(p) /\ StapleAdmitted(s, f.staple)
        /\ session' = [session EXCEPT ![p] = t] /\ UNCHANGED <<frames, legs, fresh>>
        /\ IF FrameFails(s, f) THEN NoPush ELSE Push(p, IncomingKind(p))
    BY <1>2 DEF Receive, ProcessIncomingFrame
  <2>2. f \in Frame  BY Standing
  <2>3. f.staple.epoch \in Nat /\ f.staple.bind.pq_epoch \in Nat
    BY <2>2 DEF Frame, Staple, OwedBind
  <2>4. FrameDurable(f, c)  BY <2>1 DEF DurableInv, WireDurable
  <2>5. /\ Forward(s, t) /\ SameSend(s, t)
        /\ t.recv_cl = s.recv_cl \/ t.recv_cl = 1 \/ t.recv_cl = f.staple.epoch + 1
        /\ t.recv_pq = s.recv_pq \/ t.recv_pq = f.staple.bind.pq_epoch
        /\ FrameFails(s, f) /\ t.recv_pq # s.recv_pq =>
              \/ t.bind_apply_broken
              \/ f.staple.kind = "bind" /\ f.staple.epoch = s.recv_cl /\ ~WinnerHeld(s, f.staple)
    BY <1>1, <2>1, <2>2, ReadForward
  <2> HIDE DEF t
  <2>6. t.recv_cl <= c.send_cl /\ t.recv_pq <= c.send_pq
    BY <1>1, <2>3, <2>4, <2>5 DEF FrameDurable
  <2>7. Pushes(p, t)
    <3>1. CASE FrameFails(s, f)
      <4>1. ~WinnerHeld(s, f.staple) /\ f.staple.kind = "bind" /\ f.staple.epoch = s.recv_cl
            => ~CommittableCandidateHeld
        BY <2>1, PeerType DEF CommittableCandidateHeld
      <4>2. CommittableCandidateHeld => t.bind_apply_broken \/ SamePqEpochs(s, t)
        BY <2>5, <3>1, <4>1 DEF SamePqEpochs, SameSend
      <4> QED  BY <2>1, <2>5, <3>1, <4>2 DEF Pushes
    <3>2. CASE ~FrameFails(s, f)
      <4>1. session'[p] = t  BY <2>1 DEF DurableInv, DurableTypes, TypeOK
      <4>2. \/ IncomingKind(p) = "Checkpoint"
            \/ IncomingKind(p) = "Core" /\ SamePqEpochs(s, t)
        BY <4>1 DEF IncomingKind, PqEpochs, SamePqEpochs
      <4> QED  BY <2>1, <3>2, <4>2 DEF Pushes
    <3> QED  BY <3>1, <3>2
  <2>8. Handles(p, t)  BY <1>1, <2>1, <2>5, <2>6, <2>7, Standing DEF Handles
  <2> QED  BY <2>8
<1>3. ASSUME ReceiveWelcome(p) PROVE \E t : Handles(p, t)
  <2> DEFINE t == [s EXCEPT !.recv_cl = 1]
  <2>1. /\ session' = [session EXCEPT ![p] = t] /\ UNCHANGED <<frames, legs, fresh>>
        /\ Push(p, "Core")
    BY <1>3 DEF ReceiveWelcome, ProcessIncomingWelcome, ProcessWelcome
  <2>2. /\ t \in SessionInner /\ SameSend(s, t) /\ t.recv_cl = 1 /\ t.recv_pq = s.recv_pq
        /\ t.pq_inflight = s.pq_inflight /\ t.owed_bind = s.owed_bind
        /\ t.pending_side_band = s.pending_side_band /\ t.bind_apply_broken = s.bind_apply_broken
    BY <1>1 DEF SessionInner, SameSend
  <2> HIDE DEF t
  <2>3. Sound(t)  BY <1>1, <2>2 DEF Sound, SameSend
  <2>4. s.send_cl \in Nat /\ s.send_pq \in Nat  BY <1>1, SessionFields
  <2>5. Forward(s, t)  BY <2>2, <2>3, <2>4 DEF Forward, SameSend, Joined
  <2>6. Pushes(p, t)  BY <2>1, <2>2 DEF Pushes, SamePqEpochs, SameSend
  <2>7. t.recv_cl <= c.send_cl /\ t.recv_pq <= c.send_pq  BY <1>1, <2>2
  <2>8. Handles(p, t)  BY <1>1, <2>1, <2>5, <2>6, <2>7, Standing DEF Handles
  <2> QED  BY <2>8
<1> QED  BY <1>2, <1>3

\* Handing out is one: a side-band frame goes out when the disk is level.
LEMMA OutboundHandles ==
    ASSUME DurableInv, NEW p \in Party
    PROVE  HandOut(p) \/ OpenBootstrap(p) \/ WithholdBootstrap(p) => \E t : Handles(p, t)
<1> DEFINE s == session[p]
           b == disk[p].wire.body
<1>1. Sound(s) /\ s \in SessionInner /\ fresh \in Nat /\ fresh > 0  BY Standing
<1>2. s.send_cl \in Nat /\ s.send_pq \in Nat /\ s.pending_side_band \in Leg \cup {NoLeg}
  BY <1>1, SessionFields
<1>3. ASSUME HandOut(p) PROVE \E t : Handles(p, t)
  <2> DEFINE l == [from |-> p, leg |-> s.pending_side_band]
  <2>1. /\ session' = session /\ UNCHANGED <<frames, fresh>> /\ NoPush /\ ~lag[p].on
        /\ legs' = legs \cup {l} /\ s.pending_side_band # NoLeg
    BY <1>3 DEF HandOut, PqPendingOutbound, SideBandGate
  <2>2. session' = [session EXCEPT ![p] = s]  BY <2>1 DEF DurableInv, DurableTypes, TypeOK
  <2>3. Forward(s, s) /\ SameSend(s, s) /\ SamePqEpochs(s, s)
    BY <1>1, <1>2 DEF Forward, SameSend, SamePqEpochs
  <2>4. l \in [from : Party, leg : Leg] /\ l.from = p /\ l.leg = s.pending_side_band
    BY <1>2, <2>1
  <2>5. b.send_pq = s.send_pq  BY <2>1 DEF DurableInv, DiskBehind, Behind
  <2>6. LegDurable(l.leg, b)  BY <1>1, <2>4, <2>5 DEF LegDurable, Sound
  <2>7. Pushes(p, s)  BY <2>1, <2>3 DEF Pushes
  <2> HIDE DEF l
  <2>8. Handles(p, s)  BY <1>1, <2>1, <2>2, <2>3, <2>4, <2>6, <2>7, Standing DEF Handles
  <2> QED  BY <2>8
<1>4. ASSUME OpenBootstrap(p) \/ WithholdBootstrap(p) PROVE \E t : Handles(p, t)
  <2> DEFINE t == RegisterBootstrapRound(s)
             l == [from |-> p, leg |-> KpLeg]
  <2>1. /\ session' = [session EXCEPT ![p] = t] /\ UNCHANGED <<frames, fresh>>
        /\ legs' \subseteq legs \cup {l} /\ Push(p, "Checkpoint")
    BY <1>4 DEF OpenBootstrap, WithholdBootstrap, PqBootstrapBegin, PqBootstrapEnvelope, Push
  <2>2. SideStep(s, t) /\ SameMirror(s, t)  BY <1>1, BootstrapSide
  <2> HIDE DEF t
  <2>3. Forward(s, t) /\ Pushes(p, t)  BY <2>1, <2>2 DEF SideStep, Pushes
  <2>4. l \in [from : Party, leg : Leg] /\ l.from = p /\ LegDurable(l.leg, b)
    BY LegTypes DEF LegDurable, KpLeg
  <2> HIDE DEF l
  <2>5. Handles(p, t)
    BY <1>1, <2>1, <2>2, <2>3, <2>4, Standing DEF Handles, SameMirror
  <2> QED  BY <2>5
<1> QED  BY <1>3, <1>4

\* The side-band handlers are: the PQ epoch a leg leads to is on the sender's disk.
LEMMA SideBandHandles ==
    ASSUME DurableInv, NEW p \in Party
    PROVE  RespondToEphemeral(p) \/ MovePq(p) => \E t : Handles(p, t)
<1> DEFINE s == session[p]
           c == disk[Peer(p)].wire.body
<1>1. /\ Sound(s) /\ s \in SessionInner /\ fresh \in Nat /\ fresh > 0
      /\ c.send_cl \in Nat /\ c.send_pq \in Nat
      /\ s.recv_cl <= c.send_cl /\ s.recv_pq <= c.send_pq
      /\ legs \subseteq [from : Party, leg : Leg]
  BY Standing
<1>2. ASSUME NEW t, session' = [session EXCEPT ![p] = t], SideStep(s, t), Pushes(p, t),
             t.recv_pq <= c.send_pq, UNCHANGED <<frames, legs>>, fresh' \in Nat, fresh' > 0
      PROVE  \E x : Handles(p, x)
  <2>1. t.recv_cl <= c.send_cl /\ Forward(s, t)  BY <1>1, <1>2 DEF SideStep
  <2>2. Handles(p, t)  BY <1>2, <2>1, Standing DEF Handles
  <2> QED  BY <2>2
<1>3. CASE RespondToEphemeral(p)
  <2>1. PICK l \in legs : /\ l.leg.kind = "ek" /\ fresh' = fresh + 1 /\ UNCHANGED <<frames, legs>>
                          /\ session' = [session EXCEPT ![p] = RespondRatchet(s, l.leg)]
    BY <1>3 DEF RespondToEphemeral, PqRatchetRespond
  <2> DEFINE t == RespondRatchet(s, l.leg)
  <2>2. l.leg \in Leg  BY <1>1
  <2>3. SideStep(s, t) /\ SameSend(s, t) /\ SameMirror(s, t)  BY <1>1, <2>1, <2>2, RatchetSide
  <2> HIDE DEF t
  <2>4. Pushes(p, t)
    BY <1>3, <2>3 DEF RespondToEphemeral, Pushes, SamePqEpochs, SameSend, SameMirror
  <2>5. t.recv_pq <= c.send_pq /\ fresh' \in Nat /\ fresh' > 0  BY <1>1, <2>1, <2>3 DEF SameMirror
  <2> QED  BY <1>2, <2>1, <2>3, <2>4, <2>5 DEF t
<1>4. ASSUME MovePq(p), NEW t, session' = [session EXCEPT ![p] = t], SideStep(s, t),
             t.recv_pq <= c.send_pq, UNCHANGED <<frames, legs, fresh>>
      PROVE  \E x : Handles(p, x)
  <2>1. Pushes(p, t)  BY <1>4 DEF MovePq, Pushes
  <2> QED  BY <1>1, <1>2, <1>4, <2>1
<1>5. CASE MovePq(p) /\ PqBootstrapRespond(p)
  <2>1. /\ session' = [session EXCEPT ![p] = RespondBootstrap(s)] /\ UNCHANGED <<frames, legs, fresh>>
        /\ s.send_pq = 0
    BY <1>5 DEF PqBootstrapRespond, CanRespondBootstrap
  <2> DEFINE t == RespondBootstrap(s)
  <2>2. SideStep(s, t) /\ t.recv_pq = s.recv_pq  BY <1>1, <2>1, BootstrapSide
  <2> HIDE DEF t
  <2> QED  BY <1>1, <1>4, <1>5, <2>1, <2>2 DEF t
<1>6. CASE MovePq(p) /\ PqBootstrapBind(p)
  <2>1. PICK l \in legs :
           /\ l.from = Peer(p) /\ l.leg.kind = "bootstrap_welcome"
           /\ session' = [session EXCEPT ![p] =
                 ExportAndOweBind([s EXCEPT !.recv_pq = 1,
                                            !.recv_pq_leaf = [mine |-> 0, theirs |-> l.leg.creator]])]
           /\ UNCHANGED <<frames, legs, fresh>>
    BY <1>6 DEF PqBootstrapBind
  <2> DEFINE t == ExportAndOweBind([s EXCEPT !.recv_pq = 1,
                                             !.recv_pq_leaf = [mine |-> 0, theirs |-> l.leg.creator]])
  <2>2. l.leg \in Leg /\ l.leg.creator \in Nat  BY <1>1, <2>1, LegFields
  <2>3. SideStep(s, t) /\ t.recv_pq = 1  BY <1>1, <2>2, BootstrapSide
  <2>4. c.send_pq > 0  BY <2>1 DEF DurableInv, WireDurable, LegDurable
  <2>5. session' = [session EXCEPT ![p] = t]  BY <2>1
  <2> HIDE DEF t
  <2>6. t.recv_pq <= c.send_pq  BY <1>1, <2>3, <2>4
  <2> QED  BY <1>4, <1>6, <2>1, <2>3, <2>5, <2>6
<1>7. CASE MovePq(p) /\ PqRatchetBind(p)
  <2>1. PICK l \in legs : /\ l.leg.kind = "ct" /\ UNCHANGED <<frames, legs, fresh>>
                          /\ session' = [session EXCEPT ![p] = BindRatchet(s, l.leg)]
    BY <1>7 DEF PqRatchetBind
  <2> DEFINE t == BindRatchet(s, l.leg)
  <2>2. l.leg \in Leg  BY <1>1
  <2>3. SideStep(s, t) /\ t.recv_pq = s.recv_pq  BY <1>1, <2>1, <2>2, RatchetSide
  <2> HIDE DEF t
  <2> QED  BY <1>1, <1>4, <1>7, <2>1, <2>3 DEF t
<1>8. CASE MovePq(p) /\ PqRekeyRespond(p)
  <2>1. PICK l \in legs : /\ l.leg.kind = "rekey_upd" /\ UNCHANGED <<frames, legs, fresh>>
                          /\ session' = [session EXCEPT ![p] = RespondRekey(s, l.leg)]
    BY <1>8 DEF PqRekeyRespond
  <2> DEFINE t == RespondRekey(s, l.leg)
  <2>2. l.leg \in Leg  BY <1>1
  <2>3. SideStep(s, t) /\ t.recv_pq = s.recv_pq  BY <1>1, <2>1, <2>2, RekeySide
  <2> HIDE DEF t
  <2> QED  BY <1>1, <1>4, <1>8, <2>1, <2>3 DEF t
<1>9. CASE MovePq(p) /\ PqRekeyApply(p)
  <2>1. PICK l \in legs : /\ l.from = Peer(p) /\ l.leg.kind = "rekey_commit"
                          /\ session' = [session EXCEPT ![p] = ApplyRekey(s, l.leg)]
                          /\ UNCHANGED <<frames, legs, fresh>>
    BY <1>9 DEF PqRekeyApply
  <2> DEFINE t == ApplyRekey(s, l.leg)
  <2>2. l.leg \in Leg /\ l.leg.epoch \in Nat  BY <1>1, <2>1, LegFields
  <2>3. SideStep(s, t) /\ (t.recv_pq = s.recv_pq \/ t.recv_pq = l.leg.epoch + 1)
    BY <1>1, <2>1, <2>2, RekeySide
  <2>4. l.leg.epoch < c.send_pq  BY <2>1 DEF DurableInv, WireDurable, LegDurable
  <2> HIDE DEF t
  <2>5. t.recv_pq <= c.send_pq  BY <1>1, <2>2, <2>3, <2>4
  <2> QED  BY <1>4, <1>9, <2>1, <2>3, <2>5 DEF t
<1> QED  BY <1>3, <1>5, <1>6, <1>7, <1>8, <1>9 DEF MovePq

\* Every step keeps both invariants, the second while every candidate is held.
LEMMA RecoveryStep ==
    ASSUME DurableInv, [RNext]_rvars
    PROVE  DurableInv' /\ (RestoreInv /\ CommittableCandidateHeld => RestoreInv')
<1>1. CASE UNCHANGED rvars
  BY <1>1 DEF rvars, DurableInv, DurableTypes, TypeOK, DiskBehind, MirrorsDurable, WireDurable, RestoreInv
<1>2. ASSUME NEW p \in Party, NEW t, Handles(p, t)
      PROVE  DurableInv' /\ (RestoreInv /\ CommittableCandidateHeld => RestoreInv')
  BY <1>2, HandlesDurable, HandlesReconciles
<1>3. CASE RNext
  <2>1. PICK p \in Party :
           \/ \E selected \in Ids : Prepare(p, selected)
           \/ SendMessage(p) \/ WithholdMessage(p) \/ SendNothing(p)
           \/ \E f \in frames : Receive(p, f)
           \/ ReceiveWelcome(p) \/ Approve(p) \/ HandOut(p) \/ OpenBootstrap(p)
           \/ WithholdBootstrap(p) \/ RespondToEphemeral(p) \/ MovePq(p)
           \/ Crash(p)
    BY <1>3 DEF RNext
  <2>2. CASE Crash(p)  BY <2>2, CrashDurable
  <2>3. CASE \E t : Handles(p, t)  BY <1>2, <2>3
  <2> QED  BY <2>1, <2>2, <2>3, MessagingHandles, ReceivingHandles, OutboundHandles, SideBandHandles
<1> QED  BY <1>1, <1>3

\* They hold of two fresh sessions with their first baseline.
LEMMA RecoveryInit == Init /\ Unsaved => DurableInv /\ RestoreInv
<1> SUFFICES ASSUME Init, Unsaved PROVE DurableInv /\ RestoreInv  OBVIOUS
<1>1. TypeOK /\ fresh > 0  BY TypeInit DEF Init
<1>2. PICK gate \in Gates : lag = [p \in Party |-> InStepWithDisk(gate)]  BY DEF Unsaved
<1>3. gate \in BOOLEAN  BY CrashAssumption
<1>4. InStepWithDisk(gate) \in Lags /\ ~InStepWithDisk(gate).staple
  BY <1>3 DEF InStepWithDisk, Lags
<1>5. DurableTypes  BY <1>1, <1>2, <1>4 DEF DurableTypes, Unsaved
<1>6. \A p \in Party : session[p] \in {Initiate, AcceptWith}  BY DEF Init
<1>7. Sound(Initiate) /\ Sound(AcceptWith)
  BY NewSessionType DEF Sound, Initiate, AcceptWith, NewSession, Welcome, NoBind, Idle, NoLeg
<1>8. /\ Initiate.recv_cl = 0 /\ Initiate.recv_pq = 0 /\ Initiate.send_cl = 1 /\ Initiate.send_pq = 1
      /\ AcceptWith.recv_cl = 1 /\ AcceptWith.recv_pq = 1
      /\ AcceptWith.send_cl = 1 /\ AcceptWith.send_pq = 0
  BY DEF Initiate, AcceptWith, NewSession
<1>9. ASSUME NEW p \in Party
      PROVE  /\ Sound(session[p]) /\ Saved(disk[p])
             /\ disk[p].wire = Archived(session[p]) /\ disk[p].trees = Trees(session[p])
             /\ ~disk[p].core_newer
  <2>1. Sound(session[p]) /\ session[p] \in SessionInner  BY <1>6, <1>7 DEF Sound
  <2>2. disk[p] = Slots(session[p])  BY DEF Unsaved
  <2>3. /\ Slots(session[p]).wire = Archived(session[p]) /\ ~Slots(session[p]).core_newer
        /\ Slots(session[p]).trees = Trees(session[p])
    BY DEF Slots
  <2>4. Saved(Slots(session[p]))  BY <2>1, <2>3, TreesType, WriteSaves
  <2> QED  BY <2>1, <2>2, <2>3, <2>4
<1>10. ASSUME NEW p \in Party
       PROVE  LET s == session[p]
                  b == disk[p].wire.body
              IN  /\ b.send_cl = s.send_cl /\ b.send_pq = s.send_pq
                  /\ b.recv_cl = s.recv_cl /\ b.recv_pq = s.recv_pq
                  /\ b.current_staple = s.current_staple
                  /\ s.send_cl \in Nat /\ s.send_pq \in Nat
  BY <1>9, ArchivedFields, SessionFields DEF Sound
<1>11. \A p \in Party : DiskBehind(p)  BY <1>2, <1>4, <1>10 DEF DiskBehind, Behind
<1>12. \A p \in Party : MirrorsDurable(p)
  <2>1. /\ session["initiator"] = Initiate /\ session["acceptor"] = AcceptWith
    BY DEF Init, Party
  <2> QED  BY <1>8, <1>10, <2>1 DEF MirrorsDurable, Peer, Party
<1>13. WireDurable  BY DEF WireDurable, Init
<1>14. RestoreInv
  <2>1. \A s : TreesLevel(s, Trees(s))  BY DEF TreesLevel, Trees
  <2> QED  BY <1>9, <2>1 DEF RestoreInv, Reconciles
<1> QED  BY <1>5, <1>9, <1>11, <1>12, <1>13, <1>14 DEF DurableInv

----------------------------------------------------------------------------
(* Hosts that do not rotate: every id is the first one, on the wire and in *)
(* the slots too, so no commit can name a candidate that a crash lost.     *)

Unrotated(s) ==
    /\ s.client = 0 /\ s.deferred_candidate = 0
    /\ s.offered_proposal.id = 0 /\ s.queued_proposal.id = 0
    /\ s.pending_proposal_message.id = 0 /\ s.current_staple.folds.id = 0

FirstIds ==
    /\ \A p \in Party : Unrotated(session[p]) /\ Unrotated(disk[p].wire.body)
    /\ \A f \in frames : f.staple.folds.id = 0 /\ f.offer.id = 0

\* The fields that offers and ids are in, which the side-band handlers leave alone.
SameOffers(s, t) ==
    /\ t.client = s.client /\ t.deferred_candidate = s.deferred_candidate
    /\ t.offered_proposal = s.offered_proposal /\ t.queued_proposal = s.queued_proposal
    /\ t.pending_proposal_message = s.pending_proposal_message
    /\ t.current_staple = s.current_staple

\* No side-band handler touches the offers.
LEMMA SideBandOffers ==
    ASSUME NEW s \in SessionInner, NEW leg
    PROVE  /\ SameOffers(s, RewrapSideBand(s))
           /\ SameOffers(s, MaybeStageNextRound(s))
           /\ SameOffers(s, RegisterBootstrapRound(s))
           /\ SameOffers(s, RespondBootstrap(s))
           /\ \A n : SameOffers(s, ExportAndOweBind(
                  [s EXCEPT !.recv_pq = 1, !.recv_pq_leaf = [mine |-> 0, theirs |-> n]]))
           /\ SameOffers(s, RespondRatchet(s, leg))
           /\ SameOffers(s, BindRatchet(s, leg))
           /\ SameOffers(s, RespondRekey(s, leg))
           /\ SameOffers(s, ApplyRekey(s, leg))
<1>1. SameOffers(s, RewrapSideBand(s))  BY DEF SameOffers, RewrapSideBand, SessionInner
<1>2. SameOffers(s, MaybeStageNextRound(s))
  BY DEF SameOffers, MaybeStageNextRound, StageRatchet, StageRekey, SessionInner
<1>3. SameOffers(s, RegisterBootstrapRound(s)) /\ SameOffers(s, RespondBootstrap(s))
  BY DEF SameOffers, RegisterBootstrapRound, RespondBootstrap, SessionInner
<1>4. \A n : SameOffers(s, ExportAndOweBind(
          [s EXCEPT !.recv_pq = 1, !.recv_pq_leaf = [mine |-> 0, theirs |-> n]]))
  BY DEF SameOffers, ExportAndOweBind, CommitPqAndOweBind, SessionInner
<1>5. SameOffers(s, RespondRatchet(s, leg))  BY DEF SameOffers, RespondRatchet, SessionInner
<1>6. SameOffers(s, BindRatchet(s, leg))
  BY DEF SameOffers, BindRatchet, CommitPqAndOweBind, SessionInner
<1>7. SameOffers(s, RespondRekey(s, leg))  BY DEF SameOffers, RespondRekey, SessionInner
<1>8. SameOffers(s, ApplyRekey(s, leg))
  BY DEF SameOffers, ApplyRekey, PreRegister, ExportAndOweBind, CommitPqAndOweBind, SessionInner
<1> QED  BY <1>1, <1>2, <1>3, <1>4, <1>5, <1>6, <1>7, <1>8

\* What keeps the offers keeps the ids.
LEMMA SameUnrotated ==
    ASSUME NEW s, NEW t, Unrotated(s), SameOffers(s, t)
    PROVE  Unrotated(t)
  BY DEF Unrotated, SameOffers

\* Preparing, encrypting and reading invent no id.
LEMMA MessagingUnrotated ==
    ASSUME NEW s \in SessionInner, Unrotated(s), fresh \in Nat
    PROVE  /\ Unrotated(PrepareRatchetCommit(s, 0))
           /\ Unrotated(PreparePreEstablishment(s))
           /\ Unrotated(AfterEncrypt(s))
           /\ \A f \in Frame : f.staple.folds.id = 0 /\ f.offer.id = 0 => Unrotated(ProcessFrame(s, f))
<1>1. NoOffer.id = 0  BY DEF NoOffer
<1>2. ASSUME NEW u \in SessionInner, Unrotated(u) PROVE Unrotated(RewrapSideBand(u))
  BY <1>2, SideBandOffers, SameUnrotated
<1>3. ASSUME NEW u \in SessionInner, Unrotated(u) PROVE Unrotated(StageProposal(u, 0))
  <2> DEFINE v == [u EXCEPT !.pending_proposal_hash = TRUE,
                            !.pending_proposal_message = [epoch |-> u.recv_cl, id |-> u.client]]
  <2>1. Admitted(u, 0) = 0  BY <1>3 DEF Admitted, Unrotated
  <2>2. StageProposal(u, 0) = RewrapSideBand(v)  BY <2>1 DEF StageProposal
  <2>3. v \in SessionInner  BY <1>3, SessionFields DEF SessionInner, Offer
  <2>4. Unrotated(v)  BY <1>3 DEF Unrotated, SessionInner
  <2> HIDE DEF v
  <2> QED  BY <1>2, <2>2, <2>3, <2>4
<1>4. Unrotated(PrepareRatchetCommit(s, 0))
  <2>1. DischargeAndCommit(s) \in SessionInner  BY DischargeType
  <2>2. CommitStaple(s).folds = s.queued_proposal  BY DEF CommitStaple
  <2>3. Unrotated(DischargeAndCommit(s)) /\ Unrotated(FailedDischarge(s))
    BY <1>1, <2>2 DEF DischargeAndCommit, FailedDischarge, Unrotated, SessionInner
  <2> QED  BY <1>3, <2>1, <2>3 DEF PrepareRatchetCommit
<1>5. Unrotated(PreparePreEstablishment(s))
  <2> DEFINE u == [s EXCEPT !.pending_proposal_hash = TRUE, !.pending_proposal_message = NoOffer]
  <2>1. u \in SessionInner /\ Unrotated(u)  BY <1>1, AbsentTypes DEF SessionInner, Unrotated
  <2> HIDE DEF u
  <2> QED  BY <1>2, <2>1 DEF PreparePreEstablishment, u
<1>6. Unrotated(AfterEncrypt(s))
  <2> DEFINE u == [s EXCEPT !.pending_proposal_hash = FALSE, !.pending_proposal_message = NoOffer]
             v == RewrapSideBand(u)
  <2>1. u \in SessionInner /\ Unrotated(u)  BY <1>1, AbsentTypes DEF SessionInner, Unrotated
  <2> HIDE DEF u
  <2>2. v \in SessionInner /\ Unrotated(v)  BY <1>2, <2>1, RewrapType
  <2> HIDE DEF v
  <2>3. Unrotated(MaybeStageNextRound(v))  BY <2>2, SideBandOffers, SameUnrotated
  <2> QED  BY <2>3 DEF AfterEncrypt, u, v
<1>7. ASSUME NEW f \in Frame, f.staple.folds.id = 0, f.offer.id = 0
      PROVE  Unrotated(ProcessFrame(s, f))
  <2> DEFINE u == ProcessStaple(s, f.staple)
  <2>1. f.staple \in Staple /\ f.offer \in Offer  BY DEF Frame
  <2>2. u \in SessionInner  BY <2>1, ProcessStapleType
  <2>3. ~CanonicalizedOwn(s, f.staple)  BY <1>7 DEF CanonicalizedOwn, Unrotated
  <2>4. Unrotated(u)
    <3>1. \A v \in SessionInner : Unrotated(v) => Unrotated(LeafChanges(v, f.staple))
      BY <1>7 DEF LeafChanges, CanonicalizedOwn, Unrotated, SessionInner
    <3>2. CASE f.staple.kind = "welcome" \/ StapleEpochAction(s, f.staple) = "skip"
      BY <3>2 DEF ProcessStaple, ProcessWelcome, Unrotated, SessionInner
    <3>3. CASE f.staple.kind # "welcome" /\ StapleEpochAction(s, f.staple) # "skip"
      <4>1. CASE f.staple.kind = "commit"
        <5> DEFINE v == [s EXCEPT !.recv_cl = @ + 1]
        <5>1. v \in SessionInner /\ Unrotated(v)  BY SessionFields DEF SessionInner, Unrotated
        <5>2. u = LeafChanges(v, f.staple)  BY <3>3, <4>1 DEF ProcessStaple, ApplyCommit
        <5> HIDE DEF v, u
        <5> QED  BY <3>1, <5>1, <5>2
      <4>2. CASE f.staple.kind # "commit"
        <5>1. u = ApplyBind(s, f.staple)  BY <3>3, <4>2 DEF ProcessStaple
        <5> QED  BY <1>7, <5>1 DEF ApplyBind, LeafChanges, CanonicalizedOwn, Unrotated, SessionInner
      <4> QED  BY <4>1, <4>2
    <3> QED  BY <3>2, <3>3
  <2> HIDE DEF u
  <2>5. Unrotated(RecordOffer(u, f.offer))
    BY <1>7, <2>2, <2>4 DEF RecordOffer, Unrotated, SessionInner
  <2> QED  BY <2>4, <2>5 DEF ProcessFrame, u
<1> QED  BY <1>4, <1>5, <1>6, <1>7

\* What is written of an unrotated session is, and what is read back of it.
LEMMA ArchivedUnrotated ==
    ASSUME NEW s \in SessionInner
    PROVE  Unrotated(Archived(s).body) <=> Unrotated(s)
  BY DEF Archived, Unrotated, SessionInner

\* A restore gives back the ids it was written with.
LEMMA RestoredUnrotated ==
    ASSUME NEW d, Saved(d), Unrotated(d.wire.body)
    PROVE  Unrotated(Restored(d))
<1> DEFINE s == SessionFromWire(d.wire)
<1>1. s \in SessionInner /\ d.wire = Archived(s)  BY DEF Saved, Sound
<1>2. Unrotated(s)  BY <1>1, ArchivedUnrotated
<1>3. Restored(d) = (IF ~d.core_newer THEN s
                     ELSE [s EXCEPT !.send_pq_leaf = d.trees.send_pq_leaf,
                                    !.recv_pq_leaf = d.trees.recv_pq_leaf,
                                    !.recv_pq_update = d.trees.recv_pq_update])
  BY DEF Restored
<1> HIDE DEF s
<1> QED  BY <1>1, <1>2, <1>3 DEF Unrotated, SessionInner

\* A step that takes p to such a session and sends such a frame.
LEMMA FirstIdsMove ==
    ASSUME DurableInv, FirstIds, NEW p \in Party, NEW t \in SessionInner, Unrotated(t),
           session' = [session EXCEPT ![p] = t],
           \A f \in frames' : f \in frames \/ (f.staple.folds.id = 0 /\ f.offer.id = 0),
           \/ UNCHANGED disk
           \/ \E kind : disk' = [disk EXCEPT ![p] = Write(@, kind, session'[p])]
           \/ disk' = [disk EXCEPT ![p] = Slots(session'[p])]
    PROVE  FirstIds'
<1>1. session \in [Party -> SessionInner] /\ disk = [x \in Party |-> disk[x]]
  BY DEF DurableInv, DurableTypes, TypeOK
<1>2. session'[p] = t /\ \A x \in Party : x # p => session'[x] = session[x]  BY <1>1
<1>3. \A x \in Party : disk'[x] = disk[x] \/ (x = p /\ disk'[p].wire = Archived(t))
  BY <1>1, <1>2 DEF Write, Slots
<1>4. Unrotated(Archived(t).body)  BY ArchivedUnrotated
<1> QED  BY <1>2, <1>3, <1>4 DEF FirstIds

\* No step brings a second id into the system.
LEMMA FirstIdsStep ==
    ASSUME Rotators = {}, DurableInv, FirstIds, [RNext]_rvars
    PROVE  FirstIds'
<1>1. CASE UNCHANGED rvars  BY <1>1 DEF rvars, FirstIds
<1>2. ASSUME NEW p \in Party, NEW t \in SessionInner, Unrotated(t),
             session' = [session EXCEPT ![p] = t],
             \A f \in frames' : f \in frames \/ (f.staple.folds.id = 0 /\ f.offer.id = 0),
             NoPush \/ (\E kind : Push(p, kind)) \/ PushBetween(p)
      PROVE  FirstIds'
  <2>1. UNCHANGED disk \/ \E kind : disk' = [disk EXCEPT ![p] = Write(@, kind, session'[p])]
    BY <1>2 DEF NoPush, Push, PushDurable, PushLost, PushBetween
  <2> QED  BY <1>2, <2>1, FirstIdsMove
<1>3. ASSUME NEW p \in Party,
             \/ \E selected \in Ids : Prepare(p, selected)
             \/ SendMessage(p) \/ WithholdMessage(p) \/ SendNothing(p)
             \/ \E f \in frames : Receive(p, f)
             \/ ReceiveWelcome(p) \/ Approve(p) \/ HandOut(p) \/ OpenBootstrap(p)
             \/ WithholdBootstrap(p) \/ RespondToEphemeral(p) \/ MovePq(p)
             \/ Crash(p)
      PROVE  FirstIds'
  <2> DEFINE s == session[p]
  <2>1. /\ s \in SessionInner /\ session \in [Party -> SessionInner] /\ fresh \in Nat
        /\ frames \subseteq Frame /\ Unrotated(s)
    BY DEF DurableInv, DurableTypes, TypeOK, FirstIds
  <2>2. \A t : session' = [session EXCEPT ![p] = t] => session'[p] = t  BY <2>1
  <2>3. TypeOK' => session'[p] \in SessionInner  BY DEF TypeOK
  <2>4. TypeOK' /\ DurableInv'
    <3>1. RNext  BY <1>3 DEF RNext
    <3> QED  BY <3>1, RecoveryStep DEF DurableInv, DurableTypes
  <2>5. ASSUME NEW t, session' = [session EXCEPT ![p] = t] PROVE t \in SessionInner
    BY <2>2, <2>3, <2>4, <2>5
  <2>6. ASSUME NEW selected \in Ids, Prepare(p, selected) PROVE FirstIds'
    <3> DEFINE t == IF Joined(s) THEN PrepareRatchetCommit(s, 0) ELSE PreparePreEstablishment(s)
    <3>1. selected = 0 /\ frames' = frames /\ Push(p, "Core")
      BY <2>6 DEF Prepare, PrepareToEncrypt
    <3>2. session' = [session EXCEPT ![p] = t]  BY <2>6, <3>1 DEF Prepare, PrepareToEncrypt
    <3>3. Unrotated(t)  BY <2>1, MessagingUnrotated
    <3> HIDE DEF t
    <3> QED  BY <1>2, <2>5, <3>1, <3>2, <3>3
  <2>7. CASE SendMessage(p) \/ WithholdMessage(p)
    <3> DEFINE t == AfterEncrypt(s)
               f == MessageFrame(p)
    <3>1. /\ session' = [session EXCEPT ![p] = t] /\ PushEncrypted(p)
          /\ frames' = frames \/ frames' = frames \cup {f}
      BY <2>7 DEF SendMessage, WithholdMessage, EncryptFrame, ComposeFrame
    <3>2. Unrotated(t)  BY <2>1, MessagingUnrotated
    <3>3. f.staple.folds.id = 0 /\ f.offer.id = 0  BY <2>1 DEF MessageFrame, Unrotated
    <3>4. (\E kind : Push(p, kind)) \/ PushBetween(p)  BY <3>1 DEF PushEncrypted
    <3> HIDE DEF t, f
    <3> QED  BY <1>2, <2>5, <3>1, <3>2, <3>3, <3>4
  <2>8. CASE SendNothing(p) \/ Approve(p)
    <3> DEFINE u == [s EXCEPT !.pending_proposal_hash = FALSE]
               v == [s EXCEPT !.queued_proposal = s.offered_proposal, !.offered_proposal = NoOffer]
    <3>1. Unrotated(u) /\ Unrotated(v)  BY <2>1 DEF SessionInner, Unrotated, NoOffer
    <3>2. PICK t \in {u, v} : session' = [session EXCEPT ![p] = t]
      BY <2>8 DEF SendNothing, EncryptWithoutProposal, Approve, QueueProposal
    <3>3. frames' = frames /\ Push(p, "Core")
      BY <2>8 DEF SendNothing, EncryptWithoutProposal, Approve, QueueProposal
    <3> HIDE DEF u, v
    <3> QED  BY <1>2, <2>5, <3>1, <3>2, <3>3
  <2>9. ASSUME NEW f \in frames, Receive(p, f) PROVE FirstIds'
    <3> DEFINE t == ProcessFrame(s, f)
    <3>1. /\ session' = [session EXCEPT ![p] = t] /\ frames' = frames
          /\ NoPush \/ Push(p, IncomingKind(p))
      BY <2>9 DEF Receive, ProcessIncomingFrame
    <3>2. f \in Frame /\ f.staple.folds.id = 0 /\ f.offer.id = 0  BY <2>1 DEF FirstIds
    <3>3. Unrotated(t)  BY <2>1, <3>2, MessagingUnrotated
    <3> HIDE DEF t
    <3> QED  BY <1>2, <2>5, <3>1, <3>3
  <2>10. CASE ReceiveWelcome(p)
    <3> DEFINE t == ProcessWelcome(s)
    <3>1. session' = [session EXCEPT ![p] = t] /\ frames' = frames /\ Push(p, "Core")
      BY <2>10 DEF ReceiveWelcome, ProcessIncomingWelcome
    <3>2. Unrotated(t)  BY <2>1 DEF ProcessWelcome, SessionInner, Unrotated
    <3> HIDE DEF t
    <3> QED  BY <1>2, <2>5, <3>1, <3>2
  <2>11. CASE HandOut(p)
    <3>1. session' = session /\ frames' = frames /\ NoPush
      BY <2>11 DEF HandOut, PqPendingOutbound
    <3> QED  BY <3>1 DEF NoPush, FirstIds
  <2>12. ASSUME NEW t, session' = [session EXCEPT ![p] = t], SameOffers(s, t), frames' = frames,
                \E kind : Push(p, kind)
         PROVE  FirstIds'
    BY <1>2, <2>1, <2>5, <2>12, SameUnrotated
  <2>13. CASE OpenBootstrap(p) \/ WithholdBootstrap(p)
    <3> DEFINE t == RegisterBootstrapRound(s)
    <3>1. session' = [session EXCEPT ![p] = t] /\ frames' = frames /\ Push(p, "Checkpoint")
      BY <2>13 DEF OpenBootstrap, WithholdBootstrap, PqBootstrapBegin, PqBootstrapEnvelope, Push
    <3>2. SameOffers(s, t)  BY <2>1, SideBandOffers
    <3> HIDE DEF t
    <3> QED  BY <2>12, <3>1, <3>2
  <2>14. CASE RespondToEphemeral(p) \/ MovePq(p)
    <3>1. frames' = frames /\ \E kind : Push(p, kind)
      BY <2>14 DEF RespondToEphemeral, MovePq, PqRatchetRespond, PqBootstrapRespond, PqBootstrapBind,
                   PqRatchetBind, PqRekeyRespond, PqRekeyApply
    <3>2. \/ session' = [session EXCEPT ![p] = RespondBootstrap(s)]
          \/ \E n : session' = [session EXCEPT ![p] = ExportAndOweBind(
                        [s EXCEPT !.recv_pq = 1, !.recv_pq_leaf = [mine |-> 0, theirs |-> n]])]
          \/ \E leg : \/ session' = [session EXCEPT ![p] = RespondRatchet(s, leg)]
                      \/ session' = [session EXCEPT ![p] = BindRatchet(s, leg)]
                      \/ session' = [session EXCEPT ![p] = RespondRekey(s, leg)]
                      \/ session' = [session EXCEPT ![p] = ApplyRekey(s, leg)]
      BY <2>14 DEF RespondToEphemeral, MovePq, PqRatchetRespond, PqBootstrapRespond, PqBootstrapBind,
                   PqRatchetBind, PqRekeyRespond, PqRekeyApply
    <3>3. \E t : session' = [session EXCEPT ![p] = t] /\ SameOffers(s, t)
      <4> HIDE DEF s
      <4> QED  BY <2>1, <3>2, SideBandOffers
    <3> QED  BY <2>12, <3>1, <3>3
  <2>15. CASE Crash(p)
    <3> DEFINE t == Restored(disk[p])
    <3>1. /\ session' = [session EXCEPT ![p] = t] /\ frames' = frames
          /\ disk' = [disk EXCEPT ![p] = Slots(session'[p])]
      BY <2>15 DEF Crash
    <3>2. Unrotated(t)  BY RestoredUnrotated DEF DurableInv, FirstIds
    <3> HIDE DEF t
    <3> QED  BY <2>5, <3>1, <3>2, FirstIdsMove
  <2> QED
    BY <1>3, <2>6, <2>7, <2>8, <2>9, <2>10, <2>11, <2>13, <2>14, <2>15
<1> QED  BY <1>1, <1>3 DEF RNext

\* It starts with one.
LEMMA FirstIdsInit == Init /\ Unsaved => FirstIds
<1> SUFFICES ASSUME Init, Unsaved PROVE FirstIds  OBVIOUS
<1>1. Unrotated(Initiate) /\ Unrotated(AcceptWith)
  BY DEF Unrotated, Initiate, AcceptWith, NewSession, Welcome, NoOffer
<1>2. \A p \in Party : session[p] \in {Initiate, AcceptWith}  BY DEF Init
<1>3. \A p \in Party : disk[p].wire = Archived(session[p])  BY DEF Unsaved, Slots
<1> QED  BY <1>1, <1>2, <1>3, NewSessionType, ArchivedUnrotated DEF FirstIds, Init

----------------------------------------------------------------------------
(* Theorems.                                                               *)

\* Memory, disk and wire stay in step, whichever pushes a crash loses.
THEOREM DurableStays == RSpec => []DurableInv
<1>1. Init /\ Unsaved => DurableInv  BY RecoveryInit
<1>2. DurableInv /\ [RNext]_rvars => DurableInv'  BY RecoveryStep
<1> QED  BY <1>1, <1>2, PTL DEF RSpec

\* What the peer applied of a send group a crash of its owner does not take back.
THEOREM AppliedStaysDurable == RSpec => []AppliedIsDurable
<1>1. DurableInv => AppliedIsDurable  BY DEF DurableInv, MirrorsDurable, AppliedIsDurable
<1> QED  BY <1>1, DurableStays, PTL

\* Slots written in seq order reconcile and their session is rebuilt, as long as no
\* frame commits a candidate that the party it belongs to does not hold.
THEOREM RestoresWhileHeld == RSpec /\ []CommittableCandidateHeld => []RestoreSucceeds
<1>1. Init /\ Unsaved => RestoreInv  BY RecoveryInit
<1>2. DurableInv /\ CommittableCandidateHeld /\ RestoreInv /\ [RNext]_rvars => RestoreInv'
  BY RecoveryStep
<1>3. DurableInv /\ RestoreInv => RestoreSucceeds
  <2> SUFFICES ASSUME DurableInv, RestoreInv, NEW p \in Party, ~session[p].bind_apply_broken
               PROVE  Reconciles(disk[p]) /\ SessionAdmitted(disk[p].wire)
    BY DEF RestoreSucceeds
  <2>1. Saved(disk[p])  BY DEF DurableInv
  <2>2. SessionAdmitted(disk[p].wire)  BY <2>1, SoundAdmitted DEF Saved
  <2> QED  BY <2>2 DEF RestoreInv
<1> QED  BY <1>1, <1>2, <1>3, DurableStays, PTL DEF RSpec

\* In particular for hosts that do not rotate, whatever they lose and whenever they
\* transmit.
THEOREM UnrotatedRestores ==
    ASSUME Rotators = {}
    PROVE  RSpec => []RestoreSucceeds
<1>1. Init /\ Unsaved => FirstIds  BY FirstIdsInit
<1>2. DurableInv /\ FirstIds /\ [RNext]_rvars => FirstIds'  BY FirstIdsStep
<1>3. DurableInv /\ FirstIds => CommittableCandidateHeld
  BY PeerType
  DEF DurableInv, DurableTypes, TypeOK, Frame, FirstIds, Unrotated, CommittableCandidateHeld,
      WinnerHeld, CanonicalizedOwn
<1> QED  BY <1>1, <1>2, <1>3, DurableStays, RestoresWhileHeld, PTL DEF RSpec

----------------------------------------------------------------------------
(* Gated hosts.  A crash may put the disk's session in the place of the    *)
(* memory's, so the invariants of Session are stated of a pair of records: *)
(* s of the party p, r of its peer q, with the frames F and the legs L on  *)
(* the wire and the names below n in use.                                  *)

\* InStep of the send group of s: its mirror in r is close, its staples are behind
\* it, the offers of q are reached and the license is true.
Abreast(p, q, s, r, F) ==
    /\ r.recv_cl \in {s.send_cl - 1, s.send_cl}
    /\ s.current_staple.epoch + 1 = s.send_cl
    /\ s.current_staple.epoch = 0 => s.current_staple.kind = "welcome"
    /\ \A f \in F : f.from = p => /\ f.staple.epoch < s.send_cl
                                  /\ f.staple.epoch = 0 => f.staple.kind = "welcome"
    /\ r.pending_proposal_message.epoch <= r.recv_cl
    /\ s.offered_proposal.epoch <= r.recv_cl
    /\ \A f \in F : f.from = q => f.offer.epoch <= r.recv_cl
    /\ s.peer_applied_send_epoch <= s.send_cl
    /\ s.queued_proposal # NoOffer \/ PeerAppliedOurSendEpoch(s) => r.recv_cl = s.send_cl

\* CurrentOnWire and CrossNear of s.
Near(p, s, r, F) ==
    LET cross == s.current_staple.cross
    IN  /\ s.current_staple.kind = "welcome" => s.current_staple.epoch = 0
        /\ \A f \in F :
              f.from = p /\ f.staple.epoch + 1 = s.send_cl => f.staple = s.current_staple
        /\ r.recv_cl < s.send_cl /\ cross # 0 =>
              /\ cross \in {r.send_cl - 1, r.send_cl}
              /\ cross = r.send_cl - 1 =>
                    /\ r.queued_proposal = NoOffer
                    /\ r.peer_applied_send_epoch < r.send_cl
                    /\ r.offered_proposal.epoch < r.send_cl
              /\ \A f \in F :
                    f.from = p /\ f.staple.epoch + 1 < s.send_cl => f.offer.epoch <= cross

\* OffersHeld of s.
Held(p, q, s, r, F) ==
    /\ OfferHeld(s, s.pending_proposal_message)
    /\ OfferHeld(s, r.offered_proposal)
    /\ OfferHeld(s, r.queued_proposal)
    /\ r.queued_proposal # NoOffer => r.queued_proposal.epoch = r.send_cl
    /\ StapleHeld(s, r.current_staple)
    /\ \A f \in F : /\ f.from = p => OfferHeld(s, f.offer)
                    /\ f.from = q => StapleHeld(s, f.staple)

\* A staple that is no bind carries none, the welcome folds nothing, and a bind that
\* r has applied is in its PQ half too.
Settled(p, s, r, F) ==
    /\ s.current_staple.kind # "bind" => s.current_staple.bind = NoBind
    /\ s.current_staple.kind = "bind" /\ ~(r.recv_cl < s.send_cl) =>
           s.current_staple.bind.pq_epoch <= r.recv_pq
    /\ s.current_staple.kind = "welcome" => s.current_staple.folds = NoOffer
    /\ \A f \in F : f.from = p /\ f.staple.kind = "welcome" => f.staple.folds = NoOffer

\* All of it, for the send group of s.
OneWay(p, q, s, r, F) ==
    Abreast(p, q, s, r, F) /\ Near(p, s, r, F) /\ Held(p, q, s, r, F) /\ Settled(p, s, r, F)

\* The two records are a pair that two sessions without crashes could be in.
Paired(p, q, s, r, F, L, n) ==
    /\ OneWay(p, q, s, r, F) /\ OneWay(q, p, r, s, F)
    /\ InRound(s, r, n)
    /\ \A l \in L : /\ l.from = p => LegFits(s, r, l.leg, n)
                    /\ l.from = q => LegFits(r, s, l.leg, n)

----------------------------------------------------------------------------
(* What a handler does to its own record, whatever the peer's is.          *)

\* A commit, with what it carries.
MakesCommit(s, t) ==
    /\ Commits(s, t) /\ SameIds(s, t)
    /\ t.current_staple.epoch = s.send_cl
    /\ t.current_staple.folds = s.queued_proposal
    /\ t.current_staple.kind # "bind" => t.current_staple.bind = NoBind

\* No commit and no staple: the evidence stays, is spent in vain or is approved.
Rests(s, t) ==
    /\ SameEpochs(s, t) /\ SameIds(s, t)
    /\ t.peer_applied_send_epoch = s.peer_applied_send_epoch
    /\ \/ t.offered_proposal = s.offered_proposal
             /\ t.queued_proposal \in {s.queued_proposal, NoOffer}
       \/ /\ t.offered_proposal = NoOffer /\ t.queued_proposal = s.offered_proposal
          /\ s.offered_proposal.epoch = s.send_cl

\* The offer of f is recorded, and may be evidence.
Notes(s, t, f) ==
    /\ t.offered_proposal = f.offer
    /\ \/ t.peer_applied_send_epoch = s.peer_applied_send_epoch
       \/ t.peer_applied_send_epoch = s.send_cl /\ f.offer.epoch = s.send_cl

\* The evidence is as it was.
SameEvidence(s, t) ==
    /\ t.offered_proposal = s.offered_proposal
    /\ t.peer_applied_send_epoch = s.peer_applied_send_epoch

\* The staple of f is applied.
Takes(s, t, f) ==
    /\ Advances(s, t) /\ t.queued_proposal = s.queued_proposal
    /\ f.staple.epoch = s.recv_cl \/ s.recv_cl = 0
    /\ SameEvidence(s, t) \/ Notes(s, t, f)

\* The staple of f is old.
Skips(s, t, f) == Records(s, t, f) /\ SameIds(s, t) /\ Notes(s, t, f)

\* The return welcome is joined by.
Joins(s, t) ==
    Advances(s, t) /\ s.recv_cl = 0 /\ t.queued_proposal = s.queued_proposal /\ SameEvidence(s, t)

\* One of these, with the offers still reached and held.
Moves(q, s, t, F) ==
    /\ t.pending_proposal_message.epoch <= t.recv_cl
    /\ OfferMove(s, t)
    /\ \/ MakesCommit(s, t) \/ Rests(s, t) \/ Joins(s, t)
       \/ \E f \in F : f.from = q /\ (Takes(s, t, f) \/ Skips(s, t, f))

\* The frames G are those of F and some of p's that carry its staple and its offer.
Sends(p, s, F, G) ==
    \A f \in G : \/ f \in F
                 \/ /\ f.from = p
                    /\ f.staple = s.current_staple
                    /\ f.offer = s.pending_proposal_message

\* The numbers the parts speak of.
LEMMA PairFields ==
    ASSUME NEW s \in SessionInner
    PROVE  /\ s.send_cl \in Nat /\ s.recv_cl \in Nat /\ s.send_pq \in Nat /\ s.recv_pq \in Nat
           /\ s.current_staple.epoch \in Nat /\ s.current_staple.cross \in Nat
           /\ s.current_staple.bind.pq_epoch \in Nat
           /\ s.pending_proposal_message.epoch \in Nat
           /\ s.offered_proposal.epoch \in Nat
           /\ s.queued_proposal.epoch \in Nat
           /\ s.peer_applied_send_epoch \in Nat
           /\ NoOffer.epoch = 0
  BY SessionFields DEF Staple, Offer, OwedBind, NoOffer

\* What a frame carries has its type.
LEMMA FrameFields ==
    ASSUME NEW f \in Frame
    PROVE  f.staple.epoch \in Nat /\ f.offer.epoch \in Nat /\ f.from \in Party /\ f.staple \in Staple
  BY DEF Frame, Staple, Offer

\* Against a peer it is paired with, such a handler commits on a true license, takes
\* only the epoch it misses, and records true evidence.
LEMMA MovesInStep ==
    ASSUME NEW p, NEW q, NEW s \in SessionInner, NEW t \in SessionInner, NEW r \in SessionInner,
           NEW F \in SUBSET Frame,
           Abreast(p, q, s, r, F), Abreast(q, p, r, s, F), Moves(q, s, t, F)
    PROVE  WriterMove(s, t, r) /\ ReaderMove(s, t, r) /\ EvidenceKept(t, r)
<1>1. /\ r.recv_cl \in {s.send_cl - 1, s.send_cl}
      /\ s.offered_proposal.epoch <= r.recv_cl
      /\ s.peer_applied_send_epoch <= s.send_cl
      /\ s.queued_proposal # NoOffer \/ s.peer_applied_send_epoch >= s.send_cl =>
             r.recv_cl = s.send_cl
      /\ \A f \in F : f.from = q => f.offer.epoch <= r.recv_cl /\ f.staple.epoch < r.send_cl
      /\ r.send_cl > 0
  BY PairFields DEF Abreast, PeerAppliedOurSendEpoch
<1>2. t.pending_proposal_message.epoch <= t.recv_cl  BY DEF Moves
<1>3. \A f \in F : f.staple.epoch \in Nat /\ f.offer.epoch \in Nat  BY FrameFields
<1> USE PairFields, <1>1, <1>2
<1>4. CASE MakesCommit(s, t)
  BY <1>4 DEF MakesCommit, Commits, WriterMove, ReaderMove, EvidenceKept, PeerAppliedOurSendEpoch
<1>5. CASE Rests(s, t)
  BY <1>5 DEF Rests, SameEpochs, WriterMove, ReaderMove, EvidenceKept, PeerAppliedOurSendEpoch
<1>6. CASE Joins(s, t)
  BY <1>6 DEF Joins, Advances, SameEvidence, WriterMove, ReaderMove, EvidenceKept,
              PeerAppliedOurSendEpoch
<1>7. ASSUME NEW f \in F, f.from = q, Takes(s, t, f)
      PROVE  WriterMove(s, t, r) /\ ReaderMove(s, t, r) /\ EvidenceKept(t, r)
  BY <1>3, <1>7 DEF Takes, Notes, Advances, SameEvidence, WriterMove, ReaderMove, EvidenceKept,
              PeerAppliedOurSendEpoch
<1>8. ASSUME NEW f \in F, f.from = q, Skips(s, t, f)
      PROVE  WriterMove(s, t, r) /\ ReaderMove(s, t, r) /\ EvidenceKept(t, r)
  BY <1>3, <1>8 DEF Skips, Records, Notes, WriterMove, ReaderMove, EvidenceKept,
              PeerAppliedOurSendEpoch
<1> QED  BY <1>4, <1>5, <1>6, <1>7, <1>8 DEF Moves

\* So both send groups stay in step.
LEMMA AbreastMove ==
    ASSUME NEW p \in Party, NEW q \in Party, p # q,
           NEW s \in SessionInner, NEW t \in SessionInner, NEW r \in SessionInner,
           NEW F \in SUBSET Frame, NEW G \in SUBSET Frame,
           Abreast(p, q, s, r, F), Abreast(q, p, r, s, F),
           WriterMove(s, t, r), ReaderMove(s, t, r), EvidenceKept(t, r), Sends(p, s, F, G)
    PROVE  Abreast(p, q, t, r, G) /\ Abreast(q, p, r, t, G)
<1>1. \A f \in F \cup G : f.staple.epoch \in Nat /\ f.offer.epoch \in Nat  BY FrameFields
<1> USE PairFields
<1>2. \A f \in G : \/ f \in F
                   \/ /\ f.from = p
                      /\ f.staple = s.current_staple
                      /\ f.offer = s.pending_proposal_message
  BY DEF Sends
<1>3. r.recv_cl \in {t.send_cl - 1, t.send_cl}  BY DEF Abreast, WriterMove
<1>4. t.recv_cl \in {r.send_cl - 1, r.send_cl}  BY DEF Abreast, ReaderMove
<1>5. /\ t.current_staple.epoch + 1 = t.send_cl
      /\ t.current_staple.epoch = 0 => t.current_staple.kind = "welcome"
  BY DEF Abreast, WriterMove
<1>6. \A f \in G : f.from = p => /\ f.staple.epoch < t.send_cl
                                 /\ f.staple.epoch = 0 => f.staple.kind = "welcome"
  BY <1>1, <1>2 DEF Abreast, WriterMove
<1>7. \A f \in G : f.from = q => f.offer.epoch <= r.recv_cl  BY <1>2 DEF Abreast
<1>8. Abreast(p, q, t, r, G)
  BY <1>3, <1>5, <1>6, <1>7 DEF Abreast, EvidenceKept
<1>9. \A f \in G : f.from = q => /\ f.staple.epoch < r.send_cl
                                 /\ f.staple.epoch = 0 => f.staple.kind = "welcome"
  BY <1>2 DEF Abreast
<1>10. \A f \in G : f.from = p => f.offer.epoch <= t.recv_cl
  BY <1>1, <1>2 DEF Abreast, ReaderMove
<1>11. r.offered_proposal.epoch <= t.recv_cl  BY DEF Abreast, ReaderMove
<1>12. r.queued_proposal # NoOffer \/ PeerAppliedOurSendEpoch(r) => t.recv_cl = r.send_cl
  BY DEF Abreast, ReaderMove
<1>13. Abreast(q, p, r, t, G)
  BY <1>4, <1>9, <1>10, <1>11, <1>12 DEF Abreast, EvidenceKept
<1> QED  BY <1>8, <1>13

\* So the PSK of the outstanding commit stays near.
LEMMA NearMove ==
    ASSUME NEW p \in Party, NEW q \in Party, p # q,
           NEW s \in SessionInner, NEW t \in SessionInner, NEW r \in SessionInner,
           NEW F \in SUBSET Frame, NEW G \in SUBSET Frame,
           Abreast(p, q, s, r, F), Abreast(q, p, r, s, F), Near(p, s, r, F), Near(q, r, s, F),
           WriterMove(s, t, r), Moves(q, s, t, F), Sends(p, s, F, G)
    PROVE  Near(p, t, r, G) /\ Near(q, r, t, G)
<1>1. \A f \in F \cup G : f.staple.epoch \in Nat /\ f.offer.epoch \in Nat  BY FrameFields
<1> USE PairFields
<1>2. \A f \in G : \/ f \in F
                   \/ /\ f.from = p
                      /\ f.staple = s.current_staple
                      /\ f.offer = s.pending_proposal_message
  BY DEF Sends
<1>3. \/ Commits(s, t) /\ t.current_staple.epoch = s.send_cl
      \/ t.send_cl = s.send_cl /\ t.current_staple = s.current_staple
  BY DEF Moves, MakesCommit, Rests, SameEpochs, Joins, Takes, Skips, Advances, Records
<1>4. /\ t.current_staple.kind = "welcome" => t.current_staple.epoch = 0
      /\ \A f \in G :
            f.from = p /\ f.staple.epoch + 1 = t.send_cl => f.staple = t.current_staple
  BY <1>1, <1>2, <1>3 DEF Near, Abreast, Commits
<1>5. CASE Commits(s, t)
  <2>1. /\ t.current_staple.cross \in {0, s.recv_cl}
        /\ t.send_cl = s.send_cl + 1 /\ s.current_staple.epoch + 1 = s.send_cl
        /\ t.recv_cl = s.recv_cl /\ r.recv_cl = s.send_cl
        /\ t.queued_proposal = NoOffer /\ t.offered_proposal = NoOffer
        /\ t.peer_applied_send_epoch = s.peer_applied_send_epoch
    BY <1>5 DEF Commits, Abreast
  <2>2. /\ s.recv_cl \in {r.send_cl - 1, r.send_cl}
        /\ r.offered_proposal.epoch <= s.recv_cl /\ r.peer_applied_send_epoch <= r.send_cl
        /\ r.queued_proposal # NoOffer \/ r.peer_applied_send_epoch >= r.send_cl =>
               s.recv_cl = r.send_cl
        /\ \A f \in F : f.from = p => f.offer.epoch <= s.recv_cl
        /\ s.pending_proposal_message.epoch <= s.recv_cl
    BY DEF Abreast, PeerAppliedOurSendEpoch
  <2>3. \A f \in G : f.from = p => f.offer.epoch <= s.recv_cl  BY <1>2, <2>2
  <2>4. Near(p, t, r, G)
    BY <1>1, <1>4, <2>1, <2>2, <2>3 DEF Near
  <2>5. s.peer_applied_send_epoch <= s.send_cl  BY DEF Abreast
  <2>6. /\ r.recv_cl = s.send_cl
        /\ s.queued_proposal # NoOffer \/ s.peer_applied_send_epoch >= s.send_cl
    BY <1>5, <2>1 DEF Commits, PeerAppliedOurSendEpoch
  <2>7. Near(q, r, t, G)
    BY <1>1, <1>2, <2>1, <2>5, <2>6 DEF Near
  <2> QED  BY <2>4, <2>7
<1>6. CASE t.send_cl = s.send_cl /\ t.current_staple = s.current_staple
  <2>1. Near(p, t, r, G)
    BY <1>1, <1>2, <1>4, <1>6 DEF Near, Abreast
  <2>2. /\ r.current_staple.kind = "welcome" => r.current_staple.epoch = 0
        /\ \A f \in G :
              f.from = q /\ f.staple.epoch + 1 = r.send_cl => f.staple = r.current_staple
    BY <1>2 DEF Near
  <2> DEFINE cross == r.current_staple.cross
  <2>3. s.recv_cl < r.send_cl /\ cross # 0 =>
              /\ cross \in {s.send_cl - 1, s.send_cl}
              /\ cross = s.send_cl - 1 =>
                    /\ s.queued_proposal = NoOffer
                    /\ s.peer_applied_send_epoch < s.send_cl
                    /\ s.offered_proposal.epoch < s.send_cl
              /\ \A f \in F :
                    f.from = q /\ f.staple.epoch + 1 < r.send_cl => f.offer.epoch <= cross
    BY DEF Near
  <2>4. \A f \in G : f.from = q => f \in F  BY <1>2
  <2>5. s.recv_cl \in {r.send_cl - 1, r.send_cl}  BY DEF Abreast
  <2>6. ASSUME Rests(s, t) PROVE Near(q, r, t, G)
    BY <1>6, <2>2, <2>3, <2>4, <2>6 DEF Near, Rests, SameEpochs
  <2>7. ASSUME Advances(s, t) PROVE Near(q, r, t, G)
    BY <1>6, <2>2, <2>5, <2>7 DEF Near, Advances
  <2>8. ASSUME NEW f \in F, f.from = q, Skips(s, t, f)
        PROVE  Near(q, r, t, G)
    <3>1. /\ t.recv_cl = s.recv_cl /\ t.queued_proposal = s.queued_proposal
          /\ t.offered_proposal = f.offer
          /\ t.peer_applied_send_epoch = s.peer_applied_send_epoch \/ f.offer.epoch = s.send_cl
          /\ f.staple.epoch < s.recv_cl \/ (f.staple.kind = "welcome" /\ s.recv_cl > 0)
      BY <2>8 DEF Skips, Records
    <3>2. s.recv_cl < r.send_cl /\ cross # 0 => f.staple.epoch + 1 < r.send_cl
      BY <1>1, <2>5, <2>8, <3>1 DEF Near, Abreast
    <3> QED  BY <1>1, <1>6, <2>2, <2>3, <2>4, <2>8, <3>1, <3>2 DEF Near
  <2>9. Near(q, r, t, G)
    BY <1>6, <2>6, <2>7, <2>8, PairFields DEF Moves, MakesCommit, Commits, Joins, Takes
  <2> QED  BY <2>1, <2>9
<1> QED  BY <1>3, <1>5, <1>6

\* So the offers of both stay held.
LEMMA HeldPair ==
    ASSUME NEW p \in Party, NEW q \in Party, p # q,
           NEW s \in SessionInner, NEW t \in SessionInner, NEW r \in SessionInner,
           NEW F \in SUBSET Frame, NEW G \in SUBSET Frame,
           Abreast(p, q, s, r, F), Abreast(q, p, r, s, F), Held(p, q, s, r, F), Held(q, p, r, s, F),
           ReaderMove(s, t, r), Moves(q, s, t, F), Sends(p, s, F, G)
    PROVE  Held(p, q, t, r, G) /\ Held(q, p, r, t, G)
<1>1. \A f \in F : f.staple.epoch \in Nat /\ f.offer.epoch \in Nat  BY FrameFields
<1>2. \A f \in G : \/ f \in F
                   \/ /\ f.from = p
                      /\ f.staple = s.current_staple
                      /\ f.offer = s.pending_proposal_message
  BY DEF Sends
<1>3. Held(q, p, r, t, G)
  <2>1. OfferHeld(r, NoOffer)  BY DEF OfferHeld
  <2>2. OfferHeld(r, t.offered_proposal)
    BY <2>1 DEF Held, Moves, MakesCommit, Commits, Rests, Joins, Takes, Skips, Notes, SameEvidence
  <2>3. \/ /\ t.send_cl = s.send_cl /\ t.current_staple = s.current_staple
           /\ \/ t.queued_proposal \in {s.queued_proposal, NoOffer}
              \/ t.queued_proposal = s.offered_proposal /\ s.offered_proposal.epoch = s.send_cl
        \/ /\ t.queued_proposal = NoOffer
           /\ t.current_staple.folds = s.queued_proposal
           /\ t.current_staple.epoch = s.send_cl
    BY DEF Moves, MakesCommit, Commits, Rests, Joins, Takes, Skips, Records, Advances, SameEpochs
  <2>4. /\ OfferHeld(r, t.queued_proposal) /\ StapleHeld(r, t.current_staple)
        /\ t.queued_proposal # NoOffer => t.queued_proposal.epoch = t.send_cl
    BY <2>1, <2>3 DEF Held, StapleHeld
  <2>5. \A f \in G : /\ f.from = q => OfferHeld(r, f.offer)
                     /\ f.from = p => StapleHeld(r, f.staple)
    BY <1>2 DEF Held
  <2> QED  BY <2>2, <2>4, <2>5 DEF Held
<1>4. Held(p, q, t, r, G)
  <2>1. /\ s.pending_proposal_message.epoch <= s.recv_cl
        /\ r.offered_proposal.epoch <= s.recv_cl
        /\ r.queued_proposal # NoOffer => r.queued_proposal.epoch <= s.recv_cl
        /\ \A f \in F : f.from = p => f.offer.epoch <= s.recv_cl
    BY PairFields DEF Abreast, Held
  <2>2. /\ r.current_staple.epoch < r.send_cl
        /\ \A f \in F : f.from = q => f.staple.epoch < r.send_cl
        /\ t.recv_cl = s.recv_cl \/ (t.recv_cl = s.recv_cl + 1 /\ t.recv_cl = r.send_cl)
    BY PairFields DEF Abreast, ReaderMove
  <2>3. (t.recv_cl = s.recv_cl /\ SameIds(s, t)) \/ t.recv_cl = s.recv_cl + 1
    BY DEF Moves, MakesCommit, Commits, Rests, Joins, Takes, Skips, Records, Advances, SameEpochs
  <2>4. \A o : OfferHeld(s, o) /\ o.epoch <= s.recv_cl => OfferHeld(t, o)
    BY <2>3, PairFields DEF OfferHeld, SameIds
  <2>5. \A staple : staple.epoch < r.send_cl /\ StapleHeld(s, staple) => StapleHeld(t, staple)
    <3>1. CASE t.recv_cl = s.recv_cl /\ SameIds(s, t)
      BY <3>1 DEF StapleHeld, OfferHeld, SameIds
    <3>2. CASE t.recv_cl = s.recv_cl + 1
      BY <2>2, <3>2, PairFields DEF StapleHeld, OfferHeld
    <3> QED  BY <2>3, <3>1, <3>2
  <2>6. OfferHeld(t, NoOffer)  BY DEF OfferHeld
  <2>7. OfferHeld(t, t.pending_proposal_message)
    BY <2>1, <2>4, <2>6 DEF Held, Moves, OfferMove, OfferHeld
  <2>8. /\ OfferHeld(t, r.offered_proposal) /\ OfferHeld(t, r.queued_proposal)
        /\ StapleHeld(t, r.current_staple)
    BY <2>1, <2>2, <2>4, <2>5, <2>6 DEF Held
  <2>9. \A f \in G : /\ f.from = p => OfferHeld(t, f.offer)
                     /\ f.from = q => StapleHeld(t, f.staple)
    BY <1>1, <1>2, <2>1, <2>2, <2>4, <2>5 DEF Held
  <2> QED  BY <2>7, <2>8, <2>9 DEF Held
<1> QED  BY <1>3, <1>4

\* So the binds stay settled.
LEMMA SettledMove ==
    ASSUME NEW p \in Party, NEW q \in Party, p # q,
           NEW s \in SessionInner, NEW t \in SessionInner, NEW r \in SessionInner,
           NEW n \in Nat, NEW m \in Nat,
           NEW F \in SUBSET Frame, NEW G \in SUBSET Frame,
           Settled(p, s, r, F), Settled(q, r, s, F),
           InRound(s, r, n), RoundStep(s, t, r, n, m),
           WriterMove(s, t, r), Moves(q, s, t, F), Sends(p, s, F, G)
    PROVE  Settled(p, t, r, G) /\ Settled(q, r, t, G)
<1>1. \A f \in G : \/ f \in F
                   \/ /\ f.from = p
                      /\ f.staple = s.current_staple
                      /\ f.offer = s.pending_proposal_message
  BY DEF Sends
<1>2. \/ MakesCommit(s, t)
      \/ t.send_cl = s.send_cl /\ t.current_staple = s.current_staple
  BY DEF Moves, Rests, SameEpochs, Joins, Takes, Skips, Advances, Records
<1>3. /\ \A f \in G : f.from = p /\ f.staple.kind = "welcome" => f.staple.folds = NoOffer
      /\ \A f \in G : f.from = q /\ f.staple.kind = "welcome" => f.staple.folds = NoOffer
  BY <1>1 DEF Settled
<1>4. Settled(p, t, r, G)
  <2>1. CASE MakesCommit(s, t)
    BY <1>3, <2>1, PairFields DEF Settled, MakesCommit, Commits, WriterMove
  <2>2. CASE t.send_cl = s.send_cl /\ t.current_staple = s.current_staple
    BY <1>3, <2>2 DEF Settled
  <2> QED  BY <1>2, <2>1, <2>2
<1>5. ASSUME r.current_staple.kind = "bind", ~(t.recv_cl < r.send_cl)
      PROVE  r.current_staple.bind.pq_epoch <= t.recv_pq
  <2>1. CASE ~(s.recv_cl < r.send_cl)
    <3>1. r.current_staple.bind.pq_epoch <= s.recv_pq /\ s.recv_pq <= t.recv_pq
      BY <1>5, <2>1 DEF Settled, RoundStep
    <3> QED  BY <3>1, PairFields
  <2>2. CASE s.recv_cl < r.send_cl
    <3>1. Outstanding(r, s) /\ ~Outstanding(r, t)  BY <1>5, <2>2 DEF Outstanding
    <3>2. /\ ~r.pq_turn_mine /\ Kind(r) = "none" /\ r.current_staple.bind.pq_epoch = r.send_pq
      BY <3>1 DEF InRound, Round, Closing
    <3>3. InRound(t, r, m)  BY DEF RoundStep
    <3>4. r.send_pq = t.recv_pq
      BY <3>1, <3>2, <3>3 DEF InRound, Round, Quiet, Opened, Answered, Level, Closing, AwaitsBind, Kind
    <3> QED  BY <3>2, <3>4, PairFields
  <2> QED  BY <2>1, <2>2
<1>6. Settled(q, r, t, G)  BY <1>3, <1>5 DEF Settled
<1> QED  BY <1>4, <1>6

\* A handler's step keeps the pair, with the frames and legs it sends.
LEMMA StepPair ==
    ASSUME NEW p \in Party, NEW q \in Party, p # q,
           NEW s \in SessionInner, NEW t \in SessionInner, NEW r \in SessionInner,
           NEW n \in Nat, NEW m \in Nat,
           NEW F \in SUBSET Frame, NEW G \in SUBSET Frame,
           NEW L \in SUBSET [from : Party, leg : Leg], NEW K \in SUBSET [from : Party, leg : Leg],
           Paired(p, q, s, r, F, L, n), Moves(q, s, t, F), RoundStep(s, t, r, n, m),
           Sends(p, s, F, G),
           \A l \in K : l \in L \/ (l.from = p /\ LegFits(t, r, l.leg, m))
    PROVE  Paired(p, q, t, r, G, K, m)
<1>1. /\ Abreast(p, q, s, r, F) /\ Near(p, s, r, F) /\ Held(p, q, s, r, F) /\ Settled(p, s, r, F)
      /\ Abreast(q, p, r, s, F) /\ Near(q, r, s, F) /\ Held(q, p, r, s, F) /\ Settled(q, r, s, F)
      /\ InRound(s, r, n)
  BY DEF Paired, OneWay
<1>2. WriterMove(s, t, r) /\ ReaderMove(s, t, r) /\ EvidenceKept(t, r)  BY <1>1, MovesInStep
<1>3. Abreast(p, q, t, r, G) /\ Abreast(q, p, r, t, G)  BY <1>1, <1>2, AbreastMove
<1>4. Near(p, t, r, G) /\ Near(q, r, t, G)  BY <1>1, <1>2, NearMove
<1>5. Held(p, q, t, r, G) /\ Held(q, p, r, t, G)  BY <1>1, <1>2, HeldPair
<1>6. Settled(p, t, r, G) /\ Settled(q, r, t, G)  BY <1>1, <1>2, SettledMove
<1>7. InRound(t, r, m)  BY DEF RoundStep
<1>8. \A l \in K : /\ l.from = p => LegFits(t, r, l.leg, m)
                   /\ l.from = q => LegFits(r, t, l.leg, m)
  BY DEF Paired, RoundStep
<1> QED  BY <1>3, <1>4, <1>5, <1>6, <1>7, <1>8 DEF Paired, OneWay

----------------------------------------------------------------------------
(* Every handler is such a move.                                           *)

\* A step that leaves the classical halves and the ids alone.
LEMMA QuietMoves ==
    ASSUME NEW q, NEW F, NEW s \in SessionInner, NEW t,
           s.pending_proposal_message.epoch <= s.recv_cl, SameClassical(s, t), SameIds(s, t)
    PROVE  Moves(q, s, t, F)
<1>1. Rests(s, t)  BY DEF Rests, SameClassical, SameEpochs
<1>2. t.pending_proposal_message.epoch <= t.recv_cl  BY PairFields DEF SameClassical
<1> QED  BY <1>1, <1>2 DEF Moves, OfferMove, SameClassical

\* prepare_to_encrypt commits on its license, or rests.
LEMMA PrepareMoves ==
    ASSUME NEW q, NEW F, NEW s \in SessionInner, NEW selected \in Nat,
           s.pending_proposal_message.epoch <= s.recv_cl
    PROVE  /\ Moves(q, s, PrepareRatchetCommit(s, selected), F)
           /\ Moves(q, s, PreparePreEstablishment(s), F)
<1>1. Moves(q, s, PreparePreEstablishment(s), F)
  <2> DEFINE u == [s EXCEPT !.pending_proposal_hash = TRUE, !.pending_proposal_message = NoOffer]
  <2>1. u \in SessionInner /\ SameClassical(s, u) /\ SameIds(s, u)
    BY AbsentTypes DEF SessionInner, SameClassical, SameIds
  <2> HIDE DEF u
  <2>2. SameClassical(u, RewrapSideBand(u)) /\ SameIds(u, RewrapSideBand(u))
    BY <2>1, SideBandSame, HelperIds
  <2>3. SameClassical(s, RewrapSideBand(u)) /\ SameIds(s, RewrapSideBand(u))
    BY <2>1, <2>2, SameTransitive, SameIdsTransitive
  <2> QED  BY <2>3, QuietMoves DEF PreparePreEstablishment, u
<1> DEFINE t == PrepareRatchetCommit(s, selected)
<1>2. CASE ~DidCommit(s)
  <2>1. t = StageProposal(s, selected)  BY <1>2 DEF PrepareRatchetCommit
  <2> HIDE DEF t
  <2>2. SameIds(s, t) /\ OfferMove(s, t)  BY <2>1, StageProposalIds
  <2>3. Rests(s, t) /\ t.pending_proposal_message.epoch <= t.recv_cl
    BY <2>1, <2>2, StageProposalMove DEF Rests, SameEpochs
  <2> QED  BY <1>1, <2>2, <2>3 DEF Moves, t
<1>3. CASE DidCommit(s) /\ ~ReservationHolds(s)
  <2>1. t = FailedDischarge(s)  BY <1>3 DEF PrepareRatchetCommit
  <2> HIDE DEF t
  <2>2. /\ Rests(s, t) /\ OfferMove(s, t) /\ t.pending_proposal_message = s.pending_proposal_message
    BY <2>1 DEF FailedDischarge, SessionInner, Rests, SameEpochs, OfferMove, SameIds
  <2> QED  BY <1>1, <2>2 DEF Moves, Rests, SameEpochs, t
<1>4. CASE DidCommit(s) /\ ReservationHolds(s)
  <2> DEFINE d == DischargeAndCommit(s)
  <2>1. d \in SessionInner  BY DischargeType
  <2>2. t = StageProposal(d, selected)  BY <1>4 DEF PrepareRatchetCommit
  <2>3. /\ d.send_cl = s.send_cl + 1 /\ d.recv_cl = s.recv_cl
        /\ d.current_staple.kind # "welcome" /\ d.current_staple.cross \in {0, s.recv_cl}
        /\ d.current_staple.folds = s.queued_proposal /\ d.current_staple.epoch = s.send_cl
        /\ d.current_staple.kind # "bind" => d.current_staple.bind = NoBind
        /\ d.queued_proposal = NoOffer /\ d.offered_proposal = NoOffer
        /\ d.pending_proposal_message = s.pending_proposal_message
        /\ d.peer_applied_send_epoch = s.peer_applied_send_epoch
        /\ d.theirs = TheirsAfterCommit(s) /\ d.client = s.client
        /\ d.staged_candidates = s.staged_candidates
        /\ d.pending_side_band = s.pending_side_band
    BY DEF DischargeAndCommit, CommitStaple, SessionInner
  <2> HIDE DEF d, t
  <2>4. SameIds(s, d)  BY <2>3 DEF SameIds, TheirsAfterCommit
  <2>5. SameIds(d, t) /\ OfferMove(d, t)  BY <2>1, <2>2, StageProposalIds
  <2>6. /\ t.send_cl = d.send_cl /\ t.recv_cl = s.recv_cl
        /\ t.current_staple = d.current_staple
        /\ t.queued_proposal = NoOffer /\ t.offered_proposal = NoOffer
        /\ t.peer_applied_send_epoch = d.peer_applied_send_epoch
        /\ t.pending_proposal_message.epoch <= s.recv_cl
    BY <2>1, <2>2, <2>3, StageProposalMove
  <2>7. SameIds(s, t)  BY <2>4, <2>5, SameIdsTransitive
  <2>8. MakesCommit(s, t)  BY <1>4, <2>3, <2>6, <2>7 DEF MakesCommit, Commits, DidCommit
  <2>9. OfferMove(s, t)  BY <2>3, <2>5 DEF OfferMove
  <2> QED  BY <1>1, <2>6, <2>8, <2>9 DEF Moves, t
<1> QED  BY <1>1, <1>2, <1>3, <1>4

\* encrypt rests.
LEMMA EncryptMoves ==
    ASSUME NEW q, NEW F, NEW s \in SessionInner, s.pending_proposal_message.epoch <= s.recv_cl
    PROVE  Moves(q, s, AfterEncrypt(s), F)
<1> DEFINE u == [s EXCEPT !.pending_proposal_hash = FALSE, !.pending_proposal_message = NoOffer]
<1>1. u \in SessionInner /\ SameClassical(s, u) /\ SameIds(s, u)
  BY AbsentTypes DEF SessionInner, SameClassical, SameIds
<1> HIDE DEF u
<1>2. /\ RewrapSideBand(u) \in SessionInner
      /\ SameClassical(s, RewrapSideBand(u)) /\ SameIds(s, RewrapSideBand(u))
  BY <1>1, RewrapType, SideBandSame, HelperIds, SameTransitive, SameIdsTransitive
<1>3. LET t == MaybeStageNextRound(RewrapSideBand(u)) IN SameClassical(s, t) /\ SameIds(s, t)
  BY <1>2, SideBandSame, HelperIds, SameTransitive, SameIdsTransitive
<1> QED  BY <1>3, QuietMoves DEF AfterEncrypt, u

\* process_incoming applies the staple of the frame, or skips it.
LEMMA ProcessMoves ==
    ASSUME NEW q, NEW F \in SUBSET Frame, NEW s \in SessionInner, NEW f \in F, f.from = q,
           s.pending_proposal_message.epoch <= s.recv_cl, StapleAdmitted(s, f.staple)
    PROVE  Moves(q, s, ProcessFrame(s, f), F)
<1> DEFINE s1 == ProcessStaple(s, f.staple)  u == RecordOffer(s1, f.offer)  t == ProcessFrame(s, f)
<1>1. f.staple \in Staple /\ f.offer \in Offer  BY DEF Frame
<1>2. t = s1 \/ (t = u /\ ~s1.bind_apply_broken)  BY DEF ProcessFrame, FrameFails
<1>3. s1 \in SessionInner  BY <1>1, ProcessStapleType
<1>4. \/ s1.recv_cl = s.recv_cl + 1
      \/ s1.recv_cl = s.recv_cl /\ s1.bind_apply_broken
      \/ s1 = s /\ f.staple.epoch < s.recv_cl
      \/ s1 = s /\ f.staple.kind = "welcome" /\ s.recv_cl > 0
  BY <1>1, StapleAdvances
<1>5. /\ s1.send_cl = s.send_cl /\ s1.current_staple = s.current_staple
      /\ s1.offered_proposal = s.offered_proposal /\ s1.queued_proposal = s.queued_proposal
      /\ s1.peer_applied_send_epoch = s.peer_applied_send_epoch
      /\ s1.pending_proposal_message = s.pending_proposal_message
      /\ \/ s1.recv_cl = s.recv_cl
         \/ /\ s1.recv_cl = s.recv_cl + 1
            /\ \/ f.staple.kind = "welcome" /\ s.recv_cl = 0
               \/ f.staple.kind # "welcome" /\ StapleEpochAction(s, f.staple) # "skip"
  BY <1>1, ProcessStapleMove
<1>6. /\ s.theirs \subseteq s1.theirs
      /\ s1.pending_side_band \in {s.pending_side_band, NoLeg}
      /\ \/ s1.recv_cl = s.recv_cl /\ s1.client = s.client
               /\ s1.staged_candidates = s.staged_candidates
         \/ s1.recv_cl = s.recv_cl + 1
  BY <1>1, StapleIds
<1>7. f.staple.kind # "welcome" /\ StapleEpochAction(s, f.staple) # "skip" =>
          f.staple.epoch = s.recv_cl
  BY <1>1, SessionFields DEF StapleAdmitted, StapleEpochAction, Staple
<1> HIDE DEF s1, t
<1>8. /\ u.send_cl = s1.send_cl /\ u.recv_cl = s1.recv_cl
      /\ u.current_staple = s1.current_staple /\ u.queued_proposal = s1.queued_proposal
      /\ u.offered_proposal = f.offer
      /\ u.pending_proposal_message = s1.pending_proposal_message
      /\ u.theirs = s1.theirs /\ u.client = s1.client
      /\ u.staged_candidates = s1.staged_candidates
      /\ u.pending_side_band = s1.pending_side_band
      /\ \/ u.peer_applied_send_epoch = s1.peer_applied_send_epoch
         \/ u.peer_applied_send_epoch = s1.send_cl /\ f.offer.epoch = s1.send_cl
  BY <1>3 DEF RecordOffer, ValidateOfferedUpdate, SessionInner
<1> HIDE DEF u
<1>9. /\ t.send_cl = s.send_cl /\ t.current_staple = s.current_staple
      /\ t.queued_proposal = s.queued_proposal
      /\ t.pending_proposal_message = s.pending_proposal_message
      /\ t.recv_cl = s1.recv_cl
      /\ SameEvidence(s, t) \/ Notes(s, t, f)
  BY <1>2, <1>5, <1>8 DEF SameEvidence, Notes
<1>10. OfferMove(s, t)  BY <1>9 DEF OfferMove
<1>11. CASE s1.recv_cl = s.recv_cl + 1
  <2>1. Takes(s, t, f)  BY <1>5, <1>7, <1>9, <1>11, SessionFields DEF Takes, Advances
  <2>2. t.pending_proposal_message.epoch <= t.recv_cl  BY <1>9, <1>11, PairFields
  <2> QED  BY <1>10, <2>1, <2>2 DEF Moves, t
<1>12. CASE s1.recv_cl = s.recv_cl
  <2>1. SameIds(s, t)
    <3>1. Presents(NoLeg, s.client)  BY DEF Presents, NoLeg
    <3> QED  BY <1>2, <1>6, <1>8, <1>12, <3>1, SessionFields DEF SameIds
  <2>2. t.pending_proposal_message.epoch <= t.recv_cl  BY <1>9, <1>12
  <2>3. Rests(s, t) \/ Skips(s, t, f)
    <3>1. CASE t = s1
      BY <1>5, <1>12, <2>1, <3>1 DEF Rests, SameEpochs
    <3>2. CASE t = u /\ ~s1.bind_apply_broken
      <4>1. f.staple.epoch < s.recv_cl \/ (f.staple.kind = "welcome" /\ s.recv_cl > 0)
        BY <1>4, <1>12, <3>2, SessionFields
      <4>2. Notes(s, t, f)  BY <1>5, <1>8, <3>2 DEF Notes
      <4>3. Records(s, t, f)  BY <1>9, <1>12, <4>1, <4>2 DEF Records, Notes
      <4> QED  BY <2>1, <4>2, <4>3 DEF Skips
    <3> QED  BY <1>2, <3>1, <3>2
  <2> QED  BY <1>10, <2>2, <2>3 DEF Moves, t
<1> QED  BY <1>5, <1>11, <1>12

\* The remaining messaging handlers.
LEMMA PlainMoves ==
    ASSUME NEW q, NEW F, NEW s \in SessionInner, s.pending_proposal_message.epoch <= s.recv_cl
    PROVE  /\ Moves(q, s, [s EXCEPT !.pending_proposal_hash = FALSE], F)
           /\ ~Joined(s) => Moves(q, s, ProcessWelcome(s), F)
           /\ ValidateOfferedUpdate(s, s.offered_proposal) =>
                  Moves(q, s, [s EXCEPT !.queued_proposal = s.offered_proposal,
                                        !.offered_proposal = NoOffer], F)
<1>1. Moves(q, s, [s EXCEPT !.pending_proposal_hash = FALSE], F)
  <2> DEFINE t == [s EXCEPT !.pending_proposal_hash = FALSE]
  <2>1. SameClassical(s, t) /\ SameIds(s, t)  BY DEF SameClassical, SameIds, SessionInner
  <2> HIDE DEF t
  <2>2. Moves(q, s, t, F)  BY <2>1, QuietMoves
  <2> QED  BY <2>2 DEF t
<1>2. ASSUME ~Joined(s) PROVE Moves(q, s, ProcessWelcome(s), F)
  <2> DEFINE t == ProcessWelcome(s)
  <2>1. s.recv_cl = 0  BY <1>2, SessionFields DEF Joined
  <2>2. /\ t.recv_cl = 1 /\ t.send_cl = s.send_cl /\ t.current_staple = s.current_staple
        /\ t.pending_proposal_message = s.pending_proposal_message
        /\ t.queued_proposal = s.queued_proposal /\ t.offered_proposal = s.offered_proposal
        /\ t.peer_applied_send_epoch = s.peer_applied_send_epoch
    BY <1>2 DEF ProcessWelcome, SessionInner
  <2> HIDE DEF t
  <2>3. Joins(s, t) /\ OfferMove(s, t)
    BY <2>1, <2>2 DEF Joins, Advances, SameEvidence, OfferMove
  <2>4. t.pending_proposal_message.epoch <= t.recv_cl  BY <2>1, <2>2, PairFields
  <2> QED  BY <2>3, <2>4 DEF Moves, t
<1>3. ASSUME ValidateOfferedUpdate(s, s.offered_proposal)
      PROVE  Moves(q, s, [s EXCEPT !.queued_proposal = s.offered_proposal,
                                   !.offered_proposal = NoOffer], F)
  <2> DEFINE t == [s EXCEPT !.queued_proposal = s.offered_proposal, !.offered_proposal = NoOffer]
  <2>1. Rests(s, t) /\ t.pending_proposal_message = s.pending_proposal_message
    BY <1>3 DEF Rests, SameEpochs, SameIds, ValidateOfferedUpdate, SessionInner
  <2> HIDE DEF t
  <2> QED  BY <2>1 DEF Moves, OfferMove, Rests, SameEpochs, t
<1> QED  BY <1>1, <1>2, <1>3

----------------------------------------------------------------------------
(* Records that differ in nothing a pair speaks of: a session and what its *)
(* blob gives back.                                                        *)

\* The fields that Paired reads are the same.
Alike(s, u) ==
    /\ SameEpochs(s, u) /\ SameRound(s, u) /\ SameEvidence(s, u)
    /\ u.queued_proposal = s.queued_proposal
    /\ u.pending_proposal_message = s.pending_proposal_message
    /\ u.pending_side_band = s.pending_side_band
    /\ u.client = s.client /\ u.theirs = s.theirs
    /\ u.staged_candidates = s.staged_candidates

\* One may stand in for the other.
LEMMA AlikeStep ==
    ASSUME NEW q, NEW F, NEW s \in SessionInner, NEW u \in SessionInner, NEW r \in SessionInner,
           NEW n \in Nat, NEW m \in Nat, n <= m,
           Alike(s, u), InRound(s, r, n), s.pending_proposal_message.epoch <= s.recv_cl
    PROVE  Moves(q, s, u, F) /\ RoundStep(s, u, r, n, m)
<1>1. SameClassical(s, u) /\ SameIds(s, u)
  BY DEF Alike, SameEpochs, SameEvidence, SameClassical, SameIds
<1>2. Slot(u)
  BY DEF InRound, Slot, Kind, Alike, SameRound, SamePq, SameEpochs
<1>3. RoundStep(s, u, r, n, m)  BY <1>2, StillStep DEF Alike
<1> QED  BY <1>1, <1>3, QuietMoves

\* Against a peer, too, and with the frames sent since.
LEMMA AlikePair ==
    ASSUME NEW p \in Party, NEW q \in Party, p # q,
           NEW s \in SessionInner, NEW u \in SessionInner, NEW r \in SessionInner,
           NEW n \in Nat, NEW m \in Nat, n <= m,
           NEW F \in SUBSET Frame, NEW G \in SUBSET Frame,
           NEW L \in SUBSET [from : Party, leg : Leg],
           Paired(p, q, s, r, F, L, n), Alike(s, u), Sends(p, s, F, G)
    PROVE  Paired(p, q, u, r, G, L, m)
<1>1. InRound(s, r, n) /\ s.pending_proposal_message.epoch <= s.recv_cl
  BY DEF Paired, OneWay, Abreast
<1>2. Moves(q, s, u, F) /\ RoundStep(s, u, r, n, m)  BY <1>1, AlikeStep
<1> QED  BY <1>2, StepPair

\* A blob gives back a session like the one it was made of.
LEMMA RestoredAlike ==
    ASSUME NEW s \in SessionInner, ~s.bind_apply_broken, NEW d, d.wire = Archived(s)
    PROVE  Alike(s, Restored(d))
<1> DEFINE u == SessionFromWire(d.wire)
           w == [s EXCEPT !.psk_stores = {}, !.bind_apply_broken = FALSE]
<1>1. u = w  BY RoundTrip
<1> HIDE DEF u
<1>2. u \in SessionInner
  <2>1. w \in SessionInner  BY DEF SessionInner
  <2> QED  BY <1>1, <2>1
<1>3. Alike(s, u)
  <2>1. Alike(s, w)
    BY DEF SessionInner, Alike, SameEpochs, SameRound, SamePq, SameEvidence
  <2> QED  BY <1>1, <2>1
<1> HIDE DEF w
<1>4. ASSUME NEW a, NEW b, NEW c
      PROVE  Alike(u, [u EXCEPT !.send_pq_leaf = a, !.recv_pq_leaf = b, !.recv_pq_update = c])
  BY <1>2 DEF SessionInner, Alike, SameEpochs, SameRound, SamePq, SameEvidence
<1>5. Restored(d) = u \/ Alike(u, Restored(d))
  BY <1>4 DEF Restored, u
<1> QED  BY <1>3, <1>5 DEF Alike, SameEpochs, SameRound, SamePq, SameEvidence

\* Nothing is more like a session than itself.
LEMMA AlikeSelf == ASSUME NEW s PROVE Alike(s, s)
  BY DEF Alike, SameEpochs, SameRound, SamePq, SameEvidence

----------------------------------------------------------------------------
(* The frames that meet a pair.                                            *)

\* A frame that is due carries the peer's staple, whose PSK resolves.
LEMMA PairResolves ==
    ASSUME NEW p, NEW q, NEW s \in SessionInner, NEW r \in SessionInner,
           NEW F \in SUBSET Frame, NEW f \in F, f.from = q,
           Abreast(q, p, r, s, F), Near(q, r, s, F)
    PROVE  /\ f.staple.epoch = s.recv_cl =>
                  /\ f.staple = r.current_staple /\ r.send_cl = s.recv_cl + 1
                  /\ SendPskResolves(s, f.staple.cross)
           /\ f.staple.epoch <= s.recv_cl
           /\ f.staple.epoch = 0 => f.staple.kind = "welcome"
<1>1. f.staple.epoch \in Nat /\ f.staple.cross \in Nat  BY DEF Frame, Staple
<1>2. /\ f.staple.epoch < r.send_cl
      /\ f.staple.epoch = 0 => f.staple.kind = "welcome"
      /\ s.recv_cl \in {r.send_cl - 1, r.send_cl}
  BY DEF Abreast
<1>3. ASSUME f.staple.epoch = s.recv_cl
      PROVE  /\ f.staple = r.current_staple /\ r.send_cl = s.recv_cl + 1
             /\ SendPskResolves(s, f.staple.cross)
  <2>1. r.send_cl = s.recv_cl + 1  BY <1>1, <1>2, <1>3, PairFields
  <2>2. f.staple = r.current_staple  BY <1>3, <2>1 DEF Near
  <2>3. f.staple.cross = 0 \/ f.staple.cross \in {s.send_cl - 1, s.send_cl}
    BY <2>1, <2>2, PairFields DEF Near
  <2> QED  BY <1>1, <2>1, <2>2, <2>3, PairFields, WindowAssumption DEF SendPskResolves
<1> QED  BY <1>1, <1>2, <1>3, PairFields

\* Before it joins, a party's peer has no bind to send.
LEMMA UnjoinedWelcome ==
    ASSUME NEW p, NEW q, NEW s \in SessionInner, NEW r \in SessionInner, NEW F,
           Abreast(q, p, r, s, F), s.recv_cl = 0
    PROVE  r.current_staple.kind # "bind"
  BY PairFields DEF Abreast

\* A frame keeps the round and succeeds.
LEMMA FramePair ==
    ASSUME NEW p, NEW q, NEW s \in SessionInner, NEW r \in SessionInner,
           NEW F \in SUBSET Frame, NEW L, NEW n \in Nat, NEW f \in F, f.from = q,
           Paired(p, q, s, r, F, L, n), StapleAdmitted(s, f.staple)
    PROVE  RoundStep(s, ProcessFrame(s, f), r, n, n) /\ ~FrameFails(s, f)
<1>1. Abreast(q, p, r, s, F) /\ Near(q, r, s, F) /\ Held(p, q, s, r, F) /\ Settled(q, r, s, F)
      /\ InRound(s, r, n)
  BY DEF Paired, OneWay
<1>2. f \in Frame /\ f.staple \in Staple  BY FrameFields
<1>3. RoundStep(s, ProcessFrame(s, f), r, n, n)
  BY <1>1, <1>2, PairResolves, UnjoinedWelcome, ProcessRound
<1> DEFINE s1 == ProcessStaple(s, f.staple)
<1>4. ASSUME s1.bind_apply_broken PROVE FALSE
  <2>1. ProcessFrame(s, f) = s1  BY <1>4 DEF ProcessFrame, FrameFails
  <2> HIDE DEF s1
  <2> QED  BY <1>3, <1>4, <2>1 DEF RoundStep, InRound, Health
<1>5. ASSUME s1.recv_cl > s.recv_cl, ~WinnerHeld(s, f.staple) PROVE FALSE
  <2>1. CASE f.staple.kind = "welcome"
    BY <1>1, <1>5, <2>1 DEF Settled, WinnerHeld, CanonicalizedOwn
  <2>2. CASE f.staple.kind # "welcome"
    <3>1. StapleEpochAction(s, f.staple) # "skip"
      BY <1>2, <1>5, <2>2, ProcessStapleMove, SessionFields
    <3>2. f.staple.epoch = s.recv_cl
      BY <1>2, <2>2, <3>1, SessionFields DEF StapleAdmitted, StapleEpochAction, Staple
    <3>3. StapleHeld(s, f.staple)  BY <1>1 DEF Held
    <3> QED  BY <1>5, <2>2, <3>2, <3>3 DEF StapleHeld, OfferHeld, WinnerHeld, CanonicalizedOwn
  <2> QED  BY <2>1, <2>2
<1> QED  BY <1>3, <1>4, <1>5 DEF FrameFails

----------------------------------------------------------------------------
(* Memory and disk of gated hosts.                                         *)

\* The sessions p may go on with: the one in memory and, while a push lags, the one
\* a crash would put in its place.
Copies(p) == {session[p]} \cup (IF lag[p].on THEN {Restored(disk[p])} ELSE {})

\* Both hosts are of the stricter policy.
Gated == \A p \in Party : lag[p].gate

\* A disk that is level gives back a session like the one in memory, and either copy
\* of one party is paired with either copy of the other.
CopiesPaired ==
    /\ \A p \in Party : ~lag[p].on => Alike(session[p], Restored(disk[p]))
    /\ \A p \in Party : \A s \in Copies(p), r \in Copies(Peer(p)) :
           Paired(p, Peer(p), s, r, frames, legs, fresh)

\* The inductive invariant of hosts that transmit nothing while a push lags.
GatedInv == Gated => CopiesPaired

\* Being a pair does not depend on whom is named first.
LEMMA PairedSymmetric ==
    ASSUME NEW p, NEW q, NEW s, NEW r, NEW F, NEW L, NEW n, Paired(p, q, s, r, F, L, n)
    PROVE  Paired(q, p, r, s, F, L, n)
  BY DEF Paired, InRound

\* Every copy is a session, and p has its disk's among them or one like it.
LEMMA CopyTypes ==
    ASSUME DurableInv, NEW p \in Party
    PROVE  /\ session[p] \in SessionInner /\ Restored(disk[p]) \in SessionInner
           /\ \A x \in Copies(p) : x \in SessionInner
           /\ session[p] \in Copies(p)
           /\ frames \in SUBSET Frame /\ legs \in SUBSET [from : Party, leg : Leg] /\ fresh \in Nat
<1>1. Saved(disk[p]) /\ TypeOK  BY DEF DurableInv, DurableTypes
<1>2. Restored(disk[p]) \in SessionInner  BY <1>1, RestoredSound DEF Sound
<1> QED  BY <1>1, <1>2 DEF TypeOK, Copies

\* What a handler of p does that takes it to t: a move that keeps the round with
\* either copy of the peer, sends only what memory and disk agree on, and pushes.
GatedStep(p, t) ==
    /\ session' = [session EXCEPT ![p] = t]
    /\ fresh <= fresh'
    /\ Moves(Peer(p), session[p], t, frames)
    /\ \A r \in Copies(Peer(p)) :
          /\ RoundStep(session[p], t, r, fresh, fresh')
          /\ \A l \in legs' : l \in legs \/ (l.from = p /\ LegFits(t, r, l.leg, fresh'))
    /\ Sends(p, session[p], frames, frames')
    /\ lag[p].on => frames' = frames
    /\ \/ legs' = legs /\ (PushLost(p) \/ PushBetween(p))
       \/ \E kind : PushDurable(p, kind)
       \/ NoPush /\ t = session[p] /\ ~lag[p].on

\* Such a step keeps the copies paired, whatever the next crash takes back.
LEMMA GatedMove ==
    ASSUME DurableInv, DurableInv', CopiesPaired, NEW p \in Party, NEW t, GatedStep(p, t)
    PROVE  CopiesPaired'
<1> DEFINE q == Peer(p)  s == session[p]  d == Restored(disk[p])
<1>1. q \in Party /\ q # p /\ Peer(q) = p /\ \A x \in Party : x = p \/ x = q
  BY PeerType DEF Party
<1>2. /\ session'[p] = t /\ session'[q] = session[q]
      /\ disk'[q] = disk[q] /\ lag'[q] = lag[q]
      /\ disk = [x \in Party |-> disk[x]] /\ lag \in [Party -> Lags]
  BY <1>1 DEF GatedStep, PushLost, PushBetween, PushDurable, NoPush, DurableInv, DurableTypes, TypeOK
<1>3. Copies(q)' = Copies(q)  BY <1>2 DEF Copies
<1>4. /\ s \in SessionInner /\ d \in SessionInner /\ s \in Copies(p)
      /\ \A x \in Copies(p) \cup Copies(q) : x \in SessionInner
      /\ frames \in SUBSET Frame /\ legs \in SUBSET [from : Party, leg : Leg] /\ fresh \in Nat
  BY <1>1, CopyTypes
<1>5. /\ t \in SessionInner /\ frames' \in SUBSET Frame
      /\ legs' \in SUBSET [from : Party, leg : Leg] /\ fresh' \in Nat
  BY <1>2 DEF DurableInv, DurableTypes, TypeOK
<1>6. \A r \in Copies(q) : Paired(p, q, s, r, frames, legs, fresh)
  BY <1>4 DEF CopiesPaired
<1>7. \A r \in Copies(q) : Paired(p, q, t, r, frames', legs', fresh')
  <2> SUFFICES ASSUME NEW r \in Copies(q) PROVE Paired(p, q, t, r, frames', legs', fresh')
    OBVIOUS
  <2>1. /\ Moves(q, s, t, frames) /\ RoundStep(s, t, r, fresh, fresh') /\ Sends(p, s, frames, frames')
        /\ \A l \in legs' : l \in legs \/ (l.from = p /\ LegFits(t, r, l.leg, fresh'))
    BY DEF GatedStep
  <2>2. r \in SessionInner /\ Paired(p, q, s, r, frames, legs, fresh)  BY <1>4, <1>6
  <2> HIDE DEF s, q
  <2> QED  BY <1>1, <1>4, <1>5, <2>1, <2>2, StepPair
<1>8. PICK r0 \in Copies(q) : r0 = session[q]  BY DEF Copies
<1>9. ~t.bind_apply_broken
  <2>1. RoundStep(s, t, r0, fresh, fresh')  BY DEF GatedStep
  <2> QED  BY <2>1 DEF RoundStep, InRound, Health
<1>10. ASSUME NEW kind, disk'[p] = Write(disk[p], kind, t) PROVE Alike(t, Restored(disk'[p]))
  <2>1. disk'[p].wire = Archived(t)  BY <1>10 DEF Write
  <2> QED  BY <1>5, <1>9, <2>1, RestoredAlike
<1>11. ~lag'[p].on => Alike(t, Restored(disk'[p]))
  <2>1. CASE PushLost(p) \/ PushBetween(p)
    <3>1. lag'[p].on  BY <1>2, <2>1 DEF PushLost, PushBetween, Lags
    <3> QED  BY <3>1
  <2>2. ASSUME NEW kind, PushDurable(p, kind) PROVE Alike(t, Restored(disk'[p]))
    <3>1. disk'[p] = Write(disk[p], kind, t)  BY <1>2, <2>2 DEF PushDurable
    <3> QED  BY <1>10, <3>1
  <2>3. CASE NoPush /\ t = s
    <3>1. lag' = lag /\ disk' = disk  BY <2>3 DEF NoPush
    <3> QED  BY <2>3, <3>1 DEF CopiesPaired
  <2> QED  BY <2>1, <2>2, <2>3 DEF GatedStep
<1>12. ASSUME NEW x \in Copies(p)', x # t, NEW r \in Copies(q)
       PROVE  Paired(p, q, x, r, frames', legs', fresh')
  <2>1. lag'[p].on /\ x = Restored(disk'[p])  BY <1>2, <1>12 DEF Copies
  <2>2. r \in SessionInner /\ Paired(p, q, s, r, frames, legs, fresh)
        /\ Paired(p, q, t, r, frames', legs', fresh')
    BY <1>4, <1>6, <1>7
  <2>3. x \in SessionInner  BY <2>1, CopyTypes, RestoredSound DEF DurableInv, Sound
  <2>4. Sends(p, s, frames, frames') /\ fresh <= fresh'  BY DEF GatedStep
  <2>5. CASE PushLost(p) /\ legs' = legs
    <3>1. x = d  BY <2>1, <2>5 DEF PushLost
    <3>2. CASE lag[p].on
      <4>1. d \in Copies(p) /\ frames' = frames  BY <3>2 DEF Copies, GatedStep
      <4>2. Paired(p, q, d, r, frames, legs, fresh)  BY <4>1 DEF CopiesPaired
      <4>3. Alike(d, d) /\ Sends(p, d, frames, frames)  BY AlikeSelf DEF Sends
      <4> HIDE DEF d, q
      <4> QED  BY <1>1, <1>4, <1>5, <2>2, <2>4, <2>5, <3>1, <4>1, <4>2, <4>3, AlikePair
    <3>3. CASE ~lag[p].on
      <4>1. Alike(s, d)  BY <3>3 DEF CopiesPaired
      <4> HIDE DEF d, q, s
      <4> QED  BY <1>1, <1>4, <1>5, <2>2, <2>4, <2>5, <3>1, <4>1, AlikePair
    <3> QED  BY <3>2, <3>3
  <2>6. CASE PushBetween(p) /\ legs' = legs
    <3>1. disk'[p] = Write(disk[p], "Core", t)  BY <1>2, <2>6 DEF PushBetween
    <3>2. Alike(t, x)  BY <1>10, <2>1, <3>1
    <3>3. Sends(p, t, frames', frames') /\ fresh' <= fresh'  BY <1>5 DEF Sends
    <3> HIDE DEF q
    <3> QED  BY <1>1, <1>5, <2>2, <2>3, <3>2, <3>3, AlikePair
  <2>7. CASE (\E kind : PushDurable(p, kind)) \/ (NoPush /\ ~lag[p].on)
    <3>1. ~lag'[p].on  BY <2>7 DEF PushDurable, NoPush
    <3> QED  BY <2>1, <3>1
  <2> QED  BY <2>5, <2>6, <2>7 DEF GatedStep
<1>13. ASSUME NEW x \in Copies(p)', NEW r \in Copies(q)
       PROVE  Paired(p, q, x, r, frames', legs', fresh')
  BY <1>7, <1>12
<1>14. \A r \in Copies(q), x \in Copies(p)' : Paired(q, p, r, x, frames', legs', fresh')
  BY <1>13, PairedSymmetric
<1>15. ~lag'[q].on => Alike(session'[q], Restored(disk'[q]))  BY <1>1, <1>2 DEF CopiesPaired
<1>16. \A y \in Party : ~lag'[y].on => Alike(session'[y], Restored(disk'[y]))
  BY <1>1, <1>2, <1>11, <1>15
<1>17. \A y \in Party : \A a \in Copies(y)', b \in Copies(Peer(y))' :
          Paired(y, Peer(y), a, b, frames', legs', fresh')
  BY <1>1, <1>3, <1>13, <1>14
<1> QED  BY <1>16, <1>17 DEF CopiesPaired

----------------------------------------------------------------------------
(* Every action but a crash is such a step.                                *)

\* What a handler of p may count on, whichever copy of the peer it meets.
LEMMA PairedStanding ==
    ASSUME DurableInv, CopiesPaired, NEW p \in Party
    PROVE  LET s == session[p]
               q == Peer(p)
           IN  /\ q \in Party /\ q # p /\ Peer(q) = p
               /\ s \in SessionInner /\ fresh \in Nat /\ frames \in SUBSET Frame
               /\ s.pending_proposal_message.epoch <= s.recv_cl
               /\ \A l \in legs : l.leg \in Leg
               /\ \A r \in Copies(q) :
                     /\ r \in SessionInner /\ Paired(p, q, s, r, frames, legs, fresh)
                     /\ InRound(s, r, fresh)
                     /\ DidCommit(s) => r.recv_cl = s.send_cl
                     /\ s.recv_cl = 0 => r.current_staple.kind # "bind"
                     /\ \A l \in legs : l.from = q => LegFits(r, s, l.leg, fresh)
<1> DEFINE q == Peer(p)  s == session[p]
<1>1. q \in Party /\ q # p /\ Peer(q) = p  BY PeerType
<1>2. /\ s \in SessionInner /\ s \in Copies(p) /\ session[q] \in Copies(q)
      /\ \A r \in Copies(q) : r \in SessionInner
      /\ fresh \in Nat /\ frames \in SUBSET Frame
      /\ legs \in SUBSET [from : Party, leg : Leg]
  BY <1>1, CopyTypes
<1>3. \A r \in Copies(q) : Paired(p, q, s, r, frames, legs, fresh)  BY <1>2 DEF CopiesPaired
<1> HIDE DEF q, s
<1>4. ASSUME NEW r \in Copies(q)
      PROVE  /\ InRound(s, r, fresh)
             /\ DidCommit(s) => r.recv_cl = s.send_cl
             /\ s.recv_cl = 0 => r.current_staple.kind # "bind"
             /\ \A l \in legs : l.from = q => LegFits(r, s, l.leg, fresh)
             /\ s.pending_proposal_message.epoch <= s.recv_cl
  <2>1. /\ Abreast(p, q, s, r, frames) /\ Abreast(q, p, r, s, frames) /\ InRound(s, r, fresh)
        /\ \A l \in legs : l.from = q => LegFits(r, s, l.leg, fresh)
    BY <1>3 DEF Paired, OneWay
  <2>2. DidCommit(s) => r.recv_cl = s.send_cl  BY <2>1 DEF Abreast, DidCommit
  <2>3. s.pending_proposal_message.epoch <= s.recv_cl  BY <2>1 DEF Abreast
  <2> QED  BY <1>2, <2>1, <2>2, <2>3, UnjoinedWelcome
<1> QED  BY <1>1, <1>2, <1>3, <1>4 DEF q, s

\* A handler that sends nothing.
LEMMA SilentStep ==
    ASSUME NEW p \in Party, NEW t, NEW kind,
           session' = [session EXCEPT ![p] = t], fresh \in Nat, fresh' = fresh,
           frames' = frames, legs' = legs,
           Moves(Peer(p), session[p], t, frames),
           \A r \in Copies(Peer(p)) : RoundStep(session[p], t, r, fresh, fresh),
           Push(p, kind)
    PROVE  GatedStep(p, t)
<1>1. fresh <= fresh' /\ Sends(p, session[p], frames, frames')  BY DEF Sends
<1>2. PushLost(p) \/ \E k : PushDurable(p, k)  BY DEF Push
<1> QED  BY <1>1, <1>2 DEF GatedStep

\* Preparing, encrypting and approving: a frame goes out only while the disk is level.
LEMMA GatedMessaging ==
    ASSUME DurableInv, Gated, CopiesPaired, NEW p \in Party
    PROVE  /\ \A selected \in Ids : Prepare(p, selected) => \E t : GatedStep(p, t)
           /\ SendMessage(p) \/ WithholdMessage(p) => \E t : GatedStep(p, t)
           /\ SendNothing(p) \/ Approve(p) => \E t : GatedStep(p, t)
<1> DEFINE s == session[p]  q == Peer(p)
<1>1. /\ s \in SessionInner /\ fresh \in Nat /\ s.pending_proposal_message.epoch <= s.recv_cl
      /\ \A r \in Copies(q) : /\ r \in SessionInner /\ InRound(s, r, fresh)
                              /\ DidCommit(s) => r.recv_cl = s.send_cl
  BY PairedStanding
<1>2. ASSUME NEW selected \in Ids, Prepare(p, selected) PROVE \E t : GatedStep(p, t)
  <2>1. selected \in Nat  BY BoundAssumption DEF Ids
  <2>2. PICK t \in {PrepareRatchetCommit(s, selected), PreparePreEstablishment(s)} :
          session' = [session EXCEPT ![p] = t]
    BY <1>2 DEF Prepare, PrepareToEncrypt
  <2>3. UNCHANGED <<frames, legs, fresh>> /\ Push(p, "Core")  BY <1>2 DEF Prepare, PrepareToEncrypt
  <2>4. Moves(q, s, t, frames)  BY <1>1, <2>1, <2>2, PrepareMoves
  <2>5. \A r \in Copies(q) : RoundStep(s, t, r, fresh, fresh)  BY <1>1, <2>1, <2>2, PrepareRound
  <2>6. GatedStep(p, t)  BY <1>1, <2>2, <2>3, <2>4, <2>5, SilentStep
  <2> QED  BY <2>6
<1>3. ASSUME SendMessage(p) \/ WithholdMessage(p) PROVE \E t : GatedStep(p, t)
  <2> DEFINE t == AfterEncrypt(s)
  <2>1. /\ session' = [session EXCEPT ![p] = t] /\ legs' = legs /\ PushEncrypted(p)
        /\ fresh' = IF session'[p].pq_inflight = Initiating(fresh) THEN fresh + 1 ELSE fresh
    BY <1>3 DEF SendMessage, WithholdMessage, EncryptFrame, ComposeFrame
  <2>2. session'[p] = t  BY <2>1 DEF DurableInv, DurableTypes, TypeOK
  <2>3. Moves(q, s, t, frames)  BY <1>1, EncryptMoves
  <2>4. \A r \in Copies(q) : RoundStep(s, t, r, fresh, fresh')  BY <1>1, <2>1, <2>2, EncryptRound
  <2> HIDE DEF t
  <2>5. fresh <= fresh'  BY <1>1, <2>1
  <2>6. \/ frames' = frames
        \/ ~lag[p].on /\ frames' = frames \cup {MessageFrame(p)}
    BY <1>3 DEF SendMessage, WithholdMessage, EncryptFrame, MessageGate, Gated
  <2>7. Sends(p, s, frames, frames') /\ (lag[p].on => frames' = frames)
    BY <2>6 DEF Sends, MessageFrame
  <2>8. PushLost(p) \/ PushBetween(p) \/ \E kind : PushDurable(p, kind)
    BY <2>1 DEF PushEncrypted, Push
  <2>9. GatedStep(p, t)  BY <2>1, <2>3, <2>4, <2>5, <2>7, <2>8 DEF GatedStep
  <2> QED  BY <2>9
<1>4. ASSUME SendNothing(p) \/ Approve(p) PROVE \E t : GatedStep(p, t)
  <2> DEFINE u == [s EXCEPT !.pending_proposal_hash = FALSE]
             v == [s EXCEPT !.queued_proposal = s.offered_proposal, !.offered_proposal = NoOffer]
  <2>1. /\ u \in SessionInner /\ Untouched(s, u)
        /\ v \in SessionInner /\ Untouched(s, v)
    <3>1. u \in SessionInner  BY <1>1 DEF SessionInner
    <3>2. v \in SessionInner  BY <1>1, AbsentTypes DEF SessionInner
    <3>3. Untouched(s, u)
      BY <1>1 DEF SessionInner, Untouched, SameRound, SamePq, SameEpochs
    <3>4. Untouched(s, v)
      BY <1>1 DEF SessionInner, Untouched, SameRound, SamePq, SameEpochs
    <3> QED  BY <3>1, <3>2, <3>3, <3>4
  <2>2. Moves(q, s, u, frames)  BY <1>1, PlainMoves
  <2>3. ValidateOfferedUpdate(s, s.offered_proposal) => Moves(q, s, v, frames)
    BY <1>1, PlainMoves
  <2>4. PICK t \in {u, v} : /\ session' = [session EXCEPT ![p] = t]
                            /\ t = v => ValidateOfferedUpdate(s, s.offered_proposal) \/ v = u
    BY <1>4 DEF SendNothing, EncryptWithoutProposal, Approve, QueueProposal
  <2>5. UNCHANGED <<frames, legs, fresh>> /\ Push(p, "Core")
    BY <1>4 DEF SendNothing, EncryptWithoutProposal, Approve, QueueProposal
  <2> HIDE DEF u, v
  <2>6. Moves(q, s, t, frames) /\ t \in SessionInner /\ Untouched(s, t)
    BY <2>1, <2>2, <2>3, <2>4
  <2>7. \A r \in Copies(q) : RoundStep(s, t, r, fresh, fresh)
    BY <1>1, <2>6, UntouchedSlot, StillStep DEF Untouched, InRound
  <2>8. GatedStep(p, t)  BY <1>1, <2>4, <2>5, <2>6, <2>7, SilentStep
  <2> QED  BY <2>8
<1> QED  BY <1>2, <1>3, <1>4

\* Receiving: no frame fails, so the mirror's move is pushed.
LEMMA GatedReceiving ==
    ASSUME DurableInv, CopiesPaired, NEW p \in Party
    PROVE  /\ \A f \in frames : Receive(p, f) => \E t : GatedStep(p, t)
           /\ ReceiveWelcome(p) => \E t : GatedStep(p, t)
<1> DEFINE s == session[p]  q == Peer(p)
<1>1. /\ s \in SessionInner /\ fresh \in Nat /\ s.pending_proposal_message.epoch <= s.recv_cl
      /\ frames \in SUBSET Frame /\ q \in Party /\ session[q] \in Copies(q)
      /\ \A r \in Copies(q) : /\ r \in SessionInner /\ InRound(s, r, fresh)
                              /\ Paired(p, q, s, r, frames, legs, fresh)
                              /\ s.recv_cl = 0 => r.current_staple.kind # "bind"
  BY PairedStanding DEF Copies
<1>2. ASSUME NEW f \in frames, Receive(p, f) PROVE \E t : GatedStep(p, t)
  <2> DEFINE t == ProcessFrame(s, f)
  <2>1. /\ f.from = q /\ StapleAdmitted(s, f.staple)
        /\ session' = [session EXCEPT ![p] = t] /\ UNCHANGED <<frames, legs, fresh>>
        /\ IF FrameFails(s, f) THEN NoPush ELSE Push(p, IncomingKind(p))
    BY <1>2 DEF Receive, ProcessIncomingFrame
  <2>2. Moves(q, s, t, frames)  BY <1>1, <2>1, ProcessMoves
  <2>3. \A r \in Copies(q) : RoundStep(s, t, r, fresh, fresh) /\ ~FrameFails(s, f)
    BY <1>1, <2>1, FramePair
  <2> HIDE DEF t
  <2>4. Push(p, IncomingKind(p))  BY <1>1, <2>1, <2>3
  <2>5. GatedStep(p, t)  BY <1>1, <2>1, <2>2, <2>3, <2>4, SilentStep
  <2> QED  BY <2>5
<1>3. ASSUME ReceiveWelcome(p) PROVE \E t : GatedStep(p, t)
  <2> DEFINE t == ProcessWelcome(s)
  <2>1. /\ session' = [session EXCEPT ![p] = t] /\ UNCHANGED <<frames, legs, fresh>>
        /\ ~Joined(s) /\ Push(p, "Core")
    BY <1>3 DEF ReceiveWelcome, ProcessIncomingWelcome
  <2>2. s.recv_cl = 0  BY <1>1, <2>1, RoundFields DEF Joined
  <2>3. /\ t \in SessionInner /\ t.recv_cl = s.recv_cl + 1 /\ t.send_cl = s.send_cl
        /\ t.current_staple = s.current_staple /\ SameRound(s, t)
        /\ t.pending_side_band = s.pending_side_band
    BY <1>1, <2>1, <2>2 DEF ProcessWelcome, SessionInner, SameRound, SamePq
  <2>4. Moves(q, s, t, frames)  BY <1>1, <2>1, PlainMoves
  <2> HIDE DEF t
  <2>5. ASSUME NEW r \in Copies(q) PROVE RoundStep(s, t, r, fresh, fresh)
    <3>1. Slot(t)  BY <1>1, <2>3 DEF InRound, Slot, Kind, SameRound, SamePq
    <3> QED  BY <1>1, <2>2, <2>3, <3>1, ApplyCommitStep
  <2>6. GatedStep(p, t)  BY <1>1, <2>1, <2>4, <2>5, SilentStep
  <2> QED  BY <2>6
<1> QED  BY <1>2, <1>3

\* Handing out a parked frame, and opening the bootstrap.
LEMMA GatedOutbound ==
    ASSUME DurableInv, CopiesPaired, NEW p \in Party
    PROVE  HandOut(p) \/ OpenBootstrap(p) \/ WithholdBootstrap(p) => \E t : GatedStep(p, t)
<1> DEFINE s == session[p]  q == Peer(p)
<1>1. /\ s \in SessionInner /\ fresh \in Nat /\ s.pending_proposal_message.epoch <= s.recv_cl
      /\ \A r \in Copies(q) : r \in SessionInner /\ InRound(s, r, fresh)
  BY PairedStanding
<1>2. ASSUME HandOut(p) PROVE \E t : GatedStep(p, t)
  <2> DEFINE leg == s.pending_side_band
  <2>1. /\ session' = session /\ frames' = frames /\ fresh' = fresh /\ NoPush /\ ~lag[p].on
        /\ legs' = legs \cup {[from |-> p, leg |-> leg]} /\ leg # NoLeg
    BY <1>2 DEF HandOut, PqPendingOutbound, SideBandGate
  <2>2. session' = [session EXCEPT ![p] = s]  BY <2>1 DEF DurableInv, DurableTypes, TypeOK
  <2>3. leg \in Leg  BY <1>1, <2>1, SessionFields
  <2>4. ASSUME NEW r \in Copies(q)
        PROVE  /\ RoundStep(s, s, r, fresh, fresh')
               /\ \A l \in legs' : l \in legs \/ (l.from = p /\ LegFits(s, r, l.leg, fresh'))
    <3>1. Slot(s) /\ fresh <= fresh  BY <1>1 DEF InRound
    <3>2. RoundStep(s, s, r, fresh, fresh)
      BY <1>1, <3>1, StillStep DEF SameRound, SamePq, SameEpochs
    <3>3. LegFits(s, r, leg, fresh)  BY <1>1, <2>3, ParkedFits
    <3> QED  BY <2>1, <3>2, <3>3
  <2>5. Moves(q, s, s, frames)
    BY <1>1, QuietMoves DEF SameClassical, SameIds
  <2>6. fresh <= fresh' /\ Sends(p, s, frames, frames')  BY <1>1, <2>1 DEF Sends
  <2>7. GatedStep(p, s)  BY <2>1, <2>2, <2>4, <2>5, <2>6 DEF GatedStep
  <2> QED  BY <2>7
<1>3. ASSUME OpenBootstrap(p) \/ WithholdBootstrap(p) PROVE \E t : GatedStep(p, t)
  <2> DEFINE t == RegisterBootstrapRound(s)
  <2>1. /\ session' = [session EXCEPT ![p] = t] /\ frames' = frames /\ fresh' = fresh
        /\ s.bootstrap_kp
        /\ \/ legs' = legs \cup {[from |-> p, leg |-> KpLeg]} /\ PushDurable(p, "Checkpoint")
           \/ legs' = legs /\ PushLost(p)
    BY <1>3 DEF OpenBootstrap, WithholdBootstrap, PqBootstrapBegin, PqBootstrapEnvelope,
                CanBeginBootstrap, CanBeginEnvelope
  <2>2. \A r \in Copies(q) : RoundStep(s, t, r, fresh, fresh) /\ LegFits(t, r, KpLeg, fresh)
    BY <1>1, <2>1, RegisterRound
  <2>3. SameClassical(s, t) /\ SameIds(s, t)  BY <1>1, SideBandSame, HelperIds
  <2> HIDE DEF t
  <2>4. Moves(q, s, t, frames)  BY <1>1, <2>3, QuietMoves
  <2>5. fresh <= fresh' /\ Sends(p, s, frames, frames')  BY <1>1, <2>1 DEF Sends
  <2>6. \A r \in Copies(q) :
           /\ RoundStep(s, t, r, fresh, fresh')
           /\ \A l \in legs' : l \in legs \/ (l.from = p /\ LegFits(t, r, l.leg, fresh'))
    BY <2>1, <2>2
  <2>7. GatedStep(p, t)  BY <2>1, <2>4, <2>5, <2>6 DEF GatedStep
  <2> QED  BY <2>7
<1> QED  BY <1>2, <1>3

\* Answering and landing a round: the leg fits either copy of the peer.
LEMMA GatedSideBand ==
    ASSUME DurableInv, CopiesPaired, NEW p \in Party
    PROVE  RespondToEphemeral(p) \/ MovePq(p) => \E t : GatedStep(p, t)
<1> DEFINE s == session[p]  q == Peer(p)
<1>1. /\ s \in SessionInner /\ fresh \in Nat /\ s.pending_proposal_message.epoch <= s.recv_cl
      /\ \A l \in legs : l.leg \in Leg
      /\ \A r \in Copies(q) : /\ r \in SessionInner /\ InRound(s, r, fresh)
                              /\ \A l \in legs : l.from = q => LegFits(r, s, l.leg, fresh)
  BY PairedStanding
<1>2. SUFFICES ASSUME RespondToEphemeral(p) \/ MovePq(p) PROVE \E t : GatedStep(p, t)
  OBVIOUS
<1>3. ProcessSideBand(p) /\ \E kind : Push(p, kind)
  BY <1>2 DEF RespondToEphemeral, MovePq, ProcessSideBand
<1>4. /\ TypeOK /\ SameClassical(s, session'[p]) /\ SameIds(s, session'[p])
      /\ frames' = frames /\ legs' = legs
  <2>1. TypeOK  BY DEF DurableInv, DurableTypes
  <2>2. legs' = legs
    BY <1>3 DEF ProcessSideBand, PqBootstrapRespond, PqBootstrapBind, PqRatchetRespond, PqRatchetBind,
                PqRekeyRespond, PqRekeyApply
  <2> QED  BY <1>3, <2>1, <2>2, SideBandActionSame, SideBandIds
<1>5. Moves(q, s, session'[p], frames)  BY <1>1, <1>4, QuietMoves
<1>6. ASSUME NEW t, session' = [session EXCEPT ![p] = t], fresh <= fresh',
             \A r \in Copies(q) : RoundStep(s, t, r, fresh, fresh')
      PROVE  \E x : GatedStep(p, x)
  <2>1. session'[p] = t  BY <1>4, <1>6 DEF TypeOK
  <2>2. Sends(p, s, frames, frames')  BY <1>4 DEF Sends
  <2>3. PushLost(p) \/ \E kind : PushDurable(p, kind)  BY <1>3 DEF Push
  <2>4. GatedStep(p, t)  BY <1>4, <1>5, <1>6, <2>1, <2>2, <2>3 DEF GatedStep
  <2> QED  BY <2>4
<1>7. fresh <= fresh /\ fresh <= fresh + 1  BY <1>1
<1>8. CASE PqBootstrapRespond(p)
  <2>1. /\ session' = [session EXCEPT ![p] = RespondBootstrap(s)] /\ fresh' = fresh
        /\ CanRespondBootstrap(s) /\ [from |-> q, leg |-> KpLeg] \in legs
    BY <1>8 DEF PqBootstrapRespond, Arrives
  <2>2. \A r \in Copies(q) : LegFits(r, s, KpLeg, fresh)  BY <1>1, <2>1
  <2>3. [mine |-> s.client, theirs |-> 0] \in LeafPair  BY <1>1, SessionFields DEF LeafPair
  <2>5. RespondBootstrap(s) \in SessionInner
    BY <1>1, <2>3, FoundedType, SessionFields, InflightTypes, LegTypes DEF RespondBootstrap
  <2>6. \A r \in Copies(q) : RoundStep(s, RespondBootstrap(s), r, fresh, fresh)
    BY <1>1, <2>1, <2>2, <2>5, RespondBootstrapRound
  <2> QED  BY <1>6, <1>7, <2>1, <2>6
<1>9. CASE PqBootstrapBind(p)
  <2>1. PICK l \in legs :
          /\ l.from = q /\ l.leg.kind = "bootstrap_welcome"
          /\ s.recv_pq = 0 /\ s.pq_inflight = BootstrapInitiated
          /\ session' = [session EXCEPT ![p] =
               ExportAndOweBind([s EXCEPT !.recv_pq = 1,
                                          !.recv_pq_leaf = [mine |-> 0, theirs |-> l.leg.creator]])]
          /\ fresh' = fresh
    BY <1>9 DEF PqBootstrapBind
  <2> HIDE DEF s, q
  <2> QED  BY <1>1, <1>6, <1>7, <2>1, BootstrapBindRound
<1>10. CASE PqRatchetRespond(p)
  <2>1. PICK l \in legs :
          /\ l.from = q /\ l.leg.kind = "ek" /\ l.leg.epoch = s.recv_cl /\ CanRespondRatchet(s)
          /\ session' = [session EXCEPT ![p] = RespondRatchet(s, l.leg)]
          /\ fresh' = fresh + 1
    BY <1>10 DEF PqRatchetRespond, LegDecrypts
  <2> HIDE DEF s, q
  <2> QED  BY <1>1, <1>6, <1>7, <2>1, RespondRatchetRound
<1>11. CASE PqRatchetBind(p)
  <2>1. PICK l \in legs :
          /\ l.from = q /\ l.leg.kind = "ct" /\ s.pq_inflight.kind = "Initiating"
          /\ session' = [session EXCEPT ![p] = BindRatchet(s, l.leg)]
          /\ fresh' = fresh
    BY <1>11 DEF PqRatchetBind
  <2> HIDE DEF s, q
  <2> QED  BY <1>1, <1>6, <1>7, <2>1, BindRatchetRound
<1>12. CASE PqRekeyRespond(p)
  <2>1. PICK l \in legs :
          /\ l.from = q /\ l.leg.kind = "rekey_upd" /\ s.pq_inflight = Idle
          /\ session' = [session EXCEPT ![p] = RespondRekey(s, l.leg)]
          /\ fresh' = fresh
    BY <1>12 DEF PqRekeyRespond
  <2> HIDE DEF s, q
  <2> QED  BY <1>1, <1>6, <1>7, <2>1, RespondRekeyRound
<1>13. CASE PqRekeyApply(p)
  <2>1. PICK l \in legs :
          /\ l.from = q /\ l.leg.kind = "rekey_commit" /\ s.pq_inflight = RekeyInitiated
          /\ session' = [session EXCEPT ![p] = ApplyRekey(s, l.leg)]
          /\ fresh' = fresh
    BY <1>13 DEF PqRekeyApply
  <2> HIDE DEF s, q
  <2> QED  BY <1>1, <1>6, <1>7, <2>1, ApplyRekeyRound
<1> QED  BY <1>3, <1>8, <1>9, <1>10, <1>11, <1>12, <1>13 DEF ProcessSideBand

\* A crash: what it puts in memory was a copy, or like one.
LEMMA GatedCrash ==
    ASSUME DurableInv, DurableInv', CopiesPaired, NEW p \in Party, Crash(p)
    PROVE  CopiesPaired'
<1> DEFINE q == Peer(p)  s == session[p]  d == Restored(disk[p])
<1>1. q \in Party /\ q # p /\ Peer(q) = p /\ \A x \in Party : x = p \/ x = q
  BY PeerType DEF Party
<1>2. /\ disk = [x \in Party |-> disk[x]] /\ lag \in [Party -> Lags]
      /\ session \in [Party -> SessionInner]
  BY DEF DurableInv, DurableTypes, TypeOK
<1>3. session' = [session EXCEPT ![p] = d] /\ session'[p] = d  BY <1>2 DEF Crash
<1>4. /\ session'[q] = session[q] /\ disk'[q] = disk[q] /\ lag'[q] = lag[q]
      /\ disk'[p] = Slots(d) /\ ~lag'[p].on
      /\ frames' = frames /\ legs' = legs /\ fresh' = fresh
  BY <1>1, <1>2, <1>3 DEF Crash, InStepWithDisk
<1>5. Copies(q)' = Copies(q) /\ Copies(p)' = {d}  BY <1>3, <1>4 DEF Copies
<1>6. /\ s \in SessionInner /\ d \in SessionInner /\ s \in Copies(p) /\ session[q] \in Copies(q)
      /\ \A x \in Copies(q) : x \in SessionInner
      /\ frames \in SUBSET Frame /\ legs \in SUBSET [from : Party, leg : Leg] /\ fresh \in Nat
  BY <1>1, CopyTypes
<1>7. ASSUME NEW r \in Copies(q) PROVE Paired(p, q, d, r, frames, legs, fresh)
  <2>1. CASE lag[p].on
    <3>1. d \in Copies(p)  BY <2>1 DEF Copies
    <3> QED  BY <3>1 DEF CopiesPaired
  <2>2. CASE ~lag[p].on
    <3>1. Alike(s, d) /\ Paired(p, q, s, r, frames, legs, fresh)  BY <1>6, <2>2 DEF CopiesPaired
    <3>2. Sends(p, s, frames, frames) /\ fresh <= fresh  BY <1>6 DEF Sends
    <3> HIDE DEF s, d, q
    <3> QED  BY <1>1, <1>6, <3>1, <3>2, AlikePair
  <2> QED  BY <2>1, <2>2
<1>8. Alike(d, Restored(disk'[p]))
  <2>1. ~d.bind_apply_broken
    <3>1. Paired(p, q, d, session[q], frames, legs, fresh)  BY <1>6, <1>7
    <3> QED  BY <3>1 DEF Paired, InRound, Health
  <2>2. Slots(d).wire = Archived(d)  BY DEF Slots
  <2> HIDE DEF d
  <2> QED  BY <1>4, <1>6, <2>1, <2>2, RestoredAlike
<1>9. ~lag'[q].on => Alike(session'[q], Restored(disk'[q]))  BY <1>1, <1>4 DEF CopiesPaired
<1> HIDE DEF d
<1>10. \A y \in Party : ~lag'[y].on => Alike(session'[y], Restored(disk'[y]))
  BY <1>1, <1>3, <1>8, <1>9
<1>11. \A r \in Copies(q) : Paired(q, p, r, d, frames, legs, fresh)  BY <1>7, PairedSymmetric
<1>12. \A y \in Party : \A a \in Copies(y)', b \in Copies(Peer(y))' :
          Paired(y, Peer(y), a, b, frames', legs', fresh')
  BY <1>1, <1>4, <1>5, <1>7, <1>11
<1> QED  BY <1>10, <1>12 DEF CopiesPaired

\* The copies stay paired.
LEMMA GatedNext ==
    ASSUME DurableInv, GatedInv, [RNext]_rvars
    PROVE  GatedInv' /\ (Gated => Gated')
<1>1. DurableInv'  BY RecoveryStep
<1>2. \A p \in Party : lag'[p].gate = lag[p].gate
  <2>1. lag \in [Party -> Lags]  BY DEF DurableInv, DurableTypes
  <2>2. ASSUME NEW p \in Party, \/ lag' = lag
                                \/ PushLost(p) \/ PushBetween(p)
                                \/ lag' = [lag EXCEPT ![p] = InStepWithDisk(lag[p].gate)]
        PROVE  \A x \in Party : lag'[x].gate = lag[x].gate
    BY <2>1, <2>2 DEF PushLost, PushBetween, InStepWithDisk, Lags
  <2>3. CASE UNCHANGED rvars  BY <2>3 DEF rvars
  <2>4. CASE RNext
    BY <2>2, <2>4
    DEF RNext, Prepare, SendMessage, WithholdMessage, SendNothing, Receive, ReceiveWelcome, Approve,
        HandOut, OpenBootstrap, WithholdBootstrap, RespondToEphemeral, MovePq, Crash, PushEncrypted,
        Push, PushDurable, NoPush
  <2> QED  BY <2>3, <2>4
<1>3. Gated <=> Gated'  BY <1>2 DEF Gated
<1>4. ASSUME Gated, CopiesPaired PROVE CopiesPaired'
  <2>1. CASE UNCHANGED rvars
    BY <1>4, <2>1 DEF rvars, CopiesPaired, Copies
  <2>2. CASE RNext
    <3>1. PICK p \in Party :
           \/ \E selected \in Ids : Prepare(p, selected)
           \/ SendMessage(p) \/ WithholdMessage(p) \/ SendNothing(p)
           \/ \E f \in frames : Receive(p, f)
           \/ ReceiveWelcome(p) \/ Approve(p) \/ HandOut(p) \/ OpenBootstrap(p)
           \/ WithholdBootstrap(p) \/ RespondToEphemeral(p) \/ MovePq(p)
           \/ Crash(p)
      BY <2>2 DEF RNext
    <3>2. CASE Crash(p)  BY <1>1, <1>4, <3>2, GatedCrash
    <3>3. CASE \E t : GatedStep(p, t)  BY <1>1, <1>4, <3>3, GatedMove
    <3> QED  BY <1>4, <3>1, <3>2, <3>3, GatedMessaging, GatedReceiving, GatedOutbound, GatedSideBand
  <2> QED  BY <2>1, <2>2
<1> QED  BY <1>3, <1>4 DEF GatedInv

----------------------------------------------------------------------------
(* What the pairs say of the sessions in memory.                           *)

\* Two sessions in step, with settled staples, are a pair.
LEMMA SessionsPaired ==
    ASSUME TypeOK, InStep, CrossInStep, RoundsInStep, CandidatesHeld, NEW p \in Party,
           \A x \in Party : Settled(x, session[x], session[Peer(x)], frames)
    PROVE  Paired(p, Peer(p), session[p], session[Peer(p)], frames, legs, fresh)
<1> DEFINE q == Peer(p)
<1>1. q \in Party /\ Peer(q) = p  BY PeerType
<1>2. ASSUME NEW x \in Party
      PROVE  OneWay(x, Peer(x), session[x], session[Peer(x)], frames)
  <2>1. Abreast(x, Peer(x), session[x], session[Peer(x)], frames)
    BY DEF InStep, MirrorClose, StaplesBehind, OffersReached, LicenseIsTrue, Abreast
  <2>2. Near(x, session[x], session[Peer(x)], frames)
    BY DEF CrossInStep, CurrentOnWire, CrossNear, Near
  <2>3. Held(x, Peer(x), session[x], session[Peer(x)], frames)
    BY DEF CandidatesHeld, OffersHeld, Held
  <2> QED  BY <2>1, <2>2, <2>3 DEF OneWay
<1>3. OneWay(p, q, session[p], session[q], frames) /\ OneWay(q, p, session[q], session[p], frames)
  BY <1>1, <1>2
<1>4. InRound(session[p], session[q], fresh)  BY RoundOf
<1>5. \A l \in legs : /\ l.from = p => LegFits(session[p], session[q], l.leg, fresh)
                      /\ l.from = q => LegFits(session[q], session[p], l.leg, fresh)
  BY <1>1 DEF RoundsInStep
<1> QED  BY <1>3, <1>4, <1>5 DEF Paired

\* And two sessions that are a pair are in step.
LEMMA PairedInStep ==
    ASSUME TypeOK,
           \A p \in Party : Paired(p, Peer(p), session[p], session[Peer(p)], frames, legs, fresh)
    PROVE  InStep /\ CrossInStep /\ RoundsInStep /\ CandidatesHeld
<1>1. ASSUME NEW p \in Party
      PROVE  /\ Abreast(p, Peer(p), session[p], session[Peer(p)], frames)
             /\ Near(p, session[p], session[Peer(p)], frames)
             /\ Held(p, Peer(p), session[p], session[Peer(p)], frames)
             /\ InRound(session[p], session[Peer(p)], fresh)
             /\ \A l \in legs : l.from = p => LegFits(session[p], session[Peer(p)], l.leg, fresh)
  BY DEF Paired, OneWay
<1>2. InStep
  BY <1>1 DEF InStep, MirrorClose, StaplesBehind, OffersReached, LicenseIsTrue, Abreast
<1>3. CrossInStep  BY <1>1 DEF CrossInStep, CurrentOnWire, CrossNear, Near
<1>4. CandidatesHeld  BY <1>1 DEF CandidatesHeld, OffersHeld, Held
<1>5. RoundsInStep
  <2>1. InRound(session["initiator"], session["acceptor"], fresh)  BY <1>1 DEF Party, Peer
  <2>2. \A l \in legs : l.from \in Party  BY DEF TypeOK
  <2> QED  BY <1>1, <2>1, <2>2 DEF RoundsInStep
<1> QED  BY <1>2, <1>3, <1>4, <1>5

\* Two fresh sessions, each with its first baseline, are a pair with one copy each.
LEMMA GatedInit == Init /\ Unsaved => GatedInv
<1> SUFFICES ASSUME Init, Unsaved PROVE CopiesPaired  BY DEF GatedInv
<1>1. /\ TypeOK /\ InStep /\ CrossInStep /\ RoundsInStep /\ CandidatesHeld
  BY TypeInit, InStepInit, CrossInit, RoundInit, CredInit
<1>2. \A p \in Party : session[p].current_staple = Welcome /\ ~session[p].bind_apply_broken
  BY DEF Init, Initiate, AcceptWith, NewSession
<1>3. frames = {}  BY DEF Init
<1>4. \A p \in Party : Settled(p, session[p], session[Peer(p)], frames)
  BY <1>2, <1>3 DEF Settled, Welcome
<1>5. \A p \in Party : Paired(p, Peer(p), session[p], session[Peer(p)], frames, legs, fresh)
  BY <1>1, <1>4, SessionsPaired
<1>6. \A p \in Party : ~lag[p].on  BY DEF Unsaved, InStepWithDisk
<1>7. \A p \in Party : Copies(p) = {session[p]}  BY <1>6 DEF Copies
<1>8. ASSUME NEW p \in Party PROVE Alike(session[p], Restored(disk[p]))
  <2>1. disk[p] = Slots(session[p]) /\ Slots(session[p]).wire = Archived(session[p])
    BY DEF Unsaved, Slots
  <2>2. session[p] \in SessionInner  BY <1>1 DEF TypeOK
  <2> QED  BY <1>2, <2>1, <2>2, RestoredAlike
<1>9. \A p \in Party : Peer(p) \in Party  BY PeerType
<1> QED  BY <1>5, <1>7, <1>8, <1>9 DEF CopiesPaired

\* Gated hosts: what a session holds in step without crashes it holds with them.
LEMMA GatedInStep ==
    DurableInv /\ GatedInv /\ Gated =>
        TypeOK /\ InStep /\ CrossInStep /\ RoundsInStep /\ CandidatesHeld
<1> SUFFICES ASSUME DurableInv, CopiesPaired
             PROVE  TypeOK /\ InStep /\ CrossInStep /\ RoundsInStep /\ CandidatesHeld
  BY DEF GatedInv
<1>1. TypeOK  BY DEF DurableInv, DurableTypes
<1>2. \A p \in Party : session[p] \in Copies(p) /\ session[Peer(p)] \in Copies(Peer(p))
  BY DEF Copies
<1>3. \A p \in Party : Paired(p, Peer(p), session[p], session[Peer(p)], frames, legs, fresh)
  BY <1>2 DEF CopiesPaired
<1> QED  BY <1>1, <1>3, PairedInStep

\* The responder in a pair holds the secret of the bind that its peer owes or has sent.
LEMMA PairHolds ==
    ASSUME NEW p, NEW q, NEW d \in SessionInner, NEW r \in SessionInner, NEW F, NEW L, NEW n,
           Paired(p, q, d, r, F, L, n)
    PROVE  LET b == IF r.owed_bind # NoBind THEN r.owed_bind ELSE r.current_staple.bind
           IN  b # NoBind /\ b.pq_epoch = d.recv_pq + 1 => AwaitsBind(d) /\ HeldSecret(d) = b.secret
<1> DEFINE b == IF r.owed_bind # NoBind THEN r.owed_bind ELSE r.current_staple.bind
<1> SUFFICES ASSUME b # NoBind, b.pq_epoch = d.recv_pq + 1
             PROVE  AwaitsBind(d) /\ HeldSecret(d) = b.secret
  OBVIOUS
<1>1. InRound(d, r, n) /\ Settled(q, r, d, F)  BY DEF Paired, OneWay
<1>2. CASE r.owed_bind # NoBind
  <2>1. Closing(r, d, r.owed_bind)  BY <1>1, <1>2 DEF InRound, Round
  <2> QED  BY <1>2, <2>1 DEF Closing
<1>3. CASE r.owed_bind = NoBind
  <2>1. r.current_staple.kind = "bind"  BY <1>1, <1>3 DEF Settled
  <2>2. Outstanding(r, d)
    <3>1. ASSUME ~(d.recv_cl < r.send_cl) PROVE FALSE
      BY <1>1, <1>3, <2>1, <3>1, PairFields DEF Settled
    <3> QED  BY <2>1, <3>1 DEF Outstanding
  <2>3. Closing(r, d, r.current_staple.bind)  BY <1>1, <2>2 DEF InRound, Round
  <2> QED  BY <1>3, <2>3 DEF Closing
<1> QED  BY <1>2, <1>3

----------------------------------------------------------------------------
(* Theorems about gated hosts.                                             *)

\* Whatever a crash takes back, the memory and the disk of hosts that wait for every
\* push before they transmit stay pairs that sessions without crashes could be in.
THEOREM GatedStays == RSpec => []GatedInv
<1>1. Init /\ Unsaved => GatedInv  BY GatedInit
<1>2. DurableInv /\ GatedInv /\ [RNext]_rvars => GatedInv'  BY GatedNext
<1> QED  BY <1>1, <1>2, DurableStays, PTL DEF RSpec

\* Hosts that wait for every push before they transmit meet no commit ahead of the
\* group it is applied in, and their PQ rounds keep their responder, their secret and
\* one turn, however often and whenever they crash.
THEOREM GatedStaysSafe == RSpec => []GatedHostIsSafe
<1>1. DurableInv /\ GatedInv => GatedHostIsSafe
  <2> SUFFICES ASSUME DurableInv, GatedInv, Gated
               PROVE  NoEpochDesync /\ BindMeetsResponder /\ TurnIsOneToken /\ ResponderNeverStranded
    BY DEF GatedHostIsSafe, Gated
  <2>1. TypeOK /\ InStep /\ CrossInStep /\ RoundsInStep  BY GatedInStep
  <2> QED  BY <2>1, InStepNoDesync, RoundHasOneTurn, RoundKeepsResponder, RoundMeetsBind
<1> QED  BY <1>1, DurableStays, GatedStays, PTL

\* Their slots always reconcile and their sessions are rebuilt, rotation or not.
THEOREM GatedRestores == RSpec /\ Gated => []RestoreSucceeds
<1>1. DurableInv /\ GatedInv /\ Gated /\ [RNext]_rvars => Gated'  BY GatedNext
<1>2. DurableInv /\ GatedInv /\ Gated => CommittableCandidateHeld
  BY GatedInStep, HeldIsCommittable
<1>3. RSpec /\ Gated => []Gated  BY <1>1, DurableStays, GatedStays, PTL DEF RSpec
<1> QED  BY <1>2, <1>3, DurableStays, GatedStays, RestoresWhileHeld, PTL

\* The party a crash brings back holds the secret of the bind its peer owes or sent.
THEOREM GatedResponderHolds == RSpec /\ Gated => []RestoredResponderHolds
<1>1. DurableInv /\ GatedInv /\ Gated /\ [RNext]_rvars => Gated'  BY GatedNext
<1>2. DurableInv /\ GatedInv /\ Gated => RestoredResponderHolds
  <2> SUFFICES ASSUME DurableInv, CopiesPaired, NEW p \in Party
               PROVE  LET d == Restored(disk[p])
                          q == session[Peer(p)]
                          b == IF q.owed_bind # NoBind THEN q.owed_bind ELSE q.current_staple.bind
                      IN  b # NoBind /\ b.pq_epoch = d.recv_pq + 1 =>
                              /\ AwaitsBind(d)
                              /\ HeldSecret(d) = b.secret
    BY DEF GatedInv, RestoredResponderHolds
  <2> DEFINE d == Restored(disk[p])  q == Peer(p)  r == session[q]  s == session[p]
  <2>1. q \in Party /\ q # p  BY PeerType
  <2>2. /\ d \in SessionInner /\ r \in SessionInner /\ s \in SessionInner
        /\ s \in Copies(p) /\ r \in Copies(q)
        /\ frames \in SUBSET Frame /\ legs \in SUBSET [from : Party, leg : Leg] /\ fresh \in Nat
    BY <2>1, CopyTypes
  <2>3. Paired(p, q, d, r, frames, legs, fresh)
    <3>1. CASE lag[p].on
      <4>1. d \in Copies(p)  BY <3>1 DEF Copies
      <4> QED  BY <2>2, <4>1 DEF CopiesPaired
    <3>2. CASE ~lag[p].on
      <4>1. Alike(s, d) /\ Paired(p, q, s, r, frames, legs, fresh)
        BY <2>2, <3>2 DEF CopiesPaired
      <4>2. Sends(p, s, frames, frames) /\ fresh <= fresh  BY <2>2 DEF Sends
      <4> HIDE DEF s, d, q, r
      <4> QED  BY <2>1, <2>2, <4>1, <4>2, AlikePair
    <3> QED  BY <3>1, <3>2
  <2> HIDE DEF d, r
  <2>4. LET b == IF r.owed_bind # NoBind THEN r.owed_bind ELSE r.current_staple.bind
        IN  b # NoBind /\ b.pq_epoch = d.recv_pq + 1 => AwaitsBind(d) /\ HeldSecret(d) = b.secret
    BY <2>2, <2>3, PairHolds
  <2> QED  BY <2>4 DEF d, r
<1>3. RSpec /\ Gated => []Gated  BY <1>1, DurableStays, GatedStays, PTL DEF RSpec
<1> QED  BY <1>2, <1>3, DurableStays, GatedStays, PTL

=============================================================================
