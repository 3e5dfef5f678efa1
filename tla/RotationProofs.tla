--------------------------- MODULE RotationProofs ---------------------------
(***************************************************************************)
(* Proofs about the credentials of one owner, for every number of          *)
(* rotations, commits and re-keys and every history window of at least two *)
(* ids, for a host that starts a rotation once the last one is complete    *)
(* (Serial).  Without that the statements fail: run rotation_order.        *)
(***************************************************************************)
EXTENDS Rotation, FiniteSetTheorems, TLAPS

----------------------------------------------------------------------------
(* The inductive invariant.                                                *)

PartySequences == [history : Seq(Ids), authorized_next : SUBSET Ids, pinned : SUBSET Ids]
Offers == [epoch : Nat, id : Ids]
Legs == {"none", "kp", "kp_welcome", "upd", "commit", "peer_upd", "peer_commit"}

Owners == [client : Ids, mine : PartySequences, send_epoch : Nat, recv_epoch : Nat,
           licensed : BOOLEAN, send_leaf : Ids, recv_leaf : Ids,
           pq : BOOLEAN, send_pq_leaf : Ids, recv_pq_leaf : Ids]

Peers == [their_id : Ids, theirs : PartySequences, send_epoch : Nat, recv_epoch : Nat,
          offered : Offers, queued : Offers, send_leaf : Ids, recv_leaf : Ids,
          pq : BOOLEAN, send_pq_leaf : Ids, recv_pq_leaf : Ids]

RotationTypeOK ==
    /\ owner \in Owners
    /\ peer \in Peers
    /\ sent \subseteq [epoch : Nat, leaf : Ids, offer : Offers]
    /\ returned \subseteq [epoch : Nat, folds : Ids, seen : Nat]
    /\ round \in [n : Nat, leg : Legs, id : Ids]
    /\ canonical \subseteq Ids

\* Each mirror is at the epoch of the group it mirrors or one behind, a licence
\* proves that it is not behind, and mirrors that are not behind agree on the leaf.
EpochsInStep ==
    /\ owner.recv_epoch >= 1
    /\ owner.recv_epoch <= peer.send_epoch /\ peer.send_epoch <= owner.recv_epoch + 1
    /\ peer.recv_epoch <= owner.send_epoch /\ owner.send_epoch <= peer.recv_epoch + 1
    /\ owner.licensed => peer.recv_epoch = owner.send_epoch
    /\ peer.recv_epoch = owner.send_epoch => peer.recv_leaf = owner.send_leaf
    /\ peer.send_epoch = owner.recv_epoch => peer.send_leaf = owner.client
    /\ owner.recv_leaf = owner.client

\* A frame of the newest epoch has the leaf of that epoch; older ones do not matter.
FramesFit ==
    /\ \A f \in sent :
          /\ f.epoch <= owner.send_epoch
          /\ f.epoch = owner.send_epoch => f.leaf = owner.send_leaf
    /\ \A g \in returned :
          /\ g.epoch <= peer.send_epoch /\ g.seen <= peer.recv_epoch
          /\ g.epoch = peer.send_epoch => g.folds = peer.send_leaf

\* The last rotation is complete at both ends.
Complete == owner.send_leaf = owner.client /\ peer.recv_leaf = owner.client

\* An offer that the peer can still fold is of the owner's receive epoch, never
\* goes back, and is a rotation only when the last one is complete.
OfferFits(o) ==
    /\ o.epoch <= owner.recv_epoch
    /\ o.epoch = peer.send_epoch => o.id >= owner.client /\ (o.id # owner.client => Complete)

OffersFit ==
    /\ \A f \in sent : OfferFits(f.offer)
    /\ OfferFits(peer.offered)
    /\ OfferFits(peer.queued)
    /\ peer.queued # NoOffer => peer.queued.epoch = peer.send_epoch

\* While the peer's fold is outstanding, its id is the owner's or a rotation that
\* began with the last one complete; so the owner's hand-off never meets two.
FoldFits ==
    /\ peer.send_epoch > owner.recv_epoch =>
           /\ peer.send_leaf >= owner.client
           /\ peer.send_leaf # owner.client => Complete
    /\ owner.send_leaf = owner.client \/ owner.send_leaf = peer.recv_leaf

Increasing(h) == \A i, j \in 1..Len(h) : i < j => h[i] < h[j]

\* A history of ids in order, not longer than the window.
Ordered(seq) ==
    /\ Len(seq.history) >= 1 /\ Len(seq.history) <= HistoryWindow
    /\ Increasing(seq.history)

\* Both histories are in order and end with the id their holder goes by; the one
\* that the peer's copy of the owner's leaf presents is the last or the one before.
HistoriesFit ==
    /\ Ordered(owner.mine) /\ Current(owner.mine) = owner.client
    /\ Ordered(peer.theirs) /\ Current(peer.theirs) = peer.their_id
    /\ \/ peer.recv_leaf = peer.their_id
       \/ /\ Len(peer.theirs.history) >= 2
          /\ peer.recv_leaf = peer.theirs.history[Len(peer.theirs.history) - 1]

\* The peer's history is the newest part of what was ever canonical.
CanonicalFits ==
    /\ \A i \in 1..Len(peer.theirs.history) : peer.theirs.history[i] \in canonical
    /\ \A id \in canonical :
          \/ Contains(peer.theirs, id)
          \/ Len(peer.theirs.history) = HistoryWindow /\ id < peer.theirs.history[1]
    /\ {Founding, owner.client, peer.send_leaf, peer.send_pq_leaf, peer.recv_pq_leaf}
           \subseteq canonical

\* A PQ leg names a canonical id that is not behind the leaf it moves, and the
\* founding id is pinned for as long as a leaf or a leg presents it.
RoundFits ==
    /\ round.leg \in {"kp", "kp_welcome"} => round.id = Founding /\ Founding \in owner.mine.pinned
    /\ round.leg \in {"upd", "commit", "peer_upd", "peer_commit"} => owner.pq
    /\ owner.pq \/ round.leg = "kp_welcome" => peer.pq
    /\ round.id \in canonical /\ round.id <= owner.client
    /\ peer.send_pq_leaf <= owner.client /\ peer.recv_pq_leaf <= owner.client
    /\ round.leg = "upd" => peer.send_pq_leaf <= round.id
    /\ round.leg = "peer_commit" => peer.recv_pq_leaf <= round.id
    /\ peer.pq /\ Founding \in {peer.send_pq_leaf, peer.recv_pq_leaf} =>
           Founding \in peer.theirs.pinned

RotationInv ==
    /\ RotationTypeOK
    /\ EpochsInStep
    /\ FramesFit
    /\ OffersFit
    /\ FoldFits
    /\ PeerKnowsOwner
    /\ HistoriesFit
    /\ CanonicalFits
    /\ RoundFits

----------------------------------------------------------------------------
(* Histories.                                                              *)

\* Nothing is removed when the id is not there.
LEMMA WithoutAbsent ==
    ASSUME NEW h, NEW id, \A i \in 1..Len(h) : h[i] # id
    PROVE  Without(h, id) = h
BY DEF Without

\* A greater id extends an ordered history: the order stays, the last id becomes
\* the one before, and what is trimmed is older than everything kept.
LEMMA TrimExtends ==
    ASSUME NEW h \in Seq(Ids), NEW id \in Ids, Len(h) >= 1, Len(h) <= HistoryWindow,
           Increasing(h), h[Len(h)] < id
    PROVE  LET k == Trim(Append(h, id))
           IN  /\ k \in Seq(Ids) /\ Len(k) >= 2 /\ Len(k) <= HistoryWindow
               /\ Increasing(k)
               /\ k[Len(k)] = id /\ k[Len(k) - 1] = h[Len(h)]
               /\ \A i \in 1..Len(k) : k[i] = id \/ \E j \in 1..Len(h) : k[i] = h[j]
               /\ \A j \in 1..Len(h) :
                     \/ \E i \in 1..Len(k) : k[i] = h[j]
                     \/ Len(k) = HistoryWindow /\ h[j] < k[1]
               /\ Len(h) = HistoryWindow => Len(k) = HistoryWindow /\ h[1] < k[1]
<1> DEFINE a == Append(h, id)
           k == Trim(a)
<1>1. /\ a \in Seq(Ids) /\ Len(a) = Len(h) + 1 /\ a[Len(h) + 1] = id
      /\ \A i \in 1..Len(h) : a[i] = h[i]
  OBVIOUS
<1>2. /\ HistoryWindow \in Nat /\ HistoryWindow >= 2 /\ Len(h) \in Nat
      /\ \A x \in Ids : x \in Nat
  BY HistoryAssumption, RotationAssumption DEF Ids
<1>3. \A i \in 1..Len(h) : h[i] \in Nat /\ h[i] < id
  <2> TAKE i \in 1..Len(h)
  <2>1. h[i] \in Nat /\ h[Len(h)] \in Nat /\ id \in Nat
    <3>1. h[i] \in Ids /\ h[Len(h)] \in Ids
      BY <1>2
    <3> QED BY <3>1, <1>2
  <2>2. CASE i = Len(h)
    BY <2>1, <2>2
  <2>3. CASE i < Len(h)
    <3>1. h[i] < h[Len(h)]
      BY <2>3, <1>2 DEF Increasing
    <3> QED BY <3>1, <2>1
  <2> QED BY <2>2, <2>3, <1>2
<1>4. Increasing(a)
  BY <1>1, <1>2, <1>3 DEF Increasing
<1>5. CASE Len(h) < HistoryWindow
  <2>1. k = a
    BY <1>1, <1>2, <1>5 DEF Trim
  <2>2. \A j \in 1..Len(h) : \E i \in 1..Len(a) : a[i] = h[j]
    BY <1>1, <1>2
  <2> HIDE DEF a, k
  <2>3. \A i \in 1..Len(a) : a[i] = id \/ \E j \in 1..Len(h) : a[i] = h[j]
    BY <1>1, <1>2, SMTT(30)
  <2>4. a[Len(a) - 1] = h[Len(h)] /\ a[Len(a)] = id /\ Len(a) >= 2 /\ Len(a) <= HistoryWindow
    BY <1>1, <1>2, <1>5, SMTT(30)
  <2> QED BY <2>1, <2>2, <2>3, <2>4, <1>1, <1>4, <1>5, <1>2 DEF k, a
<1>6. CASE Len(h) = HistoryWindow
  <2>1. k = SubSeq(a, 2, Len(a))
    BY <1>1, <1>2, <1>6 DEF Trim
  <2>2. /\ k \in Seq(Ids) /\ Len(k) = Len(h)
        /\ \A i \in 1..Len(h) : k[i] = a[i + 1]
    <3> HIDE DEF a, k
    <3>1. k \in Seq(Ids) /\ Len(k) = Len(h)
      BY <2>1, <1>1, <1>2
    <3>2. ASSUME NEW i \in 1..Len(h) PROVE k[i] = a[i + 1]
      <4>1. SubSeq(a, 2, Len(a))[i] = a[2 + i - 1]
        BY <1>1, <1>2
      <4>2. 2 + i - 1 = i + 1
        BY <1>2
      <4> QED BY <4>1, <4>2, <2>1
    <3> QED BY <3>1, <3>2
  <2> HIDE DEF a, k
  <2>3. Increasing(k)
    <3> SUFFICES ASSUME NEW i \in 1..Len(k), NEW j \in 1..Len(k), i < j PROVE k[i] < k[j]
      BY DEF Increasing
    <3>1. i + 1 \in 1..Len(a) /\ j + 1 \in 1..Len(a) /\ i + 1 < j + 1
      BY <2>2, <1>1, <1>2
    <3>2. a[i + 1] < a[j + 1]
      BY <3>1, <1>4 DEF Increasing
    <3> QED BY <3>2, <2>2
  <2>4. k[Len(k)] = id /\ k[Len(k) - 1] = h[Len(h)]
    BY <2>2, <1>1, <1>2, <1>6
  <2>5. h[1] < k[1]
    <3>1. k[1] = a[2] /\ a[1] = h[1]
      BY <2>2, <1>1, <1>2, <1>6
    <3>2. a[1] < a[2]
      BY <1>1, <1>2, <1>4, <1>6 DEF Increasing
    <3> QED BY <3>1, <3>2
  <2>6. \A i \in 1..Len(k) : k[i] = id \/ \E j \in 1..Len(h) : k[i] = h[j]
    <3> TAKE i \in 1..Len(k)
    <3>1. CASE i = Len(k)
      BY <3>1, <2>4
    <3>2. CASE i < Len(k)
      <4>1. i + 1 \in 1..Len(h) /\ i \in 1..Len(h)
        BY <3>2, <2>2, <1>2
      <4>2. k[i] = h[i + 1]
        BY <4>1, <2>2, <1>1
      <4> QED BY <4>1, <4>2
    <3> QED BY <3>1, <3>2, <2>2, <1>2
  <2>7. ASSUME NEW j \in 1..Len(h)
        PROVE  (\E i \in 1..Len(k) : k[i] = h[j]) \/ h[j] < k[1]
    <3>1. CASE j = 1
      BY <3>1, <2>5
    <3>2. CASE j > 1
      <4>1. j - 1 \in 1..Len(h) /\ (j - 1) + 1 = j
        BY <3>2, <1>2
      <4>2. k[j - 1] = a[(j - 1) + 1]
        BY <4>1, <2>2
      <4>3. k[j - 1] = h[j] /\ j - 1 \in 1..Len(k)
        BY <4>1, <4>2, <2>2, <1>1
      <4> QED BY <4>3
    <3> QED BY <3>1, <3>2, <1>2
  <2> QED BY <2>2, <2>3, <2>4, <2>5, <2>6, <2>7, <1>6, <1>2 DEF k, a
<1> QED BY <1>5, <1>6, <1>2

\* What commit does to an ordered history and an id that is not older than its
\* newest.
LEMMA CommitExtends ==
    ASSUME NEW seq \in PartySequences, Ordered(seq), NEW id \in Ids, id >= Current(seq)
    PROVE  /\ CommitId(seq, id) \in PartySequences
           /\ Ordered(CommitId(seq, id)) /\ Current(CommitId(seq, id)) = id
           /\ CommitId(seq, id).pinned = seq.pinned
           /\ id = Current(seq) => CommitId(seq, id) = seq
           /\ id # Current(seq) =>
                 CommitId(seq, id).history = Trim(Append(seq.history, id))
<1> DEFINE h == seq.history
<1>1. /\ h \in Seq(Ids) /\ Len(h) \in Nat /\ Len(h) >= 1 /\ Len(h) <= HistoryWindow
      /\ Increasing(h) /\ (\A x \in Ids : x \in Nat) /\ h # << >>
  BY RotationAssumption DEF PartySequences, Ordered, Ids
<1>2. CASE id = Current(seq)
  BY <1>1, <1>2 DEF CommitId
<1>3. CASE id # Current(seq)
  <2>1. h[Len(h)] \in Nat /\ id \in Nat /\ h[Len(h)] < id
    <3>1. h[Len(h)] \in Ids
      BY <1>1
    <3> QED BY <3>1, <1>1, <1>3 DEF Current
  <2>2. \A i \in 1..Len(h) : h[i] # id
    <3> TAKE i \in 1..Len(h)
    <3>1. h[i] \in Nat
      <4>1. h[i] \in Ids
        BY <1>1
      <4> QED BY <4>1, <1>1
    <3>2. i < Len(h) => h[i] < h[Len(h)]
      BY <1>1 DEF Increasing
    <3> QED BY <3>1, <3>2, <2>1, <1>1
  <2>3. Without(h, id) = h
    BY <2>2, WithoutAbsent
  <2> DEFINE k == Trim(Append(h, id))
  <2>4. CommitId(seq, id) = [seq EXCEPT !.history = k, !.authorized_next = {}]
    BY <1>1, <1>3, <2>3 DEF CommitId
  <2>5. /\ k \in Seq(Ids) /\ Len(k) >= 2 /\ Len(k) <= HistoryWindow
        /\ Increasing(k) /\ k[Len(k)] = id
    BY <1>1, <2>1, TrimExtends
  <2> HIDE DEF k
  <2>6. CommitId(seq, id).history = k /\ CommitId(seq, id).pinned = seq.pinned
    BY <2>4 DEF PartySequences
  <2>7. CommitId(seq, id) \in PartySequences
    BY <2>4, <2>5 DEF PartySequences
  <2> QED BY <1>3, <2>5, <2>6, <2>7, <1>1 DEF Ordered, Current, k
<1> QED BY <1>2, <1>3

\* In an ordered history a smaller id has the smaller position.
LEMMA PositionsOrdered ==
    ASSUME NEW seq \in PartySequences, Ordered(seq), NEW a \in Nat, NEW b \in Nat, a < b,
           Contains(seq, a), Contains(seq, b)
    PROVE  Position(seq, a) < Position(seq, b)
<1> DEFINE h == seq.history
<1>1. h \in Seq(Ids) /\ Len(h) \in Nat /\ Increasing(h) /\ Ids \subseteq Nat
  BY RotationAssumption DEF PartySequences, Ordered, Ids
<1>2. /\ Position(seq, a) \in 1..Len(h) /\ h[Position(seq, a)] = a
      /\ Position(seq, b) \in 1..Len(h) /\ h[Position(seq, b)] = b
  BY DEF Position, Contains
<1> HIDE DEF h
<1>3. ASSUME NEW i \in 1..Len(h), NEW j \in 1..Len(h), h[i] = a, h[j] = b PROVE i < j
  <2> SUFFICES ASSUME ~(i < j) PROVE FALSE
    OBVIOUS
  <2>1. i = j \/ j < i
    BY <1>1
  <2>2. j < i => h[j] < h[i]
    BY <1>1 DEF Increasing
  <2> QED BY <2>1, <2>2, <1>3
<1> QED BY <1>2, <1>3

----------------------------------------------------------------------------
(* Facts of a state.                                                       *)

\* Epochs and ids are numbers.
LEMMA Numbers ==
    ASSUME RotationTypeOK
    PROVE  /\ Ids \subseteq Nat /\ Founding \in Ids
           /\ owner.send_epoch \in Nat /\ owner.recv_epoch \in Nat
           /\ peer.send_epoch \in Nat /\ peer.recv_epoch \in Nat
           /\ owner.client \in Nat /\ owner.send_leaf \in Nat /\ owner.recv_leaf \in Nat
           /\ peer.their_id \in Nat /\ peer.send_leaf \in Nat /\ peer.recv_leaf \in Nat
           /\ peer.send_pq_leaf \in Nat /\ peer.recv_pq_leaf \in Nat /\ round.id \in Nat
BY RotationAssumption DEF RotationTypeOK, Owners, Peers, Ids, Founding

LEMMA InitRotationInv == Init => RotationInv
<1> SUFFICES ASSUME Init PROVE RotationInv
  OBVIOUS
<1>1. 0 \in Ids /\ MaxId \in Nat /\ HistoryWindow \in Nat /\ HistoryWindow >= 2
  BY RotationAssumption, HistoryAssumption DEF Ids
<1> DEFINE s == Seeded(Founding)
<1>2. s = [history |-> <<0>>, authorized_next |-> {}, pinned |-> {}]
  <2>1. Without(<< >>, 0) = << >>
    BY WithoutAbsent
  <2>2. Trim(Append(<< >>, 0)) = <<0>>
    BY <1>1 DEF Trim
  <2> QED BY <2>1, <2>2 DEF Seeded, CommitId, Founding
<1>3. s \in PartySequences /\ Ordered(s) /\ Current(s) = 0 /\ Contains(s, 0) /\ s.history[1] = 0
      /\ Len(s.history) = 1
  BY <1>1, <1>2 DEF PartySequences, Ordered, Current, Contains, Increasing
<1> HIDE DEF s
<1>4. RotationTypeOK
  BY <1>1, <1>3 DEF Init, RotationTypeOK, Owners, Peers, Offers, Legs, NoOffer, Founding, s
<1>5. EpochsInStep /\ FramesFit /\ OffersFit /\ FoldFits /\ PeerKnowsOwner
  BY <1>1 DEF Init, EpochsInStep, FramesFit, OffersFit, OfferFits, FoldFits, PeerKnowsOwner,
              NoOffer, Founding
<1>6. owner.mine = s /\ peer.theirs = s /\ owner.client = 0 /\ peer.their_id = 0
      /\ peer.recv_leaf = 0 /\ canonical = {0} /\ peer.send_leaf = 0
      /\ peer.send_pq_leaf = 0 /\ peer.recv_pq_leaf = 0 /\ ~owner.pq /\ ~peer.pq
      /\ round.leg = "none" /\ round.id = 0
  BY DEF Init, Founding, s
<1>7. HistoriesFit /\ CanonicalFits
  BY <1>3, <1>6 DEF HistoriesFit, CanonicalFits, Founding
<1>8. RoundFits
  BY <1>6 DEF RoundFits
<1> QED BY <1>4, <1>5, <1>7, <1>8 DEF RotationInv

----------------------------------------------------------------------------
(* The classical ratchet.                                                  *)

\* The owner sends: a commit moves its leaf to the id it goes by, and a new id is
\* offered only when the last rotation is complete.
LEMMA OwnerSendKeeps ==
    ASSUME Serial, RotationInv, NEW commits \in BOOLEAN, NEW selected \in Ids,
           OwnerSend(commits, selected)
    PROVE  RotationInv'
<1> DEFINE o == IF commits THEN OwnerCommit(owner) ELSE owner
           frame == [epoch |-> o.send_epoch, leaf |-> o.send_leaf,
                     offer |-> [epoch |-> o.recv_epoch, id |-> selected]]
<1> USE DEF RotationInv
<1>1. UNCHANGED <<peer, round, canonical>>
  BY DEF OwnerSend
<1>2. /\ owner' = OwnerPropose(o, selected)
      /\ sent' \subseteq sent \cup {frame} /\ returned' \subseteq returned
  BY DEF OwnerSend, Undelivered, Unreturned
<1>3. /\ o.client = owner.client /\ o.recv_epoch = owner.recv_epoch
      /\ o.recv_leaf = owner.recv_leaf /\ o.mine = owner.mine /\ o.pq = owner.pq
      /\ ~commits => o = owner
      /\ commits => /\ owner.licensed /\ ~o.licensed /\ o.send_epoch = owner.send_epoch + 1
                    /\ o.send_leaf = owner.client
  BY DEF OwnerSend, OwnerCommit, Handoff, RotationTypeOK, Owners
<1>4. o \in Owners
  <2>1. owner \in Owners
    BY DEF RotationTypeOK
  <2>2. owner.send_epoch + 1 \in Nat /\ owner.client \in Ids /\ FALSE \in BOOLEAN
    BY <2>1 DEF Owners
  <2>3. OwnerCommit(owner) \in Owners
    BY <2>1, <2>2 DEF OwnerCommit, Handoff, Owners
  <2> QED BY <2>1, <2>3
<1> HIDE DEF o
<1>5. /\ owner'.client = o.client /\ owner'.recv_epoch = o.recv_epoch
      /\ owner'.send_epoch = o.send_epoch /\ owner'.licensed = o.licensed
      /\ owner'.send_leaf = o.send_leaf /\ owner'.recv_leaf = o.recv_leaf /\ owner'.pq = o.pq
      /\ owner'.mine \in PartySequences /\ owner'.mine.history = o.mine.history
      /\ owner'.mine.pinned = o.mine.pinned
      /\ owner' \in Owners
  <2>1. CASE selected = o.client
    BY <2>1, <1>2, <1>4 DEF OwnerPropose, Owners
  <2>2. CASE selected # o.client
    <3>1. o.mine \in PartySequences /\ Authorize(o.mine, selected) \in PartySequences
          /\ Authorize(o.mine, selected).history = o.mine.history
          /\ Authorize(o.mine, selected).pinned = o.mine.pinned
      BY <1>4 DEF Authorize, PartySequences, Owners
    <3>2. owner' = [o EXCEPT !.mine = Authorize(o.mine, selected)]
      BY <2>2, <1>2 DEF OwnerPropose
    <3> HIDE DEF PartySequences
    <3> QED BY <3>1, <3>2, <1>4 DEF Owners
  <2> QED BY <2>1, <2>2
<1>6. RotationTypeOK'
  <2>1. frame \in [epoch : Nat, leaf : Ids, offer : Offers]
    BY <1>4 DEF Offers, Owners
  <2> QED BY <1>1, <1>2, <1>5, <2>1 DEF RotationTypeOK
<1>7. EpochsInStep'
  BY <1>1, <1>3, <1>5, Numbers DEF EpochsInStep
<1>8. FramesFit'
  <2>1. \A g \in returned' : g \in returned
    BY <1>2
  <2>2. ASSUME NEW f \in sent'
        PROVE  f.epoch <= owner'.send_epoch /\ (f.epoch = owner'.send_epoch => f.leaf = owner'.send_leaf)
    <3>1. CASE f = frame
      BY <3>1, <1>5, <1>4 DEF Owners
    <3>2. CASE f \in sent
      <4>1. /\ f.epoch \in Nat /\ f.epoch <= owner.send_epoch
            /\ f.epoch = owner.send_epoch => f.leaf = owner.send_leaf
        BY <3>2 DEF RotationTypeOK, FramesFit
      <4> QED BY <4>1, <1>3, <1>5, Numbers
    <3> QED BY <3>1, <3>2, <1>2
  <2> QED BY <2>1, <2>2, <1>1 DEF FramesFit
<1>9. Complete => Complete'
  BY <1>1, <1>3, <1>5 DEF Complete
<1>10. ASSUME NEW x, OfferFits(x) PROVE OfferFits(x)'
  BY <1>1, <1>3, <1>5, <1>9, <1>10 DEF OfferFits
<1>11. ASSUME NEW x, x = frame.offer PROVE OfferFits(x)'
  <2>1. selected # owner.client => owner.licensed /\ owner.send_leaf = owner.client
    BY DEF OwnerSend
  <2>2. selected # owner.client => Complete
    BY <2>1 DEF EpochsInStep, Complete
  <2>3. selected >= owner.client /\ x.id = selected /\ x.epoch = owner.recv_epoch
    BY <1>3, <1>11 DEF OwnerSend
  <2> HIDE DEF frame
  <2> QED BY <2>2, <2>3, <1>1, <1>3, <1>5, <1>9, Numbers DEF OfferFits
<1>12. OffersFit'
  <2>1. ASSUME NEW f \in sent' PROVE OfferFits(f.offer)'
    <3>1. CASE f = frame
      BY <3>1, <1>11
    <3>2. CASE f \in sent
      BY <3>2, <1>10 DEF OffersFit
    <3> QED BY <3>1, <3>2, <1>2
  <2>2. OfferFits(peer.offered)' /\ OfferFits(peer.queued)'
    BY <1>10, <1>1 DEF OffersFit
  <2> QED BY <2>1, <2>2, <1>1 DEF OffersFit
<1>13. FoldFits'
  BY <1>1, <1>3, <1>5, <1>9, Numbers DEF FoldFits
<1>14. PeerKnowsOwner'
  BY <1>1, <1>3, <1>5 DEF PeerKnowsOwner
<1>15. HistoriesFit'
  BY <1>1, <1>3, <1>5 DEF HistoriesFit, Ordered, Current
<1>16. CanonicalFits'
  BY <1>1, <1>3, <1>5 DEF CanonicalFits, Contains
<1>17. RoundFits'
  BY <1>1, <1>3, <1>5 DEF RoundFits
<1> QED BY <1>6, <1>7, <1>8, <1>12, <1>13, <1>14, <1>15, <1>16, <1>17

\* The hand-off that the peer applies is the id it knows the owner by, so its
\* history does not move.
LEMMA HandoffIsKnown ==
    ASSUME RotationInv, NEW f \in sent, Due(f), f.leaf # peer.recv_leaf
    PROVE  /\ f.leaf = owner.send_leaf /\ owner.send_leaf = owner.client
           /\ peer.their_id = owner.client /\ Current(peer.theirs) = owner.client
           /\ CommitId(peer.theirs, f.leaf) = peer.theirs
<1> USE DEF RotationInv
<1>1. f.epoch \in Nat /\ f.epoch = owner.send_epoch /\ f.leaf = owner.send_leaf
  BY Numbers DEF Due, EpochsInStep, FramesFit, RotationTypeOK
<1>2. owner.send_leaf = owner.client /\ ~Complete
  BY <1>1 DEF FoldFits, Complete
<1>3. peer.their_id = owner.client
  BY <1>2, Numbers DEF FoldFits, PeerKnowsOwner
<1>4. Current(peer.theirs) = owner.client
  BY <1>3 DEF HistoriesFit
<1>5. CommitId(peer.theirs, owner.client) = peer.theirs
  BY <1>4, Numbers, CommitExtends DEF HistoriesFit, RotationTypeOK, Owners, Peers
<1> QED BY <1>1, <1>2, <1>3, <1>4, <1>5

\* The peer receives: its copy of the owner's leaf follows, and what it knows of the
\* owner's sequence stays as it is.
LEMMA PeerReceiveKeeps ==
    ASSUME RotationInv, NEW f \in sent, PeerReceive(f)
    PROVE  RotationInv'
<1> USE DEF RotationInv
<1> DEFINE moved == Due(f) /\ f.leaf # peer.recv_leaf
<1>1. UNCHANGED <<owner, returned, round, canonical>> /\ sent' \subseteq sent
  BY DEF PeerReceive, Undelivered
<1>2. peer \in Peers /\ f \in [epoch : Nat, leaf : Ids, offer : Offers]
  BY DEF RotationTypeOK
<1>3. moved => /\ f.leaf = owner.client /\ owner.send_leaf = owner.client
               /\ peer.their_id = f.leaf /\ CommitId(peer.theirs, f.leaf) = peer.theirs
  BY HandoffIsKnown
<1>4. peer' = [peer EXCEPT
               !.recv_epoch = IF Due(f) THEN @ + 1 ELSE @,
               !.recv_leaf = IF moved THEN f.leaf ELSE @,
               !.theirs = IF moved THEN CommitId(@, f.leaf) ELSE @,
               !.their_id = IF moved THEN f.leaf ELSE @,
               !.offered = f.offer]
  BY DEF PeerReceive
<1> HIDE DEF moved
<1>5. peer' = [peer EXCEPT
               !.recv_epoch = IF Due(f) THEN peer.recv_epoch + 1 ELSE peer.recv_epoch,
               !.recv_leaf = IF moved THEN f.leaf ELSE peer.recv_leaf,
               !.offered = f.offer]
  BY <1>2, <1>3, <1>4 DEF Peers
<1>6. /\ peer'.their_id = peer.their_id /\ peer'.theirs = peer.theirs
      /\ peer'.send_epoch = peer.send_epoch /\ peer'.send_leaf = peer.send_leaf
      /\ peer'.queued = peer.queued /\ peer'.offered = f.offer /\ peer'.pq = peer.pq
      /\ peer'.send_pq_leaf = peer.send_pq_leaf /\ peer'.recv_pq_leaf = peer.recv_pq_leaf
      /\ peer'.recv_epoch = IF Due(f) THEN peer.recv_epoch + 1 ELSE peer.recv_epoch
      /\ peer'.recv_leaf = IF moved THEN f.leaf ELSE peer.recv_leaf
  BY <1>2, <1>5 DEF Peers
<1>7. RotationTypeOK'
  <2>1. /\ (IF Due(f) THEN peer.recv_epoch + 1 ELSE peer.recv_epoch) \in Nat
        /\ (IF moved THEN f.leaf ELSE peer.recv_leaf) \in Ids
        /\ f.offer \in Offers
    BY <1>2 DEF Peers
  <2>2. peer' \in Peers
    BY <1>2, <1>5, <2>1 DEF Peers
  <2> QED BY <1>1, <2>2 DEF RotationTypeOK
<1>8. Due(f) => /\ owner.send_epoch = peer.recv_epoch + 1 /\ f.leaf = owner.send_leaf
                /\ peer'.recv_leaf = owner.send_leaf
  BY <1>2, <1>6, Numbers DEF Due, moved, EpochsInStep, FramesFit
<1>9. EpochsInStep'
  BY <1>1, <1>6, <1>8, Numbers DEF EpochsInStep, moved
<1>10. FramesFit'
  <2>1. \A g \in returned : g.seen \in Nat
    BY DEF RotationTypeOK
  <2>2. ASSUME NEW g \in returned'
        PROVE  /\ g.epoch <= peer'.send_epoch /\ g.seen <= peer'.recv_epoch
               /\ g.epoch = peer'.send_epoch => g.folds = peer'.send_leaf
    BY <2>1, <1>1, <1>6, Numbers DEF FramesFit
  <2>3. \A x \in sent' : /\ x.epoch <= owner'.send_epoch
                         /\ x.epoch = owner'.send_epoch => x.leaf = owner'.send_leaf
    BY <1>1 DEF FramesFit
  <2> QED BY <2>2, <2>3 DEF FramesFit
<1>11. Complete => Complete'
  BY <1>1, <1>3, <1>6 DEF Complete
<1>12. ASSUME NEW x, OfferFits(x) PROVE OfferFits(x)'
  BY <1>1, <1>6, <1>11, <1>12 DEF OfferFits
<1>13. OffersFit'
  <2>1. ASSUME NEW x \in sent' PROVE OfferFits(x.offer)'
    BY <1>1, <1>12 DEF OffersFit
  <2>2. OfferFits(peer.offered)' /\ OfferFits(peer.queued)'
    BY <1>12, <1>6 DEF OffersFit, OfferFits, Complete
  <2> QED BY <2>1, <2>2, <1>6 DEF OffersFit
<1>14. FoldFits'
  BY <1>1, <1>3, <1>6, <1>11 DEF FoldFits
<1>15. PeerKnowsOwner'
  BY <1>1, <1>6 DEF PeerKnowsOwner
<1>16. HistoriesFit'
  BY <1>1, <1>3, <1>6 DEF HistoriesFit
<1>17. CanonicalFits'
  BY <1>1, <1>6 DEF CanonicalFits, Contains
<1>18. RoundFits'
  BY <1>1, <1>6 DEF RoundFits
<1> QED BY <1>7, <1>9, <1>10, <1>13, <1>14, <1>15, <1>16, <1>17, <1>18

\* Approving moves the offer and authorizes its id; no history changes.
LEMMA PeerApproveKeeps ==
    ASSUME RotationInv, PeerApprove
    PROVE  RotationInv'
<1> USE DEF RotationInv
<1>1. UNCHANGED <<owner, sent, returned, round, canonical>>
  BY DEF PeerApprove
<1>2. peer \in Peers /\ peer.theirs \in PartySequences /\ peer.offered \in Offers
  BY DEF RotationTypeOK, Peers
<1> DEFINE t == Authorize(peer.theirs, peer.offered.id)
<1>3. /\ t \in PartySequences /\ t.history = peer.theirs.history /\ t.pinned = peer.theirs.pinned
  BY <1>2 DEF Authorize, PartySequences, Offers
<1>4. peer' = [peer EXCEPT !.theirs = t, !.queued = peer.offered, !.offered = NoOffer]
  BY DEF PeerApprove
<1> HIDE DEF t
<1>5. NoOffer \in Offers
  BY Numbers DEF NoOffer, Offers, Founding
<1>6. /\ peer'.their_id = peer.their_id /\ peer'.theirs = t
      /\ peer'.send_epoch = peer.send_epoch /\ peer'.send_leaf = peer.send_leaf
      /\ peer'.recv_epoch = peer.recv_epoch /\ peer'.recv_leaf = peer.recv_leaf
      /\ peer'.queued = peer.offered /\ peer'.offered = NoOffer /\ peer'.pq = peer.pq
      /\ peer'.send_pq_leaf = peer.send_pq_leaf /\ peer'.recv_pq_leaf = peer.recv_pq_leaf
      /\ peer' \in Peers
  BY <1>2, <1>3, <1>4, <1>5 DEF Peers
<1>7. RotationTypeOK'
  BY <1>1, <1>6 DEF RotationTypeOK
<1>8. EpochsInStep' /\ FramesFit' /\ FoldFits' /\ PeerKnowsOwner'
  BY <1>1, <1>6 DEF EpochsInStep, FramesFit, FoldFits, PeerKnowsOwner, Complete
<1>9. ASSUME NEW x, OfferFits(x) PROVE OfferFits(x)'
  BY <1>1, <1>6, <1>9 DEF OfferFits, Complete
<1>10. OfferFits(peer.offered)'
  BY <1>1, <1>6, Numbers DEF OfferFits, NoOffer, EpochsInStep
<1>11. OfferFits(peer.queued)' /\ peer'.queued.epoch = peer'.send_epoch
  BY <1>6, <1>9 DEF OffersFit, PeerApprove, OfferFits, Complete
<1>12. OffersFit'
  BY <1>1, <1>9, <1>10, <1>11 DEF OffersFit
<1>13. HistoriesFit' /\ CanonicalFits' /\ RoundFits'
  BY <1>1, <1>3, <1>6 DEF HistoriesFit, CanonicalFits, RoundFits, Ordered, Current, Contains
<1> QED BY <1>7, <1>8, <1>12, <1>13

\* The fold: the owner is not behind, so the id is its own or a rotation that began
\* with the last one complete, and the history grows by it at the end.
LEMMA PeerFoldKeeps ==
    ASSUME RotationInv, PeerFold
    PROVE  RotationInv'
<1> USE DEF RotationInv
<1> DEFINE q == peer.queued.id
           t == CommitId(peer.theirs, q)
<1>1. /\ UNCHANGED <<owner, round>> /\ sent' \subseteq sent
      /\ returned' = returned \cup {ReturnFrame(peer')} /\ canonical' = canonical \cup {q}
      /\ peer' = Fold(peer) /\ peer.queued # NoOffer
  BY DEF PeerFold, Undelivered
<1>2. peer \in Peers /\ peer.theirs \in PartySequences /\ q \in Ids /\ q \in Nat
  BY Numbers DEF RotationTypeOK, Peers, Offers
<1>3. /\ peer.queued.epoch = peer.send_epoch /\ peer.send_epoch = owner.recv_epoch
      /\ q >= owner.client /\ (q # owner.client => Complete)
  BY <1>1, Numbers DEF OffersFit, OfferFits, EpochsInStep
<1>4. peer.their_id = owner.client /\ Current(peer.theirs) = owner.client /\ Ordered(peer.theirs)
      /\ peer.send_leaf = owner.client
  BY <1>3, Numbers DEF PeerKnowsOwner, HistoriesFit, EpochsInStep
<1>5. /\ t \in PartySequences /\ Ordered(t) /\ Current(t) = q /\ t.pinned = peer.theirs.pinned
      /\ q = owner.client => t = peer.theirs
      /\ q # owner.client => t.history = Trim(Append(peer.theirs.history, q))
  BY <1>2, <1>3, <1>4, CommitExtends
<1>6. peer' = [peer EXCEPT !.send_epoch = @ + 1, !.send_leaf = q, !.theirs = t, !.their_id = q,
                           !.queued = NoOffer, !.offered = NoOffer]
  BY <1>1, <1>2, <1>4, <1>5 DEF Fold, Peers
<1> HIDE DEF t, q
<1>7. NoOffer \in Offers /\ peer.send_epoch + 1 \in Nat
  BY Numbers DEF NoOffer, Offers, Founding
<1>8. /\ peer'.their_id = q /\ peer'.theirs = t
      /\ peer'.send_epoch = peer.send_epoch + 1 /\ peer'.send_leaf = q
      /\ peer'.recv_epoch = peer.recv_epoch /\ peer'.recv_leaf = peer.recv_leaf
      /\ peer'.queued = NoOffer /\ peer'.offered = NoOffer /\ peer'.pq = peer.pq
      /\ peer'.send_pq_leaf = peer.send_pq_leaf /\ peer'.recv_pq_leaf = peer.recv_pq_leaf
      /\ peer' \in Peers
  BY <1>2, <1>5, <1>6, <1>7 DEF Peers
<1>9. RotationTypeOK'
  <2>1. ReturnFrame(peer') \in [epoch : Nat, folds : Ids, seen : Nat]
    BY <1>8 DEF ReturnFrame, Peers
  <2> QED BY <2>1, <1>1, <1>2, <1>8 DEF RotationTypeOK
<1>10. EpochsInStep'
  BY <1>1, <1>3, <1>8, Numbers DEF EpochsInStep
<1>11. FramesFit'
  <2>1. ASSUME NEW g \in returned'
        PROVE  /\ g.epoch <= peer'.send_epoch /\ g.seen <= peer'.recv_epoch
               /\ g.epoch = peer'.send_epoch => g.folds = peer'.send_leaf
    <3>1. CASE g \in returned
      <4>1. g.epoch \in Nat /\ g.epoch <= peer.send_epoch /\ g.seen <= peer.recv_epoch
        BY <3>1 DEF FramesFit, RotationTypeOK
      <4> QED BY <4>1, <1>8, Numbers
    <3>2. CASE g = ReturnFrame(peer')
      BY <3>2, <1>8, Numbers DEF ReturnFrame
    <3> QED BY <3>1, <3>2, <1>1
  <2> QED BY <2>1, <1>1 DEF FramesFit
<1>12. OffersFit'
  <2>1. ASSUME NEW x, x.epoch \in Nat, x.epoch <= owner.recv_epoch PROVE OfferFits(x)'
    BY <2>1, <1>1, <1>3, <1>8, Numbers DEF OfferFits
  <2>2. NoOffer.epoch = 0 /\ owner.recv_epoch >= 1
    BY DEF NoOffer, EpochsInStep
  <2>3. OfferFits(peer.offered)' /\ OfferFits(peer.queued)'
    BY <2>2, <1>1, <1>3, <1>8, Numbers DEF OfferFits
  <2>4. ASSUME NEW f \in sent' PROVE OfferFits(f.offer)'
    BY <2>1, <1>1 DEF OffersFit, OfferFits, RotationTypeOK, Offers
  <2> QED BY <2>3, <2>4, <1>8 DEF OffersFit
<1>13. FoldFits'
  BY <1>1, <1>3, <1>8 DEF FoldFits, Complete
<1>14. PeerKnowsOwner'
  BY <1>1, <1>3, <1>8, Numbers DEF PeerKnowsOwner
<1>15. CASE q = owner.client
  <2>1. HistoriesFit'
    BY <1>15, <1>1, <1>4, <1>5, <1>8 DEF HistoriesFit
  <2>2. canonical' = canonical
    BY <1>1, <1>15 DEF CanonicalFits
  <2>3. CanonicalFits'
    BY <2>2, <1>15, <1>1, <1>5, <1>8 DEF CanonicalFits, Contains
  <2>4. RoundFits'
    BY <2>2, <1>15, <1>1, <1>5, <1>8 DEF RoundFits
  <2> QED BY <2>1, <2>3, <2>4, <1>9, <1>10, <1>11, <1>12, <1>13, <1>14
<1>16. CASE q # owner.client
  <2> DEFINE h == peer.theirs.history
             k == Trim(Append(h, q))
  <2>1. h \in Seq(Ids) /\ Len(h) >= 1 /\ Len(h) <= HistoryWindow /\ Increasing(h) /\ h[Len(h)] < q
    BY <1>2, <1>3, <1>4, <1>16, Numbers DEF PartySequences, Ordered, Current
  <2>2. /\ Len(k) >= 2 /\ k[Len(k) - 1] = h[Len(h)] /\ k[Len(k)] = q
        /\ \A i \in 1..Len(k) : k[i] = q \/ \E j \in 1..Len(h) : k[i] = h[j]
        /\ \A j \in 1..Len(h) :
              (\E i \in 1..Len(k) : k[i] = h[j]) \/ (Len(k) = HistoryWindow /\ h[j] < k[1])
        /\ Len(h) = HistoryWindow => Len(k) = HistoryWindow /\ h[1] < k[1]
    BY <2>1, <1>2, TrimExtends
  <2>3. t.history = k /\ k \in Seq(Ids) /\ Len(k) \in Nat
    BY <1>5, <1>16 DEF PartySequences
  <2> HIDE DEF k
  <2>4. HistoriesFit'
    <3>1. peer.recv_leaf = h[Len(h)]
      BY <1>3, <1>4, <1>16 DEF Complete, Current
    <3> QED BY <3>1, <2>2, <2>3, <1>1, <1>5, <1>8, SMTT(30) DEF HistoriesFit
  <2>5. \A i \in 1..Len(k) : k[i] \in canonical'
    BY <2>2, <1>1 DEF CanonicalFits
  <2>6. ASSUME NEW id \in canonical'
        PROVE  Contains(t, id) \/ (Len(k) = HistoryWindow /\ id < k[1])
    <3>1. CASE id = q
      BY <3>1, <2>2, <2>3, SMTT(30) DEF Contains
    <3>2. CASE id \in canonical /\ Contains(peer.theirs, id)
      BY <3>2, <2>2, <2>3 DEF Contains
    <3>3. CASE id \in canonical /\ Len(h) = HistoryWindow /\ id < h[1]
      <4>1. id \in Nat /\ h[1] \in Nat /\ k[1] \in Nat
        <5>1. h[1] \in Ids /\ k[1] \in Ids
          BY <2>1, <2>2, <2>3
        <5> QED BY <5>1, <3>3, Numbers DEF RotationTypeOK
      <4> QED BY <4>1, <3>3, <2>2
    <3> QED BY <3>1, <3>2, <3>3, <1>1 DEF CanonicalFits
  <2>7. CanonicalFits'
    <3>1. {Founding, owner.client, q, peer.send_pq_leaf, peer.recv_pq_leaf} \subseteq canonical'
      BY <1>1 DEF CanonicalFits
    <3> QED BY <3>1, <2>3, <2>5, <2>6, <1>1, <1>8 DEF CanonicalFits
  <2>8. RoundFits'
    BY <1>1, <1>5, <1>8 DEF RoundFits
  <2> QED BY <2>4, <2>7, <2>8, <1>9, <1>10, <1>11, <1>12, <1>13, <1>14
<1> QED BY <1>15, <1>16

\* A frame of the peer repeats its staple.
LEMMA PeerSendKeeps ==
    ASSUME RotationInv, PeerSend
    PROVE  RotationInv'
<1> USE DEF RotationInv
<1>1. /\ UNCHANGED <<owner, peer, sent, round, canonical>>
      /\ returned' \subseteq returned \cup {ReturnFrame(peer)}
  BY DEF PeerSend, Unreturned
<1>2. ReturnFrame(peer) \in [epoch : Nat, folds : Ids, seen : Nat]
  BY DEF ReturnFrame, Peers, RotationTypeOK
<1>3. RotationTypeOK'
  BY <1>1, <1>2 DEF RotationTypeOK
<1>4. ASSUME NEW g \in returned'
      PROVE  /\ g.epoch <= peer.send_epoch /\ g.seen <= peer.recv_epoch
             /\ g.epoch = peer.send_epoch => g.folds = peer.send_leaf
  <2>1. CASE g = ReturnFrame(peer)
    BY <2>1, Numbers DEF ReturnFrame
  <2>2. CASE g \in returned
    BY <2>2 DEF FramesFit
  <2> QED BY <2>1, <2>2, <1>1
<1>5. FramesFit'
  BY <1>1, <1>4 DEF FramesFit
<1>6. EpochsInStep' /\ OffersFit' /\ FoldFits' /\ PeerKnowsOwner'
  BY <1>1 DEF EpochsInStep, OffersFit, OfferFits, FoldFits, PeerKnowsOwner, Complete
<1>7. HistoriesFit' /\ CanonicalFits' /\ RoundFits'
  BY <1>1 DEF HistoriesFit, CanonicalFits, RoundFits, Ordered, Current, Contains
<1> QED BY <1>3, <1>5, <1>6, <1>7

\* The owner applies the fold and becomes the id it names; its own last commit is
\* then the hand-off of that id or one the peer's copy of the leaf has already.
LEMMA OwnerReceiveKeeps ==
    ASSUME RotationInv, NEW g \in returned, OwnerReceive(g)
    PROVE  RotationInv'
<1> USE DEF RotationInv
<1> DEFINE due == g.epoch = owner.recv_epoch + 1
           moved == due /\ g.folds # owner.recv_leaf
           t == IF moved THEN CommitId(owner.mine, g.folds) ELSE owner.mine
           c == IF moved THEN g.folds ELSE owner.client
           e == IF due THEN owner.recv_epoch + 1 ELSE owner.recv_epoch
           b == owner.licensed \/ g.seen = owner.send_epoch
<1>1. UNCHANGED <<peer, sent, round, canonical>> /\ returned' \subseteq returned
  BY DEF OwnerReceive, Unreturned
<1>2. owner \in Owners /\ owner.mine \in PartySequences /\ g \in [epoch : Nat, folds : Ids, seen : Nat]
  BY DEF RotationTypeOK, Owners
<1>3. due => /\ peer.send_epoch = owner.recv_epoch + 1 /\ g.folds = peer.send_leaf
             /\ peer.send_leaf >= owner.client
  BY <1>2, Numbers DEF EpochsInStep, FramesFit, FoldFits
<1>4. c \in Ids /\ e \in Nat /\ b \in BOOLEAN /\ owner.recv_leaf = owner.client
  BY <1>2 DEF Owners, EpochsInStep
<1>5. /\ t \in PartySequences /\ Ordered(t) /\ Current(t) = c /\ t.pinned = owner.mine.pinned
  <2>1. CASE moved
    BY <2>1, <1>2, <1>3, CommitExtends DEF HistoriesFit
  <2>2. CASE ~moved
    BY <2>2, <1>2 DEF HistoriesFit
  <2> QED BY <2>1, <2>2
<1>6. owner' = [owner EXCEPT !.recv_epoch = e, !.recv_leaf = c, !.mine = t, !.client = c,
                             !.licensed = b]
  BY <1>2, <1>4 DEF OwnerReceive, Owners
<1>7. due => c = peer.send_leaf
  BY <1>3, <1>4
<1>8. ~due => c = owner.client
  OBVIOUS
<1>9. c \in Nat /\ c >= owner.client /\ (due => e = peer.send_epoch) /\ (~due => e = owner.recv_epoch)
  BY <1>3, <1>4, <1>7, <1>8, Numbers
<1>10. b => owner.send_epoch = peer.recv_epoch
  BY <1>2, Numbers DEF EpochsInStep, FramesFit
<1>11. c \in canonical
  BY <1>7, <1>8 DEF CanonicalFits
<1> HIDE DEF due, moved, t, c, e, b
<1>12. /\ owner'.recv_epoch = e /\ owner'.recv_leaf = c /\ owner'.mine = t /\ owner'.client = c
       /\ owner'.licensed = b /\ owner'.send_epoch = owner.send_epoch
       /\ owner'.send_leaf = owner.send_leaf /\ owner'.pq = owner.pq
       /\ owner' \in Owners
  BY <1>2, <1>4, <1>5, <1>6 DEF Owners
<1>13. RotationTypeOK'
  BY <1>1, <1>12 DEF RotationTypeOK
<1>14. EpochsInStep'
  BY <1>1, <1>3, <1>4, <1>7, <1>8, <1>9, <1>10, <1>12, Numbers DEF EpochsInStep
<1>15. FramesFit'
  BY <1>1, <1>12 DEF FramesFit
<1>16. OffersFit'
  <2>1. ASSUME NEW x, x.epoch \in Nat, OfferFits(x) PROVE OfferFits(x)'
    <3>1. CASE due
      BY <3>1, <2>1, <1>1, <1>3, <1>9, <1>12, Numbers DEF OfferFits
    <3>2. CASE ~due
      BY <3>2, <2>1, <1>1, <1>8, <1>9, <1>12 DEF OfferFits, Complete
    <3> QED BY <3>1, <3>2
  <2>2. /\ peer.offered.epoch \in Nat /\ peer.queued.epoch \in Nat
        /\ \A f \in sent : f.offer.epoch \in Nat
    BY DEF RotationTypeOK, Peers, Offers
  <2>3. OfferFits(peer.offered)' /\ OfferFits(peer.queued)'
    BY <2>1, <2>2, <1>1 DEF OffersFit
  <2> QED BY <2>1, <2>2, <2>3, <1>1 DEF OffersFit
<1>17. FoldFits'
  <2>1. CASE due
    BY <2>1, <1>1, <1>3, <1>7, <1>9, <1>12, Numbers DEF FoldFits, Complete
  <2>2. CASE ~due
    BY <2>2, <1>1, <1>8, <1>9, <1>12 DEF FoldFits, Complete
  <2> QED BY <2>1, <2>2
<1>18. PeerKnowsOwner'
  BY <1>1, <1>3, <1>7, <1>8, <1>9, <1>12, Numbers DEF PeerKnowsOwner
<1>19. HistoriesFit'
  BY <1>1, <1>5, <1>12 DEF HistoriesFit
<1>20. CanonicalFits'
  BY <1>1, <1>11, <1>12 DEF CanonicalFits
<1>21. RoundFits'
  BY <1>1, <1>5, <1>9, <1>12, Numbers DEF RoundFits
<1> QED BY <1>13, <1>14, <1>15, <1>16, <1>17, <1>18, <1>19, <1>20, <1>21

----------------------------------------------------------------------------
(* The PQ rounds.                                                          *)

\* A step of a PQ round leaves the classical part alone: of the sequences it moves
\* only the pins.
PqStep ==
    /\ UNCHANGED <<sent, returned, canonical>>
    /\ RotationTypeOK'
    /\ owner'.client = owner.client /\ owner'.mine.history = owner.mine.history
    /\ owner'.send_epoch = owner.send_epoch /\ owner'.recv_epoch = owner.recv_epoch
    /\ owner'.licensed = owner.licensed
    /\ owner'.send_leaf = owner.send_leaf /\ owner'.recv_leaf = owner.recv_leaf
    /\ peer'.their_id = peer.their_id /\ peer'.theirs.history = peer.theirs.history
    /\ peer'.send_epoch = peer.send_epoch /\ peer'.recv_epoch = peer.recv_epoch
    /\ peer'.offered = peer.offered /\ peer'.queued = peer.queued
    /\ peer'.send_leaf = peer.send_leaf /\ peer'.recv_leaf = peer.recv_leaf
    /\ {peer'.send_pq_leaf, peer'.recv_pq_leaf} \subseteq canonical

LEMMA PqStepKeeps ==
    ASSUME RotationInv, PqStep, RoundFits'
    PROVE  RotationInv'
<1> USE DEF RotationInv, PqStep
<1>1. EpochsInStep' /\ FramesFit' /\ FoldFits' /\ PeerKnowsOwner'
  BY DEF EpochsInStep, FramesFit, FoldFits, PeerKnowsOwner, Complete
<1>2. OffersFit'
  BY DEF OffersFit, OfferFits, Complete
<1>3. HistoriesFit'
  BY DEF HistoriesFit, Ordered, Current
<1>4. CanonicalFits'
  BY DEF CanonicalFits, Contains
<1> QED BY <1>1, <1>2, <1>3, <1>4

\* The sequence operations of the rounds.
LEMMA PinsOnly ==
    ASSUME NEW seq \in PartySequences, NEW leaves
    PROVE  /\ Pin(seq, Founding) \in PartySequences /\ Pin(seq, Founding).history = seq.history
           /\ Founding \in Pin(seq, Founding).pinned
           /\ RetireStalePins(seq, leaves) \in PartySequences
           /\ RetireStalePins(seq, leaves).history = seq.history
           /\ RetireStalePins(seq, leaves).pinned = seq.pinned \cap leaves
<1>1. Founding \in Ids
  BY RotationAssumption DEF Founding, Ids
<1> QED BY <1>1 DEF Pin, RetireStalePins, PartySequences

\* The bootstrap.
LEMMA BootstrapKeeps ==
    ASSUME RotationInv, BootstrapBegin \/ BootstrapRespond \/ BootstrapBind
    PROVE  RotationInv'
<1> USE DEF RotationInv
<1>1. /\ owner \in Owners /\ peer \in Peers /\ round \in [n : Nat, leg : Legs, id : Ids]
      /\ owner.mine \in PartySequences /\ peer.theirs \in PartySequences
      /\ Founding \in Ids /\ Founding <= owner.client /\ Founding \in canonical
  BY Numbers DEF RotationTypeOK, Owners, Peers, Founding, CanonicalFits
<1>2. CASE BootstrapBegin
  <2>1. /\ owner' = [owner EXCEPT !.mine = Pin(owner.mine, Founding)]
        /\ round' = [n |-> round.n, leg |-> "kp", id |-> Founding]
        /\ UNCHANGED <<peer, sent, returned, canonical>> /\ ~owner.pq
    BY <1>2 DEF BootstrapBegin, OpenLeg
  <2>2. /\ Pin(owner.mine, Founding) \in PartySequences
        /\ Pin(owner.mine, Founding).history = owner.mine.history
        /\ Founding \in Pin(owner.mine, Founding).pinned
    BY <1>1, PinsOnly
  <2>3. /\ owner' \in Owners /\ round' \in [n : Nat, leg : Legs, id : Ids]
        /\ owner'.mine = Pin(owner.mine, Founding)
        /\ owner'.client = owner.client /\ owner'.pq = owner.pq
    BY <1>1, <2>1, <2>2 DEF Owners, Legs
  <2>4. PqStep
    BY <1>1, <2>1, <2>2, <2>3 DEF PqStep, RotationTypeOK, Owners, CanonicalFits
  <2>5. RoundFits'
    BY <1>1, <2>1, <2>2, <2>3 DEF RoundFits
  <2> QED BY <2>4, <2>5, PqStepKeeps
<1>3. CASE BootstrapRespond
  <2>1. /\ peer' = [peer EXCEPT !.theirs = Pin(peer.theirs, Founding), !.pq = TRUE,
                                !.send_pq_leaf = Founding]
        /\ round' = [n |-> round.n, leg |-> "kp_welcome", id |-> Founding]
        /\ UNCHANGED <<owner, sent, returned, canonical>> /\ round.leg = "kp"
    BY <1>1, <1>3 DEF BootstrapRespond, OpenLeg, PinTheirs, Peers
  <2>2. /\ Pin(peer.theirs, Founding) \in PartySequences
        /\ Pin(peer.theirs, Founding).history = peer.theirs.history
        /\ Founding \in Pin(peer.theirs, Founding).pinned
    BY <1>1, PinsOnly
  <2>3. /\ peer' \in Peers /\ round' \in [n : Nat, leg : Legs, id : Ids]
        /\ peer'.theirs = Pin(peer.theirs, Founding) /\ peer'.pq
        /\ peer'.send_pq_leaf = Founding /\ peer'.recv_pq_leaf = peer.recv_pq_leaf
    BY <1>1, <2>1, <2>2 DEF Peers, Legs
  <2>4. PqStep
    BY <1>1, <2>1, <2>2, <2>3 DEF PqStep, RotationTypeOK, Peers, CanonicalFits
  <2>5. RoundFits'
    BY <1>1, <2>1, <2>2, <2>3 DEF RoundFits
  <2> QED BY <2>4, <2>5, PqStepKeeps
<1>4. CASE BootstrapBind
  <2>1. /\ owner' = [owner EXCEPT !.pq = TRUE, !.recv_pq_leaf = round.id]
        /\ round' = [round EXCEPT !.leg = "none"]
        /\ UNCHANGED <<peer, sent, returned, canonical>> /\ round.leg = "kp_welcome"
    BY <1>4 DEF BootstrapBind, CloseRound
  <2>2. /\ owner' \in Owners /\ round' \in [n : Nat, leg : Legs, id : Ids]
        /\ owner'.mine = owner.mine /\ owner'.client = owner.client /\ owner'.pq
        /\ round'.id = round.id /\ round'.leg = "none"
    BY <1>1, <2>1 DEF Owners, Legs
  <2>3. PqStep
    BY <1>1, <2>1, <2>2 DEF PqStep, RotationTypeOK, Owners, CanonicalFits
  <2>4. RoundFits'
    BY <1>1, <2>1, <2>2 DEF RoundFits
  <2> QED BY <2>3, <2>4, PqStepKeeps
<1> QED BY <1>2, <1>3, <1>4

\* Legs that change only the round: the openings of both re-keys.
LEMMA RekeyOpenKeeps ==
    ASSUME RotationInv, RekeyOpen \/ PeerRekeyOpen
    PROVE  RotationInv'
<1> USE DEF RotationInv
<1>1. /\ UNCHANGED <<owner, peer, sent, returned, canonical>> /\ owner.pq
      /\ \/ round' = [n |-> round.n + 1, leg |-> "upd", id |-> owner.client]
         \/ round' = [n |-> round.n + 1, leg |-> "peer_upd", id |-> Founding]
  BY DEF RekeyOpen, PeerRekeyOpen
<1>2. /\ Founding \in Ids /\ Founding <= owner.client
      /\ Founding \in canonical /\ owner.client \in canonical
      /\ owner.client \in Ids /\ round.n + 1 \in Nat
  <2>1. Founding \in canonical /\ owner.client \in canonical
    BY DEF CanonicalFits
  <2>2. owner.client \in Ids /\ round.n \in Nat
    BY DEF RotationTypeOK, Owners
  <2> QED BY <2>1, <2>2, Numbers DEF Founding
<1>3. /\ round' \in [n : Nat, leg : Legs, id : Ids] /\ round'.leg \in {"upd", "peer_upd"}
      /\ round'.id \in canonical /\ round'.id <= owner.client
      /\ round'.leg = "upd" => round'.id = owner.client
  BY <1>1, <1>2, Numbers DEF Legs
<1>4. PqStep
  BY <1>1, <1>3 DEF PqStep, RotationTypeOK, CanonicalFits
<1>5. RoundFits'
  BY <1>1, <1>3 DEF RoundFits
<1> QED BY <1>4, <1>5, PqStepKeeps

\* The owner's halves of the re-keys: its leaf moves, its pins may retire.
LEMMA OwnerRekeyKeeps ==
    ASSUME RotationInv, RekeyApply \/ PeerRekeyRespond
    PROVE  RotationInv'
<1> USE DEF RotationInv
<1>1. /\ owner \in Owners /\ owner.mine \in PartySequences /\ round \in [n : Nat, leg : Legs, id : Ids]
  BY DEF RotationTypeOK, Owners
<1>2. PICK a \in Ids, b \in Ids, leaves \in SUBSET Ids :
        owner' = [owner EXCEPT !.send_pq_leaf = a, !.recv_pq_leaf = b,
                               !.mine = RetireStalePins(owner.mine, leaves)]
  <2>1. CASE RekeyApply
    <3>1. owner' = [owner EXCEPT !.send_pq_leaf = owner.send_pq_leaf, !.recv_pq_leaf = round.id,
                        !.mine = RetireStalePins(owner.mine, {owner.send_pq_leaf, round.id})]
      BY <2>1, <1>1 DEF RekeyApply, RetireMine, Retire, Owners
    <3>2. owner.send_pq_leaf \in Ids /\ round.id \in Ids
      BY <1>1 DEF Owners
    <3> QED BY <3>1, <3>2
  <2>2. CASE PeerRekeyRespond
    <3>1. owner' = [owner EXCEPT !.send_pq_leaf = owner.client, !.recv_pq_leaf = owner.recv_pq_leaf,
                        !.mine = RetireStalePins(owner.mine, {owner.client, owner.recv_pq_leaf})]
      BY <2>2, <1>1 DEF PeerRekeyRespond, RetireMine, Retire, Owners
    <3>2. owner.client \in Ids /\ owner.recv_pq_leaf \in Ids
      BY <1>1 DEF Owners
    <3> QED BY <3>1, <3>2
  <2> QED BY <2>1, <2>2
<1> DEFINE m == RetireStalePins(owner.mine, leaves)
<1>3. m \in PartySequences /\ m.history = owner.mine.history
  BY <1>1, PinsOnly
<1>4. owner' = [owner EXCEPT !.send_pq_leaf = a, !.recv_pq_leaf = b, !.mine = m]
  BY <1>2
<1> HIDE DEF m
<1>5. /\ owner' \in Owners /\ owner'.mine = m /\ owner'.client = owner.client
      /\ owner'.pq = owner.pq
      /\ owner'.send_epoch = owner.send_epoch /\ owner'.recv_epoch = owner.recv_epoch
      /\ owner'.licensed = owner.licensed
      /\ owner'.send_leaf = owner.send_leaf /\ owner'.recv_leaf = owner.recv_leaf
  BY <1>1, <1>3, <1>4 DEF Owners
<1>6. /\ UNCHANGED <<peer, sent, returned, canonical>> /\ owner.pq
      /\ \/ round' = [round EXCEPT !.leg = "none"]
         \/ round' = [n |-> round.n, leg |-> "peer_commit", id |-> owner.client]
  BY DEF RekeyApply, PeerRekeyRespond, OpenLeg, CloseRound, RoundFits
<1>7. /\ round' \in [n : Nat, leg : Legs, id : Ids]
      /\ round'.leg \in {"none", "peer_commit"} /\ round'.id \in {round.id, owner.client}
      /\ round'.leg = "peer_commit" => round'.id = owner.client
  BY <1>1, <1>6 DEF Legs, Owners
<1>8. PqStep
  BY <1>3, <1>5, <1>6, <1>7 DEF PqStep, RotationTypeOK, CanonicalFits
<1>9. RoundFits'
  BY <1>5, <1>6, <1>7, Numbers, SMTT(30) DEF RoundFits, CanonicalFits
<1> QED BY <1>8, <1>9, PqStepKeeps

\* The peer's halves of the re-keys: a leaf moves forward to the id of the leg, and
\* a pin goes only when no leaf presents it.
LEMMA PeerRekeyKeeps ==
    ASSUME RotationInv, RekeyRespond \/ PeerRekeyApply
    PROVE  RotationInv'
<1> USE DEF RotationInv
<1>1. /\ peer \in Peers /\ peer.theirs \in PartySequences /\ round \in [n : Nat, leg : Legs, id : Ids]
      /\ round.id \in Ids /\ peer.send_pq_leaf \in Ids /\ peer.recv_pq_leaf \in Ids
      /\ round.id \in canonical /\ round.id <= owner.client
  BY DEF RotationTypeOK, Peers, RoundFits
<1>2. PICK a \in {peer.send_pq_leaf, round.id}, b \in {peer.recv_pq_leaf, round.id} :
        peer' = [peer EXCEPT !.send_pq_leaf = a, !.recv_pq_leaf = b,
                             !.theirs = RetireStalePins(peer.theirs, {a, b})]
  <2>1. CASE RekeyRespond
    BY <2>1, <1>1 DEF RekeyRespond, RetireTheirs, Retire, Peers
  <2>2. CASE PeerRekeyApply
    BY <2>2, <1>1 DEF PeerRekeyApply, RetireTheirs, Retire, Peers
  <2> QED BY <2>1, <2>2
<1> DEFINE m == RetireStalePins(peer.theirs, {a, b})
<1>3. m \in PartySequences /\ m.history = peer.theirs.history /\ m.pinned = peer.theirs.pinned \cap {a, b}
  BY <1>1, PinsOnly
<1>4. peer' = [peer EXCEPT !.send_pq_leaf = a, !.recv_pq_leaf = b, !.theirs = m]
  BY <1>2
<1> HIDE DEF m
<1>5. /\ peer' \in Peers /\ peer'.theirs = m /\ peer'.their_id = peer.their_id
      /\ peer'.send_pq_leaf = a /\ peer'.recv_pq_leaf = b /\ peer'.pq = peer.pq
      /\ peer'.send_epoch = peer.send_epoch /\ peer'.recv_epoch = peer.recv_epoch
      /\ peer'.offered = peer.offered /\ peer'.queued = peer.queued
      /\ peer'.send_leaf = peer.send_leaf /\ peer'.recv_leaf = peer.recv_leaf
  BY <1>1, <1>3, <1>4 DEF Peers
<1>6. /\ UNCHANGED <<owner, sent, returned, canonical>> /\ owner.pq /\ peer.pq
      /\ \/ round' = [round EXCEPT !.leg = "none"]
         \/ round' = [n |-> round.n, leg |-> "commit", id |-> round.id]
  BY DEF RekeyRespond, PeerRekeyApply, OpenLeg, CloseRound, RoundFits
<1>7. /\ round' \in [n : Nat, leg : Legs, id : Ids]
      /\ round'.leg \in {"none", "commit"} /\ round'.id = round.id
  BY <1>1, <1>6 DEF Legs
<1>8. PqStep
  BY <1>1, <1>3, <1>5, <1>6, <1>7 DEF PqStep, RotationTypeOK, CanonicalFits
<1>9. Founding \in {a, b} => Founding \in m.pinned
  <2>1. Founding \in {a, b} => Founding \in {peer.send_pq_leaf, peer.recv_pq_leaf} \/ round.id = Founding
    BY <1>2
  <2>2. round.id = Founding => Founding \in {peer.send_pq_leaf, peer.recv_pq_leaf}
    <3>1. peer.send_pq_leaf <= round.id \/ peer.recv_pq_leaf <= round.id
      BY DEF RekeyRespond, PeerRekeyApply, RoundFits
    <3> QED BY <3>1, Numbers DEF Founding
  <2>3. Founding \in {a, b} => Founding \in peer.theirs.pinned
    BY <2>1, <2>2, <1>6 DEF RoundFits
  <2> QED BY <2>3, <1>3
<1>10. RoundFits'
  BY <1>1, <1>2, <1>5, <1>6, <1>7, <1>9, Numbers DEF RoundFits
<1> QED BY <1>8, <1>10, PqStepKeeps

----------------------------------------------------------------------------
(* The theorems.                                                           *)

\* Every step keeps the invariant.
LEMMA NextKeeps ==
    ASSUME Serial, RotationInv, [Next]_vars
    PROVE  RotationInv'
<1>1. CASE UNCHANGED vars
  BY <1>1 DEF vars, RotationInv, RotationTypeOK, EpochsInStep, FramesFit, OffersFit, OfferFits,
              FoldFits, Complete, PeerKnowsOwner, HistoriesFit, Ordered, Current, CanonicalFits,
              Contains, RoundFits
<1>2. CASE \E commits \in BOOLEAN, selected \in Ids : OwnerSend(commits, selected)
  BY <1>2, OwnerSendKeeps
<1>3. CASE \E f \in sent : PeerReceive(f)
  BY <1>3, PeerReceiveKeeps
<1>4. CASE PeerApprove
  BY <1>4, PeerApproveKeeps
<1>5. CASE PeerFold
  BY <1>5, PeerFoldKeeps
<1>6. CASE PeerSend
  BY <1>6, PeerSendKeeps
<1>7. CASE \E g \in returned : OwnerReceive(g)
  BY <1>7, OwnerReceiveKeeps
<1>8. CASE BootstrapBegin \/ BootstrapRespond \/ BootstrapBind
  BY <1>8, BootstrapKeeps
<1>9. CASE RekeyOpen \/ PeerRekeyOpen
  BY <1>9, RekeyOpenKeeps
<1>10. CASE RekeyApply \/ PeerRekeyRespond
  BY <1>10, OwnerRekeyKeeps
<1>11. CASE RekeyRespond \/ PeerRekeyApply
  BY <1>11, PeerRekeyKeeps
<1> QED BY <1>1, <1>2, <1>3, <1>4, <1>5, <1>6, <1>7, <1>8, <1>9, <1>10, <1>11 DEF Next

\* With a host that rotates once the last rotation is complete, both ends' view of
\* the owner's credentials stays in step: epochs, leaves, offers that can still be
\* folded, both histories in order, and the pins of the PQ leaves.
THEOREM RotationStaysInStep ==
    ASSUME Serial
    PROVE  Spec => []RotationInv
<1>1. Init => RotationInv
  BY InitRotationInv
<1>2. RotationInv /\ [Next]_vars => RotationInv'
  BY NextKeeps
<1> QED BY <1>1, <1>2, PTL DEF Spec

\* their_principal_state is the truth (PeerKnowsOwner), for every number of
\* rotations: the hand-off commit and the fold of the next id never cross.
THEOREM PeerStaysInformed ==
    ASSUME Serial
    PROVE  Spec => []PeerKnowsOwner
<1>1. RotationInv => PeerKnowsOwner
  BY DEF RotationInv
<1> QED BY <1>1, RotationStaysInStep, PTL

\* The commit that moves the owner's leaf in its own send group is never refused
\* (CatchUpAccepted): the leaf it leaves is the last id of the peer's history or
\* the one before, the leaf it takes is the last.
THEOREM CatchUpsStayAccepted ==
    ASSUME Serial
    PROVE  Spec => []CatchUpAccepted
<1>1. RotationInv => CatchUpAccepted
  <2> SUFFICES ASSUME RotationInv, NEW f \in sent, Due(f), f.leaf # peer.recv_leaf
               PROVE  AdmitsMove(f)
    BY DEF CatchUpAccepted, AdmitsMove, ValidSuccessor
  <2> USE DEF RotationInv
  <2> DEFINE h == peer.theirs.history
  <2>1. f.leaf = owner.client /\ peer.their_id = owner.client /\ Current(peer.theirs) = owner.client
    BY HandoffIsKnown
  <2>2. /\ peer.theirs \in PartySequences /\ Ordered(peer.theirs)
        /\ Len(h) \in Nat /\ Len(h) >= 2 /\ h[Len(h)] = f.leaf /\ h[Len(h) - 1] = peer.recv_leaf
    BY <2>1 DEF HistoriesFit, Current, RotationTypeOK, Peers, PartySequences
  <2>3. Contains(peer.theirs, f.leaf) /\ Contains(peer.theirs, peer.recv_leaf)
    BY <2>2, SMTT(30) DEF Contains
  <2>4. f.leaf \in Nat /\ peer.recv_leaf \in Nat /\ peer.recv_leaf < f.leaf
    <3>1. Len(h) - 1 \in 1..Len(h) /\ Len(h) \in 1..Len(h) /\ Len(h) - 1 < Len(h)
      BY <2>2, SMTT(30)
    <3>2. h[Len(h) - 1] < h[Len(h)]
      BY <3>1, <2>2 DEF Ordered, Increasing
    <3> QED BY <3>2, <2>1, <2>2, Numbers
  <2>5. Position(peer.theirs, peer.recv_leaf) < Position(peer.theirs, f.leaf)
    BY <2>2, <2>3, <2>4, PositionsOrdered
  <2>6. Position(peer.theirs, peer.recv_leaf) \in 1..Len(h) /\ Position(peer.theirs, f.leaf) \in 1..Len(h)
    BY <2>3 DEF Position, Contains
  <2> QED BY <2>2, <2>3, <2>5, <2>6 DEF AdmitsMove, ValidSuccessor
<1> QED BY <1>1, RotationStaysInStep, PTL

\* An id less than a window of canonical steps old is still in the peer's history:
\* what the window has evicted is older than a full window of canonical ids.
LEMMA WindowHolds ==
    ASSUME RotationInv, NEW id \in canonical, StepsBehind(id) < HistoryWindow
    PROVE  Contains(peer.theirs, id)
<1> USE DEF RotationInv
<1> SUFFICES ASSUME ~Contains(peer.theirs, id) PROVE FALSE
  OBVIOUS
<1> DEFINE h == peer.theirs.history
           S == {x \in canonical : x > id}
           R == {h[i] : i \in 1..HistoryWindow}
<1>1. Len(h) = HistoryWindow /\ id < h[1] /\ h \in Seq(Ids) /\ Increasing(h)
  BY DEF CanonicalFits, HistoriesFit, Ordered, RotationTypeOK, Peers, PartySequences
<1>2. HistoryWindow \in Nat /\ HistoryWindow >= 2 /\ id \in Nat
  BY HistoryAssumption, Numbers DEF RotationTypeOK
<1>3. \A i \in 1..HistoryWindow : h[i] \in Nat
  <2>1. \A i \in 1..HistoryWindow : h[i] \in Ids
    BY <1>1
  <2> QED BY <2>1, Numbers
<1>4. R \subseteq S
  <2> SUFFICES ASSUME NEW i \in 1..HistoryWindow PROVE h[i] \in canonical /\ h[i] > id
    OBVIOUS
  <2>1. h[i] \in canonical
    BY <1>1 DEF CanonicalFits
  <2>2. i = 1 \/ h[1] < h[i]
    BY <1>1, <1>2 DEF Increasing
  <2> QED BY <2>1, <2>2, <1>1, <1>2, <1>3
<1>5. IsFiniteSet(S)
  <2>1. IsFiniteSet(Ids)
    BY FS_Interval, RotationAssumption DEF Ids
  <2> QED BY <2>1, FS_Subset DEF RotationTypeOK
<1>6. Cardinality(R) = HistoryWindow
  <2> DEFINE g == [i \in 1..HistoryWindow |-> h[i]]
  <2>1. \A i, j \in 1..HistoryWindow : h[i] = h[j] => i = j
    BY <1>1, <1>2, <1>3 DEF Increasing
  <2>2. g \in Bijection(1..HistoryWindow, R)
    BY <2>1 DEF Bijection, Injection, Surjection, IsInjective
  <2>3. ExistsBijection(1..HistoryWindow, R)
    BY <2>2 DEF ExistsBijection
  <2> QED BY <2>3, <1>2, FS_CountingElements
<1>7. Cardinality(R) <= Cardinality(S)
  BY <1>4, <1>5, FS_Subset
<1>8. Cardinality(S) \in Nat /\ StepsBehind(id) = Cardinality(S)
  BY <1>5, FS_CardinalityType DEF StepsBehind
<1> HIDE DEF R, S
<1> QED BY <1>2, <1>6, <1>7, <1>8

\* A leaf within the window may move to the id of the leg on the way.
LEMMA LeafMoves ==
    ASSUME RotationInv, owner.pq, NEW leaf \in {peer.send_pq_leaf, peer.recv_pq_leaf},
           leaf <= round.id, WithinWindow(leaf)
    PROVE  Contains(peer.theirs, round.id) /\ ValidSuccessor(peer.theirs, leaf, round.id)
<1> USE DEF RotationInv
<1>1. leaf \in canonical /\ round.id \in canonical /\ leaf \in Nat /\ round.id \in Nat
  BY Numbers DEF CanonicalFits, RoundFits
<1>2. Contains(peer.theirs, round.id)
  BY <1>1, WindowHolds DEF WithinWindow
<1>3. leaf = Founding => leaf \in peer.theirs.pinned
  BY DEF RoundFits
<1>4. leaf # Founding => Contains(peer.theirs, leaf)
  BY <1>1, WindowHolds DEF WithinWindow
<1>5. Contains(peer.theirs, leaf) /\ leaf # round.id =>
          Position(peer.theirs, leaf) < Position(peer.theirs, round.id)
  BY <1>1, <1>2, PositionsOrdered DEF HistoriesFit, RotationTypeOK, Peers
<1>6. Contains(peer.theirs, leaf) => Position(peer.theirs, leaf) \in Nat
  <2>1. Contains(peer.theirs, leaf) => Position(peer.theirs, leaf) \in 1..Len(peer.theirs.history)
    BY DEF Contains, Position
  <2> QED BY <2>1
<1>7. Position(peer.theirs, round.id) \in Nat
  <2>1. Position(peer.theirs, round.id) \in 1..Len(peer.theirs.history)
    BY <1>2 DEF Contains, Position
  <2> QED BY <2>1
<1> QED BY <1>2, <1>3, <1>4, <1>5, <1>6, <1>7 DEF ValidSuccessor

\* PQ leaves within the window can be caught up (PqCatchUpAdmitted), for every
\* window of at least two ids: the founding id because it is pinned while a leaf
\* presents it, the others because eviction is in canonical order.
THEOREM PqCatchUpsStayAdmitted ==
    ASSUME Serial
    PROVE  Spec => []PqCatchUpAdmitted
<1>1. RotationInv => PqCatchUpAdmitted
  <2> SUFFICES ASSUME RotationInv PROVE PqCatchUpAdmitted
    OBVIOUS
  <2>1. round.leg = "kp_welcome" => round.id \in KnownIds(owner.mine)
    BY DEF RotationInv, RoundFits, KnownIds
  <2>2. round.leg = "upd" /\ WithinWindow(peer.send_pq_leaf) => RekeyAdmitted
    BY LeafMoves DEF RotationInv, RoundFits, RekeyAdmitted
  <2>3. round.leg = "peer_commit" /\ WithinWindow(peer.recv_pq_leaf) => PeerRekeyAdmitted
    BY LeafMoves DEF RotationInv, RoundFits, PeerRekeyAdmitted
  <2> QED BY <2>1, <2>2, <2>3 DEF PqCatchUpAdmitted
<1> QED BY <1>1, RotationStaysInStep, PTL

=============================================================================
