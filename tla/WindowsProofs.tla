--------------------------- MODULE WindowsProofs ---------------------------
(***************************************************************************)
(* Proofs about Windows for every value of its constants: the bounded      *)
(* windows a session keeps over its epochs stay within their bounds and    *)
(* yet hold every key, address and component that is still asked for.      *)
(***************************************************************************)
EXTENDS Windows, RoundProofs, CredentialProofs

----------------------------------------------------------------------------
(* Windows over epochs.                                                    *)

\* The last w epochs up to e.
Last(w, e) == {x \in 1..e : x + w > e}

\* The number of epochs in an interval.
LEMMA IntervalSize ==
    ASSUME NEW a \in Int, NEW b \in Int, a <= b + 1
    PROVE  IsFiniteSet(a..b) /\ Cardinality(a..b) = b - a + 1
<1>1. IsFiniteSet(a..b) /\ Cardinality(a..b) = IF a > b THEN 0 ELSE b - a + 1  BY FS_Interval
<1> QED  BY <1>1

\* Eviction by rank leaves at most n epochs: ranks are distinct and below n.
LEMMA NewestBounded ==
    ASSUME NEW S \in SUBSET Nat, IsFiniteSet(S), NEW n \in Nat
    PROVE  /\ Newest(n, S) \subseteq S
           /\ IsFiniteSet(Newest(n, S))
           /\ Cardinality(Newest(n, S)) <= n
<1> DEFINE N == Newest(n, S)
           Above(e) == {x \in S : x > e}
           rank == [e \in N |-> Cardinality(Above(e))]
<1>1. N \subseteq S /\ \A e \in N : e \in S /\ Cardinality(Above(e)) < n  BY DEF Newest
<1>2. \A e \in S : IsFiniteSet(Above(e)) /\ Cardinality(Above(e)) \in Nat
  BY FS_Subset, FS_CardinalityType
<1>3. IsFiniteSet(N)  BY <1>1, FS_Subset
<1>4. IsFiniteSet(0..(n-1)) /\ Cardinality(0..(n-1)) = n  BY IntervalSize
<1>5. ASSUME NEW a \in S, NEW b \in S, a < b
      PROVE  Cardinality(Above(b)) < Cardinality(Above(a))
  <2>1. a \in Nat /\ b \in Nat /\ \A x \in S : x \in Nat  OBVIOUS
  <2>2. Above(b) \in SUBSET Above(a)
    <3>1. \A x \in S : x > b => x > a  BY <1>5, <2>1
    <3> QED  BY <3>1
  <2>3. b \in Above(a) /\ b \notin Above(b)  BY <1>5, <2>1
  <2>4. IsFiniteSet(Above(a)) /\ Above(a) # Above(b)  BY <1>2, <2>3
  <2>5. Cardinality(Above(a)) \in Nat /\ Cardinality(Above(b)) \in Nat  BY <1>2
  <2> HIDE DEF Above
  <2>6. Cardinality(Above(b)) <= Cardinality(Above(a)) /\ Cardinality(Above(a)) # Cardinality(Above(b))
    BY <2>2, <2>4, FS_Subset
  <2> QED  BY <2>5, <2>6
<1>6. rank \in [N -> 0..(n-1)]
  <2>1. \A e \in N : Cardinality(Above(e)) \in 0..(n-1)
    <3> SUFFICES ASSUME NEW e \in N PROVE Cardinality(Above(e)) \in 0..(n-1)  OBVIOUS
    <3>1. Cardinality(Above(e)) \in Nat /\ Cardinality(Above(e)) < n  BY <1>1, <1>2
    <3> HIDE DEF Above
    <3> QED  BY <3>1
  <2> QED  BY <2>1
<1>7. ASSUME NEW a \in N, NEW b \in N, rank[a] = rank[b] PROVE a = b
  <2>1. a \in Nat /\ b \in Nat /\ a \in S /\ b \in S  BY <1>1
  <2>2. Cardinality(Above(a)) = Cardinality(Above(b))  BY <1>7
  <2>3. ~(a < b) /\ ~(b < a)  BY <1>2, <1>5, <2>1, <2>2
  <2> QED  BY <2>1, <2>3
<1>8. rank \in Injection(N, 0..(n-1))  BY <1>6, <1>7 DEF Injection, IsInjective
<1> HIDE DEF rank, N
<1>9. Cardinality(N) <= Cardinality(0..(n-1))  BY <1>4, <1>8, FS_Injection
<1> QED  BY <1>1, <1>3, <1>4, <1>9 DEF N

\* The last w epochs are at most w.
LEMMA LastBounded ==
    ASSUME NEW w \in Nat, NEW e \in Int
    PROVE  Last(w, e) \subseteq Nat /\ Cardinality(Last(w, e)) <= w
<1>1. Last(w, e) \in SUBSET ((e - w + 1)..e)  BY DEF Last
<1>2. IsFiniteSet((e - w + 1)..e) /\ Cardinality((e - w + 1)..e) = w  BY IntervalSize
<1>3. Cardinality(Last(w, e)) <= Cardinality((e - w + 1)..e) /\ IsFiniteSet(Last(w, e))
  BY <1>1, <1>2, FS_Subset
<1>4. Cardinality(Last(w, e)) \in Nat /\ Cardinality((e - w + 1)..e) \in Nat
  BY <1>2, <1>3, FS_CardinalityType
<1> QED  BY <1>2, <1>3, <1>4 DEF Last

\* Recording the next epoch keeps the last w.
LEMMA LastNext ==
    ASSUME NEW w \in Nat \ {0}, NEW e \in Nat
    PROVE  /\ e + 1 \notin Last(w, e) /\ e + 1 \in Last(w, e + 1)
           /\ Newest(w, Last(w, e) \cup {e + 1}) = Last(w, e + 1)
<1> DEFINE S == Last(w, e) \cup {e + 1}
<1>1. S \subseteq 1..(e + 1) /\ \A x \in 1..(e + 1) : x \in S <=> x = e + 1 \/ x + w > e
  BY DEF Last
<1>2. ASSUME NEW x \in S PROVE Cardinality({y \in S : y > x}) = e + 1 - x
  <2>1. x \in 1..(e + 1) /\ (x = e + 1 \/ x + w > e)  BY <1>1
  <2>2. \A y \in (x + 1)..(e + 1) : y \in 1..(e + 1) /\ y + w > e  BY <2>1
  <2>3. \A y \in 1..(e + 1) : y > x <=> y \in (x + 1)..(e + 1)  BY <2>1
  <2>4. {y \in S : y > x} = (x + 1)..(e + 1)  BY <1>1, <2>2, <2>3
  <2>5. Cardinality((x + 1)..(e + 1)) = e + 1 - x  BY <2>1, IntervalSize
  <2> QED  BY <2>4, <2>5
<1>3. \A x \in S : Cardinality({y \in S : y > x}) < w <=> x + w > e + 1
  <2> SUFFICES ASSUME NEW x \in S
               PROVE  Cardinality({y \in S : y > x}) < w <=> x + w > e + 1
    OBVIOUS
  <2>1. x \in Nat  BY <1>1
  <2>2. Cardinality({y \in S : y > x}) = e + 1 - x  BY <1>2
  <2> HIDE DEF S
  <2> QED  BY <2>1, <2>2
<1>4. Newest(w, S) = {x \in S : x + w > e + 1}  BY <1>3 DEF Newest
<1>5. {x \in S : x + w > e + 1} = Last(w, e + 1)  BY <1>1 DEF Last
<1>6. e + 1 \notin Last(w, e) /\ e + 1 \in Last(w, e + 1)  BY DEF Last
<1> QED  BY <1>4, <1>5, <1>6

----------------------------------------------------------------------------
(* What the windows hold.  The parts speak of one party's record: k of its *)
(* keys, c of its cached seal, a of its ledgers, s of its session and r of *)
(* its peer's.                                                             *)

Keys == [listen : SUBSET Nat, pq : SUBSET Nat]
Seals == [frame : Leg, key : [half : {"classical", "pq"}, epoch : Nat]]
Ledgers == [send : SUBSET Nat, recv : SUBSET Nat, exported : BOOLEAN]

\* The PQ header keys are those of the last epochs of the send-PQ half, without a
\* gap.  The addresses lie within the retention of the newest of them.
KeysInv(k, s) ==
    /\ k \in Keys
    /\ k.pq = Last(PqHeaderWindow, s.send_pq)
    /\ \E m \in Nat : m <= s.send_cl /\ \A x \in k.listen : x <= m /\ x + EpochRetention >= m

\* The current epoch of the send group is listened on, and the one its mirror is at.
ListenInv(k, s, r) == s.send_cl \in k.listen /\ (r.recv_cl > 0 => r.recv_cl \in k.listen)

\* A cached seal is of the frame in the slot, under a key of the half that a new seal
\* of that frame would use.
SealInv(c, s) ==
    \/ c = NoSeal
    \/ /\ c \in Seals
       /\ c.frame = s.pending_side_band
       /\ c.frame # NoLeg
       /\ c.key.half = SealSideBand(s, c.frame).key.half

\* The receive ledger has the last components up to the current epoch, or up to the
\* one before while the current one can still be exported.
LedgerInv(a, s) ==
    /\ a \in Ledgers
    /\ \/ a.recv = Last(AttachmentWindow, s.recv_cl)
       \/ a.recv = Last(AttachmentWindow, s.recv_cl - 1) /\ ~a.exported
    /\ a.exported => s.recv_cl > 0
    /\ \A x \in a.send : x <= s.send_cl
    /\ Cardinality(a.send) <= AttachmentWindow

\* The records have their types.
WindowsTypes ==
    /\ keys \in [Party -> Keys] /\ ledger \in [Party -> Ledgers]
    /\ seal \in [Party -> Seals \cup {NoSeal}]

WindowsInv ==
    /\ WindowsTypes
    /\ \A p \in Party : /\ KeysInv(keys[p], session[p])
                        /\ SealInv(seal[p], session[p])
                        /\ LedgerInv(ledger[p], session[p])

ListenInStep == \A p \in Party : ListenInv(keys[p], session[p], session[Peer(p)])

----------------------------------------------------------------------------
(* What a step of one party does to its records: from s, k, c, a before to *)
(* t, l, d, b after.                                                       *)

\* An epoch that opens is recorded, in the classical half unless the prepare ended
\* in an error after a candidate was deferred.
KeysMove(s, t, k, l) ==
    /\ l \in Keys
    /\ \/ l.listen = k.listen /\ (t.send_cl = s.send_cl \/ t.deferred_candidate # 0)
       \/ l.listen = RecordListenRendezvous(k, t.send_cl).listen
    /\ \/ l.pq = k.pq /\ t.send_pq = s.send_pq
       \/ l.pq = RecordPqHeaderKey(k, t.send_pq).pq

\* The cached seal goes, stays with its frame, or is made anew.
SealMove(s, t, c, d) ==
    \/ d = NoSeal
    \/ d = c /\ t.pending_side_band = s.pending_side_band
    \/ d = SealSideBand(t, t.pending_side_band) /\ t.pending_side_band # NoLeg

\* The receive ledger gets the epoch the mirror leaves, or the one it exports.
LedgerMove(s, t, a, b) ==
    /\ b \in Ledgers
    /\ \/ b.send = a.send
       \/ b.send = LedgerAttachmentComponent(a.send, s.send_cl)
    /\ \/ /\ t.recv_cl = s.recv_cl \/ s.recv_cl = 0
          /\ b.recv = a.recv /\ b.exported = a.exported
       \/ /\ t.recv_cl > s.recv_cl /\ s.recv_cl > 0
          /\ b.recv = LedgerAttachmentComponent(a.recv, s.recv_cl) /\ ~b.exported
       \/ /\ t.recv_cl = s.recv_cl /\ s.recv_cl > 0
          /\ b.recv = LedgerAttachmentComponent(a.recv, s.recv_cl)

\* What recording an epoch leaves in a record of keys.
LEMMA RecordedKeys ==
    ASSUME NEW k \in Keys, NEW e \in Nat
    PROVE  /\ RecordListenRendezvous(k, e) \in Keys
           /\ RecordListenRendezvous(k, e).pq = k.pq
           /\ RecordListenRendezvous(k, e).listen =
                 IF e \in k.listen THEN k.listen
                 ELSE {x \in k.listen \cup {e} : x + EpochRetention >= e}
           /\ RecordPqHeaderKey(k, e) \in Keys
           /\ RecordPqHeaderKey(k, e).listen = k.listen
           /\ RecordPqHeaderKey(k, e).pq =
                 IF e = 0 \/ e \in k.pq THEN k.pq
                 ELSE Newest(PqHeaderWindow, k.pq \cup {e})
<1>1. \A c \in SUBSET Nat : LET l == [k EXCEPT !.listen = c]
                            IN  l \in Keys /\ l.pq = k.pq /\ l.listen = c
  BY DEF Keys
<1>2. \A c \in SUBSET Nat : LET l == [k EXCEPT !.pq = c]
                            IN  l \in Keys /\ l.listen = k.listen /\ l.pq = c
  BY DEF Keys
<1>3. k.listen \in SUBSET Nat /\ k.pq \in SUBSET Nat  BY DEF Keys
<1>4. Retained(k.listen \cup {e}, e) \in SUBSET Nat
  BY <1>3 DEF Retained
<1>5. Newest(PqHeaderWindow, k.pq \cup {e}) \in SUBSET Nat  BY <1>3 DEF Newest
<1>6. RecordListenRendezvous(k, e) =
          IF e \in k.listen THEN k ELSE [k EXCEPT !.listen = Retained(k.listen \cup {e}, e)]
  BY DEF RecordListenRendezvous
<1>7. RecordPqHeaderKey(k, e) =
          IF e = 0 \/ e \in k.pq THEN k
          ELSE [k EXCEPT !.pq = Newest(PqHeaderWindow, k.pq \cup {e})]
  BY DEF RecordPqHeaderKey
<1>8. Retained(k.listen \cup {e}, e) = {x \in k.listen \cup {e} : x + EpochRetention >= e}
  BY DEF Retained
<1>9. LET l == RecordListenRendezvous(k, e)
      IN  /\ l \in Keys /\ l.pq = k.pq
          /\ l.listen = IF e \in k.listen THEN k.listen ELSE Retained(k.listen \cup {e}, e)
  BY <1>1, <1>4, <1>6
<1>10. LET l == RecordPqHeaderKey(k, e)
       IN  /\ l \in Keys /\ l.listen = k.listen
           /\ l.pq = IF e = 0 \/ e \in k.pq THEN k.pq
                     ELSE Newest(PqHeaderWindow, k.pq \cup {e})
  BY <1>2, <1>5, <1>7
<1> QED  BY <1>8, <1>9, <1>10

\* The same of each window alone.
LEMMA RecordedListen ==
    ASSUME NEW k \in Keys, NEW e \in Nat
    PROVE  RecordListenRendezvous(k, e).listen =
               IF e \in k.listen THEN k.listen
               ELSE {x \in k.listen \cup {e} : x + EpochRetention >= e}
  BY RecordedKeys, ZenonT(30)

LEMMA RecordedPq ==
    ASSUME NEW k \in Keys, NEW e \in Nat
    PROVE  RecordPqHeaderKey(k, e).pq =
               IF e = 0 \/ e \in k.pq THEN k.pq
               ELSE Newest(PqHeaderWindow, k.pq \cup {e})
  BY RecordedKeys

\* The keys keep their invariant when epochs open one by one.
LEMMA KeysKept ==
    ASSUME NEW s \in SessionInner, NEW t \in SessionInner, NEW k, NEW l,
           KeysInv(k, s), KeysMove(s, t, k, l),
           t.send_pq \in {s.send_pq, s.send_pq + 1}, t.send_cl >= s.send_cl
    PROVE  KeysInv(l, t)
<1>1. /\ s.send_cl \in Nat /\ t.send_cl \in Nat /\ s.send_pq \in Nat /\ t.send_pq \in Nat
  BY RoundFields
<1>2. k \in Keys /\ l \in Keys /\ k.pq = Last(PqHeaderWindow, s.send_pq)  BY DEF KeysInv, KeysMove
<1>3. PqHeaderWindow \in Nat \ {0} /\ EpochRetention \in Nat  BY WindowsAssumption
<1>4. l.pq = Last(PqHeaderWindow, t.send_pq)
  <2>1. CASE l.pq = k.pq /\ t.send_pq = s.send_pq  BY <1>2, <2>1
  <2>2. CASE l.pq = RecordPqHeaderKey(k, t.send_pq).pq
    <3>1. l.pq = IF t.send_pq = 0 \/ t.send_pq \in k.pq THEN k.pq
                 ELSE Newest(PqHeaderWindow, k.pq \cup {t.send_pq})
      BY <1>1, <1>2, <2>2, RecordedPq
    <3>2. CASE t.send_pq = s.send_pq
      <4>1. t.send_pq = 0 \/ t.send_pq \in k.pq  BY <1>1, <1>2, <1>3, <3>2 DEF Last
      <4> QED  BY <1>2, <3>1, <3>2, <4>1
    <3>3. CASE t.send_pq = s.send_pq + 1
      <4>1. /\ t.send_pq # 0 /\ t.send_pq \notin k.pq
            /\ Newest(PqHeaderWindow, k.pq \cup {t.send_pq}) = Last(PqHeaderWindow, t.send_pq)
        BY <1>1, <1>2, <1>3, <3>3, LastNext
      <4> QED  BY <3>1, <4>1
    <3> QED  BY <3>2, <3>3
  <2> QED  BY <2>1, <2>2 DEF KeysMove
<1>5. \E m \in Nat : m <= t.send_cl /\ \A x \in l.listen : x <= m /\ x + EpochRetention >= m
  <2>1. PICK m \in Nat : m <= s.send_cl /\ \A x \in k.listen : x <= m /\ x + EpochRetention >= m
    BY DEF KeysInv
  <2>2. CASE l.listen = k.listen  BY <1>1, <2>1, <2>2
  <2>3. CASE l.listen = {x \in k.listen \cup {t.send_cl} : x + EpochRetention >= t.send_cl}
    <3>1. \A x \in l.listen : x \in Nat /\ x <= t.send_cl /\ x + EpochRetention >= t.send_cl
      <4>1. \A x \in k.listen : x \in Nat  BY <1>2 DEF Keys
      <4>2. \A x \in k.listen : x <= t.send_cl  BY <1>1, <2>1, <4>1
      <4> QED  BY <1>1, <2>3, <4>1, <4>2
    <3> QED  BY <1>1, <3>1
  <2>4. l.listen = k.listen
        \/ l.listen = {x \in k.listen \cup {t.send_cl} : x + EpochRetention >= t.send_cl}
    BY <1>1, <1>2, RecordedKeys DEF KeysMove
  <2> QED  BY <2>2, <2>3, <2>4
<1> QED  BY <1>2, <1>4, <1>5 DEF KeysInv

\* The addresses follow the classical half: the writer opens an epoch only when the
\* mirror is at the current one, which the retention keeps, and the mirror moves to
\* the current one only.
LEMMA ListenKept ==
    ASSUME NEW s \in SessionInner, NEW t \in SessionInner, NEW r \in SessionInner,
           NEW k \in Keys, NEW l, KeysMove(s, t, k, l), ListenInv(k, s, r),
           WriterMove(s, t, r), t.deferred_candidate = 0
    PROVE  ListenInv(l, t, r)
<1>1. s.send_cl \in Nat /\ t.send_cl \in Nat /\ r.recv_cl \in Nat  BY RoundFields
<1>2. EpochRetention \in Nat \ {0}  BY WindowsAssumption
<1>3. \/ l.listen = k.listen
      \/ l.listen = {x \in k.listen \cup {t.send_cl} : x + EpochRetention >= t.send_cl}
  BY <1>1, RecordedKeys DEF KeysMove
<1>4. CASE t.send_cl = s.send_cl
  BY <1>1, <1>4, RecordedKeys DEF KeysMove, ListenInv
<1>5. CASE t.send_cl = s.send_cl + 1 /\ r.recv_cl = s.send_cl
  <2>1. l.listen = IF t.send_cl \in k.listen THEN k.listen
                   ELSE {x \in k.listen \cup {t.send_cl} : x + EpochRetention >= t.send_cl}
    <3>1. l.listen = RecordListenRendezvous(k, t.send_cl).listen  BY <1>1, <1>5 DEF KeysMove
    <3> QED  BY <1>1, <3>1, RecordedListen
  <2>2. t.send_cl \in l.listen  BY <1>1, <1>2, <2>1
  <2>3. r.recv_cl \in k.listen /\ r.recv_cl + EpochRetention >= t.send_cl
    BY <1>1, <1>2, <1>5 DEF ListenInv
  <2>4. r.recv_cl \in l.listen  BY <2>1, <2>3
  <2> QED  BY <2>2, <2>4 DEF ListenInv
<1> QED  BY <1>4, <1>5 DEF WriterMove

\* Seen from the peer that moves: its mirror takes at most the writer's epoch.
LEMMA MirrorKept ==
    ASSUME NEW s \in SessionInner, NEW t \in SessionInner, NEW r \in SessionInner,
           NEW k, ListenInv(k, r, s), ReaderMove(s, t, r),
           s.recv_cl \in {r.send_cl - 1, r.send_cl}
    PROVE  ListenInv(k, r, t)
<1>1. s.recv_cl \in Nat /\ t.recv_cl \in Nat /\ r.send_cl \in Nat  BY RoundFields
<1> QED  BY <1>1 DEF ReaderMove, ListenInv

\* A seal made from a session has the shape of a seal.
LEMMA SealShape ==
    ASSUME NEW s \in SessionInner, NEW leg \in Leg
    PROVE  /\ SealSideBand(s, leg) \in Seals
           /\ SealSideBand(s, leg).frame = leg
           /\ leg.kind \in {"ek", "ct"} \/ s.recv_pq = 0 =>
                 /\ SealSideBand(s, leg).key.half = "classical"
                 /\ SealSideBand(s, leg).key.epoch = s.recv_cl
           /\ leg.kind \notin {"ek", "ct"} /\ s.recv_pq # 0 =>
                 /\ SealSideBand(s, leg).key.half = "pq"
                 /\ SealSideBand(s, leg).key.epoch = s.recv_pq
<1>1. s.recv_cl \in Nat /\ s.recv_pq \in Nat  BY RoundFields
<1> QED  BY <1>1 DEF SealSideBand, Seals

\* While one frame stays in the slot, the half its seal uses stays: the A.4 legs use
\* the classical one, and the others belong to a phase of their round in which the
\* mirror of the PQ half does not appear.
LEMMA HalfStays ==
    ASSUME NEW s \in SessionInner, NEW t \in SessionInner, NEW r \in SessionInner,
           NEW n, NEW m, InRound(s, r, n), InRound(t, r, m),
           t.pending_side_band = s.pending_side_band, s.pending_side_band \in Leg,
           s.pending_side_band.kind \notin {"ek", "ct"}
    PROVE  s.recv_pq = 0 <=> t.recv_pq = 0
<1> DEFINE leg == s.pending_side_band
<1>1. leg.kind \in {"bootstrap_kp", "bootstrap_welcome", "rekey_upd", "rekey_commit"}
  BY DEF Leg, KpLeg
<1>2. CASE leg.kind = "bootstrap_kp"
  BY <1>2 DEF InRound, Slot, Health
<1>3. CASE leg.kind = "rekey_upd"
  BY <1>3 DEF InRound, Slot
<1>4. CASE leg.kind \in {"bootstrap_welcome", "rekey_commit"}
  <2>1. /\ Kind(s) \in {"BootstrapResponded", "RekeyResponded"}
        /\ Kind(t) \in {"BootstrapResponded", "RekeyResponded"}
    BY <1>4 DEF InRound, Slot
  <2>2. /\ Answered(r, s) \/ Closing(r, s, r.owed_bind) \/ Closing(r, s, r.current_staple.bind)
        /\ Answered(r, t) \/ Closing(r, t, r.owed_bind) \/ Closing(r, t, r.current_staple.bind)
    BY <2>1 DEF InRound, Round, Quiet, Opened, Answered, Closing, Kind
  <2>3. /\ r.send_pq = s.recv_pq \/ (r.send_pq = s.recv_pq + 1 /\ Kind(r) = "none")
        /\ r.send_pq = s.recv_pq + 1 \/ Kind(r) # "none"
        /\ r.send_pq = t.recv_pq \/ (r.send_pq = t.recv_pq + 1 /\ Kind(r) = "none")
        /\ r.send_pq = t.recv_pq + 1 \/ Kind(r) # "none"
    BY <2>2 DEF Answered, Closing
  <2>4. r.send_pq \in Nat /\ s.recv_pq \in Nat /\ t.recv_pq \in Nat  BY RoundFields
  <2> QED  BY <2>3, <2>4
<1> QED  BY <1>1, <1>2, <1>3, <1>4

\* The cached seal keeps its invariant.
LEMMA SealKept ==
    ASSUME NEW s \in SessionInner, NEW t \in SessionInner, NEW r \in SessionInner,
           NEW n, NEW m, InRound(s, r, n), InRound(t, r, m),
           NEW c, NEW d, SealInv(c, s), SealMove(s, t, c, d)
    PROVE  SealInv(d, t)
<1>1. s.pending_side_band \in Leg \cup {NoLeg} /\ t.pending_side_band \in Leg \cup {NoLeg}
  BY SessionFields
<1>2. CASE d = NoSeal  BY <1>2 DEF SealInv
<1>3. CASE d = c /\ d # NoSeal /\ t.pending_side_band = s.pending_side_band
  <2>1. c \in Seals /\ c.frame = s.pending_side_band /\ c.frame # NoLeg /\ c.frame \in Leg
        /\ c.key.half = SealSideBand(s, c.frame).key.half
    BY <1>1, <1>3 DEF SealInv
  <2>2. SealSideBand(s, c.frame).key.half = SealSideBand(t, c.frame).key.half
    <3>1. CASE c.frame.kind \in {"ek", "ct"}  BY <2>1, <3>1, SealShape
    <3>2. CASE c.frame.kind \notin {"ek", "ct"}
      <4>1. s.recv_pq = 0 <=> t.recv_pq = 0  BY <1>3, <2>1, <3>2, HalfStays
      <4> QED  BY <2>1, <3>2, <4>1, SealShape
    <3> QED  BY <3>1, <3>2
  <2> QED  BY <1>3, <2>1, <2>2 DEF SealInv
<1>4. CASE d = SealSideBand(t, t.pending_side_band) /\ t.pending_side_band # NoLeg
  BY <1>1, <1>4, SealShape DEF SealInv
<1> QED  BY <1>2, <1>3, <1>4 DEF SealMove

\* What a ledger holds after a component of the current epoch or of the next one.
LEMMA Ledgered ==
    ASSUME NEW e \in Nat \ {0}
    PROVE  /\ LedgerAttachmentComponent(Last(AttachmentWindow, e), e) = Last(AttachmentWindow, e)
           /\ LedgerAttachmentComponent(Last(AttachmentWindow, e - 1), e) = Last(AttachmentWindow, e)
<1>1. AttachmentWindow \in Nat \ {0}  BY WindowsAssumption
<1>2. e \in Last(AttachmentWindow, e)  BY <1>1 DEF Last
<1>3. e - 1 \in Nat /\ (e - 1) + 1 = e  OBVIOUS
<1>4. /\ e \notin Last(AttachmentWindow, e - 1)
      /\ Newest(AttachmentWindow, Last(AttachmentWindow, e - 1) \cup {e}) = Last(AttachmentWindow, e)
  BY <1>1, <1>3, LastNext
<1> QED  BY <1>2, <1>4 DEF LedgerAttachmentComponent

\* A ledger never grows past its window, and gets no epoch but the recorded one.
LEMMA LedgerBounded ==
    ASSUME NEW S \in SUBSET Nat, NEW e \in Nat, \A x \in S : x <= e,
           Cardinality(S) <= AttachmentWindow
    PROVE  LET T == LedgerAttachmentComponent(S, e)
           IN  T \in SUBSET Nat /\ (\A x \in T : x <= e) /\ Cardinality(T) <= AttachmentWindow
<1>1. AttachmentWindow \in Nat  BY WindowsAssumption
<1>2. S \cup {e} \in SUBSET Nat /\ IsFiniteSet(S \cup {e}) /\ \A x \in S \cup {e} : x <= e
  BY FS_BoundedSetOfNaturals, FS_AddElement
<1>3. /\ Newest(AttachmentWindow, S \cup {e}) \subseteq S \cup {e}
      /\ Cardinality(Newest(AttachmentWindow, S \cup {e})) <= AttachmentWindow
  BY <1>1, <1>2, NewestBounded
<1> QED  BY <1>2, <1>3 DEF LedgerAttachmentComponent

\* The ledgers keep their invariant when the mirror takes epochs one by one.
LEMMA LedgerKept ==
    ASSUME NEW s \in SessionInner, NEW t \in SessionInner, NEW a, NEW b,
           LedgerInv(a, s), LedgerMove(s, t, a, b),
           t.recv_cl \in {s.recv_cl, s.recv_cl + 1}, t.send_cl >= s.send_cl
    PROVE  LedgerInv(b, t)
<1>1. s.send_cl \in Nat /\ t.send_cl \in Nat /\ s.recv_cl \in Nat /\ t.recv_cl \in Nat
  BY RoundFields
<1>2. a \in Ledgers /\ b \in Ledgers  BY DEF LedgerInv, LedgerMove
<1>3. a.send \in SUBSET Nat /\ a.exported \in BOOLEAN /\ b.exported \in BOOLEAN  BY <1>2 DEF Ledgers
<1>4. (\A x \in b.send : x <= t.send_cl) /\ Cardinality(b.send) <= AttachmentWindow
  <2>1. /\ b.send \in SUBSET Nat /\ \A x \in b.send : x <= s.send_cl
        /\ Cardinality(b.send) <= AttachmentWindow
    BY <1>1, <1>3, LedgerBounded DEF LedgerInv, LedgerMove
  <2>2. \A x \in b.send : x \in Nat  BY <2>1
  <2> QED  BY <1>1, <2>1, <2>2
<1> DEFINE L(e) == Last(AttachmentWindow, e)
<1>5. /\ a.recv = L(s.recv_cl) \/ (a.recv = L(s.recv_cl - 1) /\ ~a.exported)
      /\ a.exported => s.recv_cl > 0
  BY DEF LedgerInv
<1>6. (b.recv = L(t.recv_cl) \/ (b.recv = L(t.recv_cl - 1) /\ ~b.exported))
      /\ (b.exported => t.recv_cl > 0)
  <2>1. CASE b.recv = a.recv /\ b.exported = a.exported /\ t.recv_cl = s.recv_cl
    BY <1>5, <2>1
  <2>2. CASE b.recv = a.recv /\ b.exported = a.exported /\ s.recv_cl = 0 /\ t.recv_cl = 1
    <3>1. L(0) = {} /\ L(0 - 1) = {}  BY DEF Last
    <3>2. ~a.exported /\ a.recv = {}  BY <1>5, <2>2, <3>1
    <3>3. t.recv_cl - 1 = 0  BY <2>2
    <3> QED  BY <2>2, <3>1, <3>2, <3>3
  <2>3. CASE s.recv_cl > 0 /\ b.recv = LedgerAttachmentComponent(a.recv, s.recv_cl)
             /\ (t.recv_cl = s.recv_cl \/ ~b.exported)
    <3>1. b.recv = L(s.recv_cl)  BY <1>1, <1>5, <2>3, Ledgered
    <3>2. t.recv_cl = s.recv_cl \/ t.recv_cl - 1 = s.recv_cl  BY <1>1
    <3>3. t.recv_cl > 0  BY <1>1, <2>3
    <3> HIDE DEF L
    <3> QED  BY <2>3, <3>1, <3>2, <3>3
  <2> QED  BY <1>1, <2>1, <2>2, <2>3 DEF LedgerMove
<1> QED  BY <1>2, <1>4, <1>6 DEF LedgerInv

----------------------------------------------------------------------------
(* What the handlers of Session leave alone.                               *)

\* A selected candidate that the pool does not stage was deferred.
LEMMA StageDeferred ==
    ASSUME NEW s \in SessionInner, NEW selected \in Nat \ {0},
           selected \notin StageProposal(s, selected).staged_candidates
    PROVE  StageProposal(s, selected).deferred_candidate # 0
<1> DEFINE a == AdmitCandidate(s, selected)
           b == [a EXCEPT !.pending_proposal_hash = TRUE,
                          !.pending_proposal_message = [epoch |-> s.recv_cl, id |-> selected]]
<1>1. StageProposal(s, selected) = IF selected \notin a.staged_candidates THEN a ELSE RewrapSideBand(b)
  BY DEF StageProposal, Admitted
<1>2. /\ s.staged_candidates \cup {selected} \in SUBSET Nat
      /\ [epoch |-> s.recv_cl, id |-> selected] \in Offer
  BY SessionFields DEF Offer
<1>3. a \in SessionInner /\ (selected \notin a.staged_candidates => a.deferred_candidate # 0)
  BY <1>2 DEF AdmitCandidate, SessionInner
<1>4. b \in SessionInner /\ b.staged_candidates = a.staged_candidates
  <2> HIDE DEF a
  <2> QED  BY <1>2, <1>3 DEF SessionInner
<1> HIDE DEF a, b
<1>5. SameIds(b, RewrapSideBand(b))  BY <1>4, HelperIds
<1>6. selected \notin a.staged_candidates  BY <1>1, <1>4, <1>5 DEF SameIds
<1> QED  BY <1>1, <1>3, <1>6

\* A prepare moves neither PQ half nor the mirror; when it stops short of the proposal
\* it has made no commit or has deferred the candidate.
LEMMA PrepareLeaves ==
    ASSUME TypeOK, NEW p \in Party, NEW selected \in Ids, PrepareToEncrypt(p, selected)
    PROVE  LET s == session[p]
               t == session'[p]
           IN  /\ session'[Peer(p)] = session[Peer(p)]
               /\ t.send_pq = s.send_pq /\ t.recv_cl = s.recv_cl
               /\ selected # 0 /\ selected \notin t.staged_candidates =>
                     t.send_cl = s.send_cl \/ t.deferred_candidate # 0
<1> DEFINE s == session[p]
<1>1. session \in [Party -> SessionInner] /\ s \in SessionInner /\ selected \in Nat
      /\ Peer(p) \in Party /\ Peer(p) # p
  BY PeerType, BoundAssumption DEF TypeOK, Ids
<1>2. /\ session'[Peer(p)] = session[Peer(p)]
      /\ session'[p] = IF Joined(s) THEN PrepareRatchetCommit(s, selected)
                       ELSE PreparePreEstablishment(s)
  BY <1>1 DEF PrepareToEncrypt
<1>3. selected # 0 => Joined(s)  BY DEF PrepareToEncrypt
<1>4. ASSUME NEW u \in SessionInner
      PROVE  LET t == StageProposal(u, selected)
             IN  /\ t.send_pq = u.send_pq /\ t.recv_cl = u.recv_cl /\ t.send_cl = u.send_cl
                 /\ selected # 0 /\ selected \notin t.staged_candidates => t.deferred_candidate # 0
  BY <1>1, StageProposalRound, StageDeferred DEF SameRound, SamePq, SameEpochs
<1>5. CASE Joined(s) /\ ~DidCommit(s)
  <2>1. session'[p] = StageProposal(s, selected)  BY <1>2, <1>5 DEF PrepareRatchetCommit
  <2> QED  BY <1>1, <1>2, <1>4, <2>1
<1>6. CASE Joined(s) /\ DidCommit(s) /\ ~ReservationHolds(s)
  <2>1. session'[p] = FailedDischarge(s)  BY <1>2, <1>6 DEF PrepareRatchetCommit
  <2>2. /\ FailedDischarge(s).send_pq = s.send_pq /\ FailedDischarge(s).recv_cl = s.recv_cl
        /\ FailedDischarge(s).send_cl = s.send_cl
    BY <1>1 DEF FailedDischarge, SessionInner
  <2> QED  BY <1>2, <2>1, <2>2
<1>7. CASE Joined(s) /\ DidCommit(s) /\ ReservationHolds(s)
  <2> DEFINE u == DischargeAndCommit(s)
  <2>1. session'[p] = StageProposal(u, selected)  BY <1>2, <1>7 DEF PrepareRatchetCommit
  <2>2. u \in SessionInner  BY <1>1, DischargeType
  <2>3. u.send_pq = s.send_pq /\ u.recv_cl = s.recv_cl
    BY <1>1 DEF DischargeAndCommit, SessionInner
  <2> HIDE DEF u
  <2> QED  BY <1>2, <1>4, <2>1, <2>2, <2>3
<1>8. CASE ~Joined(s)
  <2> DEFINE u == [s EXCEPT !.pending_proposal_hash = TRUE, !.pending_proposal_message = NoOffer]
  <2>1. session'[p] = RewrapSideBand(u)  BY <1>2, <1>8 DEF PreparePreEstablishment
  <2>2. u \in SessionInner /\ u.send_pq = s.send_pq /\ u.recv_cl = s.recv_cl
    BY <1>1, AbsentTypes DEF SessionInner
  <2> HIDE DEF u
  <2>3. SameRound(u, RewrapSideBand(u)) /\ SameEpochs(u, RewrapSideBand(u))
    BY <2>2, RewrapRound
  <2> QED  BY <1>2, <1>3, <1>8, <2>1, <2>2, <2>3 DEF SameRound, SamePq, SameEpochs
<1> QED  BY <1>5, <1>6, <1>7, <1>8

\* Nor does encrypting or processing a frame move the PQ half of the send group.
LEMMA MessagingLeaves ==
    ASSUME TypeOK, NEW p \in Party,
           Encrypt(p) \/ ProcessIncoming(p) \/ ProcessIncomingWelcome(p) \/ QueueProposal(p)
    PROVE  session'[p].send_pq = session[p].send_pq
<1> DEFINE s == session[p]
<1>1. session \in [Party -> SessionInner] /\ s \in SessionInner /\ fresh \in Nat  BY DEF TypeOK
<1>2. ASSUME NEW t, session' = [session EXCEPT ![p] = t] PROVE session'[p] = t
  BY <1>1, <1>2
<1>3. CASE Encrypt(p)
  <2>1. CASE EncryptFrame(p)
    <3> DEFINE u == [s EXCEPT !.pending_proposal_hash = FALSE, !.pending_proposal_message = NoOffer]
               w == RewrapSideBand(u)
    <3>1. session'[p] = MaybeStageNextRound(w)
      BY <1>2, <2>1 DEF EncryptFrame, ComposeFrame, AfterEncrypt
    <3>2. u \in SessionInner /\ u.send_pq = s.send_pq  BY <1>1, AbsentTypes DEF SessionInner
    <3> HIDE DEF u
    <3>3. w \in SessionInner /\ w.send_pq = u.send_pq
      BY <3>2, RewrapType, RewrapRound DEF SameRound, SamePq
    <3> HIDE DEF w
    <3>4. MaybeStageNextRound(w).send_pq = w.send_pq
      BY <3>3 DEF MaybeStageNextRound, StageRatchet, StageRekey, SessionInner
    <3> QED  BY <3>1, <3>2, <3>3, <3>4
  <2>2. CASE EncryptWithoutProposal(p)
    <3>1. session'[p] = [s EXCEPT !.pending_proposal_hash = FALSE]
      BY <1>1, <2>2 DEF EncryptWithoutProposal
    <3> QED  BY <1>1, <3>1 DEF SessionInner
  <2> QED  BY <1>3, <2>1, <2>2 DEF Encrypt
<1>4. CASE ProcessIncoming(p)
  <2>1. PICK f \in frames : ProcessIncomingFrame(p, f)  BY <1>4 DEF ProcessIncoming
  <2>2. f.staple \in Staple /\ f.offer \in Offer  BY DEF TypeOK, Frame
  <2> DEFINE u == ProcessStaple(s, f.staple)
  <2>3. session'[p] = u \/ session'[p] = RecordOffer(u, f.offer)
    BY <1>1, <2>1 DEF ProcessIncomingFrame, ProcessFrame
  <2>4. u \in SessionInner  BY <1>1, <2>2, ProcessStapleType
  <2>5. u.send_pq = s.send_pq
    <3>1. \A v \in SessionInner : LeafChanges(v, f.staple).send_pq = v.send_pq
      BY <2>2, ReaderUntouched DEF Untouched, SameRound, SamePq
    <3>2. CASE u = ProcessWelcome(s)  BY <1>1, <3>2 DEF ProcessWelcome, SessionInner
    <3>3. CASE u = s  BY <3>3
    <3>4. CASE u = ApplyCommit(s, f.staple)
      <4> DEFINE v == [s EXCEPT !.recv_cl = s.recv_cl + 1]
      <4>1. v \in SessionInner /\ v.send_pq = s.send_pq
        <5>1. s.recv_cl + 1 \in Nat  BY <1>1, SessionFields
        <5> QED  BY <1>1, <5>1 DEF SessionInner
      <4>2. u = LeafChanges(v, f.staple)  BY <3>4 DEF ApplyCommit
      <4> HIDE DEF v, u
      <4> QED  BY <3>1, <4>1, <4>2
    <3>5. CASE u = ApplyBind(s, f.staple)
      <4> DEFINE e == IF ReExports(s) THEN s.send_pq ELSE s.last_send_pq_exported
                 rp == IF PqCommitOpens(s, f.staple) THEN s.recv_pq + 1 ELSE s.recv_pq
                 rc == IF PairApplies(s, f.staple) THEN s.recv_cl + 1 ELSE s.recv_cl
                 v == [s EXCEPT !.pq_inflight = Idle, !.last_send_pq_exported = e,
                                !.recv_pq = rp, !.recv_cl = rc]
                 w == [v EXCEPT !.pq_turn_mine = TRUE, !.pending_side_band = NoLeg]
      <4>1. e \in Nat /\ rp \in Nat /\ rc \in Nat  BY <1>1, SessionFields
      <4>2. u = IF BindOpens(s, f.staple) THEN LeafChanges(w, f.staple)
                ELSE [v EXCEPT !.bind_apply_broken = TRUE]
        BY <3>5 DEF ApplyBind
      <4> HIDE DEF e, rp, rc
      <4>3. v \in SessionInner /\ v.send_pq = s.send_pq
        BY <1>1, <4>1, InflightTypes DEF SessionInner
      <4> HIDE DEF v
      <4>4. w \in SessionInner /\ w.send_pq = s.send_pq
            /\ [v EXCEPT !.bind_apply_broken = TRUE].send_pq = s.send_pq
        BY <4>3 DEF SessionInner
      <4> HIDE DEF w, u
      <4> QED  BY <3>1, <4>2, <4>4
    <3> QED  BY <3>2, <3>3, <3>4, <3>5 DEF ProcessStaple
  <2>6. RecordOffer(u, f.offer).send_pq = u.send_pq
    <3> HIDE DEF u
    <3> QED  BY <2>2, <2>4, ReaderUntouched DEF Untouched, SameRound, SamePq
  <2> QED  BY <2>3, <2>5, <2>6
<1>5. CASE ProcessIncomingWelcome(p)
  BY <1>1, <1>5 DEF ProcessIncomingWelcome, ProcessWelcome, SessionInner
<1>6. CASE QueueProposal(p)
  <2>1. session'[p] = [s EXCEPT !.queued_proposal = s.offered_proposal, !.offered_proposal = NoOffer]
    BY <1>1, <1>6 DEF QueueProposal
  <2> QED  BY <1>1, <2>1 DEF SessionInner
<1> QED  BY <1>3, <1>4, <1>5, <1>6

\* Nor does handing out a parked frame or opening the bootstrap.
LEMMA OutboundLeaves ==
    ASSUME TypeOK, NEW p \in Party,
           \/ PqPendingOutbound(p) \/ PqTakePendingOutbound(p)
           \/ PqBootstrapBegin(p) \/ PqBootstrapEnvelope(p)
    PROVE  session'[p].send_pq = session[p].send_pq /\ session'[p].recv_pq = session[p].recv_pq
<1>1. session \in [Party -> SessionInner] /\ session[p] \in SessionInner  BY DEF TypeOK
<1>2. CASE PqPendingOutbound(p)  BY <1>2 DEF PqPendingOutbound
<1>3. CASE PqTakePendingOutbound(p)
  BY <1>1, <1>3 DEF PqTakePendingOutbound, SessionInner
<1>4. CASE PqBootstrapBegin(p) \/ PqBootstrapEnvelope(p)
  <2>1. session'[p] = RegisterBootstrapRound(session[p])
    BY <1>1, <1>4 DEF PqBootstrapBegin, PqBootstrapEnvelope
  <2> QED  BY <1>1, <2>1 DEF RegisterBootstrapRound, SessionInner
<1> QED  BY <1>2, <1>3, <1>4

----------------------------------------------------------------------------
(* The handlers with what they record.                                     *)

\* A handler of Session that p runs.
Handler(p) ==
    \/ \E selected \in Ids : PrepareToEncrypt(p, selected)
    \/ Encrypt(p) \/ ProcessIncoming(p) \/ ProcessIncomingWelcome(p) \/ QueueProposal(p)
    \/ PqPendingOutbound(p) \/ PqTakePendingOutbound(p)
    \/ PqBootstrapBegin(p) \/ PqBootstrapEnvelope(p)
    \/ ProcessSideBand(p)

\* The windows only watch: every step is one of Session's, or leaves its variables alone.
LEMMA WindowsWatch ==
    ASSUME NEW p \in Party,
           \/ Prepare(p) \/ SealedEncrypt(p)
           \/ ReceiveFrame(p) \/ ReceiveWelcome(p) \/ Approve(p)
           \/ HandOutStable(p) \/ HandOutFresh(p) \/ TakeOut(p)
           \/ BeginBootstrap(p) \/ BeginEnvelope(p) \/ SideBand(p)
           \/ ShouldListenOn(p)
           \/ ExportAttachmentCekRecv(p) \/ ExportAttachmentCekSend(p)
    PROVE  Handler(p) \/ UNCHANGED vars
<1>1. CASE Prepare(p)  BY <1>1 DEF Prepare, Handler
<1>2. CASE SealedEncrypt(p) \/ ReceiveFrame(p) \/ ReceiveWelcome(p) \/ Approve(p)
  BY <1>2 DEF SealedEncrypt, ReceiveFrame, ReceiveWelcome, Approve, Handler
<1>3. CASE HandOutStable(p) \/ HandOutFresh(p) \/ TakeOut(p)
  BY <1>3 DEF HandOutStable, HandOutFresh, TakeOut, Handler
<1>4. CASE BeginBootstrap(p) \/ BeginEnvelope(p) \/ SideBand(p)
  BY <1>4 DEF BeginBootstrap, BeginEnvelope, SideBand, Handler
<1>5. CASE ShouldListenOn(p) \/ ExportAttachmentCekRecv(p) \/ ExportAttachmentCekSend(p)
  BY <1>5 DEF ShouldListenOn, ExportAttachmentCekRecv, ExportAttachmentCekSend, vars
<1> QED  BY <1>1, <1>2, <1>3, <1>4, <1>5

LEMMA HandlerIsNext ==
    ASSUME NEW p \in Party, Handler(p)
    PROVE  Next
  BY DEF Handler, Next, ProcessSideBand

LEMMA WNextIsNext == [WNext]_wvars => [Next]_vars
<1>1. CASE WNext  BY <1>1, WindowsWatch, HandlerIsNext DEF WNext
<1>2. CASE UNCHANGED wvars  BY <1>2 DEF wvars, vars
<1> QED  BY <1>1, <1>2

\* What such a step does to the classical halves and to the round.
LEMMA HandlerMoves ==
    ASSUME TypeOK, InStep, CrossInStep, RoundsInStep, NEW p \in Party, Handler(p) \/ UNCHANGED vars
    PROVE  StepMove(p) /\ RoundMove(p)
<1>1. CASE \E selected \in Ids : PrepareToEncrypt(p, selected)
  BY <1>1, PrepareMove, RoundMessaging
<1>2. CASE Encrypt(p) \/ ProcessIncoming(p) \/ ProcessIncomingWelcome(p) \/ QueueProposal(p)
  BY <1>2, EncryptMove, ProcessMove, WelcomeMove, QueueMove, RoundMessaging
<1>3. CASE \/ PqPendingOutbound(p) \/ PqTakePendingOutbound(p)
           \/ PqBootstrapBegin(p) \/ PqBootstrapEnvelope(p) \/ ProcessSideBand(p)
  <2>1. RoundMove(p)  BY <1>3, RoundOutbound, RoundSideBand
  <2>2. StepMove(p)  BY <1>3, SideBandActionSame, QuietMove
  <2> QED  BY <2>1, <2>2
<1>4. CASE UNCHANGED vars
  <2>1. session' = session /\ frames' = frames /\ legs' = legs /\ fresh' = fresh  BY <1>4 DEF vars
  <2>2. StepMove(p)
    <3>1. SameClassical(session[p], session'[p]) /\ session'[Peer(p)] = session[Peer(p)]
      BY <2>1 DEF SameClassical
    <3> QED  BY <2>1, <3>1, QuietMove
  <2>3. RoundMove(p)
    <3>1. InRound(session[p], session[Peer(p)], fresh) /\ session[p] \in SessionInner  BY RoundOf
    <3>2. session[p].send_pq \in Nat /\ session[p].recv_pq \in Nat  BY <3>1, RoundFields
    <3>3. RoundStep(session[p], session[p], session[Peer(p)], fresh, fresh)
      BY <3>1, <3>2 DEF RoundStep
    <3> QED  BY <2>1, <3>3 DEF RoundMove
  <2> QED  BY <2>2, <2>3
<1> QED  BY <1>1, <1>2, <1>3, <1>4 DEF Handler

\* A step of p in terms of the records: the peer's stay, its own move as above.
WindowsMove(p) ==
    /\ keys' \in [Party -> Keys] /\ ledger' \in [Party -> Ledgers]
    /\ seal' \in [Party -> Seals \cup {NoSeal}]
    /\ keys'[Peer(p)] = keys[Peer(p)] /\ seal'[Peer(p)] = seal[Peer(p)]
    /\ ledger'[Peer(p)] = ledger[Peer(p)]
    /\ KeysMove(session[p], session'[p], keys[p], keys'[p])
    /\ SealMove(session[p], session'[p], seal[p], seal'[p])
    /\ LedgerMove(session[p], session'[p], ledger[p], ledger'[p])

\* Records that stay.
LEMMA Stays ==
    ASSUME WindowsTypes, NEW p \in Party
    PROVE  /\ UNCHANGED keys /\ session'[p].send_cl = session[p].send_cl
                 /\ session'[p].send_pq = session[p].send_pq =>
              /\ keys' \in [Party -> Keys] /\ keys'[Peer(p)] = keys[Peer(p)]
              /\ KeysMove(session[p], session'[p], keys[p], keys'[p])
           /\ UNCHANGED seal /\ session'[p].pending_side_band = session[p].pending_side_band =>
              /\ seal' \in [Party -> Seals \cup {NoSeal}] /\ seal'[Peer(p)] = seal[Peer(p)]
              /\ SealMove(session[p], session'[p], seal[p], seal'[p])
           /\ UNCHANGED ledger /\ session'[p].recv_cl = session[p].recv_cl =>
              /\ ledger' \in [Party -> Ledgers] /\ ledger'[Peer(p)] = ledger[Peer(p)]
              /\ LedgerMove(session[p], session'[p], ledger[p], ledger'[p])
<1>1. keys[p] \in Keys /\ ledger[p] \in Ledgers  BY DEF WindowsTypes
<1> QED  BY <1>1 DEF WindowsTypes, KeysMove, SealMove, LedgerMove

\* The seal that follows the slot.
LEMMA SealFollows ==
    ASSUME WindowsTypes, NEW p \in Party, SealFollowsSlot(p)
    PROVE  /\ seal' \in [Party -> Seals \cup {NoSeal}] /\ seal'[Peer(p)] = seal[Peer(p)]
           /\ SealMove(session[p], session'[p], seal[p], seal'[p])
<1>1. Peer(p) \in Party /\ Peer(p) # p  BY PeerType
<1> DEFINE d == IF session'[p].pending_side_band = session[p].pending_side_band
                THEN seal[p] ELSE NoSeal
<1>2. seal' = [seal EXCEPT ![p] = d]  BY DEF SealFollowsSlot
<1>3. d \in Seals \cup {NoSeal}  BY DEF WindowsTypes
<1>4. seal' \in [Party -> Seals \cup {NoSeal}] /\ seal'[p] = d /\ seal'[Peer(p)] = seal[Peer(p)]
  <2> HIDE DEF d
  <2> QED  BY <1>1, <1>2, <1>3 DEF WindowsTypes
<1> QED  BY <1>4 DEF SealMove

\* Recording in the keys of p.
LEMMA KeysUpdate ==
    ASSUME WindowsTypes, NEW p \in Party, NEW l \in Keys, keys' = [keys EXCEPT ![p] = l]
    PROVE  keys' \in [Party -> Keys] /\ keys'[p] = l /\ keys'[Peer(p)] = keys[Peer(p)]
<1>1. Peer(p) \in Party /\ Peer(p) # p  BY PeerType
<1> QED  BY <1>1 DEF WindowsTypes

\* prepare_to_encrypt.
LEMMA PrepareWindows ==
    ASSUME TypeOK, TypeOK', WindowsTypes, NEW p \in Party, Prepare(p)
    PROVE  WindowsMove(p)
<1> DEFINE s == session[p]
           t == session'[p]
<1>1. PICK selected \in Ids :
          /\ PrepareToEncrypt(p, selected)
          /\ keys' = IF selected # 0 /\ selected \notin session'[p].staged_candidates THEN keys
                     ELSE [keys EXCEPT ![p] = RecordListenRendezvous(@, session'[p].send_cl)]
  BY DEF Prepare
<1>2. /\ t.send_pq = s.send_pq /\ t.recv_cl = s.recv_cl
      /\ selected # 0 /\ selected \notin t.staged_candidates =>
            t.send_cl = s.send_cl \/ t.deferred_candidate # 0
  BY <1>1, PrepareLeaves
<1>3. t \in SessionInner /\ t.send_cl \in Nat /\ keys[p] \in Keys
  BY RoundFields DEF TypeOK, WindowsTypes
<1>4. /\ keys' \in [Party -> Keys] /\ keys'[Peer(p)] = keys[Peer(p)]
      /\ KeysMove(s, t, keys[p], keys'[p])
  <2>1. CASE selected # 0 /\ selected \notin t.staged_candidates
    BY <1>1, <1>2, <1>3, <2>1 DEF KeysMove, WindowsTypes
  <2>2. CASE ~(selected # 0 /\ selected \notin t.staged_candidates)
    <3> DEFINE l == RecordListenRendezvous(keys[p], t.send_cl)
    <3>1. l \in Keys /\ l.pq = keys[p].pq  BY <1>3, RecordedKeys
    <3>2. keys' = [keys EXCEPT ![p] = l]  BY <1>1, <2>2
    <3> HIDE DEF l
    <3>3. keys' \in [Party -> Keys] /\ keys'[p] = l /\ keys'[Peer(p)] = keys[Peer(p)]
      BY <3>1, <3>2, KeysUpdate
    <3> QED  BY <1>2, <3>1, <3>3 DEF KeysMove, l
  <2> QED  BY <2>1, <2>2
<1>5. SealFollowsSlot(p) /\ UNCHANGED ledger  BY DEF Prepare
<1> QED  BY <1>2, <1>4, <1>5, SealFollows, Stays DEF WindowsMove

\* encrypt.
LEMMA EncryptWindows ==
    ASSUME TypeOK, WindowsTypes, NEW p \in Party, SealedEncrypt(p)
    PROVE  WindowsMove(p)
<1>1. Encrypt(p) /\ SealFollowsSlot(p) /\ UNCHANGED keys /\ UNCHANGED ledger  BY DEF SealedEncrypt
<1>2. session'[p].send_pq = session[p].send_pq  BY <1>1, MessagingLeaves
<1>3. session'[p].send_cl = session[p].send_cl /\ session'[p].recv_cl = session[p].recv_cl
  BY <1>1, EncryptSame DEF SameClassical
<1> QED  BY <1>1, <1>2, <1>3, SealFollows, Stays DEF WindowsMove

\* A ledger that gets a component keeps its type.
LEMMA LedgerType ==
    ASSUME NEW a \in Ledgers, NEW e \in Nat
    PROVE  /\ LedgerAttachmentComponent(a.send, e) \in SUBSET Nat
           /\ LedgerAttachmentComponent(a.recv, e) \in SUBSET Nat
<1>1. a.send \in SUBSET Nat /\ a.recv \in SUBSET Nat  BY DEF Ledgers
<1> QED  BY <1>1 DEF LedgerAttachmentComponent, Newest

LEMMA RecvUpdate ==
    ASSUME WindowsTypes, NEW p \in Party, NEW S \in SUBSET Nat, NEW x \in BOOLEAN,
           ledger' = [ledger EXCEPT ![p].recv = S, ![p].exported = x]
    PROVE  /\ ledger' \in [Party -> Ledgers] /\ ledger'[Peer(p)] = ledger[Peer(p)]
           /\ ledger'[p] \in Ledgers /\ ledger'[p].send = ledger[p].send
           /\ ledger'[p].recv = S /\ ledger'[p].exported = x
<1>1. Peer(p) \in Party /\ Peer(p) # p  BY PeerType
<1>2. ledger \in [Party -> Ledgers]  BY DEF WindowsTypes
<1> DEFINE b == [ledger[p] EXCEPT !.recv = S, !.exported = x]
<1>3. b \in Ledgers /\ b.send = ledger[p].send /\ b.recv = S /\ b.exported = x
  BY <1>2 DEF Ledgers
<1>4. ledger' = [ledger EXCEPT ![p] = b]  BY <1>2
<1> HIDE DEF b
<1> QED  BY <1>1, <1>2, <1>3, <1>4

LEMMA SendUpdate ==
    ASSUME WindowsTypes, NEW p \in Party, NEW S \in SUBSET Nat,
           ledger' = [ledger EXCEPT ![p].send = S]
    PROVE  /\ ledger' \in [Party -> Ledgers] /\ ledger'[Peer(p)] = ledger[Peer(p)]
           /\ ledger'[p] \in Ledgers /\ ledger'[p].send = S
           /\ ledger'[p].recv = ledger[p].recv /\ ledger'[p].exported = ledger[p].exported
<1>1. Peer(p) \in Party /\ Peer(p) # p  BY PeerType
<1>2. ledger \in [Party -> Ledgers]  BY DEF WindowsTypes
<1> DEFINE b == [ledger[p] EXCEPT !.send = S]
<1>3. /\ b \in Ledgers /\ b.send = S /\ b.recv = ledger[p].recv
      /\ b.exported = ledger[p].exported
  BY <1>2 DEF Ledgers
<1>4. ledger' = [ledger EXCEPT ![p] = b]  BY <1>2
<1> HIDE DEF b
<1> QED  BY <1>1, <1>2, <1>3, <1>4

\* process_incoming.
LEMMA ReceiveWindows ==
    ASSUME TypeOK, InStep, WindowsTypes, NEW p \in Party, ReceiveFrame(p)
    PROVE  WindowsMove(p)
<1> DEFINE s == session[p]
           t == session'[p]
<1>1. /\ ProcessIncoming(p) /\ SealFollowsSlot(p) /\ UNCHANGED keys
      /\ ledger' = RememberRecvAttachmentComponent(p)
  BY DEF ReceiveFrame
<1>2. t.send_pq = s.send_pq  BY <1>1, MessagingLeaves
<1>3. s \in SessionInner /\ s.recv_cl \in Nat /\ ledger[p] \in Ledgers
  BY RoundFields DEF TypeOK, WindowsTypes
<1>4. t.send_cl = s.send_cl
  <2>1. CrossMove(p)  BY <1>1, ProcessCross
  <2>2. PICK f \in frames : ProcessIncomingFrame(p, f)  BY <1>1 DEF ProcessIncoming
  <2>3. f.staple \in Staple /\ f.offer \in Offer /\ session \in [Party -> SessionInner]
    BY DEF TypeOK, Frame
  <2> DEFINE u == ProcessStaple(s, f.staple)
  <2>4. t = u \/ t = RecordOffer(u, f.offer)
    BY <2>2, <2>3 DEF ProcessIncomingFrame, ProcessFrame
  <2>5. u \in SessionInner /\ u.send_cl = s.send_cl
    BY <1>3, <2>3, ProcessStapleType, ProcessStapleMove
  <2> HIDE DEF u
  <2>6. RecordOffer(u, f.offer).send_cl = u.send_cl
    BY <2>3, <2>5, ReaderUntouched DEF Untouched, SameEpochs
  <2> QED  BY <2>4, <2>5, <2>6
<1>5. t.recv_cl = s.recv_cl \/ t.recv_cl = s.recv_cl + 1
  BY <1>1, ProcessMove DEF StepMove, ReaderMove
<1>6. /\ ledger' \in [Party -> Ledgers] /\ ledger'[Peer(p)] = ledger[Peer(p)]
      /\ LedgerMove(s, t, ledger[p], ledger'[p])
  <2>1. CASE s.recv_cl > 0 /\ t.recv_cl > s.recv_cl
    <3> DEFINE S == LedgerAttachmentComponent(ledger[p].recv, s.recv_cl)
    <3>1. S \in SUBSET Nat  BY <1>3, LedgerType
    <3>2. ledger' = [ledger EXCEPT ![p].recv = S, ![p].exported = FALSE]
      BY <1>1, <2>1 DEF RememberRecvAttachmentComponent, Joined
    <3> HIDE DEF S
    <3>3. /\ ledger' \in [Party -> Ledgers] /\ ledger'[Peer(p)] = ledger[Peer(p)]
          /\ ledger'[p] \in Ledgers /\ ledger'[p].send = ledger[p].send
          /\ ledger'[p].recv = S /\ ledger'[p].exported = FALSE
      BY <3>1, <3>2, RecvUpdate
    <3> QED  BY <2>1, <3>3 DEF LedgerMove, S
  <2>2. CASE ~(s.recv_cl > 0 /\ t.recv_cl > s.recv_cl)
    <3>1. ledger' = ledger  BY <1>1, <2>2 DEF RememberRecvAttachmentComponent, Joined
    <3>2. t.recv_cl = s.recv_cl \/ s.recv_cl = 0  BY <1>3, <1>5, <2>2
    <3> QED  BY <1>3, <3>1, <3>2 DEF LedgerMove, WindowsTypes
  <2> QED  BY <2>1, <2>2
<1> QED  BY <1>1, <1>2, <1>4, <1>6, SealFollows, Stays DEF WindowsMove

\* The bare return welcome, and the host's approval of an offer.
LEMMA WelcomeWindows ==
    ASSUME TypeOK, WindowsTypes, NEW p \in Party, ReceiveWelcome(p) \/ Approve(p)
    PROVE  WindowsMove(p)
<1> DEFINE s == session[p]
           t == session'[p]
<1>1. /\ ProcessIncomingWelcome(p) \/ QueueProposal(p)
      /\ UNCHANGED keys /\ UNCHANGED seal /\ UNCHANGED ledger
  BY DEF ReceiveWelcome, Approve
<1>2. t.send_pq = s.send_pq  BY <1>1, MessagingLeaves
<1>3. session \in [Party -> SessionInner] /\ s \in SessionInner /\ s.recv_cl \in Nat
  BY RoundFields DEF TypeOK
<1>4. CASE ProcessIncomingWelcome(p)
  <2>1. t = [s EXCEPT !.recv_cl = 1] /\ ~(s.recv_cl > 0)
    BY <1>3, <1>4 DEF ProcessIncomingWelcome, ProcessWelcome, Joined
  <2>2. t.send_cl = s.send_cl /\ t.pending_side_band = s.pending_side_band /\ s.recv_cl = 0
    BY <1>3, <2>1 DEF SessionInner
  <2>3. /\ ledger' \in [Party -> Ledgers] /\ ledger'[Peer(p)] = ledger[Peer(p)]
        /\ LedgerMove(s, t, ledger[p], ledger'[p])
    BY <1>1, <2>2 DEF LedgerMove, WindowsTypes
  <2> QED  BY <1>1, <1>2, <2>2, <2>3, Stays DEF WindowsMove
<1>5. CASE QueueProposal(p)
  <2>1. t = [s EXCEPT !.queued_proposal = s.offered_proposal, !.offered_proposal = NoOffer]
    BY <1>3, <1>5 DEF QueueProposal
  <2>2. /\ t.send_cl = s.send_cl /\ t.pending_side_band = s.pending_side_band
        /\ t.recv_cl = s.recv_cl
    BY <1>3, <2>1 DEF SessionInner
  <2> QED  BY <1>1, <1>2, <2>2, Stays DEF WindowsMove
<1> QED  BY <1>1, <1>4, <1>5

\* Updating p's seal.
LEMMA SealUpdate ==
    ASSUME WindowsTypes, NEW p \in Party, NEW d \in Seals \cup {NoSeal},
           seal' = [seal EXCEPT ![p] = d]
    PROVE  /\ seal' \in [Party -> Seals \cup {NoSeal}] /\ seal'[p] = d
           /\ seal'[Peer(p)] = seal[Peer(p)]
<1>1. Peer(p) \in Party /\ Peer(p) # p  BY PeerType
<1> QED  BY <1>1 DEF WindowsTypes

\* Handing out the parked frame, and the two ways to open the bootstrap.
LEMMA OutboundWindows ==
    ASSUME TypeOK, TypeOK', WindowsTypes, NEW p \in Party,
           \/ HandOutStable(p) \/ HandOutFresh(p) \/ TakeOut(p)
           \/ BeginBootstrap(p) \/ BeginEnvelope(p)
    PROVE  WindowsMove(p)
<1> DEFINE s == session[p]
           t == session'[p]
<1>1. /\ \/ PqPendingOutbound(p) \/ PqTakePendingOutbound(p)
         \/ PqBootstrapBegin(p) \/ PqBootstrapEnvelope(p)
      /\ UNCHANGED keys /\ UNCHANGED ledger
  BY DEF HandOutStable, HandOutFresh, TakeOut, BeginBootstrap, BeginEnvelope
<1>2. t.send_pq = s.send_pq /\ t.recv_pq = s.recv_pq  BY <1>1, OutboundLeaves
<1>3. t.send_cl = s.send_cl /\ t.recv_cl = s.recv_cl
  BY <1>1, SideBandActionSame DEF SameClassical
<1>4. session \in [Party -> SessionInner] /\ s \in SessionInner  BY DEF TypeOK
<1>5. /\ seal' \in [Party -> Seals \cup {NoSeal}] /\ seal'[Peer(p)] = seal[Peer(p)]
      /\ SealMove(s, t, seal[p], seal'[p])
  <2>1. CASE HandOutStable(p)
    <3>1. t = s /\ s.pending_side_band # NoLeg /\ s.pending_side_band \in Leg
      BY <1>4, <2>1, SessionFields DEF HandOutStable, PqPendingOutbound
    <3>2. HandOut(p) = seal[p] \/ HandOut(p) = SealSideBand(s, s.pending_side_band)
      BY DEF HandOut
    <3>3. HandOut(p) \in Seals \cup {NoSeal}
      BY <1>4, <3>1, <3>2, SealShape DEF WindowsTypes
    <3>4. seal' = [seal EXCEPT ![p] = HandOut(p)]  BY <2>1 DEF HandOutStable
    <3>5. /\ seal' \in [Party -> Seals \cup {NoSeal}] /\ seal'[p] = HandOut(p)
          /\ seal'[Peer(p)] = seal[Peer(p)]
      BY <3>3, <3>4, SealUpdate
    <3> QED  BY <3>1, <3>2, <3>5 DEF SealMove
  <2>2. CASE HandOutFresh(p)
    <3>1. t = s /\ UNCHANGED seal  BY <2>2 DEF HandOutFresh, PqPendingOutbound
    <3> QED  BY <3>1, Stays
  <2>3. CASE TakeOut(p) \/ BeginEnvelope(p)
    BY <2>3, SealFollows DEF TakeOut, BeginEnvelope
  <2>4. CASE BeginBootstrap(p)
    <3>1. t = RegisterBootstrapRound(s) /\ seal' = [seal EXCEPT ![p] = SealSideBand(s, KpLeg)]
      BY <1>4, <2>4 DEF BeginBootstrap, PqBootstrapBegin
    <3>2. t.pending_side_band = KpLeg
      BY <1>4, <3>1 DEF RegisterBootstrapRound, SessionInner
    <3>3. KpLeg \in Leg /\ KpLeg # NoLeg  BY LegTypes DEF KpLeg, NoLeg
    <3>4. SealSideBand(s, KpLeg) \in Seals  BY <1>4, <3>3, SealShape
    <3>5. SealSideBand(s, KpLeg) = SealSideBand(t, KpLeg)  BY <1>2, <1>3 DEF SealSideBand
    <3>6. /\ seal' \in [Party -> Seals \cup {NoSeal}] /\ seal'[p] = SealSideBand(s, KpLeg)
          /\ seal'[Peer(p)] = seal[Peer(p)]
      BY <3>1, <3>4, SealUpdate
    <3> QED  BY <3>2, <3>3, <3>5, <3>6 DEF SealMove
  <2> QED  BY <2>1, <2>2, <2>3, <2>4
<1> QED  BY <1>1, <1>2, <1>3, <1>5, Stays DEF WindowsMove

\* The side-band handlers.
LEMMA SideBandWindows ==
    ASSUME TypeOK, TypeOK', WindowsTypes, NEW p \in Party, SideBand(p)
    PROVE  WindowsMove(p)
<1> DEFINE s == session[p]
           t == session'[p]
           l == RecordPqHeaderKey(keys[p], t.send_pq)
<1>1. /\ ProcessSideBand(p) /\ SealFollowsSlot(p) /\ UNCHANGED ledger
      /\ keys' = [keys EXCEPT ![p] = l]
  BY DEF SideBand
<1>2. t.send_cl = s.send_cl /\ t.recv_cl = s.recv_cl
  BY <1>1, SideBandActionSame DEF SameClassical
<1>3. t.send_pq \in Nat /\ keys[p] \in Keys  BY RoundFields DEF TypeOK, WindowsTypes
<1>4. l \in Keys /\ l.listen = keys[p].listen  BY <1>3, RecordedKeys
<1> HIDE DEF l
<1>5. keys' \in [Party -> Keys] /\ keys'[p] = l /\ keys'[Peer(p)] = keys[Peer(p)]
  BY <1>1, <1>4, KeysUpdate
<1>6. KeysMove(s, t, keys[p], keys'[p])  BY <1>2, <1>4, <1>5 DEF KeysMove, l
<1> QED  BY <1>1, <1>2, <1>5, <1>6, SealFollows, Stays DEF WindowsMove

\* should_listen_on.
LEMMA ListenWindows ==
    ASSUME TypeOK, WindowsTypes, NEW p \in Party, ShouldListenOn(p)
    PROVE  WindowsMove(p)
<1> DEFINE s == session[p]
           k == RecordListenRendezvous(keys[p], s.send_cl)
           l == RecordPqHeaderKey(k, s.send_pq)
<1>1. /\ session' = session /\ UNCHANGED seal /\ UNCHANGED ledger
      /\ keys' = [keys EXCEPT ![p] = l]
  BY DEF ShouldListenOn
<1>2. s.send_pq \in Nat /\ s.send_cl \in Nat /\ keys[p] \in Keys
  BY RoundFields DEF TypeOK, WindowsTypes
<1>3. k \in Keys /\ k.pq = keys[p].pq  BY <1>2, RecordedKeys
<1>4. l \in Keys /\ l.listen = k.listen
  <2> HIDE DEF k
  <2> QED  BY <1>2, <1>3, RecordedKeys
<1>5. l.pq = RecordPqHeaderKey(keys[p], s.send_pq).pq
  <2> HIDE DEF k
  <2>1. l.pq = IF s.send_pq = 0 \/ s.send_pq \in k.pq THEN k.pq
               ELSE Newest(PqHeaderWindow, k.pq \cup {s.send_pq})
    BY <1>2, <1>3, RecordedPq
  <2> HIDE DEF l
  <2> QED  BY <1>2, <1>3, <2>1, RecordedPq
<1> HIDE DEF l
<1>6. keys' \in [Party -> Keys] /\ keys'[p] = l /\ keys'[Peer(p)] = keys[Peer(p)]
  BY <1>1, <1>4, KeysUpdate
<1>7. KeysMove(s, s, keys[p], l)  BY <1>4, <1>5 DEF KeysMove
<1> QED  BY <1>1, <1>6, <1>7, Stays DEF WindowsMove

\* The exports of attachment components.
LEMMA ExportWindows ==
    ASSUME TypeOK, WindowsTypes, NEW p \in Party,
           ExportAttachmentCekRecv(p) \/ ExportAttachmentCekSend(p)
    PROVE  WindowsMove(p)
<1> DEFINE s == session[p]
<1>1. session' = session /\ UNCHANGED keys /\ UNCHANGED seal
  BY DEF ExportAttachmentCekRecv, ExportAttachmentCekSend
<1>2. s.recv_cl \in Nat /\ s.send_cl \in Nat /\ ledger[p] \in Ledgers
  BY RoundFields DEF TypeOK, WindowsTypes
<1>3. /\ ledger' \in [Party -> Ledgers] /\ ledger'[Peer(p)] = ledger[Peer(p)]
      /\ LedgerMove(s, s, ledger[p], ledger'[p])
  <2>1. CASE ExportAttachmentCekRecv(p)
    <3> DEFINE S == LedgerAttachmentComponent(ledger[p].recv, s.recv_cl)
    <3>1. S \in SUBSET Nat  BY <1>2, LedgerType
    <3>2. s.recv_cl > 0 /\ ledger' = [ledger EXCEPT ![p].recv = S, ![p].exported = TRUE]
      BY <2>1 DEF ExportAttachmentCekRecv, Joined
    <3> HIDE DEF S
    <3>3. /\ ledger' \in [Party -> Ledgers] /\ ledger'[Peer(p)] = ledger[Peer(p)]
          /\ ledger'[p] \in Ledgers /\ ledger'[p].send = ledger[p].send
          /\ ledger'[p].recv = S /\ ledger'[p].exported = TRUE
      BY <3>1, <3>2, RecvUpdate
    <3> QED  BY <3>2, <3>3 DEF LedgerMove, S
  <2>2. CASE ExportAttachmentCekSend(p)
    <3> DEFINE S == LedgerAttachmentComponent(ledger[p].send, s.send_cl)
    <3>1. S \in SUBSET Nat  BY <1>2, LedgerType
    <3>2. ledger' = [ledger EXCEPT ![p].send = S]  BY <2>2 DEF ExportAttachmentCekSend
    <3> HIDE DEF S
    <3>3. /\ ledger' \in [Party -> Ledgers] /\ ledger'[Peer(p)] = ledger[Peer(p)]
          /\ ledger'[p] \in Ledgers /\ ledger'[p].send = S
          /\ ledger'[p].recv = ledger[p].recv /\ ledger'[p].exported = ledger[p].exported
      BY <3>1, <3>2, SendUpdate
    <3> QED  BY <3>3 DEF LedgerMove, S
  <2> QED  BY <2>1, <2>2
<1> QED  BY <1>1, <1>3, Stays DEF WindowsMove

----------------------------------------------------------------------------
(* The invariants hold.                                                    *)

\* Every step is a step of some party in that sense.
LEMMA NextWindows ==
    ASSUME TypeOK, TypeOK', InStep, CrossInStep, RoundsInStep, WindowsTypes, WNext
    PROVE  \E p \in Party : WindowsMove(p) /\ StepMove(p) /\ RoundMove(p)
<1>1. PICK p \in Party :
          \/ Prepare(p) \/ SealedEncrypt(p)
          \/ ReceiveFrame(p) \/ ReceiveWelcome(p) \/ Approve(p)
          \/ HandOutStable(p) \/ HandOutFresh(p) \/ TakeOut(p)
          \/ BeginBootstrap(p) \/ BeginEnvelope(p) \/ SideBand(p)
          \/ ShouldListenOn(p)
          \/ ExportAttachmentCekRecv(p) \/ ExportAttachmentCekSend(p)
  BY DEF WNext
<1>2. StepMove(p) /\ RoundMove(p)  BY <1>1, WindowsWatch, HandlerMoves
<1>3. WindowsMove(p)
  BY <1>1, PrepareWindows, EncryptWindows, ReceiveWindows, WelcomeWindows, OutboundWindows,
     SideBandWindows, ListenWindows, ExportWindows
<1> QED  BY <1>2, <1>3

\* The windows keep their invariant in such a step, and the addresses stay in step
\* unless it defers a candidate.
LEMMA WindowsStep ==
    ASSUME TypeOK, TypeOK', InStep, RoundsInStep, WindowsInv, NEW p \in Party,
           WindowsMove(p), StepMove(p), RoundMove(p)
    PROVE  WindowsInv' /\ (ListenInStep /\ NoneDeferred' => ListenInStep')
<1> DEFINE s == session[p]
           t == session'[p]
           q == Peer(p)
           r == session[Peer(p)]
<1>1. q \in Party /\ q # p /\ Peer(q) = p /\ \A x \in Party : x = p \/ x = q
  BY PeerType DEF Party, Peer
<1>2. s \in SessionInner /\ t \in SessionInner /\ r \in SessionInner  BY <1>1 DEF TypeOK
<1>3. session'[q] = r  BY DEF StepMove
<1>4. InRound(s, r, fresh) /\ InRound(t, r, fresh') /\ t.send_pq >= s.send_pq
  BY RoundOf DEF RoundMove, RoundStep
<1>5. t.send_pq \in {s.send_pq, s.send_pq + 1}
  <2>1. s.send_pq \in {r.recv_pq, r.recv_pq + 1} /\ t.send_pq \in {r.recv_pq, r.recv_pq + 1}
    BY <1>2, <1>4, PqClose
  <2>2. s.send_pq \in Nat /\ t.send_pq \in Nat /\ r.recv_pq \in Nat  BY <1>2, RoundFields
  <2> QED  BY <1>4, <2>1, <2>2
<1>6. WriterMove(s, t, r) /\ ReaderMove(s, t, r)  BY DEF StepMove
<1>7. t.send_cl >= s.send_cl /\ t.recv_cl \in {s.recv_cl, s.recv_cl + 1}
  <2>1. s.send_cl \in Nat /\ t.send_cl \in Nat  BY <1>2, RoundFields
  <2> QED  BY <1>6, <2>1 DEF WriterMove, ReaderMove
<1>8. /\ KeysMove(s, t, keys[p], keys'[p]) /\ SealMove(s, t, seal[p], seal'[p])
      /\ LedgerMove(s, t, ledger[p], ledger'[p])
      /\ keys'[q] = keys[q] /\ seal'[q] = seal[q] /\ ledger'[q] = ledger[q]
      /\ WindowsTypes'
  BY DEF WindowsMove, WindowsTypes
<1>9. /\ KeysInv(keys[p], s) /\ SealInv(seal[p], s) /\ LedgerInv(ledger[p], s)
      /\ KeysInv(keys[q], r) /\ SealInv(seal[q], r) /\ LedgerInv(ledger[q], r)
      /\ keys[p] \in Keys
  BY <1>1 DEF WindowsInv, WindowsTypes
<1>10. KeysInv(keys'[p], t)  BY <1>2, <1>5, <1>7, <1>8, <1>9, KeysKept
<1>11. SealInv(seal'[p], t)  BY <1>2, <1>4, <1>8, <1>9, SealKept
<1>12. LedgerInv(ledger'[p], t)  BY <1>2, <1>7, <1>8, <1>9, LedgerKept
<1>13. WindowsInv'
  <2>1. \A x \in Party : /\ KeysInv(keys'[x], session'[x]) /\ SealInv(seal'[x], session'[x])
                         /\ LedgerInv(ledger'[x], session'[x])
    BY <1>1, <1>3, <1>8, <1>9, <1>10, <1>11, <1>12
  <2> QED  BY <1>8, <2>1 DEF WindowsInv
<1>14. ASSUME ListenInStep, NoneDeferred' PROVE ListenInStep'
  <2>1. ListenInv(keys[p], s, r) /\ ListenInv(keys[q], r, s)  BY <1>1, <1>14 DEF ListenInStep
  <2>2. t.deferred_candidate = 0  BY <1>14 DEF NoneDeferred
  <2>3. ListenInv(keys'[p], t, r)  BY <1>2, <1>6, <1>8, <1>9, <2>1, <2>2, ListenKept
  <2>4. s.recv_cl \in {r.send_cl - 1, r.send_cl}  BY <1>1 DEF InStep, MirrorClose
  <2>5. ListenInv(keys[q], r, t)  BY <1>2, <1>6, <2>1, <2>4, MirrorKept
  <2>6. \A x \in Party : ListenInv(keys'[x], session'[x], session'[Peer(x)])
    BY <1>1, <1>3, <1>8, <2>3, <2>5
  <2> QED  BY <2>6 DEF ListenInStep
<1> QED  BY <1>13, <1>14

LEMMA WindowsStutter ==
    ASSUME UNCHANGED wvars, WindowsInv
    PROVE  WindowsInv' /\ (ListenInStep => ListenInStep')
  BY DEF wvars, WindowsInv, WindowsTypes, ListenInStep

\* Initially each party listens on the one epoch of its send group.
LEMMA WindowsInit == WInit => WindowsInv /\ ListenInStep
<1> SUFFICES ASSUME WInit PROVE WindowsInv /\ ListenInStep  OBVIOUS
<1>1. Init /\ TypeOK  BY TypeInit DEF WInit
<1>2. ASSUME NEW p \in Party
      PROVE  /\ session[p] \in SessionInner /\ session[p].send_cl = 1
             /\ session[p].send_pq \in {0, 1} /\ session[p].recv_cl \in {0, 1}
  BY <1>1 DEF TypeOK, Init, Initiate, AcceptWith, NewSession
<1> DEFINE k == [listen |-> {1}, pq |-> {}]
<1>3. ASSUME NEW p \in Party
      PROVE  keys[p] = RecordPqHeaderKey(k, session[p].send_pq) /\ seal[p] = NoSeal
             /\ ledger[p] = [send |-> {}, recv |-> {}, exported |-> FALSE]
  BY <1>2 DEF WInit
<1>4. k \in Keys /\ k.pq = {} /\ k.listen = {1}  BY DEF Keys
<1> HIDE DEF k
<1>5. PqHeaderWindow \in Nat \ {0} /\ EpochRetention \in Nat /\ AttachmentWindow \in Nat
  BY WindowsAssumption
<1>6. \A w \in Nat : Last(w, 0) = {} /\ Last(w, 0 - 1) = {}  BY DEF Last
<1>7. ASSUME NEW p \in Party
      PROVE  keys[p] \in Keys /\ keys[p].listen = {1}
             /\ keys[p].pq = Last(PqHeaderWindow, session[p].send_pq)
  <2>1. session[p].send_pq \in Nat  BY <1>2
  <2>2. /\ keys[p] \in Keys /\ keys[p].listen = {1}
        /\ keys[p].pq = IF session[p].send_pq = 0 THEN {}
                        ELSE Newest(PqHeaderWindow, {} \cup {session[p].send_pq})
    <3>1. keys[p] = RecordPqHeaderKey(k, session[p].send_pq)  BY <1>3
    <3>2. /\ RecordPqHeaderKey(k, session[p].send_pq) \in Keys
          /\ RecordPqHeaderKey(k, session[p].send_pq).listen = k.listen
      BY <1>4, <2>1, RecordedKeys
    <3>3. RecordPqHeaderKey(k, session[p].send_pq).pq =
              IF session[p].send_pq = 0 \/ session[p].send_pq \in k.pq THEN k.pq
              ELSE Newest(PqHeaderWindow, k.pq \cup {session[p].send_pq})
      BY <1>4, <2>1, RecordedPq
    <3> QED  BY <1>4, <3>1, <3>2, <3>3
  <2>3. Newest(PqHeaderWindow, Last(PqHeaderWindow, 0) \cup {0 + 1}) = Last(PqHeaderWindow, 0 + 1)
    BY <1>5, LastNext
  <2>4. CASE session[p].send_pq = 0  BY <1>5, <1>6, <2>2, <2>4
  <2>5. CASE session[p].send_pq = 1
    <3>1. Newest(PqHeaderWindow, {} \cup {1}) = Last(PqHeaderWindow, 1)  BY <1>5, <1>6, <2>3
    <3> QED  BY <2>2, <2>5, <3>1
  <2> QED  BY <1>2, <2>4, <2>5
<1>8. ASSUME NEW p \in Party PROVE KeysInv(keys[p], session[p])
  BY <1>2, <1>5, <1>7 DEF KeysInv
<1>9. ASSUME NEW p \in Party PROVE SealInv(seal[p], session[p])  BY <1>3 DEF SealInv
<1>10. ASSUME NEW p \in Party PROVE ledger[p] \in Ledgers /\ LedgerInv(ledger[p], session[p])
  <2> DEFINE a == [send |-> {}, recv |-> {}, exported |-> FALSE]
  <2>1. a \in Ledgers /\ a.recv = {} /\ a.send = {} /\ ~a.exported  BY DEF Ledgers
  <2>2. Cardinality({}) = 0  BY FS_EmptySet
  <2>3. a.recv = Last(AttachmentWindow, session[p].recv_cl)
        \/ a.recv = Last(AttachmentWindow, session[p].recv_cl - 1)
    <3>1. session[p].recv_cl = 0 \/ session[p].recv_cl - 1 = 0  BY <1>2
    <3> QED  BY <1>5, <1>6, <2>1, <3>1
  <2>4. ledger[p] = a  BY <1>3
  <2>5. (\A x \in {} : x <= session[p].send_cl) /\ Cardinality({}) <= AttachmentWindow
    BY <1>5, <2>2
  <2> HIDE DEF a
  <2>6. (\A x \in a.send : x <= session[p].send_cl) /\ Cardinality(a.send) <= AttachmentWindow
    BY <2>1, <2>5
  <2> QED  BY <2>1, <2>3, <2>4, <2>6 DEF LedgerInv
<1>11. WindowsTypes
  <2>1. DOMAIN keys = Party /\ DOMAIN seal = Party /\ DOMAIN ledger = Party
        /\ keys = [x \in DOMAIN keys |-> keys[x]] /\ seal = [x \in DOMAIN seal |-> seal[x]]
        /\ ledger = [x \in DOMAIN ledger |-> ledger[x]]
    BY DEF WInit
  <2>2. \A x \in Party : keys[x] \in Keys /\ seal[x] = NoSeal /\ ledger[x] \in Ledgers
    BY <1>3, <1>7, <1>10
  <2> QED  BY <2>1, <2>2 DEF WindowsTypes
<1>12. WindowsInv  BY <1>8, <1>9, <1>10, <1>11 DEF WindowsInv
<1>13. ListenInStep  BY <1>2, <1>7, PeerType DEF ListenInStep, ListenInv
<1> QED  BY <1>12, <1>13

----------------------------------------------------------------------------
(* Theorems.                                                               *)

\* The windows only watch the protocol: what a session records beside its groups
\* never changes what it does, so everything proved of Session holds here too.
THEOREM WindowsImplementSession == WSpec => Spec
<1>1. WInit => Init  BY DEF WInit
<1> QED  BY <1>1, WNextIsNext, PTL DEF WSpec, Spec

\* The windows follow the epochs without a gap, in every behaviour.
THEOREM WindowsInStep == WSpec => []WindowsInv
<1>1. /\ TypeOK /\ TypeOK' /\ InStep /\ CrossInStep /\ RoundsInStep /\ WindowsInv
      /\ [WNext]_wvars
      => WindowsInv'
  <2> SUFFICES ASSUME TypeOK, TypeOK', InStep, CrossInStep, RoundsInStep, WindowsInv, [WNext]_wvars
               PROVE  WindowsInv'
    OBVIOUS
  <2>1. CASE WNext
    <3>1. PICK p \in Party : WindowsMove(p) /\ StepMove(p) /\ RoundMove(p)
      BY <2>1, NextWindows DEF WindowsInv
    <3> QED  BY <3>1, WindowsStep
  <2>2. CASE UNCHANGED wvars  BY <2>2, WindowsStutter
  <2> QED  BY <2>1, <2>2
<1> QED
  BY <1>1, WindowsInit, WindowsImplementSession, TypeCorrect, StaysInStep, CrossStaysNear,
     RoundsStayInStep, PTL DEF WSpec

\* What the invariant says of the sizes.
LEMMA BoundsFollow ==
    ASSUME TypeOK, WindowsInv
    PROVE  WindowsBounded
<1> SUFFICES ASSUME NEW p \in Party
             PROVE  /\ keys[p].listen \subseteq Nat
                    /\ Cardinality(keys[p].listen) <= EpochRetention + 1
                    /\ keys[p].pq \subseteq Nat /\ Cardinality(keys[p].pq) <= PqHeaderWindow
                    /\ Cardinality(ledger[p].send) <= AttachmentWindow
                    /\ Cardinality(ledger[p].recv) <= AttachmentWindow
  BY DEF WindowsBounded
<1> DEFINE s == session[p]
<1>1. KeysInv(keys[p], s) /\ LedgerInv(ledger[p], s) /\ s \in SessionInner  BY DEF WindowsInv, TypeOK
<1>2. s.send_cl \in Nat /\ s.recv_cl \in Nat /\ s.send_pq \in Nat  BY <1>1, RoundFields
<1>3. EpochRetention \in Nat /\ PqHeaderWindow \in Nat /\ AttachmentWindow \in Nat
  BY WindowsAssumption
<1>4. keys[p].listen \subseteq Nat /\ Cardinality(keys[p].listen) <= EpochRetention + 1
  <2>1. PICK m \in Nat : \A x \in keys[p].listen : x <= m /\ x + EpochRetention >= m
    BY <1>1 DEF KeysInv
  <2>2. \A x \in keys[p].listen : x \in Nat  BY <1>1 DEF KeysInv, Keys
  <2> DEFINE I == (m - EpochRetention)..m
  <2>3. keys[p].listen \in SUBSET I  BY <1>3, <2>1, <2>2
  <2>4. IsFiniteSet(I) /\ Cardinality(I) = m - (m - EpochRetention) + 1  BY <1>3, IntervalSize
  <2>5. Cardinality(I) = EpochRetention + 1
    <3> HIDE DEF I
    <3> QED  BY <1>3, <2>4
  <2> HIDE DEF I
  <2>6. Cardinality(keys[p].listen) <= Cardinality(I)  BY <2>3, <2>4, FS_Subset
  <2> QED  BY <2>2, <2>5, <2>6
<1>5. keys[p].pq \subseteq Nat /\ Cardinality(keys[p].pq) <= PqHeaderWindow
  BY <1>1, <1>2, <1>3, LastBounded DEF KeysInv
<1>6. Cardinality(ledger[p].send) <= AttachmentWindow  BY <1>1 DEF LedgerInv
<1>7. Cardinality(ledger[p].recv) <= AttachmentWindow
  <2>1. s.recv_cl \in Int /\ s.recv_cl - 1 \in Int  BY <1>2
  <2>2. Cardinality(Last(AttachmentWindow, s.recv_cl)) <= AttachmentWindow
    BY <1>3, <2>1, LastBounded
  <2>3. Cardinality(Last(AttachmentWindow, s.recv_cl - 1)) <= AttachmentWindow
    BY <1>3, <2>1, LastBounded
  <2> QED  BY <1>1, <2>2, <2>3 DEF LedgerInv
<1> QED  BY <1>4, <1>5, <1>6, <1>7

\* The windows keep to their bounds however the steps interleave: the addresses and
\* header keys of the classical half within the retention, those of the PQ half and
\* both attachment ledgers within their own windows.
THEOREM WindowsStayBounded == WSpec => []WindowsBounded
  BY BoundsFollow, WindowsInStep, WindowsImplementSession, TypeCorrect, PTL

\* Why a component is at hand.
LEMMA ComponentAtHand ==
    ASSUME TypeOK, WindowsInv
    PROVE  AttachmentDerivable
<1> SUFFICES ASSUME NEW f \in frames,
                    FrameEpoch(f) <= session[Peer(f.from)].recv_cl,
                    FrameEpoch(f) + EpochRetention >= session[Peer(f.from)].recv_cl
             PROVE  RecvComponentAvailable(Peer(f.from), FrameEpoch(f))
  BY DEF AttachmentDerivable
<1> DEFINE p == Peer(f.from)
           e == FrameEpoch(f)
           s == session[p]
<1>1. p \in Party /\ f.staple.epoch \in Nat  BY PeerType DEF TypeOK, Frame, Staple
<1>2. LedgerInv(ledger[p], s) /\ s \in SessionInner  BY <1>1 DEF WindowsInv, TypeOK
<1>3. s.recv_cl \in Nat /\ e \in Nat /\ e >= 1  BY <1>1, <1>2, RoundFields DEF FrameEpoch
<1>4. EpochRetention \in Nat /\ AttachmentWindow \in Nat /\ AttachmentWindow > EpochRetention
  BY WindowsAssumption
<1>5. e <= s.recv_cl /\ e + EpochRetention >= s.recv_cl  OBVIOUS
<1> HIDE DEF e
<1>6. e \in Last(AttachmentWindow, s.recv_cl)  BY <1>3, <1>4, <1>5 DEF Last
<1>7. e = s.recv_cl \/ e \in Last(AttachmentWindow, s.recv_cl - 1)
  BY <1>3, <1>4, <1>5 DEF Last
<1> QED  BY <1>2, <1>6, <1>7 DEF LedgerInv, RecvComponentAvailable, e

\* Whenever an application message can still be decrypted, so can its attachments:
\* the ledger has the component of every retained epoch the mirror has left, and the
\* current one is exported at most once and recorded when it is.
THEOREM AttachmentsStayDerivable == WSpec => []AttachmentDerivable
  BY ComponentAtHand, WindowsInStep, WindowsImplementSession, TypeCorrect, PTL

\* As long as no rotation overflows a candidate pool, every party listens on its
\* current epoch and on the one its peer mirrors.
THEOREM ListenStaysInStep == WSpec /\ []NoneDeferred => []ListenInStep
<1>1. /\ TypeOK /\ TypeOK' /\ InStep /\ CrossInStep /\ RoundsInStep /\ WindowsInv
      /\ ListenInStep /\ NoneDeferred' /\ [WNext]_wvars
      => ListenInStep'
  <2> SUFFICES ASSUME TypeOK, TypeOK', InStep, CrossInStep, RoundsInStep, WindowsInv,
                      ListenInStep, NoneDeferred', [WNext]_wvars
               PROVE  ListenInStep'
    OBVIOUS
  <2>1. CASE WNext
    <3>1. PICK p \in Party : WindowsMove(p) /\ StepMove(p) /\ RoundMove(p)
      BY <2>1, NextWindows DEF WindowsInv
    <3> QED  BY <3>1, WindowsStep
  <2>2. CASE UNCHANGED wvars  BY <2>2, WindowsStutter
  <2> QED  BY <2>1, <2>2
<1> QED
  BY <1>1, WindowsInit, WindowsInStep, WindowsImplementSession, TypeCorrect, StaysInStep,
     CrossStaysNear, RoundsStayInStep, PTL DEF WSpec

\* The keys of both halves that p seals to are the peer's.
LEMMA SealsOpen ==
    ASSUME TypeOK, RoundsInStep, WindowsInv, ListenInStep, NEW p \in Party
    PROVE  LET s == session[p]
           IN  /\ s.recv_cl > 0 => s.recv_cl \in keys[Peer(p)].listen
               /\ s.recv_pq > 0 => s.recv_pq \in keys[Peer(p)].pq
<1> DEFINE q == Peer(p)
           s == session[p]
           r == session[q]
<1>1. q \in Party /\ Peer(q) = p  BY PeerType
<1>2. ListenInv(keys[q], r, s) /\ KeysInv(keys[q], r)  BY <1>1 DEF ListenInStep, WindowsInv
<1>3. s \in SessionInner /\ r \in SessionInner /\ InRound(s, r, fresh)  BY RoundOf
<1>4. r.send_pq \in {s.recv_pq, s.recv_pq + 1}  BY <1>3, PqClose
<1>5. r.send_pq \in Nat /\ s.recv_pq \in Nat  BY <1>3, RoundFields
<1>6. PqHeaderWindow \in Nat /\ PqHeaderWindow >= 2  BY WindowsAssumption
<1>7. s.recv_pq > 0 => s.recv_pq \in Last(PqHeaderWindow, r.send_pq)
  BY <1>4, <1>5, <1>6 DEF Last
<1> QED  BY <1>2, <1>7 DEF ListenInv, KeysInv

\* The peer of a party can open and listens for what the party seals next, although
\* the two move the windows and the epochs at different times.
THEOREM NextSealOpens == WSpec /\ []NoneDeferred => []PeerOpensNextSeal
<1>1. TypeOK /\ RoundsInStep /\ WindowsInv /\ ListenInStep => PeerOpensNextSeal
  BY SealsOpen DEF PeerOpensNextSeal, Opens, Joined
<1> QED
  BY <1>1, ListenStaysInStep, WindowsInStep, WindowsImplementSession, TypeCorrect,
     RoundsStayInStep, PTL

\* Why the cached seal can be handed out.
LEMMA HandedOut ==
    ASSUME TypeOK, RoundsInStep, WindowsInv, ListenInStep
    PROVE  HandedOutOpens
<1> SUFFICES ASSUME NEW p \in Party, session[p].pending_side_band # NoLeg, Joined(session[p])
             PROVE  /\ HandOut(p).frame = session[p].pending_side_band
                    /\ HandOut(p).key = SealSideBand(session[p], session[p].pending_side_band).key
                    /\ Opens(Peer(p), HandOut(p).key)
  BY DEF HandedOutOpens
<1> DEFINE s == session[p]
           leg == s.pending_side_band
           c == seal[p]
           n == SealSideBand(s, leg)
<1>1. s \in SessionInner /\ leg \in Leg /\ s.recv_cl > 0
  BY SessionFields DEF TypeOK, Joined
<1>2. /\ n \in Seals /\ n.frame = leg
      /\ leg.kind \in {"ek", "ct"} \/ s.recv_pq = 0 =>
            n.key.half = "classical" /\ n.key.epoch = s.recv_cl
      /\ leg.kind \notin {"ek", "ct"} /\ s.recv_pq # 0 =>
            n.key.half = "pq" /\ n.key.epoch = s.recv_pq
  BY <1>1, SealShape
<1>3. SideBandSealEpoch(s, leg) = n.key.epoch  BY DEF SideBandSealEpoch
<1>4. HandOut(p) = IF c # NoSeal /\ c.key.epoch = n.key.epoch THEN c ELSE n
  BY <1>3 DEF HandOut
<1>5. SealInv(c, s)  BY DEF WindowsInv
<1> HIDE DEF n
<1>6. c # NoSeal => c \in Seals /\ c.frame = leg /\ c.key.half = n.key.half
  BY <1>5 DEF SealInv, n
<1>7. \A x, y \in Seals : x.key.half = y.key.half /\ x.key.epoch = y.key.epoch => x.key = y.key
  <2> SUFFICES ASSUME NEW x \in Seals, NEW y \in Seals,
                      x.key.half = y.key.half, x.key.epoch = y.key.epoch
               PROVE  x.key = y.key
    OBVIOUS
  <2>1. /\ x.key \in [half : {"classical", "pq"}, epoch : Nat]
        /\ y.key \in [half : {"classical", "pq"}, epoch : Nat]
    BY DEF Seals
  <2> QED  BY <2>1
<1>8. HandOut(p).frame = leg /\ HandOut(p).key = n.key
  <2>1. CASE c # NoSeal /\ c.key.epoch = n.key.epoch
    BY <1>2, <1>4, <1>6, <1>7, <2>1
  <2>2. CASE ~(c # NoSeal /\ c.key.epoch = n.key.epoch)
    BY <1>2, <1>4, <2>2
  <2> QED  BY <2>1, <2>2
<1>9. Opens(Peer(p), n.key)
  <2>1. /\ s.recv_cl > 0 => s.recv_cl \in keys[Peer(p)].listen
        /\ s.recv_pq > 0 => s.recv_pq \in keys[Peer(p)].pq
    BY SealsOpen
  <2>2. s.recv_pq \in Nat  BY <1>1, RoundFields
  <2> QED  BY <1>1, <1>2, <2>1, <2>2 DEF Opens
<1> QED  BY <1>8, <1>9 DEF n

\* What a chunking host is handed is the frame in the slot, sealed under the key that
\* a new seal would use and that the peer holds: the epoch number alone tells a stale
\* seal, for while one frame stays in the slot its half stays.
THEOREM HandedOutStaysOpen == WSpec /\ []NoneDeferred => []HandedOutOpens
  BY HandedOut, ListenStaysInStep, WindowsInStep, WindowsImplementSession, TypeCorrect,
     RoundsStayInStep, PTL

=============================================================================
