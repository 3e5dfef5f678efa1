--------------------------- MODULE CombinerProofs ---------------------------
(***************************************************************************)
(* Proofs about Combiner for every value of its constants: no commit an    *)
(* operation builds is refused, by the rules or by the reader; a reader at *)
(* the writer's epoch holds the leaf the writer signs with; no join        *)
(* refuses a welcome while the AS still knows its creator.                 *)
(***************************************************************************)
EXTENDS Combiner, FiniteSetTheorems, TLAPS

----------------------------------------------------------------------------
(* Types.                                                                  *)

Infos == {ApqInfo(ClassicalGid, PqGid, 1, 1), ApqInfo(ClassicalGid, PqGid, 1, Unbound)}

Attestations == [t_epoch : Nat, pq_epoch : Nat]

Updates ==
    [kind : {"upd"}, half : {"classical", "pq"}, epoch : Nat, n : Nat, ahead : BOOLEAN,
     from : {"reader"}]

Bundles ==
    [half : {"none", "classical", "pq"}, epoch : Nat, adds : Nat, updates : SUBSET Updates,
     attests : SUBSET Attestations, psks : SUBSET {"external", "application"}]

Commits == [bundle : Bundles, leaf : Nat]

PartySequences == [history : Seq(Nat), authorized_next : {{}}, pinned : {{}}]

\* Nothing stays filed in either half, and no operation has failed.
WriterOK(w) ==
    w \in [info : Infos, cl : Nat \ {0}, pq : Nat, id : Nat, cl_leaf : Nat, pq_leaf : Nat,
           cl_cache : {{}}, pq_cache : {{}}, queued : SUBSET Updates, owed : Attestations,
           bind : Commits, failed : {FALSE}]

ReaderOK(r) ==
    r \in [info : Infos \cup {NoInfo}, cl : Nat, pq : Nat, cl_leaf : Nat, pq_leaf : Nat,
           theirs : PartySequences,
           failed : {FALSE}]

----------------------------------------------------------------------------
(* The inductive invariant.                                                *)

\* The reader is at the writer's epoch or one commit behind it, in each half, and
\* where it is level it holds the writer's leaf.
Near(w, r) ==
    /\ r.cl <= w.cl /\ w.cl <= r.cl + 1
    /\ r.pq <= w.pq /\ w.pq <= r.pq + 1
    /\ r.cl = w.cl => r.cl_leaf = w.cl_leaf
    /\ r.pq > 0 /\ r.pq = w.pq => r.pq_leaf = w.pq_leaf
    /\ r.cl = 0 => r.pq = 0 /\ r.cl_leaf = 0 /\ w.cl_leaf = 0
    /\ r.cl > 0 => r.info = w.info
    /\ r.pq = 0 => r.pq_leaf = 0

\* The newest ids up to n, as many as the window keeps.
NewestIds(h, n) ==
    /\ Len(h) >= 1 /\ Len(h) <= HistoryWindow
    /\ Len(h) = n + 1 \/ Len(h) = HistoryWindow
    /\ \A i \in 1..Len(h) : h[i] + Len(h) = n + i

\* The reader's AS knows the writer's newest ids: up to the current one, or one
\* further when the reader has folded it and the leaves show the one before.
KnownOK(w, r) ==
    /\ w.pq_leaf <= w.id
    /\ r.cl = 0 => w.id = Founding /\ r.theirs = NobodyKnown
    /\ r.cl > 0 =>
         /\ NewestIds(r.theirs.history, Current(r.theirs))
         /\ r.cl_leaf = w.cl_leaf \/ w.cl_leaf = w.id
         /\ \/ Current(r.theirs) = w.id
            \/ /\ Current(r.theirs) = w.id + 1
               /\ w.cl_leaf = w.id /\ r.cl_leaf = w.id

\* An approved offer is the only one, and made by a reader that is level.
QueuedOK(w, r) ==
    w.queued # {} => r.cl = w.cl /\ \E u \in Updates : w.queued = {u}

\* A commit of the PQ half that the reader, one behind, will apply.
NextPq(c, w, r) ==
    /\ c \in Commits
    /\ r.pq > 0 /\ w.pq = r.pq + 1
    /\ c.bundle.epoch = r.pq /\ FilterProposals(2, c.bundle)
    /\ c.leaf = w.pq_leaf

\* An owed bind still leads to the epochs it reserved, and its PQ commit is next.
OwedOK(w, r) ==
    w.owed # NoBind =>
        /\ w.owed = Attestation(w.cl + 1, w.pq)
        /\ w.bind # NoCommit /\ NextPq(w.bind, w, r)
        /\ w.bind.bundle.attests = {w.owed}

WelcomeOK(f, w, r) ==
    /\ f.kind = "welcome" /\ r.cl = 0
    /\ \/ /\ f.cl = Welcome(ClassicalGid, w.info, Founding, {CrossPsk})
          /\ f.pq = NoWelcome /\ w.info.pq_epoch = Unbound
       \/ /\ f.cl = Welcome(ClassicalGid, w.info, Founding, {Psk("apq", PqGid)})
          /\ f.pq = Welcome(PqGid, w.info, Founding, {})
          /\ w.info.pq_epoch = 1 /\ w.pq = 1 /\ w.pq_leaf = 0

PqWelcomeOK(f, w, r) ==
    /\ f.kind = "pq_welcome" /\ w.pq = 1 /\ r.pq = 0
    /\ f.pq = Welcome(PqGid, ApqInfo(ClassicalGid, PqGid, Unbound, 1), w.pq_leaf, {})

\* An update names an epoch the reader had reached.
UpdOK(f, w, r) ==
    /\ f \in Updates /\ f.epoch > 0
    /\ f.epoch <= IF f.half = "pq" THEN r.pq ELSE r.cl

\* A staple is the reader's next classical commit, and a bind both next commits.
StapleOK(f, w, r) ==
    /\ f.kind = "staple"
    /\ f.cl \in Commits
    /\ r.cl > 0 /\ w.cl = r.cl + 1
    /\ f.cl.bundle.epoch = r.cl /\ FilterProposals(2, f.cl.bundle)
    /\ f.cl.leaf = w.cl_leaf
    /\ f.pq # NoCommit =>
         /\ w.owed = NoBind /\ NextPq(f.pq, w, r)
         /\ f.cl.bundle.attests = {Attestation(w.cl, w.pq)}
         /\ f.pq.bundle.attests = {Attestation(w.cl, w.pq)}

RekeyCommitOK(f, w, r) ==
    /\ f.kind = "rekey_commit"
    /\ w.owed = NoBind /\ NextPq(f.pq, w, r)

FrameOK(f, w, r) ==
    \/ WelcomeOK(f, w, r) \/ PqWelcomeOK(f, w, r) \/ UpdOK(f, w, r)
    \/ StapleOK(f, w, r) \/ RekeyCommitOK(f, w, r)

\* The next commit of the PQ half travels in a bind or alone, never in both.
OnePqCommit(fs) ==
    \A f, g \in fs : f.kind = "rekey_commit" /\ g.kind = "staple" => g.pq = NoCommit

CombinerInv ==
    /\ WriterOK(writer) /\ ReaderOK(reader)
    /\ Near(writer, reader) /\ QueuedOK(writer, reader) /\ OwedOK(writer, reader)
    /\ KnownOK(writer, reader)
    /\ \A f \in wire : FrameOK(f, writer, reader)
    /\ OnePqCommit(wire)

----------------------------------------------------------------------------
(* What the operators give.                                                *)

\* The network keeps no welcome that was joined and no commit that was applied.
LEMMA UndeliveredFacts ==
    ASSUME NEW fs, NEW w, NEW r, NEW f \in Undelivered(fs, w, r)
    PROVE  /\ f \in fs
           /\ f.kind = "welcome" => r.cl = 0
           /\ f.kind = "pq_welcome" => r.pq = 0
           /\ f.kind = "staple" => f.cl.bundle.epoch >= r.cl
           /\ f.kind = "rekey_commit" => f.pq.bundle.epoch >= r.pq
BY DEF Undelivered

\* What a frame is held against.
LEMMA FrameKept ==
    ASSUME NEW f, NEW w, NEW r, NEW v, NEW s, FrameOK(f, w, r),
           v.info = w.info, v.cl = w.cl, v.pq = w.pq, v.cl_leaf = w.cl_leaf,
           v.pq_leaf = w.pq_leaf, v.owed = w.owed, s.cl = r.cl, s.pq = r.pq
    PROVE  FrameOK(f, v, s)
<1>1. CASE WelcomeOK(f, w, r)
  BY <1>1 DEF WelcomeOK, FrameOK
<1>2. CASE PqWelcomeOK(f, w, r)
  BY <1>2 DEF PqWelcomeOK, FrameOK
<1>3. CASE UpdOK(f, w, r)
  BY <1>3 DEF UpdOK, FrameOK
<1>4. CASE StapleOK(f, w, r)
  BY <1>4 DEF StapleOK, NextPq, FrameOK
<1>5. CASE RekeyCommitOK(f, w, r)
  BY <1>5 DEF RekeyCommitOK, NextPq, FrameOK
<1> QED BY <1>1, <1>2, <1>3, <1>4, <1>5 DEF FrameOK

LEMMA FewerThanTwo ==
    /\ Cardinality({}) <= 1
    /\ \A x : Cardinality({x}) <= 1
<1>1. Cardinality({}) = 0
  BY FS_EmptySet
<1>2. ASSUME NEW x PROVE Cardinality({x}) = 1
  BY FS_Singleton
<1> QED BY <1>1, <1>2

\* The rules admit a commit in either half with at most one update of the reader, and
\* with an attestation of the epoch it leads to: in the PQ half one without an update.
LEMMA Admitted ==
    ASSUME NEW half \in {"classical", "pq"}, NEW epoch \in Nat,
           NEW updates, updates = {} \/ \E u \in Updates : updates = {u},
           NEW attests, attests = {} \/ \E a \in Attestations :
               /\ attests = {a}
               /\ half = "classical" => a.t_epoch = epoch + 1
               /\ half = "pq" => a.pq_epoch = epoch + 1 /\ updates = {},
           NEW psks \in SUBSET {"external", "application"}
    PROVE  /\ Bundle(half, epoch, 0, updates, attests, psks) \in Bundles
           /\ FilterProposals(2, Bundle(half, epoch, 0, updates, attests, psks))
<1> DEFINE b == Bundle(half, epoch, 0, updates, attests, psks)
<1>1. b \in Bundles
  BY DEF Bundle, Bundles
<1>2. /\ b.half = half /\ b.epoch = epoch /\ b.adds = 0 /\ b.updates = updates
      /\ b.attests = attests /\ b.psks = psks
  BY DEF Bundle
<1>3. Cardinality(attests) <= 1 /\ Cardinality(updates) <= 1
  BY FewerThanTwo
<1>4. \A u \in updates : u.from = "reader"
  BY DEF Updates
<1>5. \A a \in attests :
        /\ half = "pq" => updates = {}
        /\ (IF half = "pq" THEN a.pq_epoch ELSE a.t_epoch) = epoch + 1
  OBVIOUS
<1> HIDE DEF b
<1>6. FilterProposals(2, b)
  BY <1>2, <1>3, <1>4, <1>5 DEF FilterProposals
<1> QED BY <1>1, <1>6 DEF b

LEMMA AdmittedClassical ==
    ASSUME NEW epoch \in Nat,
           NEW updates, updates = {} \/ \E u \in Updates : updates = {u},
           NEW attests,
           attests = {} \/ \E a \in Attestations : attests = {a} /\ a.t_epoch = epoch + 1,
           NEW psks \in SUBSET {"external", "application"}
    PROVE  /\ Bundle("classical", epoch, 0, updates, attests, psks) \in Bundles
           /\ FilterProposals(2, Bundle("classical", epoch, 0, updates, attests, psks))
<1> DEFINE half == "classical"
<1>1. half \in {"classical", "pq"} /\ half # "pq"
  OBVIOUS
<1> HIDE DEF half
<1>2. attests = {} \/ \E a \in Attestations :
               /\ attests = {a}
               /\ half = "classical" => a.t_epoch = epoch + 1
               /\ half = "pq" => a.pq_epoch = epoch + 1 /\ updates = {}
  BY <1>1
<1>3. /\ Bundle(half, epoch, 0, updates, attests, psks) \in Bundles
      /\ FilterProposals(2, Bundle(half, epoch, 0, updates, attests, psks))
  BY <1>1, <1>2, Admitted
<1> QED BY <1>3 DEF half

\* The creations build nothing the rules refuse.
LEMMA CreationAdmitted ==
    /\ FilterProposals(1, Bundle("pq", 0, 1, {}, {Attestation(1, 1)}, {}))
    /\ FilterProposals(1, Bundle("classical", 0, 1, {}, {Attestation(1, 1)}, {"application"}))
    /\ FilterProposals(1, Bundle("classical", 0, 1, {}, {}, {"application"}))
    /\ FilterProposals(1, Bundle("pq", 0, 1, {}, {}, {}))
<1> DEFINE one == Attestation(1, 1)
<1>1. one.t_epoch = 1 /\ one.pq_epoch = 1
  BY DEF Attestation
<1> HIDE DEF one
<1>2. ASSUME NEW half \in {"classical", "pq"}, NEW attests \in {{}, {one}},
             NEW psks \in {{}, {"application"}}
      PROVE  FilterProposals(1, Bundle(half, 0, 1, {}, attests, psks))
  <2> DEFINE b == Bundle(half, 0, 1, {}, attests, psks)
  <2>1. /\ b.half = half /\ b.epoch = 0 /\ b.adds = 1 /\ b.updates = {}
        /\ b.attests = attests /\ b.psks = psks
    BY DEF Bundle
  <2>2. Cardinality(attests) <= 1
    BY FewerThanTwo
  <2> HIDE DEF b
  <2>3. FilterProposals(1, b)
    BY <1>1, <2>1, <2>2 DEF FilterProposals
  <2> QED BY <2>3 DEF b
<1> QED BY <1>2 DEF one

----------------------------------------------------------------------------
(* What the AS knows.                                                      *)

\* A window of the newest ids knows each of them that is not older than the window.
LEMMA NewestKnown ==
    ASSUME NEW seq \in PartySequences,
           NEW n \in Nat, NewestIds(seq.history, n),
           NEW id \in Nat, id <= n, n < id + HistoryWindow
    PROVE  id \in KnownIds(seq)
<1> DEFINE h == seq.history
           i == (id + Len(h)) - n
<1>1. h \in Seq(Nat) /\ Len(h) \in Nat /\ HistoryWindow \in Nat
  BY HistoryAssumption DEF PartySequences
<1>2. i \in 1..Len(h)
  BY <1>1 DEF NewestIds
<1>3. ASSUME NEW j \in 1..Len(h) PROVE h[j] + Len(h) = n + j /\ h[j] \in Nat
  BY <1>1 DEF NewestIds
<1>4. n + i = id + Len(h) /\ i \in Int
  BY <1>1
<1> HIDE DEF i
<1>5. h[i] = id
  BY <1>1, <1>2, <1>3, <1>4
<1> QED BY <1>2, <1>5 DEF KnownIds

\* The next id extends the window.
LEMMA CommitNext ==
    ASSUME NEW seq \in PartySequences,
           NEW n \in Nat, NewestIds(seq.history, n), Current(seq) = n
    PROVE  /\ CommitId(seq, n + 1) \in PartySequences
           /\ NewestIds(CommitId(seq, n + 1).history, n + 1)
           /\ Current(CommitId(seq, n + 1)) = n + 1
<1> DEFINE h == seq.history
           a == Append(h, n + 1)
           k == Trim(a)
<1>1. /\ h \in Seq(Nat) /\ Len(h) \in Nat /\ HistoryWindow \in Nat /\ HistoryWindow >= 2
      /\ Len(h) >= 1 /\ Len(h) <= HistoryWindow /\ h # << >>
  BY HistoryAssumption DEF NewestIds, PartySequences
<1>2. ASSUME NEW i \in 1..Len(h) PROVE h[i] \in Nat /\ h[i] + Len(h) = n + i /\ h[i] # n + 1
  BY <1>1 DEF NewestIds
<1>3. Without(h, n + 1) = h
  BY <1>2 DEF Without
<1>4. CommitId(seq, n + 1) = [seq EXCEPT !.history = k, !.authorized_next = {}]
  <2>1. Current(seq) # n + 1
    OBVIOUS
  <2> QED BY <1>1, <1>3, <2>1 DEF CommitId
<1>5. /\ a \in Seq(Nat) /\ Len(a) = Len(h) + 1 /\ a[Len(h) + 1] = n + 1
      /\ \A i \in 1..Len(h) : a[i] = h[i]
  BY <1>1
<1> HIDE DEF a, k
<1>6. ASSUME NEW i \in 1..Len(a) PROVE a[i] \in Nat /\ a[i] + Len(h) = n + i
  <2>1. CASE i = Len(h) + 1
    <3>1. a[i] = n + 1 /\ Len(h) \in Nat
      BY <2>1, <1>1, <1>5
    <3> HIDE DEF h
    <3> QED BY <2>1, <3>1
  <2>2. CASE i \in 1..Len(h)
    BY <2>2, <1>2, <1>5
  <2> QED BY <2>1, <2>2, <1>1, <1>5
<1>7. k \in Seq(Nat) /\ NewestIds(k, n + 1)
  <2>1. CASE Len(h) < HistoryWindow
    <3>1. k = a
      BY <2>1, <1>1, <1>5 DEF Trim, k
    <3>2. Len(h) = n + 1
      BY <2>1, <1>1 DEF NewestIds
    <3>3. \A i \in 1..Len(a) : a[i] + Len(a) = (n + 1) + i
      <4> TAKE i \in 1..Len(a)
      <4>1. i \in Nat /\ a[i] \in Nat /\ a[i] + Len(h) = n + i
        BY <1>1, <1>5, <1>6
      <4>2. Len(a) = Len(h) + 1 /\ Len(h) \in Nat
        BY <1>1, <1>5
      <4> HIDE DEF h
      <4> QED BY <4>1, <4>2
    <3> QED BY <3>1, <3>2, <3>3, <2>1, <1>1, <1>5 DEF NewestIds
  <2>2. CASE Len(h) = HistoryWindow
    <3>1. k = SubSeq(a, 2, Len(a))
      <4>1. Len(a) > HistoryWindow /\ (Len(a) - HistoryWindow) + 1 = 2
        BY <2>2, <1>1, <1>5
      <4> QED BY <4>1 DEF Trim, k
    <3>2. k \in Seq(Nat) /\ Len(k) = Len(h)
      <4>1. \A j \in 2..Len(a) : a[j] \in Nat
        BY <1>6, <1>1, <1>5
      <4>2. /\ 2 \in Int /\ Len(a) \in Nat /\ 2 <= Len(a) /\ 2 \in 1..(Len(a) + 1)
        BY <1>1, <1>5
      <4> QED BY <4>1, <4>2, <3>1, <1>1, <1>5
    <3>3. ASSUME NEW i \in 1..Len(h) PROVE k[i] + Len(h) = (n + 1) + i
      <4>1. SubSeq(a, 2, Len(a))[i] = a[2 + i - 1]
        BY <1>1, <1>5
      <4>2. 2 + i - 1 = i + 1 /\ i + 1 \in 1..Len(a)
        BY <1>1, <1>5
      <4>3. k[i] = a[i + 1]
        BY <4>1, <4>2, <3>1
      <4>4. a[i + 1] + Len(h) = n + (i + 1)
        BY <4>2, <1>6
      <4> QED BY <4>3, <4>4, <1>1
    <3> QED BY <3>2, <3>3, <2>2, <1>1 DEF NewestIds
  <2> QED BY <2>1, <2>2, <1>1
<1>8. k[Len(k)] = n + 1
  <2>1. Len(k) \in Nat /\ Len(k) >= 1
    BY <1>7 DEF NewestIds
  <2>2. k[Len(k)] + Len(k) = (n + 1) + Len(k) /\ k[Len(k)] \in Nat
    BY <1>7, <2>1 DEF NewestIds
  <2> QED BY <2>1, <2>2
<1>9. CommitId(seq, n + 1).history = k
  BY <1>4 DEF PartySequences
<1>10. CommitId(seq, n + 1) \in PartySequences
  BY <1>4, <1>7 DEF PartySequences
<1> QED BY <1>7, <1>8, <1>9, <1>10 DEF Current

\* The newest id again changes nothing; the first id is the only one known.
LEMMA CommitCurrent ==
    ASSUME NEW seq \in PartySequences,
           Len(seq.history) >= 1, NEW id, id = Current(seq)
    PROVE  CommitId(seq, id) = seq
<1>1. seq.history # << >>
  BY DEF PartySequences
<1> QED BY <1>1 DEF CommitId

LEMMA CommitFirst ==
    /\ CommitId(NobodyKnown, 0) \in PartySequences
    /\ NewestIds(CommitId(NobodyKnown, 0).history, 0)
    /\ Current(CommitId(NobodyKnown, 0)) = 0
<1> DEFINE s == CommitId(NobodyKnown, 0)
<1>0. HistoryWindow \in Nat /\ HistoryWindow >= 2
  BY HistoryAssumption
<1>1. Without(<< >>, 0) = << >>
  BY DEF Without
<1>2. Append(<< >>, 0) = <<0>> /\ Len(<<0>>) = 1 /\ <<0>> \in Seq(Nat)
  OBVIOUS
<1>3. Trim(<<0>>) = <<0>>
  BY <1>0, <1>2 DEF Trim
<1>4. NobodyKnown.history = << >>
  BY DEF NobodyKnown
<1>5. s = [NobodyKnown EXCEPT !.history = <<0>>, !.authorized_next = {}]
  BY <1>1, <1>2, <1>3, <1>4 DEF CommitId
<1>6. s = [history |-> <<0>>, authorized_next |-> {}, pinned |-> {}]
  BY <1>5 DEF NobodyKnown
<1>7. s.history = <<0>>
  BY <1>6
<1>8. NewestIds(<<0>>, 0) /\ <<0>>[1] = 0
  BY <1>0, <1>2 DEF NewestIds
<1> HIDE DEF s
<1>9. s \in PartySequences
  BY <1>6, <1>2 DEF PartySequences
<1> QED BY <1>2, <1>7, <1>8, <1>9 DEF Current, s

----------------------------------------------------------------------------
(* The initial states.                                                     *)

LEMMA InitCombiner == Init => CombinerInv
<1> SUFFICES ASSUME Init PROVE CombinerInv
  OBVIOUS
<1>t. MaxEpoch \in Nat
  BY CombinerAssumption
<1>r. reader = [info |-> NoInfo, cl |-> 0, pq |-> 0, cl_leaf |-> 0, pq_leaf |-> 0,
                theirs |-> NobodyKnown, failed |-> FALSE]
  BY DEF Init
<1>k. NobodyKnown \in PartySequences
  BY DEF NobodyKnown, PartySequences
<1>n. NoCommit \in Commits
  BY DEF NoCommit, Commits, Bundle, Bundles
<1>1. CASE CreateCombinerSendGroup
  <2> DEFINE info == ApqInfo(ClassicalGid, PqGid, 1, 1)
  <2>1. /\ writer = Born(info, 1, FALSE)
        /\ wire = {WelcomeFrame(Welcome(ClassicalGid, info, Founding, {Psk("apq", PqGid)}),
                                Welcome(PqGid, info, Founding, {}))}
    BY <1>1, CreationAdmitted DEF CreateCombinerSendGroup
  <2>2. info \in Infos /\ info.pq_epoch = 1
    BY DEF Infos, ApqInfo
  <2> HIDE DEF info
  <2>3. WriterOK(writer) /\ ReaderOK(reader)
    BY <2>1, <2>2, <1>r, <1>n, <1>k DEF WriterOK, ReaderOK, Born, NoBind, Attestation, Attestations
  <2>4. /\ Near(writer, reader) /\ QueuedOK(writer, reader) /\ OwedOK(writer, reader)
        /\ KnownOK(writer, reader)
    BY <2>1, <1>r DEF Near, QueuedOK, OwedOK, KnownOK, Born, Founding
  <2>5. \A f \in wire : WelcomeOK(f, writer, reader) /\ f.kind = "welcome"
    BY <2>1, <2>2, <1>r DEF WelcomeOK, WelcomeFrame, Born
  <2> QED BY <2>3, <2>4, <2>5 DEF CombinerInv, FrameOK, OnePqCommit
<1>2. CASE CreateBoundClassicalSendGroup
  <2> DEFINE info == ApqInfo(ClassicalGid, PqGid, 1, Unbound)
  <2>1. /\ writer = Born(info, 0, FALSE)
        /\ wire = {WelcomeFrame(Welcome(ClassicalGid, info, Founding, {CrossPsk}), NoWelcome)}
    BY <1>2, CreationAdmitted DEF CreateBoundClassicalSendGroup
  <2>2. info \in Infos /\ info.pq_epoch = Unbound
    BY DEF Infos, ApqInfo
  <2> HIDE DEF info
  <2>3. WriterOK(writer) /\ ReaderOK(reader)
    BY <2>1, <2>2, <1>r, <1>n, <1>k DEF WriterOK, ReaderOK, Born, NoBind, Attestation, Attestations
  <2>4. /\ Near(writer, reader) /\ QueuedOK(writer, reader) /\ OwedOK(writer, reader)
        /\ KnownOK(writer, reader)
    BY <2>1, <1>r DEF Near, QueuedOK, OwedOK, KnownOK, Born, Founding
  <2>5. \A f \in wire : WelcomeOK(f, writer, reader) /\ f.kind = "welcome"
    BY <2>1, <2>2, <1>r DEF WelcomeOK, WelcomeFrame, Born
  <2> QED BY <2>3, <2>4, <2>5 DEF CombinerInv, FrameOK, OnePqCommit
<1> QED BY <1>1, <1>2 DEF Init

----------------------------------------------------------------------------
(* Steps of the writer.                                                    *)

LEMMA BootstrapStep == CombinerInv /\ Bootstrap => CombinerInv'
<1> SUFFICES ASSUME CombinerInv, Bootstrap PROVE CombinerInv'
  OBVIOUS
<1> DEFINE w == writer
           v == writer'
           r == reader
           g == BootstrapWelcomeFrame(Welcome(BootstrapInfo.pq_gid, BootstrapInfo, w.id, {}))
<1>1. w.pq = 0 /\ r' = r /\ wire' = wire \cup {g}
  BY DEF Bootstrap
<1>2. v = [w EXCEPT !.pq = 1, !.pq_leaf = w.id]
  BY CreationAdmitted DEF Bootstrap, CombinerInv, WriterOK
<1>3. /\ v.info = w.info /\ v.cl = w.cl /\ v.pq = 1 /\ v.cl_leaf = w.cl_leaf
      /\ v.queued = w.queued /\ v.owed = w.owed /\ v.bind = w.bind
      /\ v.id = w.id /\ v.pq_leaf = w.id /\ w.id \in Nat
  BY <1>2 DEF CombinerInv, WriterOK
<1>4. WriterOK(v) /\ ReaderOK(r)
  BY <1>2 DEF CombinerInv, WriterOK
<1>5. r.pq = 0
  BY <1>1 DEF CombinerInv, Near, ReaderOK
<1>6. Near(v, r) /\ QueuedOK(v, r) /\ KnownOK(v, r)
  BY <1>3, <1>5 DEF CombinerInv, Near, QueuedOK, KnownOK
<1>7. OwedOK(v, r)
  BY <1>3, <1>1, <1>5 DEF CombinerInv, OwedOK, NextPq
<1>8. ASSUME NEW f \in wire PROVE FrameOK(f, v, r)
  <2>1. FrameOK(f, w, r)
    BY DEF CombinerInv
  <2>2. CASE WelcomeOK(f, w, r)
    BY <2>2, <1>1, <1>3 DEF WelcomeOK, FrameOK
  <2>3. CASE PqWelcomeOK(f, w, r)
    BY <2>3, <1>1 DEF PqWelcomeOK
  <2>4. CASE UpdOK(f, w, r)
    BY <2>4 DEF UpdOK, FrameOK
  <2>5. CASE StapleOK(f, w, r)
    BY <2>5, <1>1, <1>3, <1>5 DEF StapleOK, FrameOK, NextPq
  <2>6. CASE RekeyCommitOK(f, w, r)
    BY <2>6, <1>5 DEF RekeyCommitOK, NextPq
  <2> QED BY <2>1, <2>2, <2>3, <2>4, <2>5, <2>6 DEF FrameOK
<1>9. FrameOK(g, v, r) /\ g.kind = "pq_welcome"
  <2>1. w.info.t_gid = ClassicalGid /\ w.info.pq_gid = PqGid
    BY DEF CombinerInv, WriterOK, Infos, ApqInfo
  <2>2. BootstrapInfo = ApqInfo(ClassicalGid, PqGid, Unbound, 1) /\ BootstrapInfo.pq_gid = PqGid
    BY <2>1 DEF BootstrapInfo, ApqInfo
  <2> QED BY <2>2, <1>3, <1>5 DEF FrameOK, PqWelcomeOK, BootstrapWelcomeFrame
<1>10. OnePqCommit(wire')
  BY <1>1, <1>9 DEF CombinerInv, OnePqCommit
<1> QED BY <1>1, <1>4, <1>6, <1>7, <1>8, <1>9, <1>10 DEF CombinerInv

LEMMA FoldStep == CombinerInv /\ FoldOffered => CombinerInv'
<1> SUFFICES ASSUME CombinerInv, FoldOffered PROVE CombinerInv'
  OBVIOUS
<1> DEFINE w == writer
           r == reader
           s == reader'
           n == w.id
<1>0. n \in Nat /\ r.cl \in Nat /\ r.theirs \in PartySequences
  BY DEF CombinerInv, WriterOK, ReaderOK
<1>1. /\ r.cl > 0 /\ Current(r.theirs) = n /\ w.cl_leaf = n /\ r.cl_leaf = n
      /\ s = [r EXCEPT !.theirs = CommitId(r.theirs, n + 1)]
      /\ writer' = w /\ wire' = wire
  BY DEF FoldOffered
<1>2. NewestIds(r.theirs.history, n)
  BY <1>1 DEF CombinerInv, KnownOK
<1>3. /\ CommitId(r.theirs, n + 1) \in PartySequences
      /\ NewestIds(CommitId(r.theirs, n + 1).history, n + 1)
      /\ Current(CommitId(r.theirs, n + 1)) = n + 1
  <2> HIDE DEF n
  <2> QED BY <1>0, <1>1, <1>2, CommitNext
<1>4. ReaderOK(s)
  BY <1>1, <1>3 DEF CombinerInv, ReaderOK
<1>5. /\ s.info = r.info /\ s.cl = r.cl /\ s.pq = r.pq /\ s.cl_leaf = r.cl_leaf
      /\ s.pq_leaf = r.pq_leaf /\ s.theirs = CommitId(r.theirs, n + 1)
  BY <1>1 DEF CombinerInv, ReaderOK
<1>6. Near(w, s) /\ QueuedOK(w, s) /\ OwedOK(w, s)
  BY <1>5 DEF CombinerInv, Near, QueuedOK, OwedOK, NextPq
<1>7. KnownOK(w, s)
  BY <1>0, <1>1, <1>3, <1>5 DEF CombinerInv, KnownOK
<1>8. ASSUME NEW f \in wire PROVE FrameOK(f, w, s)
  <2>1. FrameOK(f, w, r)
    BY DEF CombinerInv
  <2> QED BY <2>1, <1>5, FrameKept
<1> QED BY <1>1, <1>4, <1>6, <1>7, <1>8 DEF CombinerInv

LEMMA RotateStep == CombinerInv /\ Rotate => CombinerInv'
<1> SUFFICES ASSUME CombinerInv, Rotate PROVE CombinerInv'
  OBVIOUS
<1> DEFINE w == writer
           v == writer'
           r == reader
<1>0. w.id + 1 \in Nat /\ w.id \in Nat /\ w.pq_leaf \in Nat /\ r.cl \in Nat
  BY DEF CombinerInv, WriterOK, ReaderOK
<1>1. r.cl > 0 /\ w.id # Current(r.theirs) /\ r' = r /\ wire' = wire
  BY DEF Rotate
<1>2. Current(r.theirs) = w.id + 1 /\ r.cl_leaf = w.cl_leaf
  BY <1>1 DEF CombinerInv, KnownOK
<1>3. v = [w EXCEPT !.id = w.id + 1]
  BY <1>2 DEF Rotate
<1>4. WriterOK(v)
  BY <1>0, <1>3 DEF CombinerInv, WriterOK
<1>5. /\ v.info = w.info /\ v.cl = w.cl /\ v.pq = w.pq /\ v.cl_leaf = w.cl_leaf
      /\ v.pq_leaf = w.pq_leaf /\ v.queued = w.queued /\ v.owed = w.owed /\ v.bind = w.bind
      /\ v.id = w.id + 1
  BY <1>3 DEF CombinerInv, WriterOK
<1>6. Near(v, r) /\ QueuedOK(v, r) /\ OwedOK(v, r)
  BY <1>5 DEF CombinerInv, Near, QueuedOK, OwedOK, NextPq
<1>7. KnownOK(v, r)
  BY <1>0, <1>1, <1>2, <1>5 DEF CombinerInv, KnownOK
<1>8. ASSUME NEW f \in wire PROVE FrameOK(f, v, r)
  <2>1. FrameOK(f, w, r)
    BY DEF CombinerInv
  <2> QED BY <2>1, <1>5, FrameKept
<1> QED BY <1>1, <1>4, <1>6, <1>7, <1>8 DEF CombinerInv

LEMMA ProposeStep ==
    ASSUME CombinerInv, NEW half \in {"classical", "pq"}, NEW n \in Nat, NEW ahead \in BOOLEAN,
           NEW epoch, epoch = IF half = "pq" THEN reader.pq ELSE reader.cl,
           Propose(Upd(half, epoch, n, ahead))
    PROVE  CombinerInv'
<1> DEFINE u == Upd(half, epoch, n, ahead)
<1>0. epoch \in Nat
  BY DEF CombinerInv, ReaderOK
<1>1. u \in Updates /\ u.epoch = epoch /\ u.half = half /\ u.kind = "upd"
  BY <1>0 DEF Upd, Updates
<1> HIDE DEF u
<1>2. u.epoch > 0 /\ wire' = wire \cup {u} /\ writer' = writer /\ reader' = reader
  BY DEF Propose, u
<1>3. UpdOK(u, writer, reader)
  BY <1>0, <1>1, <1>2 DEF UpdOK, CombinerInv, ReaderOK
<1>4. OnePqCommit(wire')
  BY <1>1, <1>2 DEF CombinerInv, OnePqCommit
<1> QED BY <1>2, <1>3, <1>4 DEF CombinerInv, FrameOK

LEMMA QueueStep ==
    ASSUME CombinerInv, NEW u \in wire, QueueProposal(u)
    PROVE  CombinerInv'
<1> DEFINE w == writer
           v == writer'
           r == reader
<1>1. /\ u.kind = "upd" /\ u.half = "classical" /\ u.epoch = w.cl
      /\ v = [[w EXCEPT !.cl_cache = {}] EXCEPT !.queued = {u}]
      /\ r' = r /\ wire' = wire
  BY DEF QueueProposal, ValidateOfferedUpdate
<1>2. UpdOK(u, w, r)
  BY <1>1 DEF CombinerInv, FrameOK, WelcomeOK, PqWelcomeOK, StapleOK, RekeyCommitOK
<1>3. u \in Updates /\ u.epoch <= r.cl
  BY <1>1, <1>2 DEF UpdOK
<1>4. WriterOK(v)
  BY <1>1, <1>3 DEF CombinerInv, WriterOK
<1>5. /\ v.info = w.info /\ v.cl = w.cl /\ v.pq = w.pq /\ v.cl_leaf = w.cl_leaf
      /\ v.pq_leaf = w.pq_leaf /\ v.queued = {u} /\ v.owed = w.owed /\ v.bind = w.bind
      /\ v.id = w.id
  BY <1>1 DEF CombinerInv, WriterOK
<1>6. r.cl = w.cl
  BY <1>1, <1>3 DEF CombinerInv, Near, WriterOK, ReaderOK
<1>7. Near(v, r) /\ QueuedOK(v, r) /\ OwedOK(v, r) /\ KnownOK(v, r)
  BY <1>3, <1>5, <1>6 DEF CombinerInv, Near, QueuedOK, OwedOK, NextPq, KnownOK
<1>8. ASSUME NEW f \in wire PROVE FrameOK(f, v, r)
  <2>1. FrameOK(f, w, r)
    BY DEF CombinerInv
  <2> QED BY <2>1, <1>5, FrameKept
<1> QED BY <1>1, <1>4, <1>7, <1>8 DEF CombinerInv

LEMMA RatchetStep == CombinerInv /\ RatchetCommit => CombinerInv'
<1> SUFFICES ASSUME CombinerInv, RatchetCommit PROVE CombinerInv'
  OBVIOUS
<1> DEFINE w == writer
           v == writer'
           r == reader
           b == ClassicalBundle(w)
           bound == b.attests # {}
           c == Commit(b, w.cl_leaf, w.id)
           g == Staple(c, IF bound THEN w.bind ELSE NoCommit)
<1>t. /\ w.cl \in Nat /\ w.cl > 0 /\ w.pq \in Nat /\ w.id \in Nat /\ w.owed \in Attestations
      /\ w.cl_cache = {} /\ w.cl_leaf \in Nat /\ r.cl \in Nat /\ r.pq \in Nat
  BY DEF CombinerInv, WriterOK, ReaderOK
\* What the commit is built of, and that nothing refuses it.
<1>1. r' = r /\ r.cl = w.cl /\ (w.queued # {} \/ w.owed # NoBind)
  BY DEF RatchetCommit, CombinerInv, QueuedOK
<1>2. w.queued = {} \/ \E u \in Updates : w.queued = {u}
  BY DEF CombinerInv, QueuedOK
<1>3. w.owed # NoBind => w.owed.t_epoch = w.cl + 1 /\ w.owed.pq_epoch = w.pq
  BY DEF CombinerInv, OwedOK, Attestation
<1>4. /\ b = Bundle("classical", w.cl, 0, w.queued, b.attests, b.psks)
      /\ b.half = "classical" /\ b.epoch = w.cl /\ b.adds = 0 /\ b.updates = w.queued
      /\ b.attests = IF w.owed = NoBind THEN {} ELSE {w.owed}
      /\ b.psks \in SUBSET {"external", "application"}
  BY <1>t DEF ClassicalBundle, Discharged, Bundle
<1>5. b \in Bundles /\ FilterProposals(2, b)
  <2> DEFINE attests == b.attests
             psks == b.psks
             updates == w.queued
             epoch == w.cl
  <2>1. /\ epoch \in Nat /\ psks \in SUBSET {"external", "application"}
        /\ updates = {} \/ \E u \in Updates : updates = {u}
        /\ attests = {} \/ \E a \in Attestations : attests = {a} /\ a.t_epoch = epoch + 1
    BY <1>t, <1>2, <1>3, <1>4
  <2>2. b = Bundle("classical", epoch, 0, updates, attests, psks)
    BY <1>4
  <2> HIDE DEF b, attests, psks, updates, epoch
  <2> QED BY <2>1, <2>2, AdmittedClassical
<1>6. bound <=> w.owed # NoBind
  BY <1>4
<1>7. c.bundle = b /\ c.leaf = w.id /\ c \in Commits
  <2>1. HasPath(b)
    BY <1>1, <1>4 DEF HasPath, CommitOptions
  <2> HIDE DEF b
  <2> QED BY <2>1, <1>5, <1>t DEF Commit, Commits
<1> HIDE DEF b, c
<1>8. /\ v = [w EXCEPT !.cl = w.cl + 1, !.cl_leaf = w.id, !.cl_cache = {}, !.queued = {},
                       !.owed = IF bound THEN NoBind ELSE w.owed,
                       !.bind = IF bound THEN NoCommit ELSE w.bind]
      /\ wire' = Undelivered(wire \cup {g}, v, r)
  BY <1>3, <1>5 DEF RatchetCommit, Reserved, b, c
<1>9. NoCommit \in Commits /\ NoBind \in Attestations
  BY DEF NoCommit, Commits, Bundle, Bundles, NoBind, Attestation, Attestations
<1>10. WriterOK(v)
  <2>1. w.cl + 1 \in Nat \ {0}
    BY <1>t
  <2> HIDE DEF bound
  <2> QED BY <1>t, <1>8, <1>9, <2>1 DEF CombinerInv, WriterOK
<1>11. /\ v.info = w.info /\ v.cl = w.cl + 1 /\ v.pq = w.pq /\ v.cl_leaf = w.id
       /\ v.pq_leaf = w.pq_leaf /\ v.queued = {} /\ v.owed = NoBind /\ v.id = w.id
  BY <1>6, <1>8 DEF CombinerInv, WriterOK
<1>12. Near(v, r) /\ QueuedOK(v, r) /\ OwedOK(v, r) /\ KnownOK(v, r)
  BY <1>t, <1>1, <1>11 DEF CombinerInv, Near, QueuedOK, OwedOK, KnownOK
<1>13. StapleOK(g, v, r)
  <2>1. g.kind = "staple" /\ g.cl = c /\ g.pq = IF bound THEN w.bind ELSE NoCommit
    BY DEF Staple
  <2>2. ASSUME g.pq # NoCommit
        PROVE  /\ NextPq(g.pq, v, r)
               /\ b.attests = {Attestation(v.cl, v.pq)}
               /\ g.pq.bundle.attests = {Attestation(v.cl, v.pq)}
    <3>1. w.owed # NoBind /\ g.pq = w.bind
      BY <2>1, <2>2, <1>6
    <3>2. /\ w.owed = Attestation(v.cl, v.pq) /\ NextPq(w.bind, w, r)
          /\ w.bind.bundle.attests = {w.owed}
      BY <3>1, <1>11 DEF CombinerInv, OwedOK
    <3>3. NextPq(w.bind, v, r)
      BY <3>2, <1>11 DEF NextPq
    <3> QED BY <3>1, <3>2, <3>3, <1>4
  <2> QED BY <2>1, <2>2, <1>t, <1>1, <1>4, <1>5, <1>7, <1>11 DEF StapleOK
<1>14. ASSUME NEW f \in wire PROVE FrameOK(f, v, r) /\ f.kind # "staple"
  <2>1. FrameOK(f, w, r)
    BY DEF CombinerInv
  <2>2. ~StapleOK(f, w, r)
    BY <1>1, <1>t DEF StapleOK
  <2> QED BY <2>1, <2>2, <1>1, <1>t, <1>11
        DEF FrameOK, WelcomeOK, PqWelcomeOK, UpdOK, RekeyCommitOK, NextPq, Updates
<1>15. ASSUME NEW f \in wire' PROVE f \in wire \cup {g}
  <2> HIDE DEF g
  <2> QED BY <1>8, UndeliveredFacts
<1>16. OnePqCommit(wire')
  <2>1. ASSUME NEW f \in wire, f.kind = "rekey_commit" PROVE g.pq = NoCommit
    <3>1. RekeyCommitOK(f, w, r)
      BY <2>1 DEF CombinerInv, FrameOK, WelcomeOK, PqWelcomeOK, UpdOK, StapleOK, Updates
    <3>2. w.owed = NoBind
      BY <3>1 DEF RekeyCommitOK
    <3> QED BY <3>2, <1>6 DEF Staple
  <2>2. g.kind = "staple"
    BY DEF Staple
  <2> HIDE DEF g
  <2> QED BY <2>1, <2>2, <1>14, <1>15 DEF OnePqCommit
<1> QED BY <1>1, <1>10, <1>12, <1>13, <1>14, <1>15 , <1>16 DEF CombinerInv, FrameOK

LEMMA CommitPqStep == CombinerInv /\ CommitPqAndOweBind => CombinerInv'
<1> SUFFICES ASSUME CombinerInv, CommitPqAndOweBind PROVE CombinerInv'
  OBVIOUS
<1> DEFINE w == writer
           v == writer'
           r == reader
           a == Attestation(w.cl + 1, w.pq + 1)
           b == InjectAndCommit(w, a)
           c == Commit(b, w.pq_leaf, w.pq_leaf)
<1>t. /\ w.cl \in Nat /\ w.pq \in Nat /\ w.pq_cache = {} /\ w.pq_leaf \in Nat
      /\ r.cl \in Nat /\ r.pq \in Nat
  BY DEF CombinerInv, WriterOK, ReaderOK
<1>1. w.pq > 0 /\ r.pq = w.pq /\ r' = r /\ w.owed = NoBind
  BY DEF CommitPqAndOweBind
<1>2. a \in Attestations /\ a.t_epoch = w.cl + 1 /\ a.pq_epoch = w.pq + 1 /\ a # NoBind
  BY <1>t DEF Attestation, Attestations, NoBind
<1> HIDE DEF a
<1>3. /\ b = Bundle("pq", w.pq, 0, {}, {a}, {"external"})
      /\ b.half = "pq" /\ b.epoch = w.pq /\ b.attests = {a}
  BY <1>t DEF InjectAndCommit, Bundle
<1>4. b \in Bundles /\ FilterProposals(2, b)
  <2>1. {a} = {} \/ \E x \in Attestations :
               /\ {a} = {x}
               /\ "pq" = "classical" => x.t_epoch = w.pq + 1
               /\ "pq" = "pq" => x.pq_epoch = w.pq + 1 /\ {} = {}
    BY <1>2
  <2> HIDE DEF b
  <2> QED BY <1>t, <1>3, <2>1, Admitted
<1> HIDE DEF b
<1>5. c.bundle = b /\ c.leaf = w.pq_leaf /\ c \in Commits
  BY <1>4, <1>t DEF Commit, Commits
<1>6. c # NoCommit
  BY <1>3, <1>5 DEF NoCommit, Bundle
<1> HIDE DEF c
<1>7. /\ v = [w EXCEPT !.pq = w.pq + 1, !.owed = a, !.bind = c]
      /\ wire' = Undelivered(wire, v, r)
  BY <1>4 DEF CommitPqAndOweBind, a, b, c
<1>8. WriterOK(v)
  <2>1. w.pq + 1 \in Nat
    BY <1>t
  <2> QED BY <2>1, <1>2, <1>5, <1>7 DEF CombinerInv, WriterOK
<1>9. /\ v.info = w.info /\ v.cl = w.cl /\ v.pq = w.pq + 1 /\ v.cl_leaf = w.cl_leaf
      /\ v.pq_leaf = w.pq_leaf /\ v.queued = w.queued /\ v.owed = a /\ v.bind = c /\ v.id = w.id
  BY <1>7 DEF CombinerInv, WriterOK
<1>10. Near(v, r) /\ QueuedOK(v, r) /\ KnownOK(v, r)
  BY <1>t, <1>1, <1>9 DEF CombinerInv, Near, QueuedOK, KnownOK
<1>11. NextPq(c, v, r)
  BY <1>t, <1>1, <1>3, <1>4, <1>5, <1>9 DEF NextPq
<1>12. OwedOK(v, r)
  BY <1>3, <1>5, <1>6, <1>9, <1>11 DEF OwedOK, a
<1>13. ASSUME NEW f \in wire PROVE FrameOK(f, v, r) /\ f.kind # "rekey_commit"
  <2>1. FrameOK(f, w, r)
    BY DEF CombinerInv
  <2>2. ~RekeyCommitOK(f, w, r)
    BY <1>1, <1>t DEF RekeyCommitOK, NextPq
  <2>3. CASE WelcomeOK(f, w, r)
    BY <2>3, <1>1, <1>t DEF WelcomeOK, CombinerInv, Near
  <2>4. CASE PqWelcomeOK(f, w, r)
    BY <2>4, <1>1, <1>t, <1>9 DEF PqWelcomeOK, FrameOK
  <2>5. CASE UpdOK(f, w, r)
    BY <2>5 DEF UpdOK, FrameOK, Updates
  <2>6. CASE StapleOK(f, w, r)
    BY <2>6, <1>1, <1>t, <1>9 DEF StapleOK, FrameOK, NextPq
  <2> QED BY <2>1, <2>2, <2>3, <2>4, <2>5, <2>6 DEF FrameOK
<1>14. wire' \subseteq wire
  BY <1>7, UndeliveredFacts
<1>15. OnePqCommit(wire')
  BY <1>13, <1>14 DEF OnePqCommit
<1> QED BY <1>1, <1>8, <1>10, <1>12, <1>13, <1>14, <1>15 DEF CombinerInv

LEMMA RekeyRespondStep ==
    ASSUME CombinerInv, NEW u \in wire, RekeyRespond(u)
    PROVE  CombinerInv'
<1> DEFINE w == writer
           v == writer'
           r == reader
           b == Bundle("pq", w.pq, 0, w.pq_cache \cup {u}, {}, {"application"})
           c == Commit(b, w.pq_leaf, w.id)
           g == PqCommitFrame(c)
<1>t. /\ w.pq \in Nat /\ w.pq_cache = {} /\ w.pq_leaf \in Nat /\ w.id \in Nat
      /\ r.pq \in Nat /\ r.cl \in Nat /\ w.cl \in Nat
  BY DEF CombinerInv, WriterOK, ReaderOK
<1>1. u.kind = "upd" /\ u.half = "pq" /\ u.epoch = w.pq /\ w.owed = NoBind /\ r' = r
  BY DEF RekeyRespond
<1>2. UpdOK(u, w, r)
  BY <1>1 DEF CombinerInv, FrameOK, WelcomeOK, PqWelcomeOK, StapleOK, RekeyCommitOK
<1>3. u \in Updates /\ u.epoch > 0 /\ u.epoch <= r.pq
  BY <1>1, <1>2 DEF UpdOK
<1>4. r.pq = w.pq /\ w.pq > 0
  BY <1>t, <1>1, <1>3 DEF CombinerInv, Near
<1>5. /\ b = Bundle("pq", w.pq, 0, {u}, {}, {"application"})
      /\ b.epoch = w.pq /\ b.updates = {u}
  BY <1>t DEF Bundle
<1>6. b \in Bundles /\ FilterProposals(2, b)
  <2> DEFINE half == "pq"
             attests == {}
             updates == {u}
             psks == {"application"}
  <2>1. /\ half \in {"classical", "pq"} /\ psks \in SUBSET {"external", "application"}
        /\ updates = {} \/ \E x \in Updates : updates = {x}
        /\ attests = {} \/ \E a \in Attestations :
               /\ attests = {a}
               /\ half = "classical" => a.t_epoch = w.pq + 1
               /\ half = "pq" => a.pq_epoch = w.pq + 1 /\ updates = {}
    BY <1>3
  <2>2. b = Bundle(half, w.pq, 0, updates, attests, psks)
    BY <1>5
  <2> HIDE DEF b, half, attests, updates, psks
  <2> QED BY <1>t, <2>1, <2>2, Admitted
<1>7. c.bundle = b /\ c.leaf = w.id /\ c \in Commits
  <2>1. HasPath(b)
    BY <1>5 DEF HasPath
  <2> HIDE DEF b
  <2> QED BY <2>1, <1>6, <1>t DEF Commit, Commits
<1> HIDE DEF b, c
<1>8. CASE u.ahead
  <2>1. v = [w EXCEPT !.pq_cache = {}]
    BY <1>8, <1>3 DEF RekeyRespond, Refused, Updates
  <2>2. v = w
    BY <2>1, <1>t DEF CombinerInv, WriterOK
  <2>3. wire' = wire
    BY <2>2 DEF RekeyRespond
  <2> QED BY <2>2, <2>3, <1>1 DEF CombinerInv
<1>9. CASE ~u.ahead
  <2>1. v = [w EXCEPT !.pq = w.pq + 1, !.pq_leaf = w.id, !.pq_cache = {}]
    BY <1>9, <1>6, <1>3 DEF RekeyRespond, b
  <2>2. w.pq + 1 \in Nat
    BY <1>t
  <2>3. WriterOK(v)
    BY <2>1, <2>2, <1>t DEF CombinerInv, WriterOK
  <2>4. /\ v.info = w.info /\ v.cl = w.cl /\ v.pq = w.pq + 1 /\ v.cl_leaf = w.cl_leaf
        /\ v.pq_leaf = w.id /\ v.queued = w.queued /\ v.owed = NoBind /\ v.id = w.id
    BY <2>1, <1>1 DEF CombinerInv, WriterOK
  <2>5. wire' = Undelivered(wire \cup {g}, v, r)
    BY <2>4, <1>t DEF RekeyRespond, c, b
  <2>6. Near(v, r) /\ QueuedOK(v, r) /\ OwedOK(v, r) /\ KnownOK(v, r)
    BY <2>4, <1>t, <1>4 DEF CombinerInv, Near, QueuedOK, OwedOK, KnownOK
  <2>7. RekeyCommitOK(g, v, r) /\ g.kind = "rekey_commit"
    BY <2>4, <1>t, <1>4, <1>5, <1>6, <1>7 DEF RekeyCommitOK, NextPq, PqCommitFrame
  <2>8. ASSUME NEW f \in wire
        PROVE  FrameOK(f, v, r) /\ (f.kind = "staple" => f.pq = NoCommit)
    <3>1. FrameOK(f, w, r)
      BY DEF CombinerInv
    <3>2. ~RekeyCommitOK(f, w, r)
      BY <1>4, <1>t DEF RekeyCommitOK, NextPq
    <3>3. CASE WelcomeOK(f, w, r)
      BY <3>3, <1>4, <1>t DEF WelcomeOK, CombinerInv, Near
    <3>4. CASE PqWelcomeOK(f, w, r)
      BY <3>4, <1>4, <1>t DEF PqWelcomeOK
    <3>5. CASE UpdOK(f, w, r)
      BY <3>5 DEF UpdOK, FrameOK, Updates
    <3>6. CASE StapleOK(f, w, r)
      BY <3>6, <1>4, <1>t, <2>4 DEF StapleOK, FrameOK, NextPq
    <3> QED BY <3>1, <3>2, <3>3, <3>4, <3>5, <3>6 DEF FrameOK
  <2> HIDE DEF g
  <2>9. ASSUME NEW f \in wire' PROVE f \in wire \cup {g}
    BY <2>5, UndeliveredFacts
  <2>10. OnePqCommit(wire')
    BY <2>7, <2>8, <2>9 DEF OnePqCommit
  <2> QED BY <1>1, <2>3, <2>6, <2>7, <2>8, <2>9, <2>10 DEF CombinerInv, FrameOK
<1> QED BY <1>8, <1>9

----------------------------------------------------------------------------
(* Steps of the reader.                                                    *)

LEMMA JoinGroupStep ==
    ASSUME CombinerInv, NEW f \in wire, JoinGroup(f)
    PROVE  CombinerInv'
<1> DEFINE w == writer
           r == reader
           s == reader'
<1>t. r.pq \in Nat /\ r.cl \in Nat /\ w.cl \in Nat /\ w.cl > 0 /\ w.pq \in Nat
  BY DEF CombinerInv, WriterOK, ReaderOK
<1>1. f.kind = "welcome" /\ r.cl = 0 /\ writer' = w /\ wire' = Undelivered(wire, w, s)
  BY DEF JoinGroup
<1>2. WelcomeOK(f, w, r)
  BY <1>1 DEF CombinerInv, FrameOK, PqWelcomeOK, UpdOK, StapleOK, RekeyCommitOK, Updates
<1>3. f.cl.info = w.info /\ f.cl.leaves.creator = 0
  BY <1>2 DEF WelcomeOK, Welcome, Founding
<1>4. PICK n \in {0, 1} : /\ s = [r EXCEPT !.info = w.info, !.cl = 1, !.pq = n,
                                            !.theirs = CommitId(r.theirs, 0)]
                          /\ n = 1 => w.pq = 1 /\ w.pq_leaf = 0
  <2> DEFINE n == IF f.pq = NoWelcome THEN 0 ELSE 1
  <2>1. n \in {0, 1}
    OBVIOUS
  <2>2. s = [r EXCEPT !.info = w.info, !.cl = 1, !.pq = n, !.theirs = CommitId(r.theirs, 0)]
    BY <1>3 DEF JoinGroup
  <2>3. n = 1 => w.pq = 1 /\ w.pq_leaf = 0
    BY <1>2 DEF WelcomeOK
  <2> HIDE DEF n
  <2> QED BY <2>1, <2>2, <2>3
<1>5. w.info \in Infos /\ n \in Nat
  BY DEF CombinerInv, WriterOK
<1>k. w.id = 0 /\ r.theirs = NobodyKnown
  BY <1>1 DEF CombinerInv, KnownOK, Founding
<1>6. ReaderOK(s)
  BY <1>4, <1>5, <1>k, CommitFirst DEF CombinerInv, ReaderOK
<1>7. /\ s.info = w.info /\ s.cl = 1 /\ s.pq = n /\ s.cl_leaf = 0 /\ s.pq_leaf = 0
      /\ s.theirs = CommitId(NobodyKnown, 0)
      /\ w.cl_leaf = 0 /\ r.pq = 0 /\ w.cl = 1
  BY <1>1, <1>4, <1>t, <1>k DEF CombinerInv, ReaderOK, Near
<1>8. Near(w, s) /\ QueuedOK(w, s)
  BY <1>4, <1>7, <1>1, <1>t DEF CombinerInv, Near, QueuedOK
<1>o. KnownOK(w, s)
  BY <1>7, <1>k, CommitFirst DEF CombinerInv, KnownOK
<1>9. OwedOK(w, s)
  BY <1>7 DEF CombinerInv, OwedOK, NextPq
<1>10. ASSUME NEW g \in wire' PROVE g \in wire /\ FrameOK(g, w, s)
  <2>1. g \in wire /\ FrameOK(g, w, r)
    BY <1>1, UndeliveredFacts DEF CombinerInv
  <2>2. ~WelcomeOK(g, w, r)
    BY <1>1, <1>7, UndeliveredFacts DEF WelcomeOK
  <2>3. CASE PqWelcomeOK(g, w, r)
    <3>1. g.kind = "pq_welcome" => s.pq = 0
      BY <1>1, UndeliveredFacts
    <3> QED BY <2>1, <2>3, <3>1 DEF PqWelcomeOK, FrameOK
  <2>4. CASE UpdOK(g, w, r)
    BY <2>4, <1>1, <1>7 DEF UpdOK, Updates
  <2>5. ~StapleOK(g, w, r) /\ ~RekeyCommitOK(g, w, r)
    BY <1>1, <1>7 DEF StapleOK, RekeyCommitOK, NextPq
  <2> QED BY <2>1, <2>2, <2>3, <2>4, <2>5 DEF FrameOK
<1>11. OnePqCommit(wire')
  BY <1>10 DEF CombinerInv, OnePqCommit
<1> QED BY <1>1, <1>6, <1>8, <1>o, <1>9, <1>10, <1>11 DEF CombinerInv

LEMMA JoinBootstrapStep ==
    ASSUME CombinerInv, NEW f \in wire, JoinBootstrap(f)
    PROVE  CombinerInv'
<1> DEFINE w == writer
           r == reader
           s == reader'
<1>t. /\ r.pq \in Nat /\ r.cl \in Nat /\ w.cl \in Nat /\ w.pq \in Nat /\ w.pq_leaf \in Nat
  BY DEF CombinerInv, WriterOK, ReaderOK
<1>0. wire' = Undelivered(wire, w, s)
  BY DEF JoinBootstrap
<1>1. /\ f.kind = "pq_welcome" /\ r.cl > 0 /\ r.pq = 0 /\ writer' = w
      /\ wire' = Undelivered(wire, w, s)
      /\ s = [r EXCEPT !.pq = 1, !.pq_leaf = f.pq.leaves.creator]
  BY DEF JoinBootstrap
<1>2. w.pq = 1 /\ f.pq.leaves.creator = w.pq_leaf
  <2>1. PqWelcomeOK(f, w, r)
    BY <1>1 DEF CombinerInv, FrameOK, WelcomeOK, UpdOK, StapleOK, RekeyCommitOK, Updates
  <2> QED BY <2>1 DEF PqWelcomeOK, Welcome
<1>3. ReaderOK(s)
  BY <1>1, <1>2, <1>t DEF CombinerInv, ReaderOK
<1>4. /\ s.info = r.info /\ s.cl = r.cl /\ s.pq = 1 /\ s.cl_leaf = r.cl_leaf
      /\ s.pq_leaf = w.pq_leaf /\ s.theirs = r.theirs
  BY <1>1, <1>2 DEF CombinerInv, ReaderOK
<1>5. Near(w, s) /\ QueuedOK(w, s) /\ KnownOK(w, s)
  BY <1>1, <1>2, <1>4 DEF CombinerInv, Near, QueuedOK, KnownOK
<1>6. OwedOK(w, s)
  BY <1>1 DEF CombinerInv, OwedOK, NextPq
<1>7. ASSUME NEW g \in wire' PROVE g \in wire /\ FrameOK(g, w, s)
  <2>1. g \in wire /\ FrameOK(g, w, r)
    BY <1>1, UndeliveredFacts DEF CombinerInv
  <2>2. ~PqWelcomeOK(g, w, r)
    <3>1. g.kind = "pq_welcome" => s.pq = 0
      BY <1>0, UndeliveredFacts
    <3> QED BY <3>1, <1>4 DEF PqWelcomeOK
  <2> QED BY <2>1, <2>2, <1>1, <1>t, <1>4
        DEF FrameOK, WelcomeOK, PqWelcomeOK, UpdOK, StapleOK, RekeyCommitOK, NextPq, Updates
<1>8. OnePqCommit(wire')
  BY <1>7 DEF CombinerInv, OnePqCommit
<1> QED BY <1>1, <1>3, <1>5, <1>6, <1>7, <1>8 DEF CombinerInv

LEMMA ApplyRekeyStep ==
    ASSUME CombinerInv, NEW f \in wire, ApplyRekeyCommit(f)
    PROVE  CombinerInv'
<1> DEFINE w == writer
           r == reader
           s == reader'
<1>t. /\ r.pq \in Nat /\ r.cl \in Nat /\ w.cl \in Nat /\ w.pq \in Nat
  BY DEF CombinerInv, WriterOK, ReaderOK
<1>0. wire' = Undelivered(wire, w, s)
  BY DEF ApplyRekeyCommit
<1>1. /\ f.kind = "rekey_commit" /\ writer' = w
      /\ s = [r EXCEPT !.pq = r.pq + 1, !.pq_leaf = f.pq.leaf]
  BY DEF ApplyRekeyCommit
<1>2. w.owed = NoBind /\ NextPq(f.pq, w, r)
  BY <1>1 DEF CombinerInv, FrameOK, WelcomeOK, PqWelcomeOK, UpdOK, StapleOK, RekeyCommitOK, Updates
<1>3. w.pq = r.pq + 1 /\ r.pq > 0 /\ f.pq.leaf = w.pq_leaf /\ f.pq.leaf \in Nat /\ r.cl > 0
  BY <1>2, <1>t DEF NextPq, Commits, CombinerInv, Near
<1>4. ReaderOK(s)
  <2>1. r.pq + 1 \in Nat
    BY <1>t
  <2> QED BY <2>1, <1>1, <1>3 DEF CombinerInv, ReaderOK
<1>5. /\ s.info = r.info /\ s.cl = r.cl /\ s.pq = w.pq /\ s.cl_leaf = r.cl_leaf
      /\ s.pq_leaf = w.pq_leaf /\ s.theirs = r.theirs
  BY <1>1, <1>3 DEF CombinerInv, ReaderOK
<1>6. Near(w, s) /\ QueuedOK(w, s) /\ OwedOK(w, s) /\ KnownOK(w, s)
  BY <1>2, <1>3, <1>5, <1>t DEF CombinerInv, Near, QueuedOK, OwedOK, KnownOK
<1>7. ASSUME NEW g \in wire' PROVE g \in wire /\ FrameOK(g, w, s)
  <2>1. g \in wire /\ FrameOK(g, w, r)
    BY <1>0, UndeliveredFacts DEF CombinerInv
  <2>2. ~WelcomeOK(g, w, r)
    BY <1>3, <1>t DEF WelcomeOK
  <2>3. ~RekeyCommitOK(g, w, r)
    <3>1. g.kind = "rekey_commit" => g.pq.bundle.epoch >= s.pq
      BY <1>0, UndeliveredFacts
    <3> QED BY <3>1, <1>3, <1>5, <1>t DEF RekeyCommitOK, NextPq
  <2>4. CASE PqWelcomeOK(g, w, r)
    BY <2>4, <1>3, <1>t DEF PqWelcomeOK
  <2>5. CASE UpdOK(g, w, r)
    BY <2>1, <2>5, <1>3, <1>5, <1>t DEF UpdOK, FrameOK, Updates
  <2>6. CASE StapleOK(g, w, r)
    <3>1. g.pq = NoCommit
      BY <2>1, <2>6, <1>1 DEF StapleOK, CombinerInv, OnePqCommit
    <3> QED BY <2>1, <2>6, <3>1, <1>5 DEF StapleOK, FrameOK
  <2> QED BY <2>1, <2>2, <2>3, <2>4, <2>5, <2>6 DEF FrameOK
<1>8. OnePqCommit(wire')
  BY <1>7 DEF CombinerInv, OnePqCommit
<1> QED BY <1>1, <1>4, <1>6, <1>7, <1>8 DEF CombinerInv

LEMMA ApplyStapleStep ==
    ASSUME CombinerInv, NEW f \in wire, ApplyStaple(f)
    PROVE  CombinerInv'
<1> DEFINE w == writer
           r == reader
           s == reader'
<1>t. /\ r.pq \in Nat /\ r.cl \in Nat /\ w.cl \in Nat /\ w.pq \in Nat /\ r.cl + 1 \in Nat
      /\ r.pq + 1 \in Nat
  BY DEF CombinerInv, WriterOK, ReaderOK
<1>1. f.kind = "staple" /\ writer' = w /\ wire' = Undelivered(wire, w, s)
  BY DEF ApplyStaple
<1>2. StapleOK(f, w, r)
  BY <1>1 DEF CombinerInv, FrameOK, WelcomeOK, PqWelcomeOK, UpdOK, RekeyCommitOK, Updates
<1>3. /\ r.cl > 0 /\ w.cl = r.cl + 1 /\ f.cl.leaf = w.cl_leaf
      /\ f.cl.leaf \in Nat /\ f.cl.bundle.epoch = r.cl /\ FilterProposals(2, f.cl.bundle)
  BY <1>2 DEF StapleOK, Commits
<1>4. w.queued = {}
  BY <1>3, <1>t DEF CombinerInv, QueuedOK
\* A leaf that moved shows the writer's current id, which the AS knows as the newest.
<1>k. r.theirs \in PartySequences /\ NewSender(r, f.cl.leaf) = r.theirs
  <2>1. r.theirs \in PartySequences
    BY DEF CombinerInv, ReaderOK
  <2>2. Len(r.theirs.history) >= 1
    BY <1>3 DEF CombinerInv, KnownOK, NewestIds
  <2>3. f.cl.leaf # r.cl_leaf => f.cl.leaf = Current(r.theirs)
    BY <1>3 DEF CombinerInv, KnownOK
  <2> QED BY <2>1, <2>2, <2>3, CommitCurrent DEF NewSender
\* The classical half alone.
<1>5. CASE f.pq = NoCommit
  <2>1. s = [r EXCEPT !.cl = r.cl + 1, !.cl_leaf = f.cl.leaf, !.theirs = r.theirs]
    BY <1>5, <1>k DEF ApplyStaple
  <2>2. ReaderOK(s)
    BY <2>1, <1>3, <1>t, <1>k DEF CombinerInv, ReaderOK
  <2>3. /\ s.info = r.info /\ s.cl = w.cl /\ s.pq = r.pq /\ s.cl_leaf = w.cl_leaf
        /\ s.pq_leaf = r.pq_leaf /\ s.theirs = r.theirs
    BY <2>1, <1>3 DEF CombinerInv, ReaderOK
  <2>4. Near(w, s) /\ QueuedOK(w, s) /\ OwedOK(w, s) /\ KnownOK(w, s)
    BY <2>3, <1>3, <1>4, <1>t DEF CombinerInv, Near, QueuedOK, OwedOK, NextPq, KnownOK
  <2>5. ASSUME NEW g \in wire' PROVE g \in wire /\ FrameOK(g, w, s)
    <3>1. g \in wire /\ FrameOK(g, w, r)
      BY <1>1, UndeliveredFacts DEF CombinerInv
    <3>2. ~WelcomeOK(g, w, r)
      BY <1>3, <1>t DEF WelcomeOK
    <3>3. ~StapleOK(g, w, r)
      BY <1>1, <1>3, <2>3, <1>t, UndeliveredFacts DEF StapleOK
    <3> QED BY <3>1, <3>2, <3>3, <2>3, <1>3, <1>t
          DEF FrameOK, PqWelcomeOK, UpdOK, RekeyCommitOK, NextPq, Updates
  <2>6. OnePqCommit(wire')
    BY <2>5 DEF CombinerInv, OnePqCommit
  <2> QED BY <1>1, <2>2, <2>4, <2>5, <2>6 DEF CombinerInv
\* A bind: both halves.
<1>6. CASE f.pq # NoCommit
  <2>1. /\ w.owed = NoBind /\ NextPq(f.pq, w, r)
        /\ f.cl.bundle.attests = {Attestation(w.cl, w.pq)}
        /\ f.pq.bundle.attests = {Attestation(w.cl, w.pq)}
    BY <1>2, <1>6 DEF StapleOK
  <2>2. /\ r.pq > 0 /\ w.pq = r.pq + 1 /\ f.pq.leaf = w.pq_leaf /\ f.pq.leaf \in Nat
        /\ f.pq.bundle.epoch = r.pq /\ FilterProposals(2, f.pq.bundle)
    BY <2>1 DEF NextPq, Commits
  <2>3. BindVerifies(f)
    BY <2>1, <2>2, <1>3 DEF BindVerifies, Applies
  <2>4. s = [r EXCEPT !.cl = r.cl + 1, !.cl_leaf = f.cl.leaf, !.pq = r.pq + 1,
                      !.pq_leaf = f.pq.leaf, !.theirs = r.theirs]
    BY <1>6, <2>3, <1>k DEF ApplyStaple
  <2>5. ReaderOK(s)
    BY <2>4, <2>2, <1>3, <1>t, <1>k DEF CombinerInv, ReaderOK
  <2>6. /\ s.info = r.info /\ s.cl = w.cl /\ s.pq = w.pq /\ s.cl_leaf = w.cl_leaf
        /\ s.pq_leaf = w.pq_leaf /\ s.theirs = r.theirs
    BY <2>4, <2>2, <1>3 DEF CombinerInv, ReaderOK
  <2>7. Near(w, s) /\ QueuedOK(w, s) /\ OwedOK(w, s) /\ KnownOK(w, s)
    BY <2>1, <2>2, <2>6, <1>3, <1>4, <1>t DEF CombinerInv, Near, QueuedOK, OwedOK, KnownOK
  <2>8. ASSUME NEW g \in wire' PROVE g \in wire /\ FrameOK(g, w, s)
    <3>1. g \in wire /\ FrameOK(g, w, r)
      BY <1>1, UndeliveredFacts DEF CombinerInv
    <3>2. ~WelcomeOK(g, w, r)
      BY <1>3, <1>t DEF WelcomeOK
    <3>3. ~StapleOK(g, w, r)
      BY <1>1, <1>3, <2>6, <1>t, UndeliveredFacts DEF StapleOK
    <3>4. ~RekeyCommitOK(g, w, r)
      BY <1>1, <2>2, <2>6, <1>t, UndeliveredFacts DEF RekeyCommitOK, NextPq
    <3> QED BY <3>1, <3>2, <3>3, <3>4, <2>2, <2>6, <1>3, <1>t
          DEF FrameOK, PqWelcomeOK, UpdOK, Updates
  <2>9. OnePqCommit(wire')
    BY <2>8 DEF CombinerInv, OnePqCommit
  <2> QED BY <1>1, <2>5, <2>7, <2>8, <2>9 DEF CombinerInv
<1> QED BY <1>5, <1>6

----------------------------------------------------------------------------
(* The theorems.                                                           *)

\* Whatever the two halves' commits, rotations, proposals and joins are interleaved
\* into, the reader is at most one commit behind in each half, an owed bind keeps the
\* epochs it reserved, and nothing stays filed in either half.
THEOREM CombinerStaysInStep == Spec => []CombinerInv
<1>1. CombinerInv /\ [Next]_vars => CombinerInv'
  <2> SUFFICES ASSUME CombinerInv, [Next]_vars PROVE CombinerInv'
    OBVIOUS
  <2>1. CASE Bootstrap
    BY <2>1, BootstrapStep
  <2>2. CASE FoldOffered \/ Rotate
    BY <2>2, FoldStep, RotateStep
  <2>3. CASE RatchetCommit
    BY <2>3, RatchetStep
  <2>4. CASE CommitPqAndOweBind
    BY <2>4, CommitPqStep
  <2>5. ASSUME NEW n \in 1..MaxUpdates, Propose(Upd("classical", reader.cl, n, FALSE))
        PROVE  CombinerInv'
    <3> DEFINE half == "classical"
               epoch == reader.cl
               ahead == FALSE
    <3>1. /\ half \in {"classical", "pq"} /\ n \in Nat /\ ahead \in BOOLEAN
          /\ epoch = IF half = "pq" THEN reader.pq ELSE reader.cl
      BY CombinerAssumption
    <3>2. Propose(Upd(half, epoch, n, ahead))
      BY <2>5
    <3> HIDE DEF half, epoch, ahead
    <3> QED BY <3>1, <3>2, ProposeStep
  <2>6. ASSUME NEW ahead \in BOOLEAN, Propose(Upd("pq", reader.pq, 1, ahead))
        PROVE  CombinerInv'
    <3> DEFINE half == "pq"
               epoch == reader.pq
               n == 1
    <3>1. /\ half \in {"classical", "pq"} /\ n \in Nat
          /\ epoch = IF half = "pq" THEN reader.pq ELSE reader.cl
      OBVIOUS
    <3>2. Propose(Upd(half, epoch, n, ahead))
      BY <2>6
    <3> HIDE DEF half, epoch, n
    <3> QED BY <3>1, <3>2, ProposeStep
  <2>7. ASSUME NEW f \in wire,
               \/ JoinGroup(f) \/ JoinBootstrap(f)
               \/ QueueProposal(f) \/ RekeyRespond(f)
               \/ ApplyStaple(f) \/ ApplyRekeyCommit(f)
        PROVE  CombinerInv'
    BY <2>7, JoinGroupStep, JoinBootstrapStep, QueueStep, RekeyRespondStep, ApplyStapleStep,
       ApplyRekeyStep
  <2>8. CASE UNCHANGED vars
    BY <2>8 DEF vars, CombinerInv
  <2> QED BY <2>1, <2>2, <2>3, <2>4, <2>5, <2>6, <2>7, <2>8 DEF Next
<1> QED BY <1>1, InitCombiner, PTL DEF Spec

\* No commit that an operation builds is refused, by TwoMlsRules::filter_proposals as
\* the writer builds it or by the reader as it applies it (apply_bind, which would
\* latch the failure), for any number of epochs, rotations and proposals.
THEOREM CommitsStayAdmitted == Spec => []CommitsAdmitted
<1>1. CombinerInv => CommitsAdmitted
  BY DEF CombinerInv, WriterOK, ReaderOK, CommitsAdmitted
<1> QED BY <1>1, CombinerStaysInStep, PTL

\* A reader at the writer's epoch of a half holds the leaf the writer signs with there,
\* whichever commits with or without a path brought it there.
THEOREM SignaturesStayVerifiable == Spec => []SignaturesVerify
<1>1. CombinerInv => SignaturesVerify
  BY DEF CombinerInv, Near, SignaturesVerify
<1> QED BY <1>1, CombinerStaysInStep, PTL

\* No join refuses a welcome the writer made: the APQInfo, the rosters and the PSKs are
\* what join_combiner_group_from_halves, process_welcome and pq_bootstrap_bind ask for,
\* and the AS knows the creator of a deferred half however far the classical half has
\* moved, through fewer than CREDENTIAL_HISTORY_WINDOW rotations since.
THEOREM WelcomesStayJoinable == Spec => []WelcomesJoin
<1>1. CombinerInv => WelcomesJoin
  <2> SUFFICES ASSUME CombinerInv, NEW f \in wire
               PROVE  /\ f.kind = "welcome" => Joinable(f)
                      /\ /\ f.kind = "pq_welcome" /\ reader.cl > 0
                         /\ Current(reader.theirs) < f.pq.leaves.creator + HistoryWindow
                         => BootstrapJoinable(f)
    BY DEF WelcomesJoin
  <2>1. /\ writer.info.t_gid = ClassicalGid /\ writer.info.pq_gid = PqGid
        /\ writer.info.t_epoch = 1
    BY DEF CombinerInv, WriterOK, Infos, ApqInfo
  <2>2. ASSUME f.kind = "welcome" PROVE Joinable(f)
    <3>1. WelcomeOK(f, writer, reader)
      BY <2>2 DEF CombinerInv, FrameOK, PqWelcomeOK, UpdOK, StapleOK, RekeyCommitOK, Updates
    <3>2. f.cl.gid = ClassicalGid /\ f.cl.info = writer.info
      BY <3>1 DEF WelcomeOK, Welcome
    <3>3. CASE /\ f.cl = Welcome(ClassicalGid, writer.info, Founding, {CrossPsk})
               /\ f.pq = NoWelcome /\ writer.info.pq_epoch = Unbound
      <4>1. f.cl.psks = {CrossPsk} /\ f.pq.psks = {}
        BY <3>3 DEF Welcome, NoWelcome
      <4> QED BY <4>1, <3>2, <3>3, <2>1
            DEF Joinable, ValidateMember, Registered, VerifyApqInfoDeferred, VerifyClassicalHalf, PqGid
    <3>4. CASE /\ f.cl = Welcome(ClassicalGid, writer.info, Founding, {Psk("apq", PqGid)})
               /\ f.pq = Welcome(PqGid, writer.info, Founding, {})
               /\ writer.info.pq_epoch = 1
      <4>1. f.pq.gid = PqGid /\ f.pq.info = writer.info /\ f.pq # NoWelcome
        BY <3>4 DEF Welcome, NoWelcome, PqGid
      <4>2. f.cl.psks = {Psk("apq", PqGid)} /\ f.pq.psks = {} /\ f.cl.leaves = f.pq.leaves
        BY <3>4 DEF Welcome
      <4>3. Registered(f) = {Psk("apq", PqGid)}
        BY <4>1 DEF Registered
      <4>4. VerifyApqInfoPair(f.cl, f.pq)
        BY <4>1, <3>2, <3>4, <2>1
          DEF VerifyApqInfoPair, VerifyClassicalHalf, IdentityFieldsMatch
      <4> QED BY <4>1, <4>2, <4>3, <4>4
            DEF Joinable, ValidateMember, EnsureMembershipConsistent
    <3> QED BY <3>1, <3>3, <3>4 DEF WelcomeOK
  <2>3. ASSUME f.kind = "pq_welcome", reader.cl > 0,
               Current(reader.theirs) < f.pq.leaves.creator + HistoryWindow
        PROVE  BootstrapJoinable(f)
    <3>1. f.pq = Welcome(PqGid, ApqInfo(ClassicalGid, PqGid, Unbound, 1), writer.pq_leaf, {})
      BY <2>3 DEF CombinerInv, FrameOK, WelcomeOK, PqWelcomeOK, UpdOK, StapleOK, RekeyCommitOK,
                  Updates
    <3>2. reader.info = writer.info
      BY <2>3 DEF CombinerInv, Near
    <3>3. f.pq.leaves.creator = writer.pq_leaf /\ f.pq.psks = {}
      BY <3>1 DEF Welcome
    <3>4. writer.pq_leaf \in KnownIds(reader.theirs)
      <4> DEFINE n == Current(reader.theirs)
      <4>1. reader.theirs \in PartySequences /\ NewestIds(reader.theirs.history, n)
        BY <2>3 DEF CombinerInv, ReaderOK, KnownOK
      <4>2. n \in Nat /\ writer.pq_leaf \in Nat /\ writer.pq_leaf <= n
        BY <2>3 DEF CombinerInv, KnownOK, WriterOK
      <4>3. n < writer.pq_leaf + HistoryWindow
        BY <2>3, <3>3
      <4> HIDE DEF n
      <4> QED BY <4>1, <4>2, <4>3, NewestKnown
    <3>5. VerifyDeferredPqInfo(f.pq, reader.info)
      BY <3>1, <3>2, <2>1 DEF VerifyDeferredPqInfo, Welcome, ApqInfo, IdentityFieldsMatch
    <3> QED BY <3>3, <3>4, <3>5 DEF BootstrapJoinable, ValidateMember
  <2> QED BY <2>2, <2>3
<1> QED BY <1>1, CombinerStaysInStep, PTL

=============================================================================
