------------------------------ MODULE Combiner ------------------------------
(***************************************************************************)
(* One combiner group, a classical and a post-quantum MLS group that move  *)
(* together: its creation, the join of its halves, the commits its writer  *)
(* builds in each half and what the rules and the reader make of them.     *)
(* Session takes an MLS commit as an epoch number; here it is a bundle of  *)
(* proposals with a path or without, filtered by TwoMlsRules on both sides.*)
(*                                                                         *)
(* The by-reference proposals an MLS group has filed ride its next commit, *)
(* whichever door they came through: cl_cache and pq_cache.  A commit is   *)
(* sent to a reader that has applied the one before it (Session!InStep).   *)
(*                                                                         *)
(* The writer's rotations do not overlap; what the authentication service  *)
(* makes of a leaf that moves, and what overlapping does to it, is         *)
(* Rotation's.                                                             *)
(***************************************************************************)
EXTENDS AuthSequence, FiniteSets

CONSTANTS
    MaxEpoch,   \* bound: epochs of either half
    MaxId,      \* bound: rotations of the writer
    MaxUpdates  \* bound: updates the reader proposes in one epoch

ASSUME CombinerAssumption == {MaxEpoch, MaxId, MaxUpdates} \subseteq Nat

VARIABLES
    writer,   \* the party whose send group this is
    reader,   \* its peer's mirror of the group
    wire      \* welcomes, updates and commits that were sent

vars == <<writer, reader, wire>>

----------------------------------------------------------------------------
(* Group creation and join.                                                *)

Unbound == MaxEpoch + 1  \* EPOCH_UNBOUND
ClassicalGid == 1
PqGid == 2

ApqInfo(t_gid, pq_gid, t_epoch, pq_epoch) ==
    [t_gid |-> t_gid, pq_gid |-> pq_gid, t_epoch |-> t_epoch, pq_epoch |-> pq_epoch]

NoInfo == ApqInfo(0, 0, Unbound, Unbound)

IdentityFieldsMatch(a, b) == a.t_gid = b.t_gid /\ a.pq_gid = b.pq_gid

Founding == 0  \* the ids the key packages and the first leaves show

\* A welcome leads to epoch 1 of the group it names: its two leaves, and the PSKs
\* its key schedule needs.
Welcome(gid, info, creator, psks) ==
    [gid |-> gid, info |-> info, leaves |-> [creator |-> creator, joiner |-> Founding],
     psks |-> psks]
NoWelcome == Welcome(0, NoInfo, Founding, {})

\* What a group exports, by the domain and the group; all at epoch 1.
Psk(domain, gid) == [domain |-> domain, gid |-> gid]
ReaderGid == 3  \* the reader's own send group
CrossPsk == Psk("cross_party", ReaderGid)

VerifyClassicalHalf(w) == w.info.t_gid = w.gid /\ w.info.t_epoch = 1

VerifyApqInfoPair(cl, pq) ==
    /\ VerifyClassicalHalf(cl)
    /\ IdentityFieldsMatch(cl.info, pq.info)
    /\ cl.info.pq_gid = pq.gid
    /\ pq.info.pq_epoch = 1 /\ cl.info.pq_epoch = 1

VerifyApqInfoDeferred(cl) ==
    VerifyClassicalHalf(cl) /\ cl.info.pq_epoch = Unbound /\ cl.info.pq_gid # 0

VerifyDeferredPqInfo(pq, info) ==
    /\ IdentityFieldsMatch(pq.info, info)
    /\ pq.info.pq_gid = pq.gid
    /\ pq.info.t_epoch = Unbound /\ pq.info.pq_epoch = 1

\* Both rosters hold the same two identities.
EnsureMembershipConsistent(cl, pq) == cl.leaves = pq.leaves

\* validate_member, asked for the creator's leaf: the adoption window passes every id.
\* (The joiner's own is pinned: Rotation!BootstrapBind.)
ValidateMember(theirs, w, adopting) == adopting \/ w.leaves.creator \in KnownIds(theirs)

----------------------------------------------------------------------------
(* Commits.                                                                *)

\* What a commit is built of: its half, the epoch it leaves, the members added,
\* the updates folded (by their sender), the epoch attestations, the PSKs.
Bundle(half, epoch, adds, updates, attests, psks) ==
    [half |-> half, epoch |-> epoch, adds |-> adds, updates |-> updates,
     attests |-> attests, psks |-> psks]

Attestation(t_epoch, pq_epoch) == [t_epoch |-> t_epoch, pq_epoch |-> pq_epoch]

\* TwoMlsRules::filter_proposals, for the writer as committer.  Proposals that
\* are none of these kinds are refused, and no operation builds one.
FilterProposals(members, b) ==
    /\ Cardinality(b.attests) <= 1
    /\ \A a \in b.attests :
         /\ b.half = "pq" => b.updates = {}
         /\ (IF b.half = "pq" THEN a.pq_epoch ELSE a.t_epoch) = b.epoch + 1
    /\ b.psks \subseteq {"external", "application"}
    /\ \/ members = 1 /\ b.adds = 1 /\ b.updates = {}
       \/ /\ members = 2 /\ b.adds = 0
          /\ Cardinality(b.updates) <= 1
          /\ \A u \in b.updates : u.from = "reader"

\* Mutant of CommitOptions: the path is left to the proposals.
CommitOptionsDefault(b) == FALSE

\* TwoMlsRules::commit_options: an attested commit of the classical half has a path.
CommitOptions(b) == b.attests # {} /\ b.half = "classical"

\* When an MLS commit carries an update path: when its options ask for it, when an
\* update rides it, when no proposal does.
HasPath(b) ==
    \/ CommitOptions(b)
    \/ b.updates # {}
    \/ b.adds = 0 /\ b.attests = {} /\ b.psks = {}

\* The commit as sent: a new leaf of the committer reaches the peer in the path.
Commit(b, old, new) == [bundle |-> b, leaf |-> IF HasPath(b) THEN new ELSE old]
NoCommit == [bundle |-> Bundle("none", 0, 0, {}, {}, {}), leaf |-> 0]

Staple(cl, pq) == [kind |-> "staple", cl |-> cl, pq |-> pq]
PqCommitFrame(pq) == [kind |-> "rekey_commit", cl |-> NoCommit, pq |-> pq]
WelcomeFrame(cl, pq) == [kind |-> "welcome", cl |-> cl, pq |-> pq]
BootstrapWelcomeFrame(pq) == [kind |-> "pq_welcome", cl |-> NoWelcome, pq |-> pq]

\* The reader's update of its own leaf; ahead: in the PQ half it announces an id
\* that the classical half has not made canonical yet.
Upd(half, epoch, n, ahead) ==
    [kind |-> "upd", half |-> half, epoch |-> epoch, n |-> n, ahead |-> ahead, from |-> "reader"]

\* What can still be joined, folded or applied; the network forgets the rest.
Undelivered(fs, w, r) ==
    {f \in fs : CASE f.kind = "welcome" -> r.cl = 0
                  [] f.kind = "pq_welcome" -> r.pq = 0
                  [] f.kind = "upd" -> f.epoch = IF f.half = "pq" THEN w.pq ELSE w.cl
                  [] f.kind = "staple" -> f.cl.bundle.epoch >= r.cl
                  [] f.kind = "rekey_commit" -> f.pq.bundle.epoch >= r.pq}

----------------------------------------------------------------------------
(* The creations.                                                          *)

NoBind == Attestation(0, 0)
NobodyKnown == [history |-> << >>, authorized_next |-> {}, pinned |-> {}]

\* A group as its creator holds it: epoch 1, and the PQ half at 0 while it is deferred.
Born(info, pq, failed) ==
    [info |-> info, cl |-> 1, pq |-> pq, id |-> 0, cl_leaf |-> 0, pq_leaf |-> 0,
     cl_cache |-> {}, pq_cache |-> {}, queued |-> {}, owed |-> NoBind,
     bind |-> NoCommit, failed |-> failed]

\* create_combiner_send_group: both halves, each attesting epoch 1 of both.
CreateCombinerSendGroup ==
    LET info == ApqInfo(ClassicalGid, PqGid, 1, 1)
        a == {Attestation(1, 1)}
    IN  /\ writer = Born(info, 1,
               \/ ~FilterProposals(1, Bundle("pq", 0, 1, {}, a, {}))
               \/ ~FilterProposals(1, Bundle("classical", 0, 1, {}, a, {"application"})))
        /\ wire = {WelcomeFrame(Welcome(ClassicalGid, info, Founding, {Psk("apq", PqGid)}),
                                Welcome(PqGid, info, Founding, {}))}

\* create_bound_classical_send_group: bound to the cross-party PSK of the reader's
\* group, the PQ half deferred and its id allocated.
CreateBoundClassicalSendGroup ==
    LET info == ApqInfo(ClassicalGid, PqGid, 1, Unbound)
    IN  /\ writer = Born(info, 0,
               ~FilterProposals(1, Bundle("classical", 0, 1, {}, {}, {"application"})))
        /\ wire = {WelcomeFrame(Welcome(ClassicalGid, info, Founding, {CrossPsk}), NoWelcome)}

Init ==
    /\ CreateCombinerSendGroup \/ CreateBoundClassicalSendGroup
    /\ reader = [info |-> NoInfo, cl |-> 0, pq |-> 0, cl_leaf |-> 0, pq_leaf |-> 0,
                 theirs |-> NobodyKnown, failed |-> FALSE]

\* What the joiner has registered by the time it joins the classical half.  Of a
\* return welcome: the export of its own send group, still at epoch 1.  Of a birth
\* welcome, whose joiner has no group yet: the APQ-PSK of the PQ half, joined first.
Registered(f) == IF f.pq = NoWelcome THEN {CrossPsk} ELSE {Psk("apq", f.pq.gid)}

\* join_combiner_group_from_halves and process_welcome, the deferred shape too:
\* everything the join of a birth or return welcome may refuse.
Joinable(f) ==
    /\ \A h \in {f.cl, f.pq} : ValidateMember(reader.theirs, h, TRUE)
    /\ f.pq.psks = {} /\ f.cl.psks \subseteq Registered(f)
    /\ IF f.pq = NoWelcome THEN VerifyApqInfoDeferred(f.cl)
       ELSE VerifyApqInfoPair(f.cl, f.pq) /\ EnsureMembershipConsistent(f.cl, f.pq)

JoinGroup(f) ==
    /\ f.kind = "welcome" /\ reader.cl = 0
    /\ Joinable(f)
    /\ reader' = [reader EXCEPT !.info = f.cl.info, !.cl = 1,
                                !.pq = IF f.pq = NoWelcome THEN 0 ELSE 1,
                                !.theirs = CommitId(@, f.cl.leaves.creator)]
    /\ wire' = Undelivered(wire, writer, reader')
    /\ UNCHANGED writer

\* Mutant of BootstrapInfo: a group id of its own.
BootstrapInfoFresh == ApqInfo(writer.info.t_gid, PqGid + 1, Unbound, 1)

\* The deferred half mirrors the classical info, under the id allocated there.
BootstrapInfo == ApqInfo(writer.info.t_gid, writer.info.pq_gid, Unbound, 1)

\* pq_bootstrap_respond: the deferred half is created.
Bootstrap ==
    /\ writer.pq = 0
    /\ writer' = [writer EXCEPT !.pq = 1, !.pq_leaf = writer.id,
                     !.failed = @ \/ ~FilterProposals(1, Bundle("pq", 0, 1, {}, {}, {}))]
    /\ wire' = wire \cup {BootstrapWelcomeFrame(
                  Welcome(BootstrapInfo.pq_gid, BootstrapInfo, writer.id, {}))}
    /\ UNCHANGED reader

\* What pq_bootstrap_bind may refuse of the joined half: it must be the one the
\* classical half names.  No adoption window and no roster comparison: the tree shows
\* the id its creator had by then, which the AS must know.
BootstrapJoinable(f) ==
    /\ ValidateMember(reader.theirs, f.pq, FALSE)
    /\ f.pq.psks \subseteq {CrossPsk}
    /\ VerifyDeferredPqInfo(f.pq, reader.info)

JoinBootstrap(f) ==
    /\ f.kind = "pq_welcome" /\ reader.cl > 0 /\ reader.pq = 0
    /\ BootstrapJoinable(f)
    /\ reader' = [reader EXCEPT !.pq = 1, !.pq_leaf = f.pq.leaves.creator]
    /\ wire' = Undelivered(wire, writer, reader')
    /\ UNCHANGED writer

----------------------------------------------------------------------------
(* The classical half.                                                     *)

\* A commit of the reader folds the update with which the writer offers its next id:
\* canonical for the reader's AS.  The writer's last rotation is complete by then.
FoldOffered ==
    /\ reader.cl > 0 /\ Current(reader.theirs) = writer.id /\ writer.id < MaxId
    /\ writer.cl_leaf = writer.id /\ reader.cl_leaf = writer.id
    /\ reader' = [reader EXCEPT !.theirs = CommitId(@, writer.id + 1)]
    /\ UNCHANGED <<writer, wire>>

\* The writer applies that commit, and goes by the id from then on.
Rotate ==
    /\ reader.cl > 0 /\ writer.id # Current(reader.theirs)
    /\ writer' = [writer EXCEPT !.id = Current(reader.theirs)]
    /\ UNCHANGED <<reader, wire>>

Propose(u) ==
    /\ u.epoch > 0
    /\ wire' = wire \cup {u}
    /\ UNCHANGED <<writer, reader>>

\* validate_offered_update: MLS files the offer to validate it; the cache is cleared.
ValidateOfferedUpdate(w, u) == [w EXCEPT !.cl_cache = {}]

\* queue_proposal: the host approves one offer of the current epoch; the last wins.
QueueProposal(u) ==
    /\ u.kind = "upd" /\ u.half = "classical" /\ u.epoch = writer.cl
    /\ writer' = [ValidateOfferedUpdate(writer, u) EXCEPT !.queued = {u}]
    /\ UNCHANGED <<reader, wire>>

\* Mutant of Discharged: the attestation names the PQ epoch after the next commit.
DischargedAhead(w) == {Attestation(w.owed.t_epoch, w.pq + 1)}

\* discharge_owed_bind: the reserved epochs, on the classical half too.
Discharged(w) == {w.owed}

\* discharge_and_commit: everything filed, the approved offer, and the owed bind.
ClassicalBundle(w) ==
    LET attests == IF w.owed = NoBind THEN {} ELSE Discharged(w)
    IN  Bundle("classical", w.cl, 0, w.cl_cache \cup w.queued, attests,
               IF attests = {} THEN {} ELSE {"application"})

\* The reservation of an owed bind, checked as it is discharged.
Reserved(w) ==
    w.owed # NoBind => w.owed.t_epoch = w.cl + 1 /\ w.owed.pq_epoch = w.pq

\* prepare_ratchet_commit: a fold, or an owed bind once the reader has caught up.
\* The commit hands the writer's leaf over to its current id.
RatchetCommit ==
    LET w == writer
        b == ClassicalBundle(w)
        bound == b.attests # {}
        c == Commit(b, w.cl_leaf, w.id)
    IN  /\ w.queued # {} \/ (w.owed # NoBind /\ reader.cl = w.cl)
        /\ ~w.failed /\ w.cl < MaxEpoch
        /\ IF FilterProposals(2, b) /\ Reserved(w)
           THEN /\ writer' = [w EXCEPT !.cl = @ + 1, !.cl_leaf = w.id,
                                  !.cl_cache = {}, !.queued = {},
                                  !.owed = IF bound THEN NoBind ELSE @,
                                  !.bind = IF bound THEN NoCommit ELSE @]
                /\ wire' = Undelivered(wire \cup {Staple(c, IF bound THEN w.bind ELSE NoCommit)},
                                        writer', reader)
           ELSE /\ writer' = [w EXCEPT !.failed = TRUE]
                /\ UNCHANGED wire
        /\ UNCHANGED reader

----------------------------------------------------------------------------
(* The PQ half.                                                            *)

SendPqCommitBlocked(w) == w.pq_cache # {}

\* inject_and_commit: the secret as an external PSK, with the attestation.
InjectAndCommit(w, a) == Bundle("pq", w.pq, 0, w.pq_cache, {a}, {"external"})

\* commit_pq_and_owe_bind, at the end of an A.3, A.4 or A.5 round: a commit with
\* the injected secret and the attestation, its classical partner owed.
CommitPqAndOweBind ==
    LET w == writer
        a == Attestation(w.cl + 1, w.pq + 1)
        b == InjectAndCommit(w, a)
    IN  /\ w.pq > 0 /\ w.pq < MaxEpoch /\ reader.pq = w.pq
        /\ w.owed = NoBind /\ ~w.failed
        /\ ~SendPqCommitBlocked(w)
        /\ writer' = IF FilterProposals(2, b)
                     THEN [w EXCEPT !.pq = @ + 1, !.owed = a, !.bind = Commit(b, w.pq_leaf, w.pq_leaf)]
                     ELSE [w EXCEPT !.failed = TRUE]
        /\ wire' = Undelivered(wire, writer', reader)
        /\ UNCHANGED reader

\* Mutant of Refused: the refused proposal stays filed.
RefusedFiled(w, u) == [w EXCEPT !.pq_cache = @ \cup {u}]

\* pq_rekey_respond refuses an announced id that is not canonical: MLS has filed
\* the proposal by then, and the refusal clears the cache.
Refused(w, u) == [w EXCEPT !.pq_cache = {}]

RekeyRespond(u) ==
    LET w == writer
        b == Bundle("pq", w.pq, 0, w.pq_cache \cup {u}, {}, {"application"})
    IN  /\ u.kind = "upd" /\ u.half = "pq" /\ u.epoch = w.pq
        /\ w.pq < MaxEpoch /\ w.owed = NoBind /\ ~w.failed
        /\ writer' = CASE u.ahead -> Refused(w, u)
                       [] ~u.ahead /\ FilterProposals(2, b) ->
                            [w EXCEPT !.pq = @ + 1, !.pq_leaf = w.id, !.pq_cache = {}]
                       [] OTHER -> [w EXCEPT !.failed = TRUE]
        /\ wire' = IF writer'.pq = w.pq THEN wire
                   ELSE Undelivered(wire \cup {PqCommitFrame(Commit(b, w.pq_leaf, w.id))},
                                    writer', reader)
        /\ UNCHANGED reader

----------------------------------------------------------------------------
(* The reader.                                                             *)

\* process_incoming_message of a commit: of the current epoch, admitted by the rules.
Applies(c, epoch) == c.bundle.epoch = epoch /\ FilterProposals(2, c.bundle)

\* apply_bind: both halves attested, alike, and by the epochs they lead to.
BindVerifies(f) ==
    /\ Applies(f.pq, reader.pq) /\ Applies(f.cl, reader.cl)
    /\ f.cl.bundle.attests = f.pq.bundle.attests
    /\ f.cl.bundle.attests = {Attestation(reader.cl + 1, reader.pq + 1)}

\* new_sender: a leaf that moved commits its id.
NewSender(r, leaf) == IF leaf = r.cl_leaf THEN r.theirs ELSE CommitId(r.theirs, leaf)

\* process_incoming: a plain commit staple, or a bind, whose failure is latched.
ApplyStaple(f) ==
    /\ f.kind = "staple" /\ f.cl.bundle.epoch = reader.cl /\ ~reader.failed
    /\ IF f.pq = NoCommit
       THEN /\ Applies(f.cl, reader.cl)
            /\ reader' = [reader EXCEPT !.cl = @ + 1, !.cl_leaf = f.cl.leaf,
                                        !.theirs = NewSender(reader, f.cl.leaf)]
       ELSE reader' = IF BindVerifies(f)
                      THEN [reader EXCEPT !.cl = @ + 1, !.cl_leaf = f.cl.leaf,
                                          !.pq = @ + 1, !.pq_leaf = f.pq.leaf,
                                          !.theirs = NewSender(reader, f.cl.leaf)]
                      ELSE [reader EXCEPT !.failed = TRUE]
    /\ wire' = Undelivered(wire, writer, reader')
    /\ UNCHANGED writer

\* pq_rekey_apply.
ApplyRekeyCommit(f) ==
    /\ f.kind = "rekey_commit" /\ Applies(f.pq, reader.pq)
    /\ reader' = [reader EXCEPT !.pq = @ + 1, !.pq_leaf = f.pq.leaf]
    /\ wire' = Undelivered(wire, writer, reader')
    /\ UNCHANGED writer

Next ==
    \/ Bootstrap \/ FoldOffered \/ Rotate \/ RatchetCommit \/ CommitPqAndOweBind
    \/ \E n \in 1..MaxUpdates : Propose(Upd("classical", reader.cl, n, FALSE))
    \/ \E ahead \in BOOLEAN : Propose(Upd("pq", reader.pq, 1, ahead))
    \/ \E f \in wire :
         \/ JoinGroup(f) \/ JoinBootstrap(f)
         \/ QueueProposal(f) \/ RekeyRespond(f)
         \/ ApplyStaple(f) \/ ApplyRekeyCommit(f)

\* The hosts keep sending and keep feeding what arrives.
Fairness ==
    /\ WF_vars(RatchetCommit)
    /\ WF_vars(\E f \in wire : JoinGroup(f) \/ JoinBootstrap(f))
    /\ WF_vars(\E f \in wire : ApplyStaple(f) \/ ApplyRekeyCommit(f))

Spec == Init /\ [][Next]_vars
FairSpec == Spec /\ Fairness

----------------------------------------------------------------------------
(* Properties.                                                             *)

\* No commit that an operation builds is refused, by the rules as it is built or by
\* the reader as it is applied: the secret of the round is spent by then.  So no bind
\* misses the epochs it reserved, both halves of a full commit attest the epochs they
\* lead to, and a proposal that was refused leaves nothing filed for a commit to carry.
CommitsAdmitted == ~writer.failed /\ ~reader.failed

\* Whatever rotations, folds and binds come in between, a reader at the writer's
\* epoch holds the leaf the writer signs with in that half.
SignaturesVerify ==
    /\ reader.cl = writer.cl => reader.cl_leaf = writer.cl_leaf
    /\ reader.pq > 0 /\ reader.pq = writer.pq => reader.pq_leaf = writer.pq_leaf

\* No join refuses a welcome the writer made: not for its APQInfo, its rosters, its
\* PSKs, nor for a creator the AS does not know.  That of a deferred half, created under
\* an id the writer has rotated to since, stays joinable through the rotations after
\* it, fewer than CREDENTIAL_HISTORY_WINDOW; from then on the join is refused for good.
WelcomesJoin ==
    \A f \in wire :
        /\ f.kind = "welcome" => Joinable(f)
        /\ /\ f.kind = "pq_welcome" /\ reader.cl > 0
           /\ Current(reader.theirs) < f.pq.leaves.creator + HistoryWindow
           => BootstrapJoinable(f)

\* An owed bind lands: both halves of the reader reach the epochs it reserved.
OwedBindLands ==
    \A t, q \in 1..MaxEpoch :
        writer.owed = Attestation(t, q) ~> (reader.cl >= t /\ reader.pq >= q)

=============================================================================
