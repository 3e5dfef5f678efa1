# TwoMLSPQ: a TLA+ model of the session

TwoMLSPQ runs a two-party conversation over four MLS groups.  Each party owns a
*send group* that only it commits to, and holds a *receive group* that mirrors
the peer's send group.  Every group has a classical half and, once bootstrapped,
a post-quantum (PQ) half; the halves are tied together by PSKs and by an
attested pair of epochs.  There is no server that orders messages: frames may be
lost, delayed, reordered and delivered twice.  What keeps the two parties
together is a protocol inside the library, in
`rust/two-mls-pq/src/session/`, and that protocol is what this project models.

## 1. Inventory

| part | state | operations | how it interacts |
|---|---|---|---|
| session messaging (`session/messaging.rs`, `session/mod.rs`) | epochs of the four halves, `current_staple`, pending / offered / queued proposal, `peer_applied_send_epoch`, `send_psk_ledger`, `last_cross_injected` | `prepare_to_encrypt`, `encrypt`, `process_incoming`, `queue_proposal` | frames `[staple][proposal][app]` to the peer; the host approves offers |
| PQ side-band (`session/pq_ops.rs`) | `pq_inflight`, `pending_side_band`, `owed_bind`, `pq_turn_mine`, `pq_wedged`, export watermarks, `psk_stores` | A.3 bootstrap (begin, envelope, respond, bind), A.4 ratchet (respond, bind), A.5 re-key (respond, apply), peek and take of the parked frame | rounds are opened inside `encrypt`; every round closes with a *bind* that rides the message staple |
| credential rotation | `client`, `staged_candidates`, `deferred_candidate`, canonical ids, leaf ids of the PQ halves | a candidate id in `prepare_to_encrypt`; the peer's fold picks the winner; A.5 moves the PQ leaves | classical commits make an id canonical, A.5 legs present it |
| authentication sequence (`apq/src/authentication.rs`) | history of at most 8 ids, in-flight authorizations, pins | authorize, commit, pin, unpin | the identity provider of every group |
| persistence (`session/archive.rs`, `session/mod.rs`) | `state_seq`, Core and Checkpoint blobs, the tail | `mutate_and_persist`, `persist_after`, `restore` | every mutation pushes a blob to the host's sink; `depends_on_seq` and `state_seq` gate transmission |
| header encryption, rendezvous (`session/messaging.rs`) | header keys and listen addresses by epoch, the cached seal | seal, open, `hand_out`, `should_listen_on` | decides which frames can be opened |
| invitations (`key_packages.rs`, `invitation.rs`) | captured key packages, consumed remotes, spawn, welcome and commitment tables | generate, `receive`, the lookups, restore | creates the acceptor's session |
| establishment envelope | the stapled handoff, approval | install, approve | gates sending and joining for a born-dedicated acceptor |
| attachments | two bounded ledgers | export CEK | follow the classical epochs |
| combiner groups, rules, storage (`apq/src`) | MLS groups, filed proposals, `ApqInfo` | create, join, commit, filter, attest | the session builds its commits with them |
| codec, migration, providers, Swift wrapper, demo | none of their own | conversions | |

What is hard here:

* **order and loss** - a frame carries the latest staple only; nothing
  acknowledges it except the proposal of a later frame of the peer;
* **interleaving of two channels** - side-band legs and message frames overtake
  each other, and both parties open PQ rounds on their own during `encrypt`;
* **one-shot exporter leaves** - each leaf can be read once; watermarks on both
  sides decide who exports what and when;
* **points of no return** - a PQ commit made now must be attested by a classical
  commit made later, with both epochs reserved in between;
* **replays** - the host may deliver any frame again, long after its round;
* **crashes** - state goes out as two kinds of blob at different times, the PSK
  stores are never archived, and a frame may be on the wire before the state it
  rests on is durable;
* **bounded windows over unbounded lag** - header keys, ledgers and credential
  histories forget epochs and ids that the peer may still name;
* **establishment** - a remote may start over, race another for a single use, or
  be approved late, and either host may restart in between.

The properties that make it correct: the reader never misses an epoch; a staple
is never displaced before the peer has it; every bind meets a responder that can
apply it; the turn is a single token; a reserved epoch stays reserved; no
candidate is evicted that the peer may still commit; what is sealed next can be
opened; a restore succeeds and does not rewind what the peer relies on; a remote
gets one session, and both ends agree on it; the rules admit every commit the
session builds; and rounds finish.

## 2. Modules

| module | role | extends |
|---|---|---|
| `Session` | both parties, the network, all handlers, their properties | |
| `SendChannel` | abstract specification: what one half of a send group promises | |
| `Recovery` | the session with its persistence, crashes and restores | `Session` |
| `Windows` | the session with header keys, rendezvous, the cached seal and attachments | `Session` |
| `AuthSequence` | `PartySequence`: history, authorizations, pins, valid successors | |
| `Rotation` | one party's credentials in four groups, as both sides see them | `AuthSequence` |
| `Establishment` | invitation, initiators, spawned sessions, envelope and approval | |
| `Combiner` | one combiner group: creations, joins, commits, rules | `AuthSequence` |
| `MCSession`, `MCRekey`, `MCRecovery`, `MCWindows`, `MCCredentials`, `MCEstablishment`, `MCCombiner` | instances for the runs | |
| `SessionInvariants` | the inductive invariants of cross-party PSKs, PQ rounds and credentials | `Session` |
| `SessionProofs` | proofs: types, the classical halves, their refinement | `Session` |
| `RoundProofs` | proofs: PSK ledger, PQ rounds, binds, the PQ refinement | `SessionProofs`, `SessionInvariants` |
| `CredentialProofs` | proofs: ids and candidates inside a session | `SessionProofs`, `SessionInvariants` |
| `WindowsProofs` | invariants and proofs of `Windows` | `Windows`, `RoundProofs`, `CredentialProofs` |
| `RecoveryProofs` | invariants and proofs of `Recovery`, hosts that wait for every push | `Recovery`, `RoundProofs`, `CredentialProofs` |
| `RotationProofs`, `EstablishmentProofs`, `CombinerProofs` | invariants and proofs of one component each | that component |

### State of `Session`

`session[p]` is a record with the control-relevant fields of `SessionInner`,
under their Rust names.  An epoch is a number, 0 means that the half or the
value does not exist (`None`).  `send_cl`, `send_pq`, `recv_cl`, `recv_pq` are
the epochs of the halves.  `theirs` is the set of canonical ids of the peer
(`auth_core.theirs`), `send_pq_leaf` and `recv_pq_leaf` the ids the leaves of the
PQ halves present, `opened` the A.4 legs whose message generation is spent, and
`psk_stores` the A.5 cross-party PSKs that are registered.  `frames` and `legs`
are everything that was ever sent; delivery picks any element at any time, so
loss, delay, reordering and duplication need no action of their own.  `fresh`
names the next ephemeral or random secret.

A secret is a name: `Export(e)` is the cross-party export of the responder's
send-PQ epoch `e`, `Random(n)` the one sealed in an A.4 ciphertext.  A
ciphertext records the ephemeral and the PQ epoch it is bound to; it opens only
for both.

### Actions of `Session`

| action | code |
|---|---|
| `PrepareToEncrypt` | `prepare_to_encrypt`: licence, fold, discharge of an owed bind, classical commit, `Upd(self)`, re-wrap of the parked leg |
| `EncryptFrame`, `EncryptWithoutProposal` | `encrypt`, with the automatic opening of the next PQ round |
| `ProcessIncoming`, `ProcessIncomingWelcome` | `process_incoming`: staple, leaf bookkeeping, offer and evidence |
| `QueueProposal` | `queue_proposal` |
| `PqPendingOutbound`, `PqTakePendingOutbound` | the two ways to hand out the parked frame |
| `PqBootstrapBegin`, `PqBootstrapEnvelope`, `PqBootstrapRespond`, `PqBootstrapBind` | A.3 |
| `PqRatchetRespond`, `PqRatchetBind` | A.4 (opened by `StageRatchet` inside `encrypt`) |
| `PqRekeyRespond`, `PqRekeyApply` | A.5 (opened by `StageRekey`) |

Each handler is an operator from the record to the record and each action
applies one whole handler, under the lock that `SessionInner` is kept in.  A
call that the code refuses without changing anything is not a step; a call that
fails *after* it changed something is one (a refused `Upd'` that has stamped the
watermark, a `Commit'` that has registered its PSK, a leg that decrypts and does
not open, a discharge whose reservation no longer holds, a bind that fails
half-way and breaks the receive side).

### The abstract specification

`SendChannel` has one stop-and-wait channel per writer: an epoch is opened only
when the reader has applied the one before, and the reader takes epochs one by
one.  `Session` instantiates it twice, for the classical and for the PQ halves.
Its consequence is the design rule of the library: at any time there is a single
commit to repeat, so a frame needs to carry a single staple.

### Abstractions of `Session`

* One element of `frames` stands for all frames with the same staple and offer.
  In the code a byte-identical replay fails at the application message after the
  staple was skipped and changes nothing; the model also lets it record its
  offer, which only adds behaviours.
* A frame whose header cannot be opened is a frame that is not delivered.
* MLS itself is used by its promises: a commit applies only in its own epoch, a
  leaf is exported once, an application message is decrypted once, an A.4 leg
  only in the epoch it was made in.  What the builders put in a commit, and
  `send_pq_commit_blocked`, are in `Combiner`.
* The acceptor is not born-dedicated; the envelope is in `Establishment`.
* Legs of the retired PQ carrier of A.4 are left out.
* `theirs` is a set that only grows; the ordered, bounded history and its pins
  are in `Rotation`.
* A host rotates to an id greater than the current one, so ids are not reused.

### `Recovery`: persistence

`disk[p]` is what `reconcile_persisted` can read of the two slots: the newest
session state in its wire form, the PQ trees of the newest Checkpoint, and which
slot is newer.  Each action is an action of `Session` with the push it makes:
`Prepare`, `Receive`, `Approve`, the A.3 to A.5 handlers (`MovePq`,
`RespondToEphemeral`) through `mutate_and_persist`; `process_incoming` pushes a
Checkpoint when a PQ epoch moved and a Core otherwise (`IncomingKind`); `encrypt`
pushes a Core and, when it opened an A.5, a Checkpoint after it (`PushEncrypted`,
`PushBetween`).  `Archived` and `SessionFromWire` are the codec by what it does:
the open round and its tail, no PSK stores, no latch of a failed bind.

Blobs become durable in order, so a crash loses a suffix of the pushes.  Whether
a push is in that suffix is decided when it is made (`PushLost`, `PushDurable`);
no handler can observe it, so this only moves the choice forward.  A frame whose
gate is shut is composed and not transmitted (`WithholdMessage`), which is the
same as a frame that is lost.  The host's gate for messages is `depends_on_seq`
(the push of the staple); with `gate = TRUE` the host waits for every push.  Side-
band frames wait for `state_seq`.  The private keys of classical `Upd`s are not
tracked per `prepare`, only those of the PQ halves (`recv_pq_update`).

### `Windows`: what a session keeps of epochs that have passed

`keys[p]` are the epochs whose listen address and header key `p` has recorded,
`seal[p]` the cached seal of the parked frame, `ledger[p]` the attachment
components.  Each action of `Session` is taken with what its handler records;
`HandOutStable`, `HandOutFresh` and `TakeOut` are the three ways a frame leaves,
`ShouldListenOn`, `ExportAttachmentCekRecv` and `ExportAttachmentCekSend` the
calls of the host.  A key is a half and an epoch; derivation is left out.

### `AuthSequence` and `Rotation`: credentials

`AuthSequence` has the operations of `PartySequence` on a record of history,
authorized ids and pins.  `Rotation` follows the ids of one owner: `owner.mine`,
`peer.theirs`, and the id its leaf presents in each of the four groups in both
copies.  A send is `prepare_to_encrypt` and `encrypt` in one step; `OwnerReceive`
and `PeerReceive` are the leaf bookkeeping of `process_incoming`, `PeerFold` the
fold, and the bootstrap and both directions of A.5 move the PQ leaves.

### `Establishment`: from the key package to two live sessions

`inv` has the invitation's tables, `acceptor` the sessions it spawned, `initiator`
the newest session of each remote, `disk` and `idisk` what is durable.  `Receive`
is `receive` with every early return before its claims; `Forward` routes what the
tables already name; `InstallEstablishmentEnvelope`, `PendingOutbound`,
`EncryptReturn` are the doors through which a welcome leaves, `PauseForApproval`
and `ProcessIncomingApproved` the two halves of the initiator's join.  An
invitation is a constant record (last-resort or not, dedicated or not, the
remotes that have seen it), chosen in `Init`, so that one run covers three kinds.
The invitation's blob and the new session's blob are two writes (`ArchiveSink`: "a
single-object write, never a multi-object one", `lib.rs:725`), made durable in the
order in which `receive` and then the host push them: `ReceivePushed` has the crash
between the two, which keeps the claims and loses the session.

### `Combiner`: what is in a commit

Where `Session` counts epochs, `Combiner` has bundles of proposals: by-reference
updates that MLS has filed, PSKs, attestations, and a path or none.
`FilterProposals` and `CommitOptions` are `TwoMlsRules`; the writer's operations
are the two creations, `Bootstrap`, `RatchetCommit`, `CommitPqAndOweBind` and
`RekeyRespond`, the reader's are the joins and `ApplyStaple`, `ApplyRekeyCommit`.
A commit that either side refuses sets `failed`.  A welcome has its `APQInfo`, its
two leaves and the PSKs its key schedule needs; `Joinable` and `BootstrapJoinable`
are everything a join may refuse of it: `verify_apqinfo_*`, the rosters
(`ensure_membership_consistent`), the PSKs the joiner has registered, and
`validate_member` of the creator, which the adoption window waives at establishment
but not when the deferred half is joined.  `reader.theirs` is the `PartySequence` of
`AuthSequence`: `FoldOffered` makes the writer's next id canonical, `Rotate` is the
writer's swap to it.  The rotations do not overlap; overlaps are the subject of
`Rotation`.  `Commit` (mls-rs builds and
numbers the commit) and `Undelivered` (the network forgets what can change
nothing) are external.

## 3. Runs

Windows have the smallest sizes that the relations between the code's constants
allow, so that every window overflows: `SendPskWindow` 2 (code: 8; with 1 the
property fails, so `Session` assumes at least 2), `CandidateWindow` 1 (4),
`HistoryWindow` 2 (8; with 1 a leaf cannot catch up, so `AuthSequence` assumes at
least 2), `EpochRetention` 1, `PqHeaderWindow` 2, `AttachmentWindow` 2.  `MaxFold` stops the hosts from
approving offers at that epoch, `MaxPq` stops rounds from opening at that send-PQ
epoch, `MaxId` bounds ids; none of them cuts a round short once it is open.  Three
runs also have a `CONSTRAINT` that leaves out the product of two long histories:
`FoldsOrRounds` (`session`: a fold that takes the initiator an epoch past its
binds comes before the second A.4 or not at all), `RotationOrRounds` (`rekey`: the
initiator rotates before the first A.4 or not at all), `OneRatchet` (`recovery`:
one A.4).

| run | instance | distinct states | shows |
|---|---|---|---|
| `session` | folds by both hosts to epoch 2 (a bind adds one more), bootstrap and A.4 rounds to send-PQ epoch 3 | 238 905 | the safety of both halves and both refinements from establishment on |
| `rekey` | from the state after the acceptor's rotation: A.5 and A.4 rounds to send-PQ epoch 4, the initiator rotates too, hosts that take the parked frame | 377 806 | replayed legs never strand, wedge or mis-bind a round; ids and candidates |
| `recovery` | from establishment and from the rotated state, folds by the acceptor to epoch 2, one crash of either party; both host policies with the rotated start | 505 257 | restore succeeds and rewinds nothing the peer relies on |
| `recovery_live` | from establishment, one crash, fair hosts that wait for every push | 19 850 | bootstrap and rounds finish in spite of the crash, and safely |
| `windows` | folds to epoch 2, send-PQ epoch 3, one taker, attachments of the acceptor | 570 098 | what is sealed next opens; attachments of readable frames can be derived |
| `credentials` | 2 rotations, 2 commits each, 2 A.5 rounds, `Serial` | 1 779 959 | no catch-up is refused |
| `establishment` | three kinds of invitation, two remotes, two bindings, one crash, fair hosts | 467 426 | one session per remote, every session claimed, agreement, delegation, and the join happens unless a crash loses the session between its two writes |
| `combiner` | epochs to 3, 3 rotations with a history of 2 ids, 2 updates per epoch, fair hosts | 31 763 | every welcome is joined, every commit built is admitted; an owed bind lands |
| `depends_on`, `splice`, `restart_psk`, `rotation_order` | small instances of `Recovery` and `Rotation` | | statements of the documentation and of comments that the code does not meet (section 5) |

Why these bounds: one fold per party gives every order of fold, bind and leg
within a round, and makes a parked leg cross an epoch; `session` runs three A.4
rounds and `rekey` two A.5 rounds of the same party with the peer's A.4 between,
so that a leg of one round can be replayed into the next of its kind.  Later rounds repeat these states with larger numbers.
One crash suffices to lose any suffix of pushes; it may fall into any step, also
between the two blobs of an `encrypt` or of a `receive`.  `establishment` gives a remote two
attempts, a second remote for the race, and a wrong binding.

`rekey`, and `recovery` besides its fresh start, start from `InitRotated`.  Both
records were reached by `Session` itself (the bootstrap's bind folds the acceptor's
rotation to id 1); the frames sent up to there count as lost, which the network may
always do.  A host that waits for every push is checked from the rotated start in
`recovery` and from establishment in `recovery_live`.

Deadlock is checked except in `establishment` and `combiner`, where all bounded
counters can be used up and nothing is left to send.

**Properties**

* `TypeOK` - the type invariant.
* `InStep` - the inductive invariant of the classical halves (section 4).
* `NoEpochDesync` - no frame ever sent leads to `EpochDesync`.
* `StapleNotDisplaced` - a staple leaves `current_staple` only when it is applied.
* `ClassicalIsStopAndWait`, `PostQuantumIsStopAndWait` - the refinements.
* `BindMeetsResponder` - a bind that is due finds a responder that waits, holds or
  can still export the same secret, and stands at the attested epochs.
* `CrossPskInWindow` - the PSK of a commit still to be applied is in the ledger.
* `CommittableCandidateHeld` - the peer can only commit a candidate we hold.
* `TurnIsOneToken` - one party has the turn, or an unapplied bind carries it.
* `ResponderNeverStranded` - a responder's round is still alive at its initiator.
* `ReservationKept` - reserved epochs stay the next ones; no wedge.
* `RekeyIdsCanonical` - ids presented by A.5 legs are known to the receiver.
* `BothHalvesComeUp`, `RoundPassesTurn` - liveness of bootstrap and rounds.
* `RestoreSucceeds` - `reconcile_persisted` and `session_from_wire` never refuse
  what was written in order, unless a bind had failed half-way (section 5).
* `AppliedIsDurable` - the peer never applies an epoch a crash would rewind.
* `RestoredResponderHolds` - a restored responder can open the bind of its round.
* `GatedHostIsSafe` - with a host that waits for every push, the safety properties
  of `Session` survive crashes.
* `WindowsBounded`, `PeerOpensNextSeal`, `HandedOutOpens`, `AttachmentDerivable` -
  the windows keep to their bounds and are still large enough.
* `CatchUpAccepted`, `PeerKnowsOwner`, `PqCatchUpAdmitted` - the peer accepts the
  owner's moves of its own leaf, knows the id it runs, and a PQ leaf that lags by
  less than the window, or presents the pinned founding id, can be moved by a leg
  that names an id within the window.
* `SpawnsAtMostOnce`, `SessionsAreClaimed`, `BothEndsAgree` - one session per
  remote; every session is found through every table and the four tables name the
  same welcomes (not that each of them still has a session, section 5); both ends
  agree.
* `NothingUndelegated`, `OneEnvelopePerWelcome`, `JoinedMeansAdmitted`,
  `StapleOutlivesJoin` - the delegation of a dedicated principal.
* `Establishes` - a complete initial frame leads to a join, unless the acceptor's
  crash kept the claim of its welcome and lost the session (`Orphaned`).
* `CommitsAdmitted`, `SignaturesVerify`, `OwedBindLands` - rules and reader admit
  what the writer builds; signatures verify with the reader's leaf; a bind that is
  owed lands.
* `WelcomesJoin` - no join refuses a welcome the writer made; that of the deferred
  half through fewer rotations of its creator than the history window has ids.

All but the four that need fairness (`BothHalvesComeUp`, `RoundPassesTurn`,
`Establishes`, `OwedBindLands`) are also proved (section 4), some of them under a
hypothesis that section names: `RestoredResponderHolds` only for hosts that wait for
every push, the others are checked by the run alone.

For each there is a mutant in `PROJECT.json`: an operator next to the one it
changes (`Mutant of X`), a plausible slip in that code, under which the property
fails.

**Fairness.**  `RFairness` (`recovery_live`): the hosts keep sending (`Prepare`,
`SendMessage`), call `pq_bootstrap_begin`, and hand the parked frame out with their
sends, the role the book gives the host (`session-lifecycle.md`, "re-staple
peek"): weak fairness each.  A frame with the peer's current staple and offer is
sent over and over, so one of them arrives: weak fairness of `ReceiveCurrent`.  A
parked leg is sent over and over as well, but its door may be shut for a while
(between `prepare` and `encrypt`): strong fairness of `ReceiveSideBand`.  A push
that was decided to be lost is lost in a crash, which therefore comes.  Nothing is
assumed of approvals, rotations, `take`, or deliveries of old frames.

`Establishment!Fairness`: the acceptor's host works through its inbox, installs
the envelope and keeps sending, the initiator's host feeds what arrives and
approves what pauses, and their writes succeed again and again.  Nothing is
assumed of crashes (one may orphan the welcome, which `Establishes` excepts), of new attempts, of early messages or of the other remote.

`Combiner!Fairness`: the writer keeps sending, the reader keeps being fed.

## 4. Proofs

The theorems are checked by TLAPS for all values of the constants: all window
sizes, numbers of epochs, rotations, remotes and attempts.  They rest on the
`ASSUME`s beside the constants (bounds are natural numbers, windows have at least
the size the code's constants keep) and on what a theorem states itself.  They
start from `Init`; the rotated start of `rekey` is one of the states that
`Session` reaches from there.

| theorem | states | rests on |
|---|---|---|
| `TypeCorrect`, `StaysInStep` | `TypeOK`, `InStep` | |
| `NeverDesyncs`, `StapleKept`, `ClassicalRefinement` | `NoEpochDesync`, `StapleNotDisplaced`, `ClassicalIsStopAndWait` | `InStep` |
| `PskStaysInWindow` | `CrossPskInWindow` | `CrossInStep` |
| `TurnStaysOneToken`, `ReservationStays`, `NobodyStranded`, `BindAlwaysMet`, `PostQuantumRefinement` | `TurnIsOneToken`, `ReservationKept`, `ResponderNeverStranded`, `BindMeetsResponder`, `PostQuantumIsStopAndWait` | `RoundsInStep` |
| `RekeyIdsStayCanonical`, `CommittableStaysHeld` | `RekeyIdsCanonical`, `CommittableCandidateHeld` | `IdsInStep`, `CandidatesHeld` |
| `WindowsImplementSession` | every behaviour of `Windows` is one of `Session` | |
| `WindowsStayBounded`, `AttachmentsStayDerivable` | `WindowsBounded`, `AttachmentDerivable` | `WindowsInv` |
| `NextSealOpens`, `HandedOutStaysOpen` (while `NoneDeferred`) | `PeerOpensNextSeal`, `HandedOutOpens` | `WindowsInv`, `ListenInStep` |
| `AppliedStaysDurable` | `AppliedIsDurable` | `DurableInv` |
| `RestoresWhileHeld` (while `CommittableCandidateHeld`), `UnrotatedRestores` (`Rotators = {}`) | `RestoreSucceeds` | `DurableInv`, `RestoreInv`, `FirstIds` |
| `GatedStaysSafe` | `GatedHostIsSafe` | `DurableInv`, `GatedInv` |
| `GatedRestores`, `GatedResponderHolds` (both with `Gated`) | `RestoreSucceeds`, `RestoredResponderHolds` | `DurableInv`, `RestoreInv`, `GatedInv` |
| `PeerStaysInformed`, `CatchUpsStayAccepted`, `PqCatchUpsStayAdmitted` (all with `Serial`) | `PeerKnowsOwner`, `CatchUpAccepted`, `PqCatchUpAdmitted` | `RotationInv` |
| `SpawnsStayAtMostOnce`, `NothingEverUndelegated`, `EnvelopeStaysOne`, `StapleStaysForJoin`, `JoinStaysAdmitted`, `EndsStayAgreed` | `SpawnsAtMostOnce`, `NothingUndelegated`, `OneEnvelopePerWelcome`, `StapleOutlivesJoin`, `JoinedMeansAdmitted`, `BothEndsAgree` | `EstablishmentInv` |
| `SessionsStayClaimed` | `SessionsAreClaimed` | `EstablishmentInv`, `LedgerInv` |
| `CommitsStayAdmitted`, `SignaturesStayVerifiable`, `WelcomesStayJoinable` | `CommitsAdmitted`, `SignaturesVerify`, `WelcomesJoin` | `CombinerInv` |

**How the proofs of `Session` are laid out.**  A handler is an operator on the
record of one party, so it is first shown, by a lemma of its own, to have one of a
few *shapes*; then one lemma per invariant shows that a step of such a shape keeps
it.  `SessionProofs` has a type lemma per handler and the shapes of the classical
half (`StepMove`), `RoundProofs` those of the cross-party PSK (`CrossMove`) and of
a round (`RoundMove`), `CredentialProofs` those of ids and candidates (`CredMove`),
`WindowsProofs` what is recorded beside the handler (`WindowsMove`).

**The classical halves.**  `NoEpochDesync` is not inductive: it says nothing of why
the writer waits.  `InStep` adds that, per writer `p` with mirror at the peer:

1. `MirrorClose` - the mirror is at `p`'s epoch or one behind;
2. `StaplesBehind` - the current staple leads exactly to `p`'s epoch, every frame
   sent is older, and only the welcome has epoch 0;
3. `OffersReached` - an offer (pending, on the wire, or recorded) never names an
   epoch the mirror has not reached, because offers are made *in* the mirror;
4. `LicenseIsTrue` - evidence is never ahead, and if `p` has a queued offer or
   evidence for its epoch then the mirror *is* at that epoch.

`p` commits only with such a licence, hence only when the mirror has caught up.
An offer validates only in `p`'s current epoch, and by 1 and 3 an offer of that
epoch proves that the mirror is there, however old the frame.  The mirror moves
only by a staple of its own epoch, so it stays within 1.

**The PSK ledger.**  A commit names the peer's send epoch that `p` mirrored when it
was made.  `CrossInStep` says that while the peer misses the commit this epoch is
the peer's own or the one before, and that in the latter case nothing licenses
the peer to move on: its evidence is older, and so is every offer it can get
without applying the commit first.  Two epochs of ledger suffice for that, and
one does not.

**The rounds.**  `RoundsInStep` is one statement about both records.  `Round`
lists the phases of a round in the order of the protocol (quiet, opened,
answered, closing by an owed bind, closing by a bind on the wire), each with the
PQ epochs of both sides, who has the turn, and that the secret the bind injects is
the one the responder holds or can still export.  `Health` bounds the watermarks,
`Slot` ties the parked frame to the round, and `LegFits` says of every leg that was
ever sent that it belongs to the round in flight or is recognisably old where it
arrives: that conjunct is what a replayed leg needs.  The ephemerals are told
apart by `fresh`, and a copy of an A.4 leg from before the bind by its classical
epoch, which is why the classical invariant is part of the argument.

**Ids and candidates.**  `IdsInStep`: an id is canonical at the peer before anything
presents it there.  `CandidatesHeld`: wherever an offer of the current epoch is, its
maker still holds the key; offers of earlier epochs can never be committed, so
the pool may be pruned when the mirror moves.

**The windows.**  `WindowsInv` gives every window as an interval that ends at the
party's epoch (`Last`), `ListenInStep` that the classical interval reaches down to
what the peer mirrors.  With `MirrorClose` for both halves the key of the next seal
is in it.  `AttachmentDerivable` and the bounds need no hypothesis; the seals need
that no candidate is deferred (section 5).

**Persistence.**  `AppliedIsDurable` and `RestoreSucceeds` are to hold for hosts that do
not wait for their pushes too, where a crash breaks the invariants of `Session`.
`DurableInv` says instead, per party, that disk is never ahead of memory, is level
while no push is lost, and has the staple while no push of a staple is
(`DiskBehind`); that both copies of the peer's mirrors are at epochs on disk
(`MirrorsDurable`); that every commit on the wire is, too (`WireDurable`: the two
gates let a frame out only then); and that memory and disk hold sessions whose
staple, debt, parked frame and round are complete (`Sound`, `Saved`).  A handler's
step is `Handles`: forward, on the strength of the peer's disk, showing its own.
The codec lemmas (`RoundTrip`, `SoundAdmitted`, `RestoredSound`) give back what was
archived but for stores and latch.  `RestoreInv` adds that while memory and disk
are level a Core has the PQ epochs of the Checkpoint it will be read with: every
handler that moves a PQ epoch pushes a Checkpoint.  The one that does not is a
receive that fails after it moved the PQ half, by the latch, which
`RestoreSucceeds` leaves out, or because the commit folds a candidate that is not held
(section 5), which is the hypothesis of `RestoresWhileHeld`.  A host that does not
rotate discharges it: `FirstIds` says that there is only one id.

**Hosts that wait.**  `Gated` says that both hosts transmit nothing while a push lags.
Then each party has at most two sessions it may go on with (`Copies`): the one in memory
and, while a push lags, the one a crash would put in its place.  `GatedInv` says that
a level disk gives back a session `Alike` the one in memory, and that *every* copy of
one party is `Paired` with *every* copy of the other.  `Paired` is what `InStep`,
`CrossInStep`, `RoundsInStep` and `CandidatesHeld` say, restated of two records, with
`Settled`: a staple that is no bind carries none, and a bind that was applied is in
the PQ half.  A crash then only drops a copy, and what needs care are the handlers:

* a handler changes memory (`Moves` for the classical half, ids and candidates,
  `RoundStep` of `RoundProofs` for the round), and the result must be paired with
  both copies of the peer, of which the handler has seen neither;
* the old memory becomes the disk's copy when the push lags, and the older copy is
  kept if one lags already, both paired with a peer that did not move;
* frames and legs are added only while the disk is level, so that they show what both
  copies of the sender agree on (`Sends`): this is where the waiting is used, and it is
  what `depends_on` violates.

From `GatedInv` the invariants of `Session` follow for the two sessions in memory
(`GatedInStep`), and with them `GatedHostIsSafe`, and `CommittableCandidateHeld`,
which discharges the hypothesis of `RestoresWhileHeld` whether or not the hosts rotate;
`RestoredResponderHolds` follows from a copy on disk being paired with the peer's memory.

**Rotations.**  `RotationInv` has the mirrors of `InStep` again, that a rotation is
offered only when the last is complete (`OffersFit`, `FoldFits`), that both histories
are ordered and end with the id in use, that what the peer evicted is older than
all it has (`CanonicalFits`), and that the founding id is pinned while a leaf or a
leg presents it (`RoundFits`).  `Serial` is needed: `rotation_order` shows the
violation without it.

**Establishment.**  `EstablishmentInv` relates three copies of the same facts: the
invitation's tables with the sessions, each with its durable copy, and each
initiator's session with the one spawned for it.  `LedgerInv` adds that the four
tables name the same welcomes and every session among them, in memory and on disk.
A crash between the two writes of a `receive` keeps it, since the invitation's comes
first: the tables on disk are those of the sessions on disk, or are ahead of them.

**Combiner groups.**  `CombinerInv` says of every commit on the wire that it was built
at the epochs, leaves and filed proposals that the reader has when it is due, and
that at most one PQ commit is.  For the joins it adds what a welcome on the wire was
made of, and that the reader's history holds the newest ids in their order without a
gap (`NewestIds`), so that it knows each one not older than the window.

**Only model-checked:** `RestoredResponderHolds` for hosts that transmit while a push
lags, and the four liveness properties, since fairness is beyond the prover.  For the
former `Round` is not enough: it uses that the classical halves are in step, to tell a
bind that was applied from one that is due, and for these hosts they are not
(`depends_on`).

## 5. Disagreements between code and text

With a run that shows them:

* `restart_psk` - `pq_rekey_apply` registers the PSK and stamps
  `last_send_pq_exported` before it has looked at the `Commit'`.  After a replayed
  `Commit'` of an earlier A.5 the genuine one resolves its PSK only from what the
  refused call left in the in-memory store; a restart empties the store and keeps
  the stamp, and the round never ends.  The comment calls a replayed `Commit'` a
  no-op.
* `rotation_order` - the peer's history is kept in order of arrival.  With
  overlapping rotations, the owner's hand-off to id 1 may arrive after the peer
  folded id 2; the history becomes 0, 2, 1 and the owner's catch-up from 1 to 2 is
  refused in every frame that repeats it.  `credentials` shows that this needs the
  overlap: it passes for a host that rotates once the last rotation is complete.
* `depends_on` - `depends_on_seq` covers the staple, not the receive that the frame
  acknowledges.  A routine frame goes out at once, the peer commits on its
  evidence, the sender restarts before the receive is durable and meets a staple
  one epoch ahead.  `recovery` shows that a host that waits for every push is safe.
* `splice` - `encrypt` pushes the Core with a staged A.5 before the Checkpoint with
  the tree that holds its update.  A crash between the two passes
  `reconcile_persisted` (the PQ epochs are equal), and the restored initiator has
  the round and the parked `Upd'` but cannot apply the `Commit'` that answers it.

Without a run of their own:

* `receive` pushes the invitation's tables before the session it returns can have
  a sink (`key_packages.rs:1138`, `session/mod.rs:1883`).  A crash between the two
  writes leaves tables that name a session that does not exist: a re-sent frame is
  "routed to the owning session rather than passed to `receive`"
  (`key_packages.rs:1162`), where there is none, or refused as `DuplicateWelcome`,
  and the remote never joins.  So the converse of `SessionsAreClaimed` fails, and so
  does `Establishes` without its `Orphaned`.  The Swift wrapper guards against the
  same outcome of another failure ("the session would be orphaned and a retry
  refused as `.duplicateWelcome`", `PQSession.swift:1249`); a host that
  writes one object at a time (`lib.rs:725`) has no way to close this one.
* The `Welcome'` of A.3 shows the id its creator had when it was made, and its join is
  outside the adoption window (`pq_ops.rs:1952`).  Of the ids that the deferred half
  shows only the founding ones are pinned (`pq_ops.rs:1352`, `pq_ops.rs:1758`): after
  `CREDENTIAL_HISTORY_WINDOW` further rotations of the creator the initiator has
  evicted that id, refuses every retry, and the bootstrap cannot complete.
  `WelcomesJoin` therefore speaks of fewer rotations than the window.
* `pq_rekey_respond` stamps the cross-party leaf before it has looked at the `Upd'`
  (`pq_ops.rs:1039`): a replayed `Upd'` that is refused makes the next re-key carry
  no cross-party PSK for an epoch that was never bound.  Both sides agree on that,
  so the round completes (`rekey`).
* A bind that fails half-way leaves `bind_apply_broken`, which is only in memory:
  "reloading the last persisted state predates the failed take"
  (`session/mod.rs:277`).  Sending still works, and the Core that the next
  `encrypt` pushes has the spent round and the advanced PQ epoch, so that the
  restore is refused.  The model reaches this only after a crash that rewound the
  receiver past the PSK ledger, with a host that does not wait for its pushes
  (`GatedHostIsSafe` holds for one that does); `RestoreSucceeds` leaves it out.
* An early message that reaches a consumed single-use invitation cannot be opened
  any more (`key_packages.rs:1230`), where `protocol-flows.md:168` says that any
  single one can be read.
* A rotation that overflows the candidate pool is deferred by a `prepare_to_encrypt`
  that has already committed and then returns `SessionNotReady`
  (`messaging.rs:923`), before it records the new epoch's address and header key
  (`messaging.rs:1787`).  If an earlier proposal is still pending, `encrypt` sends
  the new staple all the same, and the peer then seals at an epoch that the party
  neither listens on nor can open until `should_listen_on` is next called, where
  the comment at `messaging.rs:143` says that the address is captured "wherever
  that epoch can advance".  `PeerOpensNextSeal` fails with one rotator and a pool smaller than
  the number of its rotations; the `windows` run has no rotations, and the theorem
  is under `NoneDeferred`.
* An A.5 leg names the id of its opening.  If it stays parked while a whole window of
  further rotations completes, the peer has evicted that id and refuses the leg for
  good; `PqCatchUpAdmitted` therefore speaks of ids within the window only.
* A candidate whose push a crash lost can be folded by a peer that was sent it
  (a host that does not wait).  `process_incoming` then ends with
  `CredentialRejected` (`messaging.rs:1571`) after the bind moved the PQ half, with
  neither a latch nor a push, and the Core of a later call does not reconcile.
  `RestoreSucceeds` fails for it in the model when a rotator crashes; the `recovery`
  run has no rotations after its start.  (The private key of the update is lost with
  the candidate, so MLS may refuse the commit earlier; the model does not track it.)
* The trigger of the automatic A.5 and the eviction of an id that a PQ leaf still
  presents are two of the six shipped anomalies the book lists itself
  (`session-lifecycle.md:286`).

## 6. Plan

The parts that carry behaviour are modelled, and every safety property is proved,
`RestoredResponderHolds` for hosts that wait for every push.  For the other hosts it
would take an invariant of the rounds in the PQ epochs alone, of all pairs of copies,
that survives a desync of the classical halves.

**Not modelled**

* The frame codec: byte layout and tags.  A frame is a record of its sections; the
  dispatch by kind is the choice of the handler.
* `session/migration.rs` and the archive layouts v2 and v3: one-way decoding in a
  single call of formats whose writers are not in this repository.
* Crypto providers, suites and key derivation: secrets and keys are names.
* `apq/src/client.rs`: plumbing of providers into mls-rs clients, without state.
* Padding of frames, queries of epochs and state, the mapping of errors.
* The Swift wrapper and the generated binding: a forwarding layer.
* The demo.
