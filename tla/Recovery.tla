------------------------------ MODULE Recovery ------------------------------
(***************************************************************************)
(* The session with its persistence: every mutation pushes a blob to the   *)
(* host's sink, the host transmits a frame once the blobs it depends on    *)
(* are durable, and a party may crash and restore from what is on disk.    *)
(*                                                                         *)
(* A blob is a Core (everything but the two PQ trees) or a Checkpoint (the *)
(* complete state), each with its slot.  disk[p] is what reconcile_        *)
(* persisted can read of the two slots: the newest session state, the PQ   *)
(* trees of the newest Checkpoint, and which slot is newer.  Blobs become  *)
(* durable in seq order, so what a crash loses is a suffix of the pushes:  *)
(* a push is durable at once, or it and every later one is lost at the     *)
(* next crash (lag[p].on).  That decides the outcome of a race between the *)
(* sink and the crash when the push is made, which no handler can observe. *)
(***************************************************************************)
EXTENDS Session

CONSTANTS
    MaxCrashes,  \* bound: crashes of both parties together
    Gates        \* host policies: TRUE transmits nothing while any push is not durable

ASSUME CrashAssumption == MaxCrashes \in Nat /\ Gates \subseteq BOOLEAN

VARIABLES
    disk,    \* disk[p]: the durable Core and Checkpoint slots
    lag,     \* lag[p]: pushes that will not be durable when p crashes, and p's gate
    crashes  \* crashes so far

rvars == <<session, frames, legs, fresh, disk, lag, crashes>>

----------------------------------------------------------------------------
(* Blobs.                                                                  *)

\* The PQ trees of the two groups: what a Core leaves to the Checkpoint.
Trees(s) ==
    [send_pq |-> s.send_pq, recv_pq |-> s.recv_pq, joined |-> Joined(s),
     send_pq_leaf |-> s.send_pq_leaf, recv_pq_leaf |-> s.recv_pq_leaf,
     recv_pq_update |-> s.recv_pq_update]

\* The open round on the wire: its kind, and the key material of an A.4 round.
WirePqInflight(i) ==
    [kind |-> i.kind,
     ephemeral |-> IF i.kind = "Initiating" THEN i.eph ELSE 0,
     secret |-> IF i.kind = "Responding" THEN i.ct.secret ELSE NoSecret]

NoCt == Ciphertext(0, NoSecret, 0)

\* The tail of both blob kinds: the ciphertext a responder re-wraps, and the wedge.
TailFrom(s) ==
    [responder_wire_ct |-> IF s.pq_inflight.kind = "Responding" THEN s.pq_inflight.ct ELSE NoCt,
     pq_wedged |-> s.pq_wedged]

\* build_archive_wire: all but the PSK stores and the latch of a failed bind.
Archived(s) ==
    [body |-> [s EXCEPT !.psk_stores = {}, !.bind_apply_broken = FALSE, !.pq_wedged = FALSE,
                        !.pq_inflight = WirePqInflight(@)],
     tail |-> TailFrom(s)]

\* pq_inflight_from_wire refuses a payload that does not belong to the kind.
InflightAdmitted(w, ct) ==
    /\ ct # NoCt => w.kind = "Responding"
    /\ w.kind = "Initiating" <=> w.ephemeral # 0
    /\ w.kind = "Responding" <=> w.secret # NoSecret

PqInflightFromWire(w, ct) ==
    CASE w.kind = "Initiating" -> Initiating(w.ephemeral)
      [] w.kind = "Responding" -> Responding([ct EXCEPT !.secret = w.secret])
      [] OTHER -> [kind |-> w.kind]

\* session_from_wire refuses a round and a tail that do not agree: a parked
\* ciphertext of our send group always has its tail.  (The bounds of the ledgers
\* that it also checks are Windows!WindowsBounded.)
SessionAdmitted(w) ==
    LET i == w.body.pq_inflight
        ct == w.tail.responder_wire_ct
    IN  /\ InflightAdmitted(i, ct)
        /\ i.kind = "Responding" /\ ct = NoCt => w.body.pending_side_band.kind # "ct"

\* Mutants of SessionFromWire: the open round or the unspent bootstrap
\* key package is not restored.
SessionFromWireWithoutRound(w) == [w.body EXCEPT !.pq_inflight = Idle]
SessionFromWireWithoutKp(w) ==
    [w.body EXCEPT !.pq_inflight = PqInflightFromWire(@, w.tail.responder_wire_ct),
                   !.bootstrap_kp = FALSE]

\* The live session a wire gives back.
SessionFromWire(w) ==
    [w.body EXCEPT !.pq_inflight = PqInflightFromWire(@, w.tail.responder_wire_ct),
                   !.pq_wedged = w.tail.pq_wedged]

\* The slots after an upsert.
Write(d, kind, s) ==
    [wire |-> Archived(s),
     trees |-> IF kind = "Core" THEN d.trees ELSE Trees(s),
     core_newer |-> kind = "Core"]

Slots(s) == [wire |-> Archived(s), trees |-> Trees(s), core_newer |-> FALSE]

\* reconcile_persisted: the Checkpoint alone when it is the newer; else the Core
\* with the Checkpoint's trees, when the epochs of its manifest match them and
\* it did not lose the receive group.
Reconciles(d) ==
    d.core_newer =>
        /\ d.wire.body.send_pq = d.trees.send_pq
        /\ d.wire.body.recv_pq = d.trees.recv_pq
        /\ d.trees.joined => Joined(d.wire.body)

\* restore: a newer Core takes the trees of the Checkpoint.
Restored(d) ==
    IF ~d.core_newer THEN SessionFromWire(d.wire)
    ELSE [SessionFromWire(d.wire) EXCEPT !.send_pq_leaf = d.trees.send_pq_leaf,
                                         !.recv_pq_leaf = d.trees.recv_pq_leaf,
                                         !.recv_pq_update = d.trees.recv_pq_update]

----------------------------------------------------------------------------
(* Pushing and transmitting.                                               *)

InStepWithDisk(gate) == [on |-> FALSE, staple |-> FALSE, gate |-> gate]

\* A crash that has not happened yet is reserved for every lagging party.
CrashToCome(p) ==
    lag[p].on \/ crashes + Cardinality({q \in Party : lag[q].on}) < MaxCrashes

\* The step's push is among the ones the next crash loses.
PushLost(p) ==
    /\ CrashToCome(p)
    /\ lag' = [lag EXCEPT ![p].on = TRUE,
                          ![p].staple = @ \/ session'[p].current_staple # session[p].current_staple]
    /\ UNCHANGED <<disk, crashes>>

PushDurable(p, kind) ==
    /\ ~lag[p].on
    /\ disk' = [disk EXCEPT ![p] = Write(@, kind, session'[p])]
    /\ UNCHANGED <<lag, crashes>>

Push(p, kind) == PushDurable(p, kind) \/ PushLost(p)

NoPush == UNCHANGED <<disk, lag, crashes>>

PqEpochs(s) == <<s.send_pq, s.recv_pq>>

\* Mutant of IncomingKind: every receive pushes a Core.
IncomingKindCore(p) == "Core"

\* process_incoming_with: a Checkpoint when a PQ epoch moved.
IncomingKind(p) == IF PqEpochs(session'[p]) = PqEpochs(session[p]) THEN "Core" ELSE "Checkpoint"

\* Mutants of MessageGate: a frame never waits, or only for its staple.
MessageGateOpen(p) == TRUE
MessageGateStaple(p) == ~lag[p].staple

\* A message frame waits for the seq of its staple (depends_on_seq), or with a
\* host of the stricter policy for every push made before it.
MessageGate(p) == ~lag[p].staple /\ (lag[p].gate => ~lag[p].on)

\* Mutant of SideBandGate: a side-band frame never waits.
SideBandGateOpen(p) == TRUE

\* A side-band frame, which publishes key material, waits for state_seq.
SideBandGate(p) == ~lag[p].on

----------------------------------------------------------------------------
(* The handlers, with the blob each pushes.                                *)

Prepare(p, selected) == PrepareToEncrypt(p, selected) /\ Push(p, "Core")

\* encrypt pushes its Core, and a second blob, a Checkpoint, when it staged an
\* A.5: a crash can fall between the two.
OpensRekey(p) == session[p].pq_inflight = Idle /\ session'[p].pq_inflight = RekeyInitiated

PushBetween(p) ==
    /\ ~lag[p].on
    /\ CrashToCome(p)
    /\ disk' = [disk EXCEPT ![p] = Write(@, "Core", session'[p])]
    /\ lag' = [lag EXCEPT ![p].on = TRUE]
    /\ UNCHANGED crashes

PushEncrypted(p) ==
    IF OpensRekey(p) THEN Push(p, "Checkpoint") \/ PushBetween(p) ELSE Push(p, "Core")

\* A frame whose gate is closed depends on a push that is lost with it.
SendMessage(p) == MessageGate(p) /\ EncryptFrame(p) /\ PushEncrypted(p)
WithholdMessage(p) == ~MessageGate(p) /\ ComposeFrame(p) /\ UNCHANGED frames /\ PushEncrypted(p)
SendNothing(p) == EncryptWithoutProposal(p) /\ Push(p, "Core")

\* process_incoming pushes only when it succeeds.
Receive(p, f) ==
    /\ ProcessIncomingFrame(p, f)
    /\ IF FrameFails(session[p], f) THEN NoPush ELSE Push(p, IncomingKind(p))

ReceiveWelcome(p) == ProcessIncomingWelcome(p) /\ Push(p, "Core")

Approve(p) == QueueProposal(p) /\ Push(p, "Core")

HandOut(p) == SideBandGate(p) /\ PqPendingOutbound(p) /\ NoPush

\* A bootstrap round is registered and pushed before its frame may go out.
OpenBootstrap(p) ==
    /\ PqBootstrapBegin(p) \/ PqBootstrapEnvelope(p)
    /\ PushDurable(p, "Checkpoint")

WithholdBootstrap(p) ==
    /\ CanBeginBootstrap(session[p]) \/ CanBeginEnvelope(p, session[p])
    /\ session' = [session EXCEPT ![p] = RegisterBootstrapRound(@)]
    /\ UNCHANGED <<frames, legs, fresh>>
    /\ PushLost(p)

RespondToEphemeral(p) == PqRatchetRespond(p) /\ Push(p, "Core")

\* The handlers that may move a PQ group.
MovePq(p) ==
    /\ \/ PqBootstrapRespond(p)
       \/ PqBootstrapBind(p)
       \/ PqRatchetBind(p)
       \/ PqRekeyRespond(p)
       \/ PqRekeyApply(p)
    /\ Push(p, "Checkpoint")

\* A crash loses memory and the lagging pushes; the restore reconciles the slots
\* and install_sink pushes a baseline Checkpoint.
Crash(p) ==
    /\ CrashToCome(p)
    /\ Reconciles(disk[p]) /\ SessionAdmitted(disk[p].wire)
    /\ session' = [session EXCEPT ![p] = Restored(disk[p])]
    /\ disk' = [disk EXCEPT ![p] = Slots(session'[p])]
    /\ lag' = [lag EXCEPT ![p] = InStepWithDisk(@.gate)]
    /\ crashes' = crashes + 1
    /\ UNCHANGED <<frames, legs, fresh>>

RNext ==
    \E p \in Party :
        \/ \E selected \in Ids : Prepare(p, selected)
        \/ SendMessage(p)
        \/ WithholdMessage(p)
        \/ SendNothing(p)
        \/ \E f \in frames : Receive(p, f)
        \/ ReceiveWelcome(p)
        \/ Approve(p)
        \/ HandOut(p)
        \/ OpenBootstrap(p)
        \/ WithholdBootstrap(p)
        \/ RespondToEphemeral(p)
        \/ MovePq(p)
        \/ Crash(p)

Unsaved ==
    /\ disk = [p \in Party |-> Slots(session[p])]
    /\ \E gate \in Gates : lag = [p \in Party |-> InStepWithDisk(gate)]
    /\ crashes = 0

RSpec == Init /\ Unsaved /\ [][RNext]_rvars

----------------------------------------------------------------------------
(* Safety.                                                                 *)

\* Whenever a party crashes, its slots reconcile and the session is rebuilt: the
\* fail-closed ArchiveInvalid of reconcile_persisted and of session_from_wire never
\* meets blobs that were written in seq order.  Not so when a bind has failed half-
\* way (bind_apply_broken): a Core pushed after it has an epoch its trees lack.
RestoreSucceeds ==
    \A p \in Party :
        ~session[p].bind_apply_broken => Reconciles(disk[p]) /\ SessionAdmitted(disk[p].wire)

\* The peer never applies an epoch of a send group, in either half, that a
\* crash of its owner would rewind.
AppliedIsDurable ==
    \A p \in Party :
        /\ session[Peer(p)].recv_cl <= disk[p].wire.body.send_cl
        /\ session[Peer(p)].recv_pq <= disk[p].wire.body.send_pq

\* The party a crash brings back can still open the bind that its peer holds, owes
\* or has sent for the round the party answered.
RestoredResponderHolds ==
    \A p \in Party :
        LET d == Restored(disk[p])
            q == session[Peer(p)]
            b == IF q.owed_bind # NoBind THEN q.owed_bind ELSE q.current_staple.bind
        IN  b # NoBind /\ b.pq_epoch = d.recv_pq + 1 =>
                /\ AwaitsBind(d)
                /\ HeldSecret(d) = b.secret

\* With hosts that wait for every push before they transmit, what holds without
\* crashes holds with them: no commit is ahead of the group it is applied in, and
\* the A.3, A.4 and A.5 rounds keep their responder, their secret and one turn.
GatedHostIsSafe ==
    (\A p \in Party : lag[p].gate) =>
        NoEpochDesync /\ BindMeetsResponder /\ TurnIsOneToken /\ ResponderNeverStranded

\* A replayed or ill-timed Commit' is a no-op: whatever came before it, a crash
\* included, the A.5 commit a party waits for can be applied.  The cross-party PSK
\* it injects is one the party still holds or may still export, although a restore
\* starts with empty PSK stores and keeps the watermarks.
RekeyPskResolves ==
    \A l \in legs :
        LET s == session[Peer(l.from)]
        IN  /\ l.leg.kind = "rekey_commit" /\ l.leg.cross # 0
            /\ s.pq_inflight = RekeyInitiated /\ l.leg.epoch = s.recv_pq
            => SendPsk(l.leg.cross) \in PreRegister(s).psk_stores

\* depends_on_seq: a frame that re-staples a durable commit need not wait, because
\* a crash cannot rewind its sender past what the peer will rely on.  So no commit
\* a peer makes is ever ahead of the group it must be applied in.
RoutineFrameNeedsNoWait ==
    \A f \in frames :
        LET s == session[Peer(f.from)]
        IN  Joined(s) => StapleEpochAction(s, f.staple) # "desync"

\* What a restore assembles is a state the session was in: the trees it takes
\* from the Checkpoint are those the Core was written with.
NoStaleSplice == \A p \in Party : disk[p].core_newer => Trees(disk[p].wire.body) = disk[p].trees

----------------------------------------------------------------------------
(* Liveness.                                                               *)

\* Delivery of a frame that carries the peer's current staple and an offer made
\* at its current receive epoch: what the peer's next send will repeat.
ReceiveCurrent(p) ==
    LET q == session[Peer(p)]
    IN  \E f \in frames :
        /\ f.staple = q.current_staple /\ f.offer.epoch = q.recv_cl
        /\ Receive(p, f)

ReceiveSideBand(p) == RespondToEphemeral(p) \/ MovePq(p)

\* Both hosts keep sending, hand out the parked side-band frame on a send, and
\* start the bootstrap; a frame that is re-sent for ever arrives once, also when
\* the handler it is for refuses it from time to time.  A push decided to be lost
\* is lost in a crash that does come.
RFairness ==
    \A p \in Party :
        /\ WF_rvars(Prepare(p, 0))
        /\ WF_rvars(SendMessage(p) \/ WithholdMessage(p) \/ SendNothing(p))
        /\ WF_rvars(HandOut(p))
        /\ WF_rvars(OpenBootstrap(p) \/ WithholdBootstrap(p))
        /\ WF_rvars(ReceiveCurrent(p))
        /\ SF_rvars(ReceiveSideBand(p))
        /\ WF_rvars(lag[p].on /\ Crash(p))

RFairSpec == RSpec /\ RFairness

=============================================================================
