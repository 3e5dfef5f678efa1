------------------------------ MODULE Windows ------------------------------
(***************************************************************************)
(* What a session keeps beside its groups to be reached, read and asked    *)
(* about epochs that have passed: the header keys and listen addresses of  *)
(* its send group, the cached seal of the retained side-band frame, and    *)
(* the ledgers of attachment components.  All are bounded windows over     *)
(* epochs that only the peer's commits, or only our own, move.             *)
(*                                                                         *)
(* A key is the half and the epoch of the group it is exported from.  The  *)
(* sender seals to the epoch its receive group mirrors; the reader opens   *)
(* with what it recorded of its send group while the epoch was current.    *)
(***************************************************************************)
EXTENDS Session

CONSTANTS
    EpochRetention,    \* EPOCH_RETENTION: prior epochs the group storage keeps
    PqHeaderWindow,    \* PQ_HEADER_WINDOW: header keys of the send-PQ half
    AttachmentWindow,  \* ATTACHMENT_LEDGER_WINDOW: components a ledger keeps
    Attaching          \* parties whose host sends and fetches attachments

ASSUME WindowsAssumption ==
    /\ EpochRetention \in Nat \ {0} /\ PqHeaderWindow \in Nat \ {0, 1}
    /\ AttachmentWindow \in Nat /\ AttachmentWindow > EpochRetention
    /\ Attaching \subseteq Party

VARIABLES
    keys,    \* keys[p]: epochs p listens on and can open
    seal,    \* seal[p]: the Stable seal cached with pending_side_band
    ledger   \* ledger[p]: attachment components exported and kept

wvars == <<session, frames, legs, fresh, keys, seal, ledger>>

\* The n newest epochs of a set.
Newest(n, epochs) == {e \in epochs : Cardinality({x \in epochs : x > e}) < n}

----------------------------------------------------------------------------
(* Recording.                                                              *)

\* The epochs the storage still has after a write at epoch e.
Retained(epochs, e) == {x \in epochs : x + EpochRetention >= e}

\* Mutant of RecordListenRendezvous: prior epochs are dropped at once.
RecordListenRendezvousOnly(k, e) == [k EXCEPT !.listen = {e}]

\* record_listen_rendezvous: listen_rendezvous and recv_header_keys in lockstep.
RecordListenRendezvous(k, e) ==
    IF e \in k.listen THEN k ELSE [k EXCEPT !.listen = Retained(@ \cup {e}, e)]

\* Mutant of RecordPqHeaderKey: nothing is evicted.
RecordPqHeaderKeyAlways(k, e) == [k EXCEPT !.pq = @ \cup {e}]

RecordPqHeaderKey(k, e) ==
    IF e = 0 \/ e \in k.pq THEN k ELSE [k EXCEPT !.pq = Newest(PqHeaderWindow, @ \cup {e})]

\* A ledger never holds an epoch twice and evicts the oldest.
LedgerAttachmentComponent(epochs, e) ==
    IF e \in epochs THEN epochs ELSE Newest(AttachmentWindow, epochs \cup {e})

----------------------------------------------------------------------------
(* Sealing and opening.                                                    *)

NoSeal == [frame |-> NoLeg, key |-> [half |-> "none", epoch |-> 0]]

\* The A.4 legs are sealed with the classical half; the others with the PQ half
\* of the receive group once it exists.
SealSideBand(s, leg) ==
    [frame |-> leg,
     key |-> IF leg.kind \in {"ek", "ct"} \/ s.recv_pq = 0
             THEN [half |-> "classical", epoch |-> s.recv_cl]
             ELSE [half |-> "pq", epoch |-> s.recv_pq]]

\* side_band_seal_epoch: the clock of the cached seal, a bare epoch number.
SideBandSealEpoch(s, leg) == SealSideBand(s, leg).key.epoch

\* hand_out for a host that asks for stable bytes: the cached seal while its
\* epoch is the current one, else a new seal.
HandOut(p) ==
    LET s == session[p]
    IN  IF seal[p] # NoSeal /\ seal[p].key.epoch = SideBandSealEpoch(s, s.pending_side_band)
        THEN seal[p] ELSE SealSideBand(s, s.pending_side_band)

\* try_open: some key of either window opens the blob.
Opens(p, key) ==
    IF key.half = "classical" THEN key.epoch \in keys[p].listen ELSE key.epoch \in keys[p].pq

----------------------------------------------------------------------------
(* The handlers of Session with what they record.                          *)

\* Mutant of SealFollowsSlot: the cache is left to the next hand_out.
SealFollowsSlotNot(p) == UNCHANGED seal

\* The cache lives and dies with the frame in the slot.
SealFollowsSlot(p) ==
    seal' = [seal EXCEPT ![p] =
                IF session'[p].pending_side_band = session[p].pending_side_band THEN @ ELSE NoSeal]

\* A prepare that does not end in an error records the epoch its commit opened.
Prepare(p) ==
    \E selected \in Ids :
        /\ PrepareToEncrypt(p, selected)
        /\ keys' = IF selected # 0 /\ selected \notin session'[p].staged_candidates THEN keys
                   ELSE [keys EXCEPT ![p] = RecordListenRendezvous(@, session'[p].send_cl)]
        /\ SealFollowsSlot(p)
        /\ UNCHANGED ledger

SealedEncrypt(p) == Encrypt(p) /\ SealFollowsSlot(p) /\ UNCHANGED <<keys, ledger>>

\* Mutant of RememberRecvAttachmentComponent: a bind's departing epoch is missed.
RememberRecvAttachmentComponentCommit(p) ==
    IF session'[p].recv_cl > session[p].recv_cl /\ session'[p].recv_pq = session[p].recv_pq
    THEN [ledger EXCEPT ![p].recv = LedgerAttachmentComponent(@, session[p].recv_cl),
                        ![p].exported = FALSE]
    ELSE ledger

\* The component of the receive epoch a staple is about to leave.
RememberRecvAttachmentComponent(p) ==
    IF Joined(session[p]) /\ session'[p].recv_cl > session[p].recv_cl
    THEN [ledger EXCEPT ![p].recv = LedgerAttachmentComponent(@, session[p].recv_cl),
                        ![p].exported = FALSE]
    ELSE ledger

ReceiveFrame(p) ==
    /\ ProcessIncoming(p)
    /\ ledger' = RememberRecvAttachmentComponent(p)
    /\ SealFollowsSlot(p)
    /\ UNCHANGED keys

ReceiveWelcome(p) == ProcessIncomingWelcome(p) /\ UNCHANGED <<keys, seal, ledger>>

Approve(p) == QueueProposal(p) /\ UNCHANGED <<keys, seal, ledger>>

HandOutStable(p) ==
    /\ PqPendingOutbound(p)
    /\ seal' = [seal EXCEPT ![p] = HandOut(p)]
    /\ UNCHANGED <<keys, ledger>>

HandOutFresh(p) == PqPendingOutbound(p) /\ UNCHANGED <<keys, seal, ledger>>

TakeOut(p) == PqTakePendingOutbound(p) /\ SealFollowsSlot(p) /\ UNCHANGED <<keys, ledger>>

\* The frame pq_bootstrap_begin returns seeds the cache; the envelope does not.
BeginBootstrap(p) ==
    /\ PqBootstrapBegin(p)
    /\ seal' = [seal EXCEPT ![p] = SealSideBand(session[p], KpLeg)]
    /\ UNCHANGED <<keys, ledger>>

BeginEnvelope(p) == PqBootstrapEnvelope(p) /\ SealFollowsSlot(p) /\ UNCHANGED <<keys, ledger>>

\* Every side-band handler that commits in the send-PQ half records its key.
SideBand(p) ==
    /\ ProcessSideBand(p)
    /\ keys' = [keys EXCEPT ![p] = RecordPqHeaderKey(@, session'[p].send_pq)]
    /\ SealFollowsSlot(p)
    /\ UNCHANGED ledger

ShouldListenOn(p) ==
    /\ keys' = [keys EXCEPT ![p] =
                   RecordPqHeaderKey(RecordListenRendezvous(@, session[p].send_cl), session[p].send_pq)]
    /\ UNCHANGED <<session, frames, legs, fresh, seal, ledger>>

\* A component in the ledger, or one the current epoch can still export: the
\* exporter leaf is consumed by the first export.
RecvComponentAvailable(p, e) ==
    e \in ledger[p].recv \/ (e = session[p].recv_cl /\ ~ledger[p].exported)

\* export_attachment_cek_recv for a frame of the current epoch.
ExportAttachmentCekRecv(p) ==
    LET e == session[p].recv_cl
    IN  /\ p \in Attaching /\ Joined(session[p])
        /\ RecvComponentAvailable(p, e)
        /\ ledger' = [ledger EXCEPT ![p].recv = LedgerAttachmentComponent(@, e),
                                    ![p].exported = TRUE]
        /\ UNCHANGED <<session, frames, legs, fresh, keys, seal>>

\* export_attachment_cek_send, between prepare_to_encrypt and encrypt.
ExportAttachmentCekSend(p) ==
    /\ p \in Attaching /\ session[p].pending_proposal_hash
    /\ ledger' = [ledger EXCEPT ![p].send = LedgerAttachmentComponent(@, session[p].send_cl)]
    /\ UNCHANGED <<session, frames, legs, fresh, keys, seal>>

----------------------------------------------------------------------------

WInit ==
    /\ Init
    /\ keys = [p \in Party |->
                 RecordPqHeaderKey([listen |-> {session[p].send_cl}, pq |-> {}], session[p].send_pq)]
    /\ seal = [p \in Party |-> NoSeal]
    /\ ledger = [p \in Party |-> [send |-> {}, recv |-> {}, exported |-> FALSE]]

WNext ==
    \E p \in Party :
        \/ Prepare(p) \/ SealedEncrypt(p)
        \/ ReceiveFrame(p) \/ ReceiveWelcome(p) \/ Approve(p)
        \/ HandOutStable(p) \/ HandOutFresh(p) \/ TakeOut(p)
        \/ BeginBootstrap(p) \/ BeginEnvelope(p) \/ SideBand(p)
        \/ ShouldListenOn(p)
        \/ ExportAttachmentCekRecv(p) \/ ExportAttachmentCekSend(p)

WSpec == WInit /\ [][WNext]_wvars

----------------------------------------------------------------------------
(* Properties.                                                             *)

\* The windows keep to their bounds, whatever path recorded an epoch: the PQ
\* header keys, the addresses, and both ledgers.
WindowsBounded ==
    \A p \in Party :
        /\ keys[p].listen \subseteq Nat /\ Cardinality(keys[p].listen) <= EpochRetention + 1
        /\ keys[p].pq \subseteq Nat /\ Cardinality(keys[p].pq) <= PqHeaderWindow
        /\ Cardinality(ledger[p].send) <= AttachmentWindow
        /\ Cardinality(ledger[p].recv) <= AttachmentWindow

\* No rotation has ever overflowed a candidate pool.  The prepare that defers a
\* candidate fails after its commit and records no address for the new epoch.
NoneDeferred == \A p \in Party : session[p].deferred_candidate = 0

\* Whatever p seals next, a message or a side-band frame, its peer can open and
\* listens for: the key of each half of p's receive group, at the epoch p mirrors,
\* is in the peer's windows although only the peer moves that group.
PeerOpensNextSeal ==
    \A p \in Party :
        LET s == session[p]
        IN  /\ Joined(s) => Opens(Peer(p), [half |-> "classical", epoch |-> s.recv_cl])
            /\ s.recv_pq > 0 => Opens(Peer(p), [half |-> "pq", epoch |-> s.recv_pq])

\* What hand_out gives a chunking host is the frame now in the slot, under a key
\* the peer still holds: a cached seal never outlives its frame or its epoch, nor
\* is it confused by two halves standing at the same epoch number.
HandedOutOpens ==
    \A p \in Party :
        session[p].pending_side_band # NoLeg /\ Joined(session[p]) =>
            /\ HandOut(p).frame = session[p].pending_side_band
            /\ HandOut(p).key = SealSideBand(session[p], session[p].pending_side_band).key
            /\ Opens(Peer(p), HandOut(p).key)

\* The epoch of a frame's application message: the one its staple leads to.
FrameEpoch(f) == f.staple.epoch + 1

\* As long as a frame's application message can still be decrypted, in the epoch
\* its reader is at or a prior one the group retains, the component that opens its
\* attachments is at hand, however often the reader exported in between.
AttachmentDerivable ==
    \A f \in frames :
        LET p == Peer(f.from)
            e == FrameEpoch(f)
        IN  e <= session[p].recv_cl /\ e + EpochRetention >= session[p].recv_cl =>
                RecvComponentAvailable(p, e)

=============================================================================
