------------------------- MODULE Establishment -------------------------
(* From the published key package to two live sessions: the invitation     *)
(* (key_packages.rs, invitation.rs), the initiator's pre-establishment     *)
(* envelopes, the acceptor session that `receive` spawns, the signed       *)
(* establishment handoff of a dedicated principal, and the initiator's     *)
(* join.  The network keeps what is sent: frames are lost, repeated and    *)
(* reordered.  Both hosts crash and restore what was durable.              *)
(*                                                                         *)
(* A host lets a frame out only once the state behind it is durable, and   *)
(* writes blobs one at a time, in the order they were pushed (lib.rs,      *)
(* ArchiveSink): a crash may fall between any two of them.                 *)
EXTENDS Naturals

CONSTANTS
    Remote,       \* the principals that initiate toward the invitation
    Bindings,     \* the app-state bindings an initiator may weld in
    Payloads,     \* whether the initiators' hosts attach an app payload
    Invitations,  \* the invitations a host may publish; it publishes one
    MaxAttempts,  \* bound: sessions one remote initiates
    MaxCrashes    \* bound: crashes of either host

\* An invitation: whether it retains its key package, whether the host passes
\* `new_client_id` to its sessions, the remotes that have seen it, and two bounds:
\* the sessions each of them may initiate, the messages it sends before its join.
Invitation ==
    [last_resort : BOOLEAN, dedicated : BOOLEAN, seen_by : SUBSET Remote,
     attempts : 0..MaxAttempts, messages : Nat]

ASSUME EstablishmentAssumption ==
    /\ Payloads \subseteq BOOLEAN
    /\ MaxAttempts \in Nat /\ MaxCrashes \in Nat
    /\ Invitations \subseteq Invitation

Expected == CHOOSE b \in Bindings : TRUE  \* what the accepting host demands

VARIABLES
    initiator,   \* per remote: its newest initiating session
    idisk,       \* per remote: the durable form of it
    inv,         \* the invitation
    acceptor,    \* the sessions the invitation spawned, by receive group
    disk,        \* the acceptor host's durable blobs
    toInvitation, toInitiator, toAcceptor,  \* everything ever sent
    admitted,    \* the delegations each initiator's host recorded, durably
    born,        \* number of return groups created so far
    crashes

vars == <<initiator, idisk, inv, acceptor, disk, toInvitation, toInitiator,
          toAcceptor, admitted, born, crashes>>

(***************************************************************************)
(* Data.  A birth welcome is named by its initiator and attempt; it also   *)
(* names the group it creates.  A return welcome is named by the number    *)
(* of the return group.                                                    *)
(***************************************************************************)
WelcomeA == [remote : Remote, attempt : 1..MaxAttempts]
Blob == {"e1", "e2"}        \* signed establishment envelopes a host may mint
None == "none"

\* A spawn token digests the stable prefix: the app payload, else the welcome.
Token(e) == [payload |-> e.payload, welcome |-> e.welcome]

\* The empty invitation tables, with the captured key package in place.
Generated(i) ==
    [published |-> i, kp |-> TRUE, consumed |-> {}, spawned |-> <<>>, processed |-> <<>>,
     commitments |-> <<>>]

NoInitiator ==
    [attempt |-> 0, binding |-> Expected, payload |-> FALSE, return_kp |-> FALSE,
     parked |-> {}, sent |-> 0, joined |-> 0, their |-> "invitation",
     approved |-> {}]

NoSession == [born |-> 0]

Init ==
    /\ initiator = [r \in Remote |-> NoInitiator]
    /\ idisk = initiator
    /\ inv \in {Generated(i) : i \in Invitations}
    /\ acceptor = [w \in WelcomeA |-> NoSession]
    /\ disk = [inv |-> inv, acceptor |-> acceptor]
    /\ toInvitation = {} /\ toInitiator = {} /\ toAcceptor = {}
    /\ admitted = {}
    /\ born = 0
    /\ crashes = 0

(***************************************************************************)
(* Durability.  A mutation pushes its blob; the blob is durable by the     *)
(* time a frame leaves, and otherwise may be or not.                       *)
(***************************************************************************)
AcceptorSaved == disk' = [inv |-> inv', acceptor |-> acceptor']
AcceptorPushed == AcceptorSaved \/ disk' = disk
InitiatorSaved(r) == idisk' = [idisk EXCEPT ![r] = [initiator'[r] EXCEPT !.approved = {}]]
InitiatorPushed(r) == InitiatorSaved(r) \/ idisk' = idisk

(***************************************************************************)
(* The initiator, before its join.                                         *)
(***************************************************************************)
Waiting(s) == s.attempt > 0 /\ s.joined = 0

BirthWelcome(r) == [remote |-> r, attempt |-> initiator[r].attempt]

\* compose_initial_envelope: the host payload alone, or welcome and return key
\* package, with the app message stapled (0: none).
ComposeInitialEnvelope(r, s, message) ==
    [welcome |-> [remote |-> r, attempt |-> s.attempt], binding |-> s.binding,
     payload |-> s.payload, return_kp |-> ~s.payload /\ s.return_kp,
     message |-> message]

\* TwoMlsPqSession::initiate; a host that lost its session starts over.
Initiate(r) ==
    /\ r \in inv.published.seen_by /\ initiator[r].attempt < inv.published.attempts
    /\ initiator[r].joined = 0
    /\ \E b \in Bindings :
         LET s == [NoInitiator EXCEPT !.attempt = initiator[r].attempt + 1,
                                      !.binding = b] IN
         initiator' = [initiator EXCEPT
             ![r] = [s EXCEPT !.parked = {ComposeInitialEnvelope(r, s, 0)}]]
    /\ InitiatorSaved(r)
    /\ UNCHANGED <<inv, acceptor, disk, toInvitation, toInitiator, toAcceptor,
                   admitted, born, crashes>>

\* set_initial_field: attach, then regenerate the parked envelope.
SetInitialField(r, s) ==
    /\ Waiting(initiator[r])
    /\ initiator' = [initiator EXCEPT
           ![r] = [s EXCEPT !.parked = {ComposeInitialEnvelope(r, s, 0)}]]
    /\ InitiatorPushed(r)
    /\ UNCHANGED <<inv, acceptor, disk, toInvitation, toInitiator, toAcceptor,
                   admitted, born, crashes>>

SetInitialAppPayload(r) ==
    /\ TRUE \in Payloads /\ ~initiator[r].payload
    /\ SetInitialField(r, [initiator[r] EXCEPT !.payload = TRUE])

SetInitialReturnKeyPackage(r) ==
    /\ ~initiator[r].return_kp
    /\ SetInitialField(r, [initiator[r] EXCEPT !.return_kp = TRUE])

\* pending_outbound of an initiator: the parked envelope leaves as it is.
InitialOutbound(r) ==
    /\ Waiting(initiator[r]) /\ initiator[r].parked # {}
    /\ initiator' = [initiator EXCEPT ![r].parked = {}]
    /\ \/ InitiatorSaved(r) /\ toInvitation' = toInvitation \cup initiator[r].parked
       \/ UNCHANGED <<idisk, toInvitation>>
    /\ UNCHANGED <<inv, acceptor, disk, toInitiator, toAcceptor, admitted, born, crashes>>

\* prepare_pre_establishment and encrypt: a fresh envelope with the message.
EncryptInitial(r) ==
    /\ Waiting(initiator[r]) /\ initiator[r].sent < inv.published.messages
    /\ initiator' = [initiator EXCEPT ![r].sent = @ + 1]
    /\ \/ /\ InitiatorSaved(r)
          /\ toInvitation' = toInvitation \cup
                 {ComposeInitialEnvelope(r, initiator[r], initiator[r].sent + 1)}
       \/ UNCHANGED <<idisk, toInvitation>>
    /\ UNCHANGED <<inv, acceptor, disk, toInitiator, toAcceptor, admitted, born, crashes>>

(***************************************************************************)
(* The invitation.                                                         *)
(***************************************************************************)
\* open_initial / hpke_open: needs the captured PQ key package.
OpenInitial(e) == inv.kp

\* The three lookups; each answers the set of at most one receive group.
Resolve(table, key) == {table[k] : k \in DOMAIN table \cap {key}}
ForwardGroupId(t) == Resolve(inv.spawned, t)
ProcessedWelcomeGroupId(w) == Resolve(inv.processed, w)
BootstrapKpGroupId(kp) == Resolve(inv.commitments, kp)

\* A table insert keyed by content; a present key is overwritten.
Insert(table, key, gid) ==
    [k \in DOMAIN table \cup {key} |-> IF k = key THEN gid ELSE table[k]]

\* Mutant of Admits: a remote may come back with another welcome.
AdmitsAnyWelcome(e) == inv.kp /\ e.welcome \notin DOMAIN inv.processed

\* The checks of receive, in their order: a welcome already processed, a spent
\* key package, a remote already consumed.
Admits(e) ==
    /\ e.welcome \notin DOMAIN inv.processed
    /\ inv.kp
    /\ e.welcome.remote \notin inv.consumed

\* accept_with refuses a binding other than the expected one.
Joins(e) == e.binding = Expected

\* accept_with: the receive group joined, the return group created under the
\* dedicated principal or the invitation's, which then owes its envelope.
AcceptWith(e) ==
    [born |-> born + 1, token |-> Token(e), binding |-> e.binding,
     creator |-> IF inv.published.dedicated THEN "dedicated" ELSE "invitation",
     requires |-> inv.published.dedicated, envelope |-> None, staple |-> "welcome",
     parked |-> "welcome", read |-> {e.message} \ {0}, heard |-> FALSE]

\* The commit point of receive: the four tables, and a single-use key package.
Claimed(e) ==
    [inv EXCEPT !.consumed = @ \cup {e.welcome.remote},
                !.spawned = Insert(@, Token(e), e.welcome),
                !.commitments = Insert(@, e.welcome, e.welcome),
                !.processed = Insert(@, e.welcome, e.welcome),
                !.kp = inv.published.last_resort]

\* Mutant of ReceivePushed: the session is pushed before the invitation.
ReceivePushedLate == AcceptorPushed \/ disk' = [inv |-> inv, acceptor |-> acceptor']

\* receive pushes the invitation before it returns the session, whose host then
\* pushes the first blob of it: a crash between the two writes keeps the tables alone.
ReceivePushed == AcceptorPushed \/ disk' = [inv |-> inv', acceptor |-> acceptor]

\* A refusal of receive: every failing check precedes the first write.
ReceiveRefused(e) == UNCHANGED inv

\* The host's path of an initial frame: open_initial, the forward table, receive.
Receive(e) ==
    /\ e \in toInvitation
    /\ OpenInitial(e) /\ ForwardGroupId(Token(e)) = {}
    /\ e.payload \/ e.return_kp
    /\ Admits(e)
    /\ \/ /\ Joins(e)
          /\ inv' = Claimed(e)
          /\ acceptor' = [acceptor EXCEPT ![e.welcome] = AcceptWith(e)]
          /\ born' = born + 1
          /\ ReceivePushed
       \/ /\ ~Joins(e)
          /\ ReceiveRefused(e)
          /\ UNCHANGED <<acceptor, born, disk>>
    /\ UNCHANGED <<initiator, idisk, toInvitation, toInitiator, toAcceptor,
                   admitted, crashes>>

\* The session an opened frame belongs to: by its token, else by its welcome.
Route(e) ==
    IF ForwardGroupId(Token(e)) # {} THEN ForwardGroupId(Token(e))
    ELSE ProcessedWelcomeGroupId(e.welcome)

\* A later frame of an accepted initiator: routed, and its staple read.
Forward(e) ==
    /\ e \in toInvitation /\ OpenInitial(e)
    /\ \E w \in Route(e) :
         /\ acceptor[w].born > 0 /\ e.message \notin {0} \cup acceptor[w].read
         /\ acceptor' = [acceptor EXCEPT ![w].read = @ \cup {e.message}]
    /\ UNCHANGED <<initiator, idisk, inv, toInvitation, toInitiator, toAcceptor,
                   admitted, born, crashes>>
    /\ AcceptorPushed

(***************************************************************************)
(* The acceptor session.                                                   *)
(***************************************************************************)
\* ensure_establishment_delegated, asked by every emission door.
Delegated(s) == s.requires => s.envelope # None

\* Mutant of Install: a second envelope replaces the first.
InstallOver(s, blob) ==
    [s EXCEPT !.envelope = blob, !.staple = "handoff",
              !.parked = IF @ = None THEN None ELSE "handoff"]

\* Mutant of Install: the bare staple stays in place.
InstallStapleKept(s, blob) ==
    IF s.envelope # None THEN s ELSE [s EXCEPT !.envelope = blob]

\* install_establishment_envelope: once, on the bare staple; the same bytes
\* again are a no-op, other bytes a conflict.
Install(s, blob) ==
    IF s.envelope # None THEN s
    ELSE [s EXCEPT !.envelope = blob, !.staple = "handoff",
                   !.parked = IF @ = None THEN None ELSE "handoff"]

InstallEstablishmentEnvelope(w) ==
    /\ acceptor[w].born > 0 /\ acceptor[w].requires
    /\ \E blob \in Blob :
         /\ Install(acceptor[w], blob) # acceptor[w]
         /\ acceptor' = [acceptor EXCEPT ![w] = Install(@, blob)]
    /\ UNCHANGED <<initiator, idisk, inv, toInvitation, toInitiator, toAcceptor,
                   admitted, born, crashes>>
    /\ AcceptorPushed

\* A return frame: the staple, alone or on a message frame.
ReturnFrame(w, staple) ==
    [welcome |-> w, born |-> acceptor[w].born, staple |-> staple,
     creator |-> acceptor[w].creator, binding |-> acceptor[w].binding,
     envelope |-> IF staple = "handoff" THEN acceptor[w].envelope ELSE None]

\* Mutant of Emitted: the frame leaves before its state is durable.
EmittedEarly(f) == UNCHANGED disk /\ toInitiator' = toInitiator \cup {f}

\* A frame leaves once the state behind it is durable, or is lost.
Emitted(f) ==
    \/ AcceptorSaved /\ toInitiator' = toInitiator \cup {f}
    \/ UNCHANGED <<disk, toInitiator>>

\* pending_outbound of an acceptor takes the parked copy of the welcome.
PendingOutbound(w) ==
    /\ acceptor[w].born > 0 /\ Delegated(acceptor[w]) /\ acceptor[w].parked # None
    /\ acceptor' = [acceptor EXCEPT ![w].parked = None]
    /\ UNCHANGED <<initiator, idisk, inv, toInvitation, toAcceptor, admitted,
                   born, crashes>>
    /\ Emitted(ReturnFrame(w, acceptor[w].parked))

\* Mutant of AfterPrepare: the first send displaces the welcome.
AfterPrepareAlways(s) == [s EXCEPT !.staple = "commit"]

\* prepare_to_encrypt folds the initiator's proposal once it has one: the commit
\* displaces the welcome staple.
AfterPrepare(s) == IF s.heard THEN [s EXCEPT !.staple = "commit"] ELSE s

EncryptReturn(w) ==
    /\ acceptor[w].born > 0 /\ Delegated(acceptor[w])
    /\ acceptor' = [acceptor EXCEPT ![w] = AfterPrepare(@)]
    /\ UNCHANGED <<initiator, idisk, inv, toInvitation, toAcceptor, admitted,
                   born, crashes>>
    /\ Emitted(ReturnFrame(w, acceptor'[w].staple))

\* process_incoming of the initiator's message frame, and its approval.
ProcessMessage(w) ==
    /\ acceptor[w].born > 0 /\ ~acceptor[w].heard
    /\ [welcome |-> w, born |-> acceptor[w].born] \in toAcceptor
    /\ acceptor' = [acceptor EXCEPT ![w].heard = TRUE]
    /\ UNCHANGED <<initiator, idisk, inv, toInvitation, toInitiator, toAcceptor,
                   admitted, born, crashes>>
    /\ AcceptorPushed

(***************************************************************************)
(* The initiator's join.                                                   *)
(***************************************************************************)
\* The frame opens under the header window of this attempt's send group.
Addressed(r, f) == f \in toInitiator /\ Waiting(initiator[r]) /\ f.welcome = BirthWelcome(r)

\* process_welcome, on its first delivery: the binding of the return group is
\* our own; then the creator becomes the peer and the envelope state goes.
Adopt(r, f) ==
    /\ f.binding = initiator[r].binding
    /\ initiator' = [initiator EXCEPT ![r].joined = f.born, ![r].their = f.creator,
           ![r].payload = FALSE, ![r].return_kp = FALSE, ![r].parked = {}]
    /\ UNCHANGED <<inv, acceptor, disk, toInvitation, toInitiator, toAcceptor,
                   admitted, born, crashes>>
    /\ InitiatorPushed(r)

\* A bare welcome joins only under the identity we initiated toward.
Bare(r, f) == f.staple = "welcome" /\ f.creator = initiator[r].their

ProcessBareWelcome(r) ==
    \E f \in toInitiator : Addressed(r, f) /\ Bare(r, f) /\ Adopt(r, f)

\* A handoff without a covering approval pauses: the host verifies the pair,
\* records the credential durably, and approves.
PauseForApproval(r) ==
    \E f \in toInitiator :
      /\ Addressed(r, f) /\ f.staple = "handoff"
      /\ LET approval == [envelope |-> f.envelope, born |-> f.born, creator |-> f.creator] IN
         /\ initiator[r].approved # {approval}
         /\ initiator' = [initiator EXCEPT ![r].approved = {approval}]
         /\ admitted' = admitted \cup {approval}
      /\ UNCHANGED <<idisk, inv, acceptor, disk, toInvitation, toInitiator,
                     toAcceptor, born, crashes>>

\* Mutant of Covers: any handoff passes.
CoversAnything(r, f) == f.staple = "handoff"

\* EstablishmentApproval::covers, and the creator rule of an approved join.
Covers(r, f) ==
    /\ f.staple = "handoff"
    /\ [envelope |-> f.envelope, born |-> f.born, creator |-> f.creator]
         \in initiator[r].approved

ProcessIncomingApproved(r) ==
    \E f \in toInitiator : Addressed(r, f) /\ Covers(r, f) /\ Adopt(r, f)

\* A message frame of the joined initiator, with its Upd for the return group.
EncryptJoined(r) ==
    /\ initiator[r].joined > 0
    /\ toAcceptor' = toAcceptor \cup
           {[welcome |-> BirthWelcome(r), born |-> initiator[r].joined]}
    /\ UNCHANGED <<initiator, inv, acceptor, disk, toInvitation, toInitiator,
                   admitted, born, crashes>>
    /\ InitiatorSaved(r)

(***************************************************************************)
(* Crashes: the host restores its newest durable blobs.                    *)
(***************************************************************************)
\* Mutant of RestoredSession: the requirement of an envelope is forgotten.
RestoredUngated(s) == IF s.born = 0 THEN s ELSE [s EXCEPT !.requires = FALSE]

\* requires_establishment_envelope and the envelope ride the session's blob.
RestoredSession(s) == s

\* TwoMlsPqInvitation::restore reads back the tables and the key package.
RestoredInvitation == disk.inv

CrashAcceptor ==
    /\ crashes < MaxCrashes
    /\ crashes' = crashes + 1
    /\ inv' = RestoredInvitation
    /\ acceptor' = [w \in WelcomeA |-> RestoredSession(disk.acceptor[w])]
    /\ UNCHANGED <<initiator, idisk, disk, toInvitation, toInitiator, toAcceptor,
                   admitted, born>>

CrashInitiator(r) ==
    /\ crashes < MaxCrashes
    /\ crashes' = crashes + 1
    /\ initiator' = [initiator EXCEPT ![r] = idisk[r]]
    /\ UNCHANGED <<idisk, inv, acceptor, disk, toInvitation, toInitiator,
                   toAcceptor, admitted, born>>

Next ==
    \/ \E r \in Remote :
         \/ Initiate(r) \/ SetInitialAppPayload(r) \/ SetInitialReturnKeyPackage(r)
         \/ InitialOutbound(r) \/ EncryptInitial(r)
         \/ ProcessBareWelcome(r) \/ PauseForApproval(r) \/ ProcessIncomingApproved(r)
         \/ EncryptJoined(r) \/ CrashInitiator(r)
    \/ \E e \in toInvitation : Receive(e) \/ Forward(e)
    \/ \E w \in WelcomeA :
         \/ InstallEstablishmentEnvelope(w) \/ PendingOutbound(w)
         \/ EncryptReturn(w) \/ ProcessMessage(w)
    \/ CrashAcceptor

Spec == Init /\ [][Next]_vars

\* Hosts keep driving: the acceptor's host works through its inbox and keeps
\* sending, the initiator's host feeds what arrives and approves what pauses.
\* A frame that is sent again until it is answered does arrive.
Fairness ==
    /\ \A w \in WelcomeA :
         /\ WF_vars(\E e \in toInvitation : e.welcome = w /\ Receive(e))
         /\ WF_vars(InstallEstablishmentEnvelope(w) /\ AcceptorSaved)
         /\ WF_vars(EncryptReturn(w) /\ AcceptorSaved)
    /\ \A r \in Remote :
         /\ WF_vars(ProcessBareWelcome(r) /\ InitiatorSaved(r))
         /\ WF_vars(PauseForApproval(r))
         /\ WF_vars(ProcessIncomingApproved(r) /\ InitiatorSaved(r))

FairSpec == Spec /\ Fairness

(***************************************************************************)
(* Properties.                                                             *)
(***************************************************************************)
\* At most once: whatever is replayed, restarted or restored, the return frames
\* a remote is ever sent belong to one return group, so that no initiator meets
\* a second welcome on a live session (UnexpectedWelcome); and a single-use
\* invitation spawns one group across all the remotes that race for it.
SpawnsAtMostOnce ==
    \A f, g \in toInitiator :
        f.welcome.remote = g.welcome.remote \/ ~inv.published.last_resort => f.born = g.born

\* "A rejected welcome consumes nothing", and no session is out of reach: one that
\* exists is found by its token, its welcome and its bootstrap commitment, and the
\* four tables name the same welcomes, through every restore.  A table may name a
\* session that a crash lost (Orphaned): the tables are durable before the session.
SessionsAreClaimed ==
    /\ \A w \in WelcomeA : acceptor[w].born > 0 =>
         /\ ForwardGroupId(acceptor[w].token) = {w}
         /\ ProcessedWelcomeGroupId(w) = {w}
         /\ BootstrapKpGroupId(w) = {w}
    /\ {inv.spawned[t] : t \in DOMAIN inv.spawned} = DOMAIN inv.processed
    /\ DOMAIN inv.commitments = DOMAIN inv.processed
    /\ inv.consumed = {w.remote : w \in DOMAIN inv.processed}

\* The credential of a dedicated principal never reaches the wire without its
\* signed envelope, through whichever door, restart or parked copy it leaves.
NothingUndelegated ==
    \A f \in toInitiator :
        f.creator = "dedicated" /\ f.staple # "commit" => f.envelope # None

\* One envelope per return welcome ever reaches the wire, although a host may
\* mint another after a crash lost the first.
OneEnvelopePerWelcome ==
    \A f, g \in toInitiator :
        f.staple = "handoff" /\ g.staple = "handoff" /\ f.born = g.born
            => f.envelope = g.envelope

\* The establishment staple outlives the initiator's durable join: once a commit
\* has displaced the welcome, even a restart of the initiator cannot need it.
StapleOutlivesJoin ==
    \A w \in WelcomeA :
        acceptor[w].born > 0 /\ acceptor[w].staple = "commit"
            => /\ idisk[w.remote].attempt = w.attempt
               /\ idisk[w.remote].joined = acceptor[w].born

\* An initiator runs with a dedicated principal only if its host durably recorded
\* the delegation of exactly that return group, also after a crash.
JoinedMeansAdmitted ==
    \A r \in Remote :
        initiator[r].their = "dedicated"
            => \E a \in admitted : a.born = initiator[r].joined /\ a.creator = "dedicated"

\* Both ends of an established session agree: the group the initiator joined is
\* the send group of the session the invitation spawned from its welcome, with
\* the same binding and the principal the initiator holds, crashes included.
BothEndsAgree ==
    \A r \in Remote : initiator[r].joined > 0 =>
        LET s == acceptor[BirthWelcome(r)] IN
        /\ s.born = initiator[r].joined
        /\ s.binding = initiator[r].binding
        /\ s.creator = initiator[r].their

\* A crash kept the claim of r's welcome and lost its session: every further frame
\* is routed to no session or refused as DuplicateWelcome.
Orphaned(r) ==
    BirthWelcome(r) \in DOMAIN inv.processed /\ acceptor[BirthWelcome(r)].born = 0

\* Once a complete initial frame is out, the initiator joins, through crashes of
\* both hosts but the one that orphans its welcome: if it welded the binding the
\* host demands, does not start over, and no other remote takes a single use.
Establishes ==
    \A r \in Remote :
        (/\ inv.published.attempts = 1
         /\ inv.published.last_resort \/ inv.published.seen_by = {r}
         /\ \E e \in toInvitation :
              e.welcome.remote = r /\ e.binding = Expected /\ (e.payload \/ e.return_kp))
            ~> (initiator[r].joined > 0 \/ Orphaned(r))
========================================================================
