------------------------ MODULE EstablishmentProofs ------------------------
(***************************************************************************)
(* Proofs about Establishment for every value of its constants: whatever   *)
(* is lost, repeated, reordered or interrupted by a crash of either host,  *)
(* a remote is answered from one return group, a dedicated principal never *)
(* appears without its one signed envelope, and the two ends of a session  *)
(* agree on the group, its binding and its principal.                      *)
(***************************************************************************)
EXTENDS Establishment, TLAPS

----------------------------------------------------------------------------
(* Types.                                                                  *)

Creator == {"invitation", "dedicated"}
AnyBinding == Bindings \cup {Expected}

Envelopes ==
    [welcome : WelcomeA, binding : AnyBinding, payload : BOOLEAN, return_kp : BOOLEAN,
     message : Nat]

Initiators ==
    [attempt : 0..MaxAttempts, binding : AnyBinding, payload : BOOLEAN, return_kp : BOOLEAN,
     parked : SUBSET Envelopes, sent : Nat, joined : Nat, their : Creator,
     approved : SUBSET [envelope : Blob \cup {None}, born : Nat, creator : Creator]]

Sessions ==
    [born : Nat \ {0}, token : [payload : BOOLEAN, welcome : WelcomeA], binding : AnyBinding,
     creator : Creator, requires : BOOLEAN, envelope : Blob \cup {None},
     staple : {"welcome", "handoff", "commit"}, parked : {None, "welcome", "handoff"},
     read : SUBSET Nat, heard : BOOLEAN]

IsInvitation(i) ==
    /\ i = [published |-> i.published, kp |-> i.kp, consumed |-> i.consumed,
            spawned |-> i.spawned, processed |-> i.processed, commitments |-> i.commitments]
    /\ i.published \in Invitation /\ i.kp \in BOOLEAN
    /\ \A k \in DOMAIN i.spawned : i.spawned[k] \in WelcomeA
    /\ \A k \in DOMAIN i.processed : i.processed[k] \in WelcomeA

----------------------------------------------------------------------------
(* The inductive invariant.  It says the same of what a host holds and of  *)
(* what is durable, so that a crash keeps it.                              *)

\* An envelope is installed exactly on the sessions of a dedicated principal, and
\* then no bare copy of the welcome is left; a commit came after a message.
SessionOK(s) ==
    /\ s \in Sessions
    /\ s.requires <=> s.creator = "dedicated"
    /\ s.envelope = None => s.staple # "handoff" /\ s.parked # "handoff"
    /\ s.envelope # None => s.requires /\ s.staple # "welcome" /\ s.parked # "welcome"
    /\ s.staple = "commit" => s.heard /\ Delegated(s)

\* The sessions a of an invitation with tables i, after n return groups and with the
\* messages ms sent: each is claimed, no two have the same return group or remote, and
\* a single-use key package is spent on one.
Spawned(i, a, n, ms) ==
    /\ a = [w \in WelcomeA |-> a[w]]
    /\ \A w \in WelcomeA : a[w] # NoSession =>
         /\ SessionOK(a[w])
         /\ a[w].born <= n
         /\ w.remote \in i.consumed
         /\ ~i.published.last_resort => ~i.kp
         /\ a[w].heard => [welcome |-> w, born |-> a[w].born] \in ms
    /\ \A v, w \in WelcomeA :
         a[v] # NoSession /\ a[w] # NoSession /\ v # w =>
             /\ a[v].born # a[w].born
             /\ v.remote # w.remote
             /\ i.published.last_resort

\* Session t goes on from the durable s: the return group, its binding and principal
\* stay, and so does the envelope.
Continues(s, t) ==
    s # NoSession =>
        /\ t # NoSession
        /\ t.born = s.born /\ t.binding = s.binding /\ t.creator = s.creator
        /\ s.envelope # None => t.envelope = s.envelope

\* A return frame is backed by the durable session it left.
Backed(f, a) ==
    /\ f.welcome \in WelcomeA /\ a[f.welcome] # NoSession
    /\ f.born = a[f.welcome].born /\ f.binding = a[f.welcome].binding
    /\ f.creator = a[f.welcome].creator
    /\ f.staple = "handoff" => f.envelope # None /\ f.envelope = a[f.welcome].envelope
    /\ f.creator = "dedicated" /\ f.staple # "commit" => f.envelope # None
    /\ f.envelope \in Blob \cup {None}

AcceptorInv ==
    /\ born \in Nat
    /\ disk = [inv |-> disk.inv, acceptor |-> disk.acceptor]
    /\ IsInvitation(inv) /\ IsInvitation(disk.inv)
    /\ disk.inv.published = inv.published
    /\ Spawned(inv, acceptor, born, toAcceptor)
    /\ Spawned(disk.inv, disk.acceptor, born, toAcceptor)
    /\ \A w \in WelcomeA : Continues(disk.acceptor[w], acceptor[w])
    /\ \A f \in toInitiator : Backed(f, disk.acceptor)

\* An initiator runs in a return group that is durable at its acceptor, under the
\* principal that group has; a dedicated one was admitted (ds).
JoinOK(r, s, a, ds) ==
    /\ s.joined = 0 => s.their = "invitation"
    /\ s.joined > 0 =>
         LET w == [remote |-> r, attempt |-> s.attempt] IN
         /\ s.attempt > 0
         /\ a[w] # NoSession
         /\ s.joined = a[w].born /\ s.binding = a[w].binding /\ s.their = a[w].creator
    /\ s.their = "dedicated" => \E d \in ds : d.born = s.joined /\ d.creator = "dedicated"
    /\ s.approved \subseteq ds

\* A message of a joined initiator left once its join was durable.
MessageOK(m, durable) ==
    /\ m.welcome \in WelcomeA /\ m.born > 0
    /\ durable[m.welcome.remote].attempt = m.welcome.attempt
    /\ durable[m.welcome.remote].joined = m.born

InitiatorInv ==
    /\ initiator \in [Remote -> Initiators] /\ idisk \in [Remote -> Initiators]
    /\ toInvitation \subseteq Envelopes
    /\ \A r \in Remote :
         /\ JoinOK(r, initiator[r], disk.acceptor, admitted)
         /\ JoinOK(r, idisk[r], disk.acceptor, admitted)
         /\ idisk[r].joined > 0 =>
              initiator[r].joined = idisk[r].joined /\ initiator[r].attempt = idisk[r].attempt
    /\ \A m \in toAcceptor : MessageOK(m, idisk)

EstablishmentInv == AcceptorInv /\ InitiatorInv

\* The tables name the same welcomes, and among them every session that exists.
Ledger(i, a) ==
    /\ \A w \in WelcomeA : a[w] # NoSession =>
         /\ w \in DOMAIN i.processed
         /\ a[w].token \in DOMAIN i.spawned /\ i.spawned[a[w].token] = w
    /\ \A w \in DOMAIN i.processed : i.processed[w] = w
    /\ \A w \in DOMAIN i.commitments : i.commitments[w] = w
    /\ \A t \in DOMAIN i.spawned : i.spawned[t] = t.welcome
    /\ {i.spawned[t] : t \in DOMAIN i.spawned} = DOMAIN i.processed
    /\ DOMAIN i.commitments = DOMAIN i.processed
    /\ i.consumed = {w.remote : w \in DOMAIN i.processed}

LedgerInv == Ledger(inv, acceptor) /\ Ledger(disk.inv, disk.acceptor)

----------------------------------------------------------------------------
(* The initial states.                                                     *)

LEMMA InitEstablishment == Init => EstablishmentInv /\ LedgerInv
<1> SUFFICES ASSUME Init PROVE EstablishmentInv /\ LedgerInv
  OBVIOUS
<1>1. PICK i \in Invitations : inv = Generated(i)
  BY DEF Init
<1>2. i \in Invitation
  BY EstablishmentAssumption
<1>3. /\ inv.published = i /\ inv.kp = TRUE /\ inv.consumed = {} /\ inv.spawned = <<>>
      /\ inv.processed = <<>> /\ inv.commitments = <<>> /\ IsInvitation(inv)
  BY <1>1, <1>2 DEF Generated, IsInvitation
<1>4. acceptor = [w \in WelcomeA |-> NoSession] /\ disk.inv = inv /\ disk.acceptor = acceptor
      /\ disk = [inv |-> disk.inv, acceptor |-> disk.acceptor]
  BY DEF Init
<1>5. toInitiator = {} /\ toAcceptor = {} /\ toInvitation = {} /\ born = 0
  BY DEF Init
<1>6. Spawned(inv, acceptor, born, toAcceptor)
  BY <1>4 DEF Spawned
<1>7. AcceptorInv
  BY <1>3, <1>4, <1>5, <1>6 DEF AcceptorInv, Continues
<1>8. NoInitiator \in Initiators /\ NoInitiator.joined = 0 /\ NoInitiator.their = "invitation"
      /\ NoInitiator.approved = {}
  BY EstablishmentAssumption DEF NoInitiator, Initiators, AnyBinding, Creator
<1>9. initiator = [r \in Remote |-> NoInitiator] /\ idisk = initiator
  BY DEF Init
<1> HIDE DEF NoInitiator
<1>10. InitiatorInv
  BY <1>5, <1>8, <1>9 DEF InitiatorInv, JoinOK
<1>11. Ledger(inv, acceptor)
  BY <1>3, <1>4 DEF Ledger
<1> QED BY <1>4, <1>7, <1>10, <1>11 DEF EstablishmentInv, LedgerInv

----------------------------------------------------------------------------
(* Steps of an initiator.                                                  *)

\* What every step of the initiator r does: its session becomes t, durable or not.
InitiatorMove(r, t) ==
    /\ initiator' = [initiator EXCEPT ![r] = t]
    /\ \/ idisk' = idisk
       \/ idisk' = [idisk EXCEPT ![r] = [t EXCEPT !.approved = {}]]
    /\ t \in Initiators /\ JoinOK(r, t, disk.acceptor, admitted')
    /\ idisk[r].joined > 0 => t.joined = idisk[r].joined /\ t.attempt = idisk[r].attempt
    /\ admitted \subseteq admitted'
    /\ toInvitation' \subseteq Envelopes
    /\ toAcceptor \subseteq toAcceptor'
    /\ \A m \in toAcceptor' : m \in toAcceptor \/ MessageOK(m, idisk')
    /\ UNCHANGED <<inv, acceptor, disk, toInitiator, born>>

LEMMA SpawnedMore ==
    ASSUME NEW i, NEW a, NEW n, NEW ms, NEW k, NEW ns, Spawned(i, a, n, ms),
           n \in Nat, k \in Nat, n <= k, ms \subseteq ns
    PROVE  Spawned(i, a, k, ns)
BY DEF Spawned, SessionOK, Sessions

LEMMA InitiatorMoveStep ==
    ASSUME EstablishmentInv, NEW r \in Remote, NEW t, InitiatorMove(r, t)
    PROVE  EstablishmentInv'
<1>1. AcceptorInv'
  <2>1. UNCHANGED <<inv, acceptor, disk, toInitiator, born>> /\ toAcceptor \subseteq toAcceptor'
    BY DEF InitiatorMove
  <2>2. Spawned(inv, acceptor, born, toAcceptor') /\ Spawned(disk.inv, disk.acceptor, born, toAcceptor')
    BY <2>1, SpawnedMore DEF EstablishmentInv, AcceptorInv
  <2> QED BY <2>1, <2>2 DEF EstablishmentInv, AcceptorInv
<1> DEFINE d == [t EXCEPT !.approved = {}]
<1>2. /\ d \in Initiators /\ d.joined = t.joined /\ d.attempt = t.attempt /\ d.binding = t.binding
      /\ d.their = t.their /\ d.approved = {}
  BY DEF InitiatorMove, Initiators
<1>3. JoinOK(r, d, disk.acceptor, admitted')
  BY <1>2 DEF InitiatorMove, JoinOK
<1> HIDE DEF d
<1>4. \A q \in Remote : JoinOK(q, initiator[q], disk.acceptor, admitted')
                        /\ JoinOK(q, idisk[q], disk.acceptor, admitted')
  <2>1. ASSUME NEW q, NEW s, JoinOK(q, s, disk.acceptor, admitted), admitted \subseteq admitted'
        PROVE  JoinOK(q, s, disk.acceptor, admitted')
    BY <2>1 DEF JoinOK
  <2> QED BY <2>1 DEF EstablishmentInv, InitiatorInv, InitiatorMove
<1>5. initiator \in [Remote -> Initiators] /\ idisk \in [Remote -> Initiators]
  BY DEF EstablishmentInv, InitiatorInv
<1>6. initiator' = [initiator EXCEPT ![r] = t] /\ (idisk' = idisk \/ idisk' = [idisk EXCEPT ![r] = d])
      /\ t \in Initiators /\ JoinOK(r, t, disk.acceptor, admitted') /\ disk' = disk
  BY DEF InitiatorMove, d
<1>7. initiator' \in [Remote -> Initiators] /\ idisk' \in [Remote -> Initiators]
  BY <1>2, <1>5, <1>6
<1>8. ASSUME NEW q \in Remote
      PROVE  /\ JoinOK(q, initiator'[q], disk.acceptor, admitted')
             /\ JoinOK(q, idisk'[q], disk.acceptor, admitted')
  BY <1>3, <1>4, <1>5, <1>6
<1>9. idisk[r].joined > 0 => t.joined = idisk[r].joined /\ t.attempt = idisk[r].attempt
  BY DEF InitiatorMove
<1>10. ASSUME NEW q \in Remote, idisk'[q].joined > 0
       PROVE  initiator'[q].joined = idisk'[q].joined /\ initiator'[q].attempt = idisk'[q].attempt
  <2>1. CASE q # r
    BY <1>5, <1>6, <1>10, <2>1 DEF EstablishmentInv, InitiatorInv
  <2>2. CASE q = r
    BY <1>2, <1>5, <1>6, <1>9, <1>10, <2>2
  <2> QED BY <2>1, <2>2
<1>11. ASSUME NEW m \in toAcceptor PROVE MessageOK(m, idisk')
  <2>1. MessageOK(m, idisk) /\ m.welcome.remote \in Remote
    BY DEF EstablishmentInv, InitiatorInv, MessageOK, WelcomeA
  <2>2. CASE m.welcome.remote # r
    BY <1>5, <1>6, <2>1, <2>2 DEF MessageOK
  <2>3. CASE m.welcome.remote = r
    BY <1>2, <1>5, <1>6, <1>9, <2>1, <2>3 DEF MessageOK
  <2> QED BY <2>2, <2>3
<1>12. toInvitation' \subseteq Envelopes /\ \A m \in toAcceptor' : MessageOK(m, idisk')
  BY <1>11 DEF InitiatorMove
<1>13. InitiatorInv'
  BY <1>6, <1>7, <1>8, <1>10, <1>12 DEF InitiatorInv
<1> QED BY <1>1, <1>13 DEF EstablishmentInv

\* The durable form of the session t.
LEMMA PushedForms ==
    ASSUME initiator \in [Remote -> Initiators], NEW r \in Remote, NEW t,
           initiator' = [initiator EXCEPT ![r] = t]
    PROVE  /\ InitiatorSaved(r) => idisk' = [idisk EXCEPT ![r] = [t EXCEPT !.approved = {}]]
           /\ InitiatorPushed(r) =>
                \/ idisk' = idisk
                \/ idisk' = [idisk EXCEPT ![r] = [t EXCEPT !.approved = {}]]
<1>1. initiator'[r] = t
  OBVIOUS
<1> QED BY <1>1 DEF InitiatorSaved, InitiatorPushed

LEMMA EnvelopeType ==
    ASSUME NEW r \in Remote, NEW s \in Initiators, s.attempt > 0, NEW n \in Nat
    PROVE  ComposeInitialEnvelope(r, s, n) \in Envelopes
BY EstablishmentAssumption DEF ComposeInitialEnvelope, Envelopes, Initiators, WelcomeA

LEMMA InitiateStep ==
    ASSUME EstablishmentInv, NEW r \in Remote, Initiate(r)
    PROVE  EstablishmentInv'
<1>t. initiator \in [Remote -> Initiators] /\ initiator[r] \in Initiators /\ idisk[r] \in Initiators
  BY DEF EstablishmentInv, InitiatorInv
<1>1. PICK b \in Bindings :
        LET s == [NoInitiator EXCEPT !.attempt = initiator[r].attempt + 1, !.binding = b]
        IN  initiator' = [initiator EXCEPT ![r] = [s EXCEPT !.parked = {ComposeInitialEnvelope(r, s, 0)}]]
  BY DEF Initiate
<1> DEFINE s == [NoInitiator EXCEPT !.attempt = initiator[r].attempt + 1, !.binding = b]
           e == ComposeInitialEnvelope(r, s, 0)
           t == [s EXCEPT !.parked = {e}]
<1>2. initiator[r].attempt < inv.published.attempts /\ inv.published \in Invitation
      /\ initiator[r].joined = 0
  BY DEF Initiate, EstablishmentInv, AcceptorInv, IsInvitation
<1>3. initiator[r].attempt + 1 \in 1..MaxAttempts
  BY <1>t, <1>2, EstablishmentAssumption DEF Invitation, Initiators
<1>4. s \in Initiators /\ s.attempt > 0 /\ s.joined = 0 /\ s.their = "invitation" /\ s.approved = {}
  <2>1. initiator[r].attempt + 1 \in 0..MaxAttempts /\ initiator[r].attempt + 1 > 0
    BY <1>3, EstablishmentAssumption
  <2>2. b \in AnyBinding /\ "invitation" \in Creator
    BY DEF AnyBinding, Creator
  <2>3. NoInitiator.attempt = 0 /\ NoInitiator \in Initiators /\ NoInitiator.joined = 0
        /\ NoInitiator.their = "invitation" /\ NoInitiator.approved = {}
    BY EstablishmentAssumption DEF NoInitiator, Initiators, AnyBinding, Creator
  <2> QED BY <2>1, <2>2, <2>3 DEF Initiators
<1> HIDE DEF s
<1>5. e \in Envelopes
  BY <1>4, EnvelopeType
<1> HIDE DEF e
<1>6. t \in Initiators /\ t.joined = 0 /\ t.their = "invitation" /\ t.approved = {}
  BY <1>4, <1>5 DEF Initiators
<1>7. initiator' = [initiator EXCEPT ![r] = t]
  BY <1>1 DEF s, e
<1> HIDE DEF t
<1>8. idisk' = [idisk EXCEPT ![r] = [t EXCEPT !.approved = {}]]
  BY <1>t, <1>7, PushedForms DEF Initiate
<1>9. ~(idisk[r].joined > 0)
  BY <1>2 DEF EstablishmentInv, InitiatorInv
<1>10. JoinOK(r, t, disk.acceptor, admitted')
  BY <1>6 DEF JoinOK
<1>11. InitiatorMove(r, t)
  BY <1>6, <1>7, <1>8, <1>9, <1>10 DEF InitiatorMove, Initiate, EstablishmentInv, InitiatorInv
<1> QED BY <1>11, InitiatorMoveStep

LEMMA SetFieldStep ==
    ASSUME EstablishmentInv, NEW r \in Remote, NEW s \in Initiators, SetInitialField(r, s),
           s.attempt = initiator[r].attempt, s.joined = initiator[r].joined,
           s.their = initiator[r].their, s.binding = initiator[r].binding,
           s.approved = initiator[r].approved
    PROVE  EstablishmentInv'
<1>t. initiator \in [Remote -> Initiators] /\ initiator[r] \in Initiators /\ idisk[r] \in Initiators
      /\ JoinOK(r, initiator[r], disk.acceptor, admitted)
  BY DEF EstablishmentInv, InitiatorInv
<1> DEFINE e == ComposeInitialEnvelope(r, s, 0)
           t == [s EXCEPT !.parked = {e}]
<1>1. /\ initiator[r].attempt > 0 /\ initiator[r].joined = 0
      /\ initiator' = [initiator EXCEPT ![r] = t]
      /\ admitted' = admitted
  BY DEF SetInitialField, Waiting
<1>2. e \in Envelopes
  BY <1>1, EnvelopeType
<1> HIDE DEF e
<1>3. /\ t \in Initiators /\ t.joined = s.joined /\ t.their = s.their /\ t.approved = s.approved
      /\ t.attempt = s.attempt /\ t.binding = s.binding
  BY <1>2 DEF Initiators
<1> HIDE DEF t
<1>4. idisk' = idisk \/ idisk' = [idisk EXCEPT ![r] = [t EXCEPT !.approved = {}]]
  BY <1>t, <1>1, PushedForms DEF SetInitialField
<1>5. JoinOK(r, t, disk.acceptor, admitted')
  BY <1>t, <1>1, <1>3 DEF JoinOK
<1>6. ~(idisk[r].joined > 0)
  BY <1>1 DEF EstablishmentInv, InitiatorInv
<1>7. InitiatorMove(r, t)
  BY <1>1, <1>3, <1>4, <1>5, <1>6 DEF InitiatorMove, SetInitialField, EstablishmentInv, InitiatorInv
<1> QED BY <1>7, InitiatorMoveStep

LEMMA SetPayloadStep ==
    ASSUME EstablishmentInv, NEW r \in Remote, SetInitialAppPayload(r)
    PROVE  EstablishmentInv'
<1> DEFINE s == [initiator[r] EXCEPT !.payload = TRUE]
<1>1. /\ s \in Initiators
      /\ s.attempt = initiator[r].attempt /\ s.joined = initiator[r].joined
      /\ s.their = initiator[r].their /\ s.binding = initiator[r].binding
      /\ s.approved = initiator[r].approved
  BY DEF EstablishmentInv, InitiatorInv, Initiators
<1>2. SetInitialField(r, s)
  BY DEF SetInitialAppPayload
<1> HIDE DEF s
<1> QED BY <1>1, <1>2, SetFieldStep

LEMMA SetKeyPackageStep ==
    ASSUME EstablishmentInv, NEW r \in Remote, SetInitialReturnKeyPackage(r)
    PROVE  EstablishmentInv'
<1> DEFINE s == [initiator[r] EXCEPT !.return_kp = TRUE]
<1>1. /\ s \in Initiators
      /\ s.attempt = initiator[r].attempt /\ s.joined = initiator[r].joined
      /\ s.their = initiator[r].their /\ s.binding = initiator[r].binding
      /\ s.approved = initiator[r].approved
  BY DEF EstablishmentInv, InitiatorInv, Initiators
<1>2. SetInitialField(r, s)
  BY DEF SetInitialReturnKeyPackage
<1> HIDE DEF s
<1> QED BY <1>1, <1>2, SetFieldStep

LEMMA InitialOutboundStep ==
    ASSUME EstablishmentInv, NEW r \in Remote, InitialOutbound(r)
    PROVE  EstablishmentInv'
<1>t. initiator \in [Remote -> Initiators] /\ initiator[r] \in Initiators
      /\ JoinOK(r, initiator[r], disk.acceptor, admitted)
  BY DEF EstablishmentInv, InitiatorInv
<1> DEFINE s == initiator[r]
           t == [s EXCEPT !.parked = {}]
<1>1. initiator' = [initiator EXCEPT ![r] = t] /\ s.joined = 0 /\ admitted' = admitted
  BY <1>t DEF InitialOutbound, Waiting
<1>2. /\ t \in Initiators /\ t.joined = s.joined /\ t.their = s.their /\ t.approved = s.approved
      /\ t.attempt = s.attempt /\ t.binding = s.binding
  BY <1>t DEF Initiators
<1> HIDE DEF t
<1>3. idisk' = idisk \/ idisk' = [idisk EXCEPT ![r] = [t EXCEPT !.approved = {}]]
  BY <1>t, <1>1, PushedForms DEF InitialOutbound
<1>4. JoinOK(r, t, disk.acceptor, admitted')
  BY <1>t, <1>1, <1>2 DEF JoinOK
<1>5. ~(idisk[r].joined > 0)
  BY <1>1 DEF EstablishmentInv, InitiatorInv
<1>6. toInvitation' \subseteq Envelopes
  BY <1>t DEF InitialOutbound, EstablishmentInv, InitiatorInv, Initiators
<1>7. InitiatorMove(r, t)
  BY <1>1, <1>2, <1>3, <1>4, <1>5, <1>6 DEF InitiatorMove, InitialOutbound
<1> QED BY <1>7, InitiatorMoveStep

LEMMA EncryptInitialStep ==
    ASSUME EstablishmentInv, NEW r \in Remote, EncryptInitial(r)
    PROVE  EstablishmentInv'
<1>t. initiator \in [Remote -> Initiators] /\ initiator[r] \in Initiators
      /\ JoinOK(r, initiator[r], disk.acceptor, admitted)
  BY DEF EstablishmentInv, InitiatorInv
<1> DEFINE s == initiator[r]
           t == [s EXCEPT !.sent = s.sent + 1]
           e == ComposeInitialEnvelope(r, s, s.sent + 1)
<1>1. initiator' = [initiator EXCEPT ![r] = t] /\ s.joined = 0 /\ s.attempt > 0
      /\ admitted' = admitted
  BY <1>t DEF EncryptInitial, Waiting
<1>s. s.sent + 1 \in Nat
  BY <1>t DEF Initiators
<1>2. /\ t \in Initiators /\ t.joined = s.joined /\ t.their = s.their /\ t.approved = s.approved
      /\ t.attempt = s.attempt /\ t.binding = s.binding
  BY <1>t, <1>s DEF Initiators
<1>e. e \in Envelopes
  BY <1>t, <1>1, <1>s, EnvelopeType
<1> HIDE DEF t, e
<1>3. idisk' = idisk \/ idisk' = [idisk EXCEPT ![r] = [t EXCEPT !.approved = {}]]
  BY <1>t, <1>1, PushedForms DEF EncryptInitial
<1>4. JoinOK(r, t, disk.acceptor, admitted')
  BY <1>t, <1>1, <1>2 DEF JoinOK
<1>5. ~(idisk[r].joined > 0)
  BY <1>1 DEF EstablishmentInv, InitiatorInv
<1>6. toInvitation' \subseteq Envelopes
  BY <1>e DEF EncryptInitial, EstablishmentInv, InitiatorInv, e
<1>7. InitiatorMove(r, t)
  BY <1>1, <1>2, <1>3, <1>4, <1>5, <1>6 DEF InitiatorMove, EncryptInitial
<1> QED BY <1>7, InitiatorMoveStep

\* A join: the frame is one that the durable return group backs.
LEMMA AdoptStep ==
    ASSUME EstablishmentInv, NEW r \in Remote, NEW f, Addressed(r, f), Adopt(r, f),
           f.creator = "dedicated" =>
               \E d \in admitted : d.born = f.born /\ d.creator = "dedicated"
    PROVE  EstablishmentInv'
<1>t. initiator \in [Remote -> Initiators] /\ initiator[r] \in Initiators
      /\ JoinOK(r, initiator[r], disk.acceptor, admitted)
  BY DEF EstablishmentInv, InitiatorInv
<1> DEFINE s == initiator[r]
           t == [s EXCEPT !.joined = f.born, !.their = f.creator, !.payload = FALSE,
                          !.return_kp = FALSE, !.parked = {}]
           w == [remote |-> r, attempt |-> s.attempt]
<1>1. /\ f \in toInitiator /\ s.attempt > 0 /\ s.joined = 0 /\ f.welcome = w
      /\ f.binding = s.binding /\ admitted' = admitted
  BY DEF Addressed, Adopt, Waiting, BirthWelcome
<1>p. InitiatorPushed(r)
  BY DEF Adopt
<1>b. Backed(f, disk.acceptor)
  BY <1>1 DEF EstablishmentInv, AcceptorInv
<1>c. f.welcome \in WelcomeA /\ SessionOK(disk.acceptor[f.welcome])
  BY <1>b DEF EstablishmentInv, AcceptorInv, Backed, Spawned
<1>2. Backed(f, disk.acceptor) /\ SessionOK(disk.acceptor[w]) /\ w \in WelcomeA
  BY <1>1, <1>b, <1>c
<1>3. /\ disk.acceptor[w] # NoSession
      /\ f.born = disk.acceptor[w].born /\ f.binding = disk.acceptor[w].binding
      /\ f.creator = disk.acceptor[w].creator
      /\ f.born \in Nat /\ f.born > 0 /\ f.creator \in Creator
  BY <1>1, <1>2 DEF Backed, SessionOK, Sessions
<1>4. initiator' = [initiator EXCEPT ![r] = t]
  BY <1>t DEF Adopt
<1>5. /\ t \in Initiators /\ t.joined = f.born /\ t.their = f.creator /\ t.approved = s.approved
      /\ t.attempt = s.attempt /\ t.binding = s.binding
  BY <1>t, <1>3 DEF Initiators
<1> HIDE DEF t
<1>6. idisk' = idisk \/ idisk' = [idisk EXCEPT ![r] = [t EXCEPT !.approved = {}]]
  BY <1>t, <1>4, <1>p, PushedForms
<1>7. JoinOK(r, t, disk.acceptor, admitted')
  BY <1>t, <1>1, <1>3, <1>5 DEF JoinOK
<1>8. ~(idisk[r].joined > 0)
  BY <1>1 DEF EstablishmentInv, InitiatorInv
<1>9. InitiatorMove(r, t)
  BY <1>1, <1>4, <1>5, <1>6, <1>7, <1>8 DEF InitiatorMove, Adopt, EstablishmentInv, InitiatorInv
<1> QED BY <1>9, InitiatorMoveStep

LEMMA BareWelcomeStep ==
    ASSUME EstablishmentInv, NEW r \in Remote, ProcessBareWelcome(r)
    PROVE  EstablishmentInv'
<1>1. PICK f \in toInitiator : Addressed(r, f) /\ Bare(r, f) /\ Adopt(r, f)
  BY DEF ProcessBareWelcome
<1>2. f.creator # "dedicated"
  BY <1>1 DEF Addressed, Waiting, Bare, EstablishmentInv, InitiatorInv, JoinOK
<1> QED BY <1>1, <1>2, AdoptStep

LEMMA ApprovedJoinStep ==
    ASSUME EstablishmentInv, NEW r \in Remote, ProcessIncomingApproved(r)
    PROVE  EstablishmentInv'
<1>1. PICK f \in toInitiator : Addressed(r, f) /\ Covers(r, f) /\ Adopt(r, f)
  BY DEF ProcessIncomingApproved
<1>2. [envelope |-> f.envelope, born |-> f.born, creator |-> f.creator] \in admitted
  BY <1>1 DEF Covers, EstablishmentInv, InitiatorInv, JoinOK
<1>3. \E d \in admitted : d.born = f.born /\ d.creator = f.creator
  BY <1>2
<1> QED BY <1>1, <1>3, AdoptStep

LEMMA PauseStep ==
    ASSUME EstablishmentInv, NEW r \in Remote, PauseForApproval(r)
    PROVE  EstablishmentInv'
<1>t. initiator \in [Remote -> Initiators] /\ initiator[r] \in Initiators
      /\ JoinOK(r, initiator[r], disk.acceptor, admitted)
  BY DEF EstablishmentInv, InitiatorInv
<1>1. PICK f \in toInitiator :
        /\ Addressed(r, f) /\ f.staple = "handoff"
        /\ LET approval == [envelope |-> f.envelope, born |-> f.born, creator |-> f.creator] IN
           /\ initiator' = [initiator EXCEPT ![r].approved = {approval}]
           /\ admitted' = admitted \cup {approval}
  BY DEF PauseForApproval
<1> DEFINE d == [envelope |-> f.envelope, born |-> f.born, creator |-> f.creator]
           s == initiator[r]
           t == [s EXCEPT !.approved = {d}]
<1>2. Backed(f, disk.acceptor) /\ SessionOK(disk.acceptor[f.welcome])
  BY DEF EstablishmentInv, AcceptorInv, Backed, Spawned
<1>3. d \in [envelope : Blob \cup {None}, born : Nat, creator : Creator]
  BY <1>2 DEF Backed, SessionOK, Sessions
<1>4. initiator' = [initiator EXCEPT ![r] = t] /\ admitted' = admitted \cup {d}
  BY <1>t, <1>1
<1> HIDE DEF d
<1>5. /\ t \in Initiators /\ t.joined = s.joined /\ t.their = s.their /\ t.approved = {d}
      /\ t.attempt = s.attempt /\ t.binding = s.binding
  BY <1>t, <1>3 DEF Initiators
<1> HIDE DEF t
<1>6. JoinOK(r, t, disk.acceptor, admitted')
  BY <1>t, <1>4, <1>5 DEF JoinOK
<1>7. s.joined = 0 /\ ~(idisk[r].joined > 0)
  BY <1>1 DEF Addressed, Waiting, EstablishmentInv, InitiatorInv
<1>8. InitiatorMove(r, t)
  BY <1>4, <1>5, <1>6, <1>7 DEF InitiatorMove, PauseForApproval, EstablishmentInv, InitiatorInv
<1> QED BY <1>8, InitiatorMoveStep

LEMMA EncryptJoinedStep ==
    ASSUME EstablishmentInv, NEW r \in Remote, EncryptJoined(r)
    PROVE  EstablishmentInv'
<1>t. /\ initiator \in [Remote -> Initiators] /\ idisk \in [Remote -> Initiators]
      /\ initiator[r] \in Initiators /\ JoinOK(r, initiator[r], disk.acceptor, admitted)
  BY DEF EstablishmentInv, InitiatorInv
<1> DEFINE t == initiator[r]
           m == [welcome |-> BirthWelcome(r), born |-> t.joined]
<1>1. /\ t.joined > 0 /\ initiator' = initiator /\ toAcceptor' = toAcceptor \cup {m}
      /\ admitted' = admitted /\ toInvitation' = toInvitation
  BY DEF EncryptJoined
<1>2. initiator' = [initiator EXCEPT ![r] = t]
  BY <1>t, <1>1
<1>3. idisk' = [idisk EXCEPT ![r] = [t EXCEPT !.approved = {}]]
  BY <1>t, <1>2, PushedForms DEF EncryptJoined
<1>4. idisk'[r].joined = t.joined /\ idisk'[r].attempt = t.attempt
  BY <1>t, <1>3 DEF Initiators
<1>5. MessageOK(m, idisk')
  <2>1. t.attempt \in 1..MaxAttempts
    BY <1>t, <1>1, EstablishmentAssumption DEF JoinOK, Initiators
  <2>2. /\ m.welcome \in WelcomeA /\ m.welcome.remote = r /\ m.welcome.attempt = t.attempt
        /\ m.born = t.joined
    BY <2>1 DEF BirthWelcome, WelcomeA
  <2> QED BY <2>2, <1>1, <1>4 DEF MessageOK
<1>6. idisk[r].joined > 0 => t.joined = idisk[r].joined /\ t.attempt = idisk[r].attempt
  BY DEF EstablishmentInv, InitiatorInv
<1> HIDE DEF m
<1>7. InitiatorMove(r, t)
  BY <1>t, <1>1, <1>2, <1>3, <1>5, <1>6 DEF InitiatorMove, EncryptJoined, EstablishmentInv, InitiatorInv
<1> QED BY <1>7, InitiatorMoveStep

LEMMA CrashInitiatorStep ==
    ASSUME EstablishmentInv, NEW r \in Remote, CrashInitiator(r)
    PROVE  EstablishmentInv'
<1>1. InitiatorMove(r, idisk[r])
  BY DEF InitiatorMove, CrashInitiator, EstablishmentInv, InitiatorInv
<1> QED BY <1>1, InitiatorMoveStep

----------------------------------------------------------------------------
(* Steps of the acceptor's host.                                           *)

\* Durable sessions that go on keep what the initiators rely on.
LEMMA InitiatorsKeep ==
    ASSUME InitiatorInv, UNCHANGED <<initiator, idisk, toInvitation, toAcceptor, admitted>>,
           \A w \in WelcomeA : Continues(disk.acceptor[w], disk'.acceptor[w])
    PROVE  InitiatorInv'
<1>1. ASSUME NEW r \in Remote, NEW s \in Initiators, JoinOK(r, s, disk.acceptor, admitted)
      PROVE  JoinOK(r, s, disk'.acceptor, admitted)
  <2> DEFINE w == [remote |-> r, attempt |-> s.attempt]
  <2>1. ASSUME s.joined > 0
        PROVE  /\ disk'.acceptor[w] # NoSession /\ s.joined = disk'.acceptor[w].born
               /\ s.binding = disk'.acceptor[w].binding /\ s.their = disk'.acceptor[w].creator
    <3>1. s.attempt \in 1..MaxAttempts
      BY <1>1, <2>1, EstablishmentAssumption DEF JoinOK, Initiators
    <3>2. w \in WelcomeA
      BY <3>1 DEF WelcomeA
    <3>3. /\ disk.acceptor[w] # NoSession /\ s.joined = disk.acceptor[w].born
          /\ s.binding = disk.acceptor[w].binding /\ s.their = disk.acceptor[w].creator
      BY <1>1, <2>1 DEF JoinOK
    <3> HIDE DEF w
    <3>4. Continues(disk.acceptor[w], disk'.acceptor[w])
      BY <3>2
    <3> QED BY <3>3, <3>4 DEF Continues
  <2> QED BY <1>1, <2>1 DEF JoinOK
<1>2. ASSUME NEW r \in Remote
      PROVE  /\ JoinOK(r, initiator[r], disk'.acceptor, admitted)
             /\ JoinOK(r, idisk[r], disk'.acceptor, admitted)
  BY <1>1 DEF InitiatorInv
<1> QED BY <1>2 DEF InitiatorInv

\* What a step of a spawned session does: it goes on from where it was, durably or
\* not, and a frame that leaves is backed by what is durable.
SessionMove(w) ==
    LET s == acceptor[w]
        t == acceptor'[w]
    IN  /\ s # NoSession /\ acceptor' = [acceptor EXCEPT ![w] = t]
        /\ SessionOK(t) /\ Continues(s, t) /\ t.token = s.token
        /\ t.heard => s.heard \/ [welcome |-> w, born |-> s.born] \in toAcceptor
        /\ \/ AcceptorPushed /\ toInitiator' = toInitiator
           \/ AcceptorSaved /\ \E f : toInitiator' = toInitiator \cup {f} /\ Backed(f, acceptor')
        /\ UNCHANGED <<initiator, idisk, inv, toInvitation, toAcceptor, admitted, born>>

LEMMA SessionMoveStep ==
    ASSUME EstablishmentInv, NEW w \in WelcomeA, SessionMove(w)
    PROVE  EstablishmentInv' /\ (LedgerInv => LedgerInv')
<1> DEFINE t == acceptor'[w]
<1>0. /\ acceptor[w] # NoSession /\ acceptor' = [acceptor EXCEPT ![w] = t]
      /\ SessionOK(t) /\ Continues(acceptor[w], t) /\ t.token = acceptor[w].token
      /\ t.heard => acceptor[w].heard \/ [welcome |-> w, born |-> acceptor[w].born] \in toAcceptor
      /\ UNCHANGED <<initiator, idisk, inv, toInvitation, toAcceptor, admitted, born>>
      /\ toInitiator' = toInitiator \/ \E f : toInitiator' = toInitiator \cup {f}
                                              /\ disk'.acceptor = acceptor' /\ Backed(f, acceptor')
      /\ disk' = disk \/ disk' = [inv |-> inv, acceptor |-> acceptor']
  BY DEF SessionMove, AcceptorPushed, AcceptorSaved
<1>1. Spawned(inv, acceptor, born, toAcceptor) /\ acceptor = [v \in WelcomeA |-> acceptor[v]]
  BY DEF EstablishmentInv, AcceptorInv, Spawned
<1>2. /\ acceptor' = [v \in WelcomeA |-> acceptor'[v]]
      /\ \A v \in WelcomeA : v # w => acceptor'[v] = acceptor[v]
  BY <1>0, <1>1
<1>3. t # NoSession /\ t.born = acceptor[w].born
  BY <1>0 DEF Continues
<1>4. \A v \in WelcomeA : Continues(acceptor[v], acceptor'[v])
  BY <1>0, <1>2 DEF Continues
<1>5. Spawned(inv, acceptor', born, toAcceptor)
  <2>1. ASSUME NEW v \in WelcomeA, acceptor'[v] # NoSession
        PROVE  /\ SessionOK(acceptor'[v])
               /\ acceptor'[v].born = acceptor[v].born /\ acceptor[v] # NoSession
               /\ acceptor'[v].heard => [welcome |-> v, born |-> acceptor'[v].born] \in toAcceptor
    BY <2>1, <1>0, <1>1, <1>2, <1>3 DEF Spawned
  <2>2. \A v \in WelcomeA : acceptor'[v] # NoSession =>
           /\ acceptor'[v].born <= born
           /\ v.remote \in inv.consumed
           /\ ~inv.published.last_resort => ~inv.kp
    BY <2>1, <1>1 DEF Spawned
  <2>3. \A v, u \in WelcomeA :
           acceptor'[v] # NoSession /\ acceptor'[u] # NoSession /\ v # u =>
               /\ acceptor'[v].born # acceptor'[u].born
               /\ v.remote # u.remote
               /\ inv.published.last_resort
    BY <2>1, <1>1 DEF Spawned
  <2> QED BY <2>1, <2>2, <2>3, <1>2 DEF Spawned
<1>6. Spawned(disk'.inv, disk'.acceptor, born, toAcceptor)
  BY <1>0, <1>5 DEF EstablishmentInv, AcceptorInv
<1>7. \A v \in WelcomeA : /\ Continues(disk.acceptor[v], disk'.acceptor[v])
                          /\ Continues(disk'.acceptor[v], acceptor'[v])
  BY <1>0, <1>4 DEF EstablishmentInv, AcceptorInv, Continues
<1>8. \A f \in toInitiator' : Backed(f, disk'.acceptor)
  <2>1. ASSUME NEW f \in toInitiator PROVE Backed(f, disk'.acceptor)
    <3>1. Backed(f, disk.acceptor) /\ f.welcome \in WelcomeA
      BY DEF EstablishmentInv, AcceptorInv, Backed
    <3>2. Continues(disk.acceptor[f.welcome], disk'.acceptor[f.welcome])
      BY <3>1, <1>7
    <3> QED BY <3>1, <3>2 DEF Backed, Continues
  <2> QED BY <2>1, <1>0
<1>9. /\ IsInvitation(disk'.inv) /\ disk'.inv.published = inv.published
      /\ disk' = [inv |-> disk'.inv, acceptor |-> disk'.acceptor]
  BY <1>0 DEF EstablishmentInv, AcceptorInv
<1>10. AcceptorInv'
  BY <1>0, <1>5, <1>6, <1>7, <1>8, <1>9 DEF EstablishmentInv, AcceptorInv
<1>11. InitiatorInv'
  BY <1>0, <1>7, InitiatorsKeep DEF EstablishmentInv
<1>12. ASSUME LedgerInv PROVE LedgerInv'
  <2>1. \A v \in WelcomeA : /\ acceptor'[v] # NoSession <=> acceptor[v] # NoSession
                            /\ acceptor'[v].token = acceptor[v].token
    BY <1>0, <1>2, <1>3
  <2>2. Ledger(inv, acceptor')
    BY <1>12, <2>1 DEF LedgerInv, Ledger
  <2>3. Ledger(disk'.inv, disk'.acceptor)
    BY <1>0, <1>12, <2>2 DEF LedgerInv
  <2> QED BY <1>0, <2>2, <2>3 DEF LedgerInv
<1> QED BY <1>10, <1>11, <1>12 DEF EstablishmentInv

LEMMA LiveSession ==
    ASSUME EstablishmentInv, NEW w \in WelcomeA, acceptor[w].born > 0
    PROVE  /\ acceptor[w] # NoSession /\ SessionOK(acceptor[w]) /\ acceptor[w] \in Sessions
           /\ acceptor = [v \in WelcomeA |-> acceptor[v]]
<1>1. acceptor[w] # NoSession
  BY DEF NoSession
<1> QED BY <1>1 DEF EstablishmentInv, AcceptorInv, Spawned, SessionOK

LEMMA ForwardStep ==
    ASSUME EstablishmentInv, NEW e \in toInvitation, Forward(e)
    PROVE  EstablishmentInv' /\ (LedgerInv => LedgerInv')
<1>1. PICK w \in Route(e) :
        /\ acceptor[w].born > 0
        /\ acceptor' = [acceptor EXCEPT ![w].read = @ \cup {e.message}]
  BY DEF Forward
<1>2. AcceptorPushed /\ UNCHANGED <<initiator, idisk, inv, toInvitation, toInitiator, toAcceptor, admitted, born>>
  BY DEF Forward
<1>3. w \in WelcomeA
  BY DEF Route, ForwardGroupId, ProcessedWelcomeGroupId, Resolve, EstablishmentInv, AcceptorInv,
         IsInvitation
<1> DEFINE s == acceptor[w]
           t == [s EXCEPT !.read = s.read \cup {e.message}]
<1>4. s # NoSession /\ SessionOK(s) /\ s \in Sessions /\ acceptor = [v \in WelcomeA |-> acceptor[v]]
  BY <1>1, <1>3, LiveSession
<1>5. e.message \in Nat
  BY DEF EstablishmentInv, InitiatorInv, Envelopes
<1>6. acceptor'[w] = t /\ acceptor' = [acceptor EXCEPT ![w] = t]
  BY <1>1, <1>3, <1>4
<1>7. /\ t \in Sessions /\ t.born = s.born /\ t.token = s.token /\ t.binding = s.binding
      /\ t.creator = s.creator /\ t.requires = s.requires /\ t.envelope = s.envelope
      /\ t.staple = s.staple /\ t.parked = s.parked /\ t.heard = s.heard
  BY <1>4, <1>5 DEF Sessions
<1> HIDE DEF t
<1>8. t # NoSession /\ SessionOK(t)
  BY <1>4, <1>7 DEF SessionOK, Sessions, NoSession, Delegated
<1>9. SessionMove(w)
  BY <1>2, <1>4, <1>6, <1>7, <1>8 DEF SessionMove, Continues
<1> QED BY <1>3, <1>9, SessionMoveStep

LEMMA InstallStep ==
    ASSUME EstablishmentInv, NEW w \in WelcomeA, InstallEstablishmentEnvelope(w)
    PROVE  EstablishmentInv' /\ (LedgerInv => LedgerInv')
<1> DEFINE s == acceptor[w]
<1>1. PICK blob \in Blob : Install(s, blob) # s /\ acceptor' = [acceptor EXCEPT ![w] = Install(s, blob)]
  BY DEF InstallEstablishmentEnvelope
<1>2. /\ AcceptorPushed /\ s.born > 0 /\ s.requires
      /\ UNCHANGED <<initiator, idisk, inv, toInvitation, toInitiator, toAcceptor, admitted, born>>
  BY DEF InstallEstablishmentEnvelope
<1>3. s # NoSession /\ SessionOK(s) /\ s \in Sessions /\ acceptor = [v \in WelcomeA |-> acceptor[v]]
  BY <1>2, LiveSession
<1> DEFINE p == IF s.parked = None THEN None ELSE "handoff"
           t == [s EXCEPT !.envelope = blob, !.staple = "handoff", !.parked = p]
<1>4. s.envelope = None /\ Install(s, blob) = t
  BY <1>1 DEF Install
<1>5. p \in {None, "handoff"} /\ blob # None
  BY DEF Blob, None
<1> HIDE DEF p
<1>6. acceptor'[w] = t /\ acceptor' = [acceptor EXCEPT ![w] = t]
  BY <1>1, <1>3, <1>4
<1>7. /\ t \in Sessions /\ t.born = s.born /\ t.token = s.token /\ t.binding = s.binding
      /\ t.creator = s.creator /\ t.requires = s.requires /\ t.envelope = blob
      /\ t.staple = "handoff" /\ t.parked = p /\ t.heard = s.heard
  BY <1>3, <1>5 DEF Sessions
<1> HIDE DEF t
<1>8. t # NoSession /\ SessionOK(t)
  BY <1>2, <1>3, <1>5, <1>7 DEF SessionOK, Sessions, NoSession, Delegated, None
<1>9. SessionMove(w)
  BY <1>2, <1>3, <1>4, <1>6, <1>7, <1>8 DEF SessionMove, Continues
<1> QED BY <1>9, SessionMoveStep

LEMMA ProcessMessageStep ==
    ASSUME EstablishmentInv, NEW w \in WelcomeA, ProcessMessage(w)
    PROVE  EstablishmentInv' /\ (LedgerInv => LedgerInv')
<1> DEFINE s == acceptor[w]
           t == [s EXCEPT !.heard = TRUE]
<1>1. /\ AcceptorPushed /\ s.born > 0 /\ [welcome |-> w, born |-> s.born] \in toAcceptor
      /\ UNCHANGED <<initiator, idisk, inv, toInvitation, toInitiator, toAcceptor, admitted, born>>
  BY DEF ProcessMessage
<1>2. s # NoSession /\ SessionOK(s) /\ s \in Sessions /\ acceptor = [v \in WelcomeA |-> acceptor[v]]
  BY <1>1, LiveSession
<1>3. acceptor'[w] = t /\ acceptor' = [acceptor EXCEPT ![w] = t]
  BY <1>2 DEF ProcessMessage
<1>4. /\ t \in Sessions /\ t.born = s.born /\ t.token = s.token /\ t.binding = s.binding
      /\ t.creator = s.creator /\ t.requires = s.requires /\ t.envelope = s.envelope
      /\ t.staple = s.staple /\ t.parked = s.parked /\ t.heard
  BY <1>2 DEF Sessions
<1> HIDE DEF t
<1>5. t # NoSession /\ SessionOK(t)
  BY <1>2, <1>4 DEF SessionOK, Sessions, NoSession, Delegated
<1>6. SessionMove(w)
  BY <1>1, <1>2, <1>3, <1>4, <1>5 DEF SessionMove, Continues
<1> QED BY <1>6, SessionMoveStep

\* A delegated session emits no bare welcome of a dedicated principal.
LEMMA ReturnFrameBacked ==
    ASSUME NEW w \in WelcomeA, NEW staple, NEW t, SessionOK(acceptor[w]), Delegated(acceptor[w]),
           staple \in {"welcome", "handoff", "commit"},
           staple = "handoff" => acceptor[w].envelope # None,
           staple = "welcome" => acceptor[w].envelope = None,
           acceptor'[w] = t, t # NoSession, t.born = acceptor[w].born,
           t.binding = acceptor[w].binding, t.creator = acceptor[w].creator,
           t.envelope = acceptor[w].envelope
    PROVE  Backed(ReturnFrame(w, staple), acceptor')
<1> DEFINE f == ReturnFrame(w, staple)
           s == acceptor[w]
<1>1. /\ f.welcome = w /\ f.born = s.born /\ f.staple = staple /\ f.creator = s.creator
      /\ f.binding = s.binding /\ f.envelope = IF staple = "handoff" THEN s.envelope ELSE None
  BY DEF ReturnFrame
<1>2. s.creator = "dedicated" => s.envelope # None
  BY DEF SessionOK, Delegated
<1>3. s.envelope \in Blob \cup {None}
  BY DEF SessionOK, Sessions
<1> HIDE DEF f
<1>4. Backed(f, acceptor')
  BY <1>1, <1>2, <1>3 DEF Backed
<1> QED BY <1>4 DEF f

LEMMA PendingOutboundStep ==
    ASSUME EstablishmentInv, NEW w \in WelcomeA, PendingOutbound(w)
    PROVE  EstablishmentInv' /\ (LedgerInv => LedgerInv')
<1> DEFINE s == acceptor[w]
           t == [s EXCEPT !.parked = None]
           f == ReturnFrame(w, s.parked)
<1>1. /\ s.born > 0 /\ Delegated(s) /\ s.parked # None /\ Emitted(f)
      /\ UNCHANGED <<initiator, idisk, inv, toInvitation, toAcceptor, admitted, born>>
  BY DEF PendingOutbound
<1>2. s # NoSession /\ SessionOK(s) /\ s \in Sessions /\ acceptor = [v \in WelcomeA |-> acceptor[v]]
  BY <1>1, LiveSession
<1>3. acceptor'[w] = t /\ acceptor' = [acceptor EXCEPT ![w] = t]
  BY <1>2 DEF PendingOutbound
<1>4. /\ t \in Sessions /\ t.born = s.born /\ t.token = s.token /\ t.binding = s.binding
      /\ t.creator = s.creator /\ t.requires = s.requires /\ t.envelope = s.envelope
      /\ t.staple = s.staple /\ t.parked = None /\ t.heard = s.heard
  BY <1>2 DEF Sessions
<1> HIDE DEF t
<1>5. t # NoSession /\ SessionOK(t)
  BY <1>2, <1>4 DEF SessionOK, Sessions, NoSession, Delegated, None
<1>6. /\ s.parked \in {"welcome", "handoff", "commit"}
      /\ s.parked = "handoff" => s.envelope # None
      /\ s.parked = "welcome" => s.envelope = None
  BY <1>1, <1>2 DEF SessionOK, Sessions
<1>7. Backed(f, acceptor')
  BY <1>1, <1>2, <1>3, <1>4, <1>5, <1>6, ReturnFrameBacked
<1> HIDE DEF f
<1>8. \/ AcceptorPushed /\ toInitiator' = toInitiator
      \/ AcceptorSaved /\ \E g : toInitiator' = toInitiator \cup {g} /\ Backed(g, acceptor')
  BY <1>1, <1>7 DEF Emitted, AcceptorPushed
<1>9. SessionMove(w)
  BY <1>1, <1>2, <1>3, <1>4, <1>5, <1>8 DEF SessionMove, Continues
<1> QED BY <1>9, SessionMoveStep

LEMMA EncryptReturnStep ==
    ASSUME EstablishmentInv, NEW w \in WelcomeA, EncryptReturn(w)
    PROVE  EstablishmentInv' /\ (LedgerInv => LedgerInv')
<1> DEFINE s == acceptor[w]
           t == AfterPrepare(s)
           f == ReturnFrame(w, acceptor'[w].staple)
<1>1. /\ s.born > 0 /\ Delegated(s) /\ Emitted(f)
      /\ UNCHANGED <<initiator, idisk, inv, toInvitation, toAcceptor, admitted, born>>
  BY DEF EncryptReturn
<1>2. s # NoSession /\ SessionOK(s) /\ s \in Sessions /\ acceptor = [v \in WelcomeA |-> acceptor[v]]
  BY <1>1, LiveSession
<1>3. acceptor'[w] = t /\ acceptor' = [acceptor EXCEPT ![w] = t]
  BY <1>2 DEF EncryptReturn
<1>4. /\ t \in Sessions /\ t.born = s.born /\ t.token = s.token /\ t.binding = s.binding
      /\ t.creator = s.creator /\ t.requires = s.requires /\ t.envelope = s.envelope
      /\ t.staple = (IF s.heard THEN "commit" ELSE s.staple) /\ t.parked = s.parked
      /\ t.heard = s.heard
  BY <1>2 DEF Sessions, AfterPrepare
<1> HIDE DEF t
<1>5. t # NoSession /\ SessionOK(t)
  BY <1>1, <1>2, <1>4 DEF SessionOK, Sessions, NoSession, Delegated
<1>6. /\ t.staple \in {"welcome", "handoff", "commit"}
      /\ t.staple = "handoff" => s.envelope # None
      /\ t.staple = "welcome" => s.envelope = None
  BY <1>4, <1>5 DEF SessionOK, Sessions
<1>7. Backed(f, acceptor')
  BY <1>1, <1>2, <1>3, <1>4, <1>5, <1>6, ReturnFrameBacked
<1> HIDE DEF f
<1>8. \/ AcceptorPushed /\ toInitiator' = toInitiator
      \/ AcceptorSaved /\ \E g : toInitiator' = toInitiator \cup {g} /\ Backed(g, acceptor')
  BY <1>1, <1>7 DEF Emitted, AcceptorPushed
<1>9. SessionMove(w)
  BY <1>1, <1>2, <1>3, <1>4, <1>5, <1>8 DEF SessionMove, Continues
<1> QED BY <1>9, SessionMoveStep

\* The spawn: a new return group for a remote that had none.
Spawn(e) ==
    /\ Admits(e)
    /\ inv' = Claimed(e)
    /\ acceptor' = [acceptor EXCEPT ![e.welcome] = AcceptWith(e)]
    /\ born' = born + 1 /\ ReceivePushed
    /\ UNCHANGED <<initiator, idisk, toInvitation, toInitiator, toAcceptor, admitted>>

LEMMA SpawnStep ==
    ASSUME EstablishmentInv, NEW e \in toInvitation, Spawn(e)
    PROVE  EstablishmentInv' /\ (LedgerInv => LedgerInv')
<1> DEFINE w == e.welcome
           n == AcceptWith(e)
           k == born + 1
           pub == inv.published
<1>1. e \in Envelopes /\ w \in WelcomeA /\ w.remote \in Remote
  BY DEF EstablishmentInv, InitiatorInv, Envelopes, WelcomeA
<1>2. /\ Spawned(inv, acceptor, born, toAcceptor) /\ acceptor = [v \in WelcomeA |-> acceptor[v]]
      /\ born \in Nat /\ k \in Nat \ {0} /\ IsInvitation(inv)
  BY DEF EstablishmentInv, AcceptorInv, Spawned
<1>3. /\ w.remote \notin inv.consumed /\ w \notin DOMAIN inv.processed /\ inv.kp
      /\ acceptor[w] = NoSession
  BY <1>1, <1>2 DEF Spawn, Admits, Spawned
<1>4. SessionOK(n) /\ n # NoSession /\ n.born = k /\ ~n.heard /\ n.token = Token(e)
  <2>1. pub.dedicated \in BOOLEAN /\ {e.message} \ {0} \in SUBSET Nat
    BY <1>1, <1>2 DEF IsInvitation, Invitation, Envelopes
  <2>2. Token(e) \in [payload : BOOLEAN, welcome : WelcomeA]
    BY <1>1 DEF Token, Envelopes
  <2>3. e.binding \in AnyBinding
    BY <1>1 DEF Envelopes
  <2>4. /\ n.born = k /\ n.token = Token(e) /\ n.creator = (IF pub.dedicated THEN "dedicated" ELSE "invitation")
        /\ n.requires = pub.dedicated /\ n.envelope = None /\ n.staple = "welcome"
        /\ n.parked = "welcome" /\ n.heard = FALSE
    BY DEF AcceptWith
  <2>5. n \in Sessions
    BY <2>1, <2>2, <2>3, <1>2 DEF AcceptWith, Sessions, Creator
  <2> HIDE DEF n
  <2> QED BY <2>1, <2>4, <2>5, <1>2 DEF SessionOK, NoSession, None
<1> HIDE DEF n
<1>5. /\ acceptor' = [v \in WelcomeA |-> acceptor'[v]] /\ acceptor'[w] = n
      /\ \A v \in WelcomeA : v # w => acceptor'[v] = acceptor[v]
  BY <1>1, <1>2 DEF Spawn, n
<1>6. /\ inv'.published = pub /\ inv'.kp = pub.last_resort
      /\ inv'.consumed = inv.consumed \cup {w.remote}
      /\ inv'.spawned = Insert(inv.spawned, Token(e), w)
      /\ inv'.commitments = Insert(inv.commitments, w, w)
      /\ inv'.processed = Insert(inv.processed, w, w)
      /\ inv' = [published |-> inv'.published, kp |-> inv'.kp, consumed |-> inv'.consumed,
                 spawned |-> inv'.spawned, processed |-> inv'.processed,
                 commitments |-> inv'.commitments]
  BY <1>2 DEF Spawn, Claimed, IsInvitation
<1>7. /\ inv'.published = pub /\ inv'.kp = pub.last_resort
      /\ inv'.consumed = inv.consumed \cup {w.remote}
  BY <1>6
<1>s. /\ DOMAIN inv'.spawned = DOMAIN inv.spawned \cup {Token(e)}
      /\ inv'.spawned[Token(e)] = w
      /\ \A x \in DOMAIN inv.spawned : x # Token(e) => inv'.spawned[x] = inv.spawned[x]
  <2> DEFINE old == inv.spawned
             key == Token(e)
             new == inv'.spawned
  <2>1. new = Insert(old, key, w)
    BY <1>6
  <2> HIDE DEF old, key, new, w
  <2>2. DOMAIN new = DOMAIN old \cup {key} /\ new[key] = w
        /\ \A x \in DOMAIN old : x # key => new[x] = old[x]
    BY <2>1 DEF Insert
  <2> QED BY <2>2 DEF old, key, new, w
<1>p. /\ DOMAIN inv'.processed = DOMAIN inv.processed \cup {w}
      /\ inv'.processed[w] = w
      /\ \A x \in DOMAIN inv.processed : x # w => inv'.processed[x] = inv.processed[x]
  <2> DEFINE old == inv.processed
             key == w
             new == inv'.processed
  <2>1. new = Insert(old, key, w)
    BY <1>6
  <2> HIDE DEF old, key, new, w
  <2>2. DOMAIN new = DOMAIN old \cup {key} /\ new[key] = w
        /\ \A x \in DOMAIN old : x # key => new[x] = old[x]
    BY <2>1 DEF Insert
  <2> QED BY <2>2 DEF old, key, new, w
<1>c. /\ DOMAIN inv'.commitments = DOMAIN inv.commitments \cup {w}
      /\ inv'.commitments[w] = w
      /\ \A x \in DOMAIN inv.commitments : x # w => inv'.commitments[x] = inv.commitments[x]
  <2> DEFINE old == inv.commitments
             key == w
             new == inv'.commitments
  <2>1. new = Insert(old, key, w)
    BY <1>6
  <2> HIDE DEF old, key, new, w
  <2>2. DOMAIN new = DOMAIN old \cup {key} /\ new[key] = w
        /\ \A x \in DOMAIN old : x # key => new[x] = old[x]
    BY <2>1 DEF Insert
  <2> QED BY <2>2 DEF old, key, new, w
<1>8. IsInvitation(inv')
  <2>1. pub \in Invitation /\ pub.last_resort \in BOOLEAN
    BY <1>2 DEF IsInvitation, Invitation
  <2>2. \A x \in DOMAIN inv'.spawned : inv'.spawned[x] \in WelcomeA
    BY <1>1, <1>2, <1>s DEF IsInvitation
  <2>3. \A x \in DOMAIN inv'.processed : inv'.processed[x] \in WelcomeA
    BY <1>1, <1>2, <1>p DEF IsInvitation
  <2> QED BY <1>6, <2>1, <2>2, <2>3 DEF IsInvitation
<1>9. \A v \in WelcomeA : acceptor[v] # NoSession =>
        /\ v # w /\ v.remote # w.remote /\ acceptor[v].born # k /\ acceptor[v].born <= k
        /\ pub.last_resort
  <2> SUFFICES ASSUME NEW v \in WelcomeA, acceptor[v] # NoSession
               PROVE  /\ v # w /\ v.remote # w.remote /\ acceptor[v].born # k
                      /\ acceptor[v].born <= k /\ pub.last_resort
    OBVIOUS
  <2>1. /\ SessionOK(acceptor[v]) /\ acceptor[v].born <= born /\ v.remote \in inv.consumed
        /\ ~pub.last_resort => ~inv.kp
    BY <1>2 DEF Spawned
  <2>2. acceptor[v].born \in Nat
    BY <2>1 DEF SessionOK, Sessions
  <2> QED BY <2>1, <2>2, <1>2, <1>3
<1>10. Spawned(inv', acceptor, k, toAcceptor)
  BY <1>2, <1>7, <1>9 DEF Spawned
<1>11. Spawned(inv', acceptor', k, toAcceptor)
  <2>1. ASSUME NEW v \in WelcomeA, acceptor'[v] # NoSession
        PROVE  /\ SessionOK(acceptor'[v]) /\ acceptor'[v].born <= k
               /\ v.remote \in inv'.consumed
               /\ ~pub.last_resort => ~inv'.kp
               /\ acceptor'[v].heard => [welcome |-> v, born |-> acceptor'[v].born] \in toAcceptor
    BY <2>1, <1>2, <1>4, <1>5, <1>7, <1>10 DEF Spawned
  <2>2. ASSUME NEW u \in WelcomeA, NEW v \in WelcomeA, u # v,
               acceptor'[u] # NoSession, acceptor'[v] # NoSession
        PROVE  acceptor'[u].born # acceptor'[v].born /\ u.remote # v.remote /\ pub.last_resort
    <3>1. CASE u # w /\ v # w
      BY <2>2, <3>1, <1>2, <1>5 DEF Spawned
    <3>2. CASE u = w
      BY <2>2, <3>2, <1>4, <1>5, <1>9
    <3>3. CASE v = w
      BY <2>2, <3>3, <1>4, <1>5, <1>9
    <3> QED BY <3>1, <3>2, <3>3
  <2> QED BY <2>1, <2>2, <1>5, <1>7 DEF Spawned
<1>12. \/ disk' = disk
       \/ disk' = [inv |-> inv', acceptor |-> acceptor']
       \/ disk' = [inv |-> inv', acceptor |-> acceptor]
  BY DEF Spawn, ReceivePushed, AcceptorPushed, AcceptorSaved
<1>d. \/ disk'.inv = disk.inv /\ disk'.acceptor = disk.acceptor
      \/ disk'.inv = inv' /\ disk'.acceptor = acceptor'
      \/ disk'.inv = inv' /\ disk'.acceptor = acceptor
  BY <1>12
<1>13. Spawned(disk.inv, disk.acceptor, k, toAcceptor)
  BY <1>2, SpawnedMore DEF EstablishmentInv, AcceptorInv
<1>14. Spawned(disk'.inv, disk'.acceptor, k, toAcceptor)
  BY <1>10, <1>11, <1>d, <1>13
<1>15. \A v \in WelcomeA : /\ Continues(acceptor[v], acceptor'[v])
                           /\ Continues(disk.acceptor[v], acceptor[v])
  BY <1>3, <1>5 DEF Continues, EstablishmentInv, AcceptorInv
<1>16. \A v \in WelcomeA : /\ Continues(disk.acceptor[v], disk'.acceptor[v])
                           /\ Continues(disk'.acceptor[v], acceptor'[v])
  <2> SUFFICES ASSUME NEW v \in WelcomeA
               PROVE  /\ Continues(disk.acceptor[v], disk'.acceptor[v])
                      /\ Continues(disk'.acceptor[v], acceptor'[v])
    OBVIOUS
  <2>1. /\ Continues(acceptor[v], acceptor'[v]) /\ Continues(disk.acceptor[v], acceptor[v])
        /\ Continues(disk.acceptor[v], acceptor'[v])
    BY <1>15 DEF Continues
  <2>2. Continues(disk.acceptor[v], disk.acceptor[v]) /\ Continues(acceptor'[v], acceptor'[v])
    BY DEF Continues
  <2> QED BY <2>1, <2>2, <1>d
<1>17. \A f \in toInitiator : Backed(f, disk'.acceptor)
  <2> SUFFICES ASSUME NEW f \in toInitiator PROVE Backed(f, disk'.acceptor)
    OBVIOUS
  <2>1. Backed(f, disk.acceptor) /\ f.welcome \in WelcomeA
    BY DEF EstablishmentInv, AcceptorInv, Backed
  <2>2. Continues(disk.acceptor[f.welcome], disk'.acceptor[f.welcome])
    BY <2>1, <1>16
  <2> QED BY <2>1, <2>2 DEF Backed, Continues
<1>18. /\ IsInvitation(disk'.inv) /\ disk'.inv.published = inv'.published
       /\ disk' = [inv |-> disk'.inv, acceptor |-> disk'.acceptor]
  BY <1>7, <1>8, <1>12 DEF EstablishmentInv, AcceptorInv
<1>19. AcceptorInv'
  BY <1>2, <1>8, <1>11, <1>14, <1>16, <1>17, <1>18 DEF Spawn, AcceptorInv
<1>20. InitiatorInv'
  BY <1>16, InitiatorsKeep DEF Spawn, EstablishmentInv
<1>21. ASSUME LedgerInv PROVE LedgerInv'
  <2>0. Ledger(inv, acceptor)
    BY <1>21 DEF LedgerInv
  <2>1. Token(e).welcome = w /\ acceptor'[w].token = Token(e)
    BY <1>4, <1>5 DEF Token
  <2>2. ASSUME NEW v \in WelcomeA, acceptor[v] # NoSession
        PROVE  /\ v \in DOMAIN inv'.processed
               /\ acceptor[v].token \in DOMAIN inv'.spawned /\ inv'.spawned[acceptor[v].token] = v
    <3>1. /\ v \in DOMAIN inv.processed /\ acceptor[v].token \in DOMAIN inv.spawned
          /\ inv.spawned[acceptor[v].token] = v /\ acceptor[v].token.welcome = v
      BY <2>0, <2>2 DEF Ledger
    <3> QED BY <3>1, <2>1, <1>s, <1>p
  <2>3. ASSUME NEW v \in WelcomeA, acceptor'[v] # NoSession
        PROVE  /\ v \in DOMAIN inv'.processed
               /\ acceptor'[v].token \in DOMAIN inv'.spawned /\ inv'.spawned[acceptor'[v].token] = v
    <3>1. CASE v = w
      BY <3>1, <2>1, <1>s, <1>p
    <3>2. CASE v # w
      BY <3>2, <2>2, <2>3, <1>5
    <3> QED BY <3>1, <3>2
  <2>4. /\ \A v \in DOMAIN inv'.processed : inv'.processed[v] = v
        /\ \A v \in DOMAIN inv'.commitments : inv'.commitments[v] = v
        /\ DOMAIN inv'.commitments = DOMAIN inv'.processed
    BY <2>0, <1>p, <1>c DEF Ledger
  <2>5. \A t \in DOMAIN inv'.spawned : inv'.spawned[t] = t.welcome
    BY <2>0, <2>1, <1>s DEF Ledger
  <2>6. {inv'.spawned[t] : t \in DOMAIN inv'.spawned} = DOMAIN inv'.processed
    <3>1. /\ DOMAIN inv'.processed = DOMAIN inv.processed \cup {w}
          /\ DOMAIN inv'.spawned = DOMAIN inv.spawned \cup {Token(e)}
      BY <1>s, <1>p
    <3>2. ASSUME NEW t \in DOMAIN inv'.spawned PROVE inv'.spawned[t] \in DOMAIN inv'.processed
      BY <3>1, <2>0, <2>1, <1>s DEF Ledger
    <3>3. ASSUME NEW v \in DOMAIN inv'.processed
          PROVE  \E t \in DOMAIN inv'.spawned : inv'.spawned[t] = v
      <4>1. CASE v = w
        BY <4>1, <3>1, <1>s
      <4>2. CASE v # w
        <5>1. v \in {inv.spawned[t] : t \in DOMAIN inv.spawned}
          BY <4>2, <3>1, <2>0 DEF Ledger
        <5>2. PICK t \in DOMAIN inv.spawned : inv.spawned[t] = v
          BY <5>1
        <5>3. t # Token(e)
          BY <5>2, <4>2, <2>0, <2>1 DEF Ledger
        <5> QED BY <5>2, <5>3, <3>1, <1>s
      <4> QED BY <4>1, <4>2
    <3> QED BY <3>2, <3>3
  <2>7. inv'.consumed = {v.remote : v \in DOMAIN inv'.processed}
    <3>1. inv.consumed = {v.remote : v \in DOMAIN inv.processed}
      BY <2>0 DEF Ledger
    <3>2. DOMAIN inv'.processed = DOMAIN inv.processed \cup {w}
      BY <1>p
    <3> QED BY <3>1, <3>2, <1>7
  <2>8. Ledger(inv', acceptor') /\ Ledger(inv', acceptor)
    BY <2>2, <2>3, <2>4, <2>5, <2>6, <2>7 DEF Ledger
  <2>9. Ledger(disk'.inv, disk'.acceptor)
    BY <2>8, <1>d, <1>21 DEF LedgerInv
  <2> QED BY <2>8, <2>9 DEF LedgerInv
<1> QED BY <1>19, <1>20, <1>21 DEF EstablishmentInv

LEMMA ReceiveStep ==
    ASSUME EstablishmentInv, NEW e \in toInvitation, Receive(e)
    PROVE  EstablishmentInv' /\ (LedgerInv => LedgerInv')
<1>1. CASE Joins(e)
  <2>1. Spawn(e)
    BY <1>1 DEF Receive, Spawn
  <2> QED BY <2>1, SpawnStep
<1>2. CASE ~Joins(e)
  BY <1>2 DEF Receive, ReceiveRefused, EstablishmentInv, AcceptorInv, InitiatorInv, LedgerInv
<1> QED BY <1>1, <1>2

LEMMA CrashAcceptorStep ==
    ASSUME EstablishmentInv, CrashAcceptor
    PROVE  EstablishmentInv' /\ (LedgerInv => LedgerInv')
<1>1. disk.acceptor = [w \in WelcomeA |-> disk.acceptor[w]]
  BY DEF EstablishmentInv, AcceptorInv, Spawned
<1>2. /\ inv' = disk.inv /\ acceptor' = disk.acceptor
      /\ UNCHANGED <<initiator, idisk, disk, toInvitation, toInitiator, toAcceptor, admitted, born>>
  BY <1>1 DEF CrashAcceptor, RestoredInvitation, RestoredSession
<1>3. AcceptorInv'
  BY <1>2 DEF EstablishmentInv, AcceptorInv, Continues
<1>4. InitiatorInv'
  BY <1>2 DEF EstablishmentInv, InitiatorInv
<1>5. LedgerInv => LedgerInv'
  BY <1>2 DEF LedgerInv
<1> QED BY <1>3, <1>4, <1>5 DEF EstablishmentInv

\* Every step keeps the invariant, and the ledgers.
LEMMA EstablishmentStep ==
    ASSUME EstablishmentInv, [Next]_vars
    PROVE  EstablishmentInv' /\ (LedgerInv => LedgerInv')
<1>1. ASSUME NEW r \in Remote,
             \/ Initiate(r) \/ SetInitialAppPayload(r) \/ SetInitialReturnKeyPackage(r)
             \/ InitialOutbound(r) \/ EncryptInitial(r)
             \/ ProcessBareWelcome(r) \/ PauseForApproval(r) \/ ProcessIncomingApproved(r)
             \/ EncryptJoined(r) \/ CrashInitiator(r)
      PROVE  EstablishmentInv' /\ (LedgerInv => LedgerInv')
  <2>1. EstablishmentInv'
    <3>1. CASE Initiate(r) \/ SetInitialAppPayload(r) \/ SetInitialReturnKeyPackage(r)
      BY <3>1, InitiateStep, SetPayloadStep, SetKeyPackageStep
    <3>2. CASE InitialOutbound(r) \/ EncryptInitial(r)
      BY <3>2, InitialOutboundStep, EncryptInitialStep
    <3>3. CASE ProcessBareWelcome(r)
      BY <3>3, BareWelcomeStep
    <3>4. CASE PauseForApproval(r)
      BY <3>4, PauseStep
    <3>5. CASE ProcessIncomingApproved(r)
      BY <3>5, ApprovedJoinStep
    <3>6. CASE EncryptJoined(r) \/ CrashInitiator(r)
      BY <3>6, EncryptJoinedStep, CrashInitiatorStep
    <3> QED BY <1>1, <3>1, <3>2, <3>3, <3>4, <3>5, <3>6
  <2>2. UNCHANGED <<inv, acceptor, disk>>
    BY <1>1, Zenon
    DEF Initiate, SetInitialAppPayload, SetInitialReturnKeyPackage, SetInitialField,
        InitialOutbound, EncryptInitial, ProcessBareWelcome, PauseForApproval,
        ProcessIncomingApproved, Adopt, EncryptJoined, CrashInitiator
  <2> QED BY <2>1, <2>2 DEF LedgerInv
<1>2. ASSUME NEW e \in toInvitation, Receive(e) \/ Forward(e)
      PROVE  EstablishmentInv' /\ (LedgerInv => LedgerInv')
  BY <1>2, ReceiveStep, ForwardStep
<1>3. ASSUME NEW w \in WelcomeA,
             \/ InstallEstablishmentEnvelope(w) \/ PendingOutbound(w)
             \/ EncryptReturn(w) \/ ProcessMessage(w)
      PROVE  EstablishmentInv' /\ (LedgerInv => LedgerInv')
  BY <1>3, InstallStep, PendingOutboundStep, EncryptReturnStep, ProcessMessageStep
<1>4. CASE CrashAcceptor
  BY <1>4, CrashAcceptorStep
<1>5. CASE UNCHANGED vars
  BY <1>5 DEF vars, EstablishmentInv, AcceptorInv, InitiatorInv, LedgerInv
<1> QED BY <1>1, <1>2, <1>3, <1>4, <1>5 DEF Next

----------------------------------------------------------------------------
(* The theorems.                                                           *)

\* What the acceptor's host and the initiators hold, and what is durable of it, keeps
\* the invariant through every loss, repetition and crash, whether or not the host
\* writes the two blobs of a `receive` in one step.
THEOREM EstablishmentStaysSound == Spec => []EstablishmentInv
<1>1. EstablishmentInv /\ [Next]_vars => EstablishmentInv'
  BY EstablishmentStep
<1>2. Init => EstablishmentInv
  BY InitEstablishment
<1> QED BY <1>1, <1>2, PTL DEF Spec

\* However often frames are replayed and hosts restored, a remote is only ever sent
\* frames of one return group, and so are all remotes of a single-use invitation.
THEOREM SpawnsStayAtMostOnce == Spec => []SpawnsAtMostOnce
<1>1. EstablishmentInv => SpawnsAtMostOnce
  <2> SUFFICES ASSUME EstablishmentInv, NEW f \in toInitiator, NEW g \in toInitiator,
                      f.welcome.remote = g.welcome.remote \/ ~inv.published.last_resort
               PROVE  f.born = g.born
    BY DEF SpawnsAtMostOnce
  <2>1. Backed(f, disk.acceptor) /\ Backed(g, disk.acceptor)
    BY DEF EstablishmentInv, AcceptorInv
  <2>2. f.welcome = g.welcome
    BY <2>1 DEF Backed, EstablishmentInv, AcceptorInv, Spawned
  <2> QED BY <2>1, <2>2 DEF Backed
<1> QED BY <1>1, EstablishmentStaysSound, PTL

\* No door emits a welcome of a dedicated principal without its signed envelope
\* (ensure_establishment_delegated), a restored session's parked copy included.
THEOREM NothingEverUndelegated == Spec => []NothingUndelegated
<1>1. EstablishmentInv => NothingUndelegated
  BY DEF EstablishmentInv, AcceptorInv, Backed, NothingUndelegated
<1> QED BY <1>1, EstablishmentStaysSound, PTL

\* install_establishment_envelope takes one envelope per session, and a frame with it
\* leaves only when it is durable: the wire never carries two for one return welcome.
THEOREM EnvelopeStaysOne == Spec => []OneEnvelopePerWelcome
<1>1. EstablishmentInv => OneEnvelopePerWelcome
  <2> SUFFICES ASSUME EstablishmentInv, NEW f \in toInitiator, NEW g \in toInitiator,
                      f.staple = "handoff", g.staple = "handoff", f.born = g.born
               PROVE  f.envelope = g.envelope
    BY DEF OneEnvelopePerWelcome
  <2>1. Backed(f, disk.acceptor) /\ Backed(g, disk.acceptor)
    BY DEF EstablishmentInv, AcceptorInv
  <2>a. /\ f.welcome \in WelcomeA /\ g.welcome \in WelcomeA
        /\ disk.acceptor[f.welcome] # NoSession /\ disk.acceptor[g.welcome] # NoSession
        /\ disk.acceptor[f.welcome].born = disk.acceptor[g.welcome].born
    BY <2>1 DEF Backed
  <2>b. \A v, w \in WelcomeA :
          disk.acceptor[v] # NoSession /\ disk.acceptor[w] # NoSession /\ v # w
              => disk.acceptor[v].born # disk.acceptor[w].born
    BY DEF EstablishmentInv, AcceptorInv, Spawned
  <2>2. f.welcome = g.welcome
    BY <2>a, <2>b
  <2> QED BY <2>1, <2>2 DEF Backed
<1> QED BY <1>1, EstablishmentStaysSound, PTL

\* A commit displaces the welcome staple (prepare_to_encrypt) only after the initiator
\* has joined durably.
THEOREM StapleStaysForJoin == Spec => []StapleOutlivesJoin
<1>1. EstablishmentInv => StapleOutlivesJoin
  <2> SUFFICES ASSUME EstablishmentInv, NEW w \in WelcomeA, acceptor[w].born > 0,
                      acceptor[w].staple = "commit"
               PROVE  /\ idisk[w.remote].attempt = w.attempt
                      /\ idisk[w.remote].joined = acceptor[w].born
    BY DEF StapleOutlivesJoin
  <2> DEFINE m == [welcome |-> w, born |-> acceptor[w].born]
  <2>1. acceptor[w] # NoSession /\ acceptor[w].heard
    BY LiveSession DEF SessionOK
  <2>2. m \in toAcceptor
    BY <2>1 DEF EstablishmentInv, AcceptorInv, Spawned
  <2>3. MessageOK(m, idisk) /\ m.welcome = w /\ m.born = acceptor[w].born
    BY <2>2 DEF EstablishmentInv, InitiatorInv
  <2> HIDE DEF m
  <2> QED BY <2>3 DEF MessageOK
<1> QED BY <1>1, EstablishmentStaysSound, PTL

\* An initiator runs with a dedicated principal only under a delegation of exactly that
\* return group which its host recorded (EstablishmentApproval::covers).
THEOREM JoinStaysAdmitted == Spec => []JoinedMeansAdmitted
<1>1. EstablishmentInv => JoinedMeansAdmitted
  BY DEF EstablishmentInv, InitiatorInv, JoinOK, JoinedMeansAdmitted
<1> QED BY <1>1, EstablishmentStaysSound, PTL

\* A joined initiator and the session its welcome spawned agree on the return group,
\* its binding and its principal, whatever either host lost to a crash.
THEOREM EndsStayAgreed == Spec => []BothEndsAgree
<1>1. EstablishmentInv => BothEndsAgree
  <2> SUFFICES ASSUME EstablishmentInv, NEW r \in Remote, initiator[r].joined > 0
               PROVE  /\ acceptor[BirthWelcome(r)].born = initiator[r].joined
                      /\ acceptor[BirthWelcome(r)].binding = initiator[r].binding
                      /\ acceptor[BirthWelcome(r)].creator = initiator[r].their
    BY DEF BothEndsAgree
  <2> DEFINE w == [remote |-> r, attempt |-> initiator[r].attempt]
  <2>1. /\ initiator[r].attempt > 0
        /\ disk.acceptor[w] # NoSession
        /\ initiator[r].joined = disk.acceptor[w].born
        /\ initiator[r].binding = disk.acceptor[w].binding
        /\ initiator[r].their = disk.acceptor[w].creator
    BY DEF EstablishmentInv, InitiatorInv, JoinOK
  <2>a. initiator[r] \in Initiators
    BY DEF EstablishmentInv, InitiatorInv
  <2>2. initiator[r].attempt \in 1..MaxAttempts
    BY <2>1, <2>a, EstablishmentAssumption DEF Initiators
  <2>3. w \in WelcomeA /\ BirthWelcome(r) = w
    BY <2>2 DEF WelcomeA, BirthWelcome
  <2> HIDE DEF w
  <2>4. Continues(disk.acceptor[w], acceptor[w])
    BY <2>3 DEF EstablishmentInv, AcceptorInv
  <2> QED BY <2>1, <2>3, <2>4 DEF Continues
<1> QED BY <1>1, EstablishmentStaysSound, PTL

\* However receive refuses or accepts, and wherever a crash falls between the pushes
\* of the invitation and of the session, a session that exists is found through every
\* table, and the four tables name the same welcomes.
THEOREM SessionsStayClaimed == Spec => []SessionsAreClaimed
<1> DEFINE I == EstablishmentInv /\ LedgerInv
<1>1. Init => I
  BY InitEstablishment
<1>2. I /\ [Next]_vars => I'
  BY EstablishmentStep
<1>3. I => SessionsAreClaimed
  <2> SUFFICES ASSUME I PROVE SessionsAreClaimed
    OBVIOUS
  <2>1. Ledger(inv, acceptor)
    BY DEF LedgerInv
  <2>2. ASSUME NEW w \in WelcomeA, acceptor[w].born > 0
        PROVE  /\ ForwardGroupId(acceptor[w].token) = {w}
               /\ ProcessedWelcomeGroupId(w) = {w} /\ BootstrapKpGroupId(w) = {w}
    <3>1. acceptor[w] # NoSession
      BY <2>2 DEF NoSession
    <3>2. /\ w \in DOMAIN inv.processed /\ inv.processed[w] = w
          /\ w \in DOMAIN inv.commitments /\ inv.commitments[w] = w
          /\ acceptor[w].token \in DOMAIN inv.spawned /\ inv.spawned[acceptor[w].token] = w
      BY <2>1, <3>1 DEF Ledger
    <3> QED BY <3>2 DEF ForwardGroupId, ProcessedWelcomeGroupId, BootstrapKpGroupId, Resolve
  <2> QED BY <2>1, <2>2 DEF Ledger, SessionsAreClaimed
<1> HIDE DEF I
<1> QED BY <1>1, <1>2, <1>3, PTL DEF Spec

=============================================================================
