---------------------------- MODULE AuthSequence ----------------------------
(***************************************************************************)
(* The authentication service of apq: what a PartySequence holds of one    *)
(* party's credentials and which moves of a leaf it allows.  A sequence is *)
(* a record of the canonical history (oldest first), the authorized        *)
(* successors and the pinned ids.                                          *)
(***************************************************************************)
EXTENDS Naturals, Sequences

CONSTANT HistoryWindow  \* CREDENTIAL_HISTORY_WINDOW

\* With a window of one, the id a leaf still presents is gone when its successor
\* becomes canonical.
ASSUME HistoryAssumption == HistoryWindow \in Nat \ {0, 1}

Contains(seq, id) == \E i \in 1..Len(seq.history) : seq.history[i] = id
Position(seq, id) == CHOOSE i \in 1..Len(seq.history) : seq.history[i] = id
Current(seq) == seq.history[Len(seq.history)]

\* Only the newest HistoryWindow elements are kept.
Trim(h) == IF Len(h) > HistoryWindow THEN SubSeq(h, Len(h) - HistoryWindow + 1, Len(h)) ELSE h

\* retain: every element but id.
Without(h, id) ==
    LET other(x) == x # id
    IN  IF \E i \in 1..Len(h) : h[i] = id THEN SelectSeq(h, other) ELSE h

\* commit: the id becomes the newest element and the other authorizations
\* expire; nothing changes when it is the newest already.
CommitId(seq, id) ==
    IF seq.history # << >> /\ Current(seq) = id THEN seq
    ELSE [seq EXCEPT !.history = Trim(Append(Without(@, id), id)), !.authorized_next = {}]

Seeded(id) == CommitId([history |-> << >>, authorized_next |-> {}, pinned |-> {}], id)

Authorize(seq, id) == [seq EXCEPT !.authorized_next = @ \cup {id}]

Pin(seq, id) == [seq EXCEPT !.pinned = @ \cup {id}]

\* retire_stale_pins: only the pins a live PQ leaf still carries are kept.
RetireStalePins(seq, carried) == [seq EXCEPT !.pinned = @ \cap carried]

KnownIds(seq) ==
    {seq.history[i] : i \in 1..Len(seq.history)} \cup seq.authorized_next \cup seq.pinned

\* May a leaf that presents pred move to succ?  To itself; from a known id to an
\* authorized one; or forward in the history, where a pinned id that was evicted
\* is older than every element.
ValidSuccessor(seq, pred, succ) ==
    \/ pred = succ
    \/ /\ Contains(seq, pred) \/ pred \in seq.pinned
       /\ \/ succ \in seq.authorized_next
          \/ /\ Contains(seq, succ)
             /\ Contains(seq, pred) => Position(seq, succ) > Position(seq, pred)

=============================================================================
