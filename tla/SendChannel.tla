---------------------------- MODULE SendChannel ----------------------------
(***************************************************************************)
(* What one half of a send group promises to the party that mirrors it:    *)
(* a single writer advances an epoch, a single reader follows, and the     *)
(* writer never opens a second epoch while the reader misses the first.    *)
(* The frame that carries the missing step is therefore the only one the   *)
(* writer has to repeat.                                                   *)
(*                                                                         *)
(* One channel per writer.  A handler may apply a step of one channel and  *)
(* commit on another (pq_rekey_apply does), so a step moves any number of  *)
(* channels, each by at most one.                                          *)
(***************************************************************************)
EXTENDS Naturals

CONSTANT Writers

VARIABLES
    committed,  \* the epoch the writer stands in, 0 before the half exists
    applied     \* the epoch the reader's mirror stands in

chan == <<committed, applied>>

Init ==
    \A w \in Writers :
        committed[w] \in {0, 1} /\ applied[w] \in {0, 1} /\ applied[w] <= committed[w]

Commit(w) ==
    /\ applied[w] = committed[w]
    /\ committed'[w] = committed[w] + 1
    /\ applied'[w] = applied[w]

Apply(w) ==
    /\ applied[w] < committed[w]
    /\ applied'[w] = applied[w] + 1
    /\ committed'[w] = committed[w]

Rest(w) == committed'[w] = committed[w] /\ applied'[w] = applied[w]

Next == \A w \in Writers : Commit(w) \/ Apply(w) \/ Rest(w)

Spec == Init /\ [][Next]_chan

=============================================================================
