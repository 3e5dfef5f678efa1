--------------------------- MODULE MCEstablishment ---------------------------
(* Establishment with three invitations: one for dedicated principals, one  *)
(* that its remote comes back to, and a single-use one that two remotes race *)
(* for.                                                                      *)
EXTENDS Establishment

CONSTANTS r1, r2

Published(last_resort, dedicated, seen_by, attempts, messages) ==
    [last_resort |-> last_resort, dedicated |-> dedicated, seen_by |-> seen_by,
     attempts |-> attempts, messages |-> messages]

SmallInvitations ==
    {Published(TRUE, TRUE, {r1}, 1, 1), Published(TRUE, FALSE, {r1}, 2, 0), Published(FALSE, FALSE, {r1, r2}, 1, 0)}

=============================================================================
