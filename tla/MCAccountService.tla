--------------------------- MODULE MCAccountService ---------------------------
(***************************************************************************)
(* An instance of AccountService: one account in use, one not opened yet,  *)
(* a teller and two admins.  The threshold, $1,000 in the code, is a cent. *)
(***************************************************************************)
EXTENDS AccountService

Both     == {1, 2}
Desk     == {"tina", "adam", "ada"}
DeskRole == [s \in Staff |-> IF s = "tina" THEN "teller" ELSE "admin"]
Opening  == [a \in Accounts |-> IF a = 1 THEN 10 ELSE 0]
Status   == [a \in Accounts |-> IF a = 1 THEN "active" ELSE "none"]
\* Small ones, large ones, and none at all; half a cent either way, and one just
\* above the threshold that is parked as the threshold.
Asked    == {0, -10, 5, -5, 14, 20, -20}
Payment  == {10, -10}
=============================================================================
