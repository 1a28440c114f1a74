--------------------------- MODULE MCGatedActions ---------------------------
(***************************************************************************)
(* An instance of GatedActions for TLC: three limit changes of one account *)
(* (to 9, to 7 and to 2, from 5) and an action of another kind.            *)
(***************************************************************************)
EXTENDS GatedActions, TLC

CONSTANTS up, high, down, other

Two == {1, 2}
Limits == {up, high, down}
OfFirst == [c \in Limits |-> 1]
NineSevenTwo == (up :> 9) @@ (high :> 7) @@ (down :> 2)
Fives == (1 :> 5) @@ (2 :> 5)

Symmetry == Permutations(Workers)

\* Bounds of the instance: wrong codes are entered for the other action only,
\* which begins when the limit changes have used up their codes.
OtherIsGuessed == \A c \in LimitChanges : guesses'[c] = 0
OtherComesLast ==
    code[other] = "none" /\ code'[other] = "open" =>
        /\ \A c \in LimitChanges : code[c] = "consumed"
        /\ \A w \in Workers : pc[w] = "idle"
=============================================================================
