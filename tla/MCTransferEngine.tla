-------------------------- MODULE MCTransferEngine --------------------------
(***************************************************************************)
(* Instances of TransferEngine for TLC: who banks where, the attempts made *)
(* and the account rows at the start.  The dollar thresholds are scaled    *)
(* down (one unit stands for about $1,000), the windows to clock ticks.    *)
(***************************************************************************)
EXTENDS TransferEngine, TLC

CONSTANTS t1, t2, t3, t4, ann, bob

Pair == {1, 2}
PairOwner == (1 :> ann) @@ (2 :> bob)

\* Two transfers that cross each other and one that competes with the first.
CrossFrom   == (t1 :> 1) @@ (t2 :> 2) @@ (t3 :> 1)
CrossTo     == (t1 :> 2) @@ (t2 :> 1) @@ (t3 :> 2)
CrossAmount == (t1 :> 3) @@ (t2 :> 2) @@ (t3 :> 2)
\* The first is held for its size; the third is paid at once, or held like the
\* first for emptying an account to which the second has paid in (the slack of
\* that rule is stretched for it), and then both have a claim on it.
CrossHeld   == (t1 :> 4) @@ (t2 :> 2) @@ (t3 :> 2)

\* Two attempts beyond the balance, one within it that is held, and one that
\* create has to turn away.
SteepFrom   == CrossFrom @@ (t4 :> 2)
SteepTo     == CrossTo @@ (t4 :> 1)
SteepAmount == (t1 :> 5) @@ (t2 :> 2) @@ (t3 :> 5) @@ (t4 :> -2)

OpenBalance == (1 :> 4) @@ (2 :> 1)
FourAndTwo  == (1 :> 4) @@ (2 :> 2)
OpenLimit   == (1 :> 4) @@ (2 :> 4)
AllActive   == (1 :> "active") @@ (2 :> "active")
RaiseLimit  == (1 :> 9) @@ (2 :> 9)
RaiseTime   == (1 :> 1) @@ (2 :> 1)

Symmetry == Permutations(Workers)
=============================================================================
