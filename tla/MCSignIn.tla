------------------------------ MODULE MCSignIn ------------------------------
(***************************************************************************)
(* Instances of SignIn for TLC: two browsers of one customer, two requests *)
(* at a time.                                                              *)
(***************************************************************************)
EXTENDS SignIn, TLC

Symmetry == Permutations(Workers) \cup Permutations(Browsers)

\* No request takes as long as a tick of the clock: what is left of the clock's
\* movement is the time the customer takes to enter a code.
PromptServer == now' # now => \A w \in Workers : pc[w] = "idle"
=============================================================================
