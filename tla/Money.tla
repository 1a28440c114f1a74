--------------------------------- MODULE Money ---------------------------------
(***************************************************************************)
(* Amounts of money in mills, tenths of a cent.  Customers and staff may   *)
(* type any decimal; a NUMERIC(18, 2) column rounds what it is given.      *)
(***************************************************************************)
EXTENDS Integers

WholeCents(mills) == mills % 10 = 0

\* Mutant: fractions of a cent are cut off.
CutOff(mills) == 10 * (mills \div 10)

\* The nearest whole cent, half a cent rounded up: what a column stores of an
\* amount that is not negative.
Rounded(mills) == 10 * ((mills + 5) \div 10)

\* What a column stores of any amount: half a cent is rounded away from zero.
InCents(mills) == IF mills < 0 THEN -Rounded(-mills) ELSE Rounded(mills)
=============================================================================
