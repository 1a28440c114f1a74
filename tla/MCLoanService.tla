---------------------------- MODULE MCLoanService ----------------------------
(***************************************************************************)
(* Instances of LoanService: one or two loans over two accounts.           *)
(***************************************************************************)
EXTENDS LoanService

OneLoan    == {1}
TwoLoans   == {1, 2}
Wallets    == {1, 2}

\* Loan 2 pays out to the account that has money already.
Target     == [l \in Loans |-> IF l = 2 THEN 1 ELSE 2]
Lent       == [l \in Loans |-> 10]
Charged    == [l \in Loans |-> 7]
\* A transfer out.
Withdrawal == {-10}

Opening    == [a \in Accounts |-> IF a = 1 THEN 10 ELSE 0]
=============================================================================
