------------------------------ MODULE MCRowLocks ------------------------------
(***************************************************************************)
(* An instance of RowLocks: a mix of transactions over three accounts.     *)
(***************************************************************************)
EXTENDS RowLocks

Triple == {1, 2, 3}

\* An insert against the order among transactions with two locks and more: a
\* circle of three.
Round ==
    << Confirm(1, 1, 2), Confirm(2, 2, 3), Release(3, 2, 1), InsertTransfer(3, 1),
       MoveLoanMoney(1, 1) >>
=============================================================================
