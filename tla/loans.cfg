SPECIFICATION Spec
CONSTANTS
  Accounts <- Wallets
  Loans <- TwoLoans
  DisburseTo <- Target
  Principal <- Lent
  Interest <- Charged
  OpeningBalance <- Opening
  Amounts = {4, 6, 16}
  Moves <- Withdrawal
  Workers = {w1, w2}
  NoWorker = NoWorker
  NoRequest = NoRequest
  Ttl = 0
  MaxNow = 1
INVARIANTS
  IInv
  BothRolesDecide
  ClosedWhenPaid
PROPERTIES
  PaidOutToActive
  ImplementsLoanBook
  LoansKeepMoney
\* An instance may come to rest: every loan decided and paid.
CHECK_DEADLOCK FALSE
