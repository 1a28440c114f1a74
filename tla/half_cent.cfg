SPECIFICATION Spec
CONSTANTS
  Accounts <- Wallets
  Loans <- OneLoan
  DisburseTo <- Target
  Principal <- Lent
  Interest <- Charged
  OpeningBalance <- Opening
  Amounts = {5}
  Moves = {}
  Workers = {w1, w2}
  NoWorker = NoWorker
  NoRequest = NoRequest
  Ttl = 0
  MaxNow = 0
PROPERTIES
  RepaymentMovesMoney
\* An instance may come to rest: every loan decided and paid.
CHECK_DEADLOCK FALSE
