SPECIFICATION Spec
CONSTANTS
  t1 = t1
  t2 = t2
  t3 = t3
  t4 = t4
  ann = ann
  bob = bob
  Accounts <- Pair
  Owner <- PairOwner
  Transfers = {t1, t2, t3}
  From <- CrossFrom
  To <- CrossTo
  Amount <- CrossAmount
  Workers = {w1, w2}
  NoWorker = NoWorker
  NoTransfer = NoTransfer
  Events = {"create"}
  OpeningBalance <- OpenBalance
  OpeningStatus <- AllActive
  OpeningLimit <- OpenLimit
  Posted = {}
  Raised = {1}
  RaiseTo <- RaiseLimit
  RaiseAt <- RaiseTime
  LargeTransfer = 10
  SizeableBalance = 9
  StructuringSlack = 0
  VelocityLimit = 3
  MaxStrikes = 3
  OverdraftLimit = 3
  MaxPerWindow = 2
  ConfirmWindow = 0
  VelocityWindow = 1
  OverdraftWindow = 2
  MaxNow = 1
SYMMETRY Symmetry
INVARIANTS
  RaiseTakesEffect
\* The attempts are finite: once every row is terminal the instance is at rest.
CHECK_DEADLOCK FALSE
