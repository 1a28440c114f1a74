SPECIFICATION FairSpec
CONSTANTS
  t1 = t1
  t2 = t2
  t3 = t3
  t4 = t4
  ann = ann
  bob = bob
  Accounts <- Pair
  Owner <- PairOwner
  Transfers = {t1, t2, t3, t4}
  From <- SteepFrom
  To <- SteepTo
  Amount <- SteepAmount
  Workers = {w1, w2}
  NoWorker = NoWorker
  NoTransfer = NoTransfer
  Events = {"create","confirm","review","release","deny"}
  OpeningBalance <- FourAndTwo
  OpeningStatus <- AllActive
  OpeningLimit <- OpenLimit
  Posted = {t2, t3}
  Raised = {1}
  RaiseTo <- RaiseLimit
  RaiseAt <- RaiseTime
  LargeTransfer = 2
  SizeableBalance = 9
  StructuringSlack = 0
  VelocityLimit = 1
  MaxStrikes = 3
  OverdraftLimit = 2
  MaxPerWindow = 1
  ConfirmWindow = 0
  VelocityWindow = 1
  OverdraftWindow = 3
  MaxNow = 1
INVARIANTS
  IInv
PROPERTIES
  ImplementsLedger
  EveryRequestFinishes
  OverdraftsFreeze
\* The attempts are finite: once every row is terminal the instance is at rest.
CHECK_DEADLOCK FALSE
