SPECIFICATION Spec
CONSTANTS
  t1 = t1
  t2 = t2
  t3 = t3
  t4 = t4
  ann = ann
  bob = bob
  Accounts <- Pair
  Owner <- PairOwner
  Transfers = {t1, t2, t3}
  From <- CrossFrom
  To <- CrossTo
  Amount <- CrossHeld
  Workers = {w1, w2, w3}
  NoWorker = NoWorker
  NoTransfer = NoTransfer
  Events = {"confirm","review","release","deny","freeze","unfreeze","abort"}
  OpeningBalance <- FourAndTwo
  OpeningStatus <- AllActive
  OpeningLimit <- OpenLimit
  Posted = {t1, t2, t3}
  Raised = {}
  RaiseTo <- RaiseLimit
  RaiseAt <- RaiseTime
  LargeTransfer = 4
  SizeableBalance = 6
  StructuringSlack = 4
  VelocityLimit = 3
  MaxStrikes = 3
  OverdraftLimit = 3
  MaxPerWindow = 2
  ConfirmWindow = 0
  VelocityWindow = 1
  OverdraftWindow = 2
  MaxNow = 0
SYMMETRY Symmetry
INVARIANTS
  NoOverdraw
  NoWaitCycle
  Conserved
  DecisionsAgree
  IInv
  HeldCovered
PROPERTIES
  ImplementsLedger
  PaidBetweenActive
  TerminalIsFinal
\* The attempts are finite: once every row is terminal the instance is at rest.
CHECK_DEADLOCK FALSE
