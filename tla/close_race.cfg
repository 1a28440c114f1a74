SPECIFICATION Spec
CONSTANTS
  Accounts <- Both
  Requests = {1}
  Staff <- Desk
  RoleOf <- DeskRole
  Nobody = Nobody
  NotParked = NotParked
  Threshold = 10
  MaxBalance = 30
  OpeningBalance <- Opening
  OpeningStatus <- Status
  Deltas <- Asked
  Moves <- Payment
  Workers = {w1, w2}
  NoWorker = NoWorker
  NoJob = NoJob
PROPERTIES
  CloseOnlyEmpty
