SPECIFICATION Spec
CONSTANTS
  up = up
  high = high
  down = down
  other = other
  Challenges = {up, high, down, other}
  Issued = {up}
  Workers = {w1, w2}
  NoWorker = NoWorker
  NoChallenge = NoChallenge
  MaxAttempts = 2
  CodeTtl = 0
  MaxNow = 1
  Accounts <- Two
  LimitChanges <- Limits
  Account <- OfFirst
  NewLimit <- NineSevenTwo
  OpeningLimit <- Fives
  Hold = 1
SYMMETRY Symmetry
ACTION_CONSTRAINTS
  OtherIsGuessed
  OtherComesLast
INVARIANTS
  IInv
  RaisesWait
PROPERTIES
  KeepsPromise
CHECK_DEADLOCK FALSE
