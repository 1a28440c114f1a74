SPECIFICATION Spec
CONSTANTS
  Challenges = {c1}
  Issued = {}
  Workers = {w1, w2}
  NoWorker = NoWorker
  NoChallenge = NoChallenge
  MaxAttempts = 2
  CodeTtl = 0
  MaxNow = 1
  Browsers = {b1, b2}
  NoBrowser = NoBrowser
  IdleWindow = 0
  BlockTime = 1
  NoticePeriod = 1
SYMMETRY Symmetry
INVARIANTS
  IInv
  PasswordAloneExcused
  DueUnlinkInForce
  BlocksAreEarned
  StrikesBlock
PROPERTIES
  KeepsPromise
CHECK_DEADLOCK FALSE
