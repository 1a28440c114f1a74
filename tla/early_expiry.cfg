SPECIFICATION Spec
CONSTANTS
  Challenges = {c1}
  Issued = {}
  Workers = {w1}
  NoWorker = NoWorker
  NoChallenge = NoChallenge
  MaxAttempts = 2
  CodeTtl = 2
  MaxNow = 2
  Browsers = {b1}
  NoBrowser = NoBrowser
  IdleWindow = 1
  BlockTime = 1
  NoticePeriod = 1
ACTION_CONSTRAINT PromptServer
PROPERTIES
  FreshSessionServed
CHECK_DEADLOCK FALSE
