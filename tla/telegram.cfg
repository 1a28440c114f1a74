SPECIFICATION FairSpec
CONSTANTS
  ann = ann
  bob = bob
  h1 = h1
  h2 = h2
  c1 = c1
  Challenges = {c1}
  Issued = {}
  Workers = {w1}
  NoWorker = NoWorker
  NoChallenge = NoChallenge
  MaxAttempts = 2
  CodeTtl = 0
  MaxNow = 1
  Users = {ann, bob}
  Someone = ann
  NoUser = NoUser
  Chats = {h1, h2}
  NoChat = NoChat
  Subject <- OfAnn
  NoticePeriod = 1
  OpeningChat <- AnnLinked
  MaxMinted = 2
  MaxUpdates = 2
  MaxRestarts = 1
INVARIANTS
  IInv
  CodesLinkOnce
PROPERTIES
  DroppedWithNotice
  ImplementsLinkState
  KeepsPromise
  EveryUpdateHandled
CHECK_DEADLOCK FALSE
