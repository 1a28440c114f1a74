SPECIFICATION FairSpec
CONSTANTS
  Accounts <- Triple
  MaxAccount = 3
  Ids = {1, 2, 3}
  Requests = {1, 2, 3, 4, 5}
  Program <- Round
INVARIANTS
  CirclesNeedAnInsert
PROPERTIES
  EveryRequestEnds
\* Every request ends: the instance is then at rest.
CHECK_DEADLOCK FALSE
