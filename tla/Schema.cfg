\* Every release's database, two interruptions anywhere.
SPECIFICATION FairSpec
CONSTANTS
  a1 = a1
  a2 = a2
  b1 = b1
  Sub = {a1, a2, b1}
  KeyOf <- TwoOfOneBrowser
  MaxInterrupts = 2
INVARIANTS
  TypeOK
  UninterruptedStartIsComplete
  NoSubscriptionIsLost
PROPERTIES
  StartEnds
CHECK_DEADLOCK FALSE
