\* Two uploads that exceed the cap together, one download at a time, and two
\* failures.
SPECIFICATION FairSpec
CONSTANTS
  u1 = u1
  u2 = u2
  Upload = {u1, u2}
  Size <- Sizes
  TotalLimit = 2
  Expiry = 1
  Hold = 1
  Download = {d1}
  MaxTime = 4
  MaxFailures = 2
INVARIANTS
  TypeOK
  LinkServes
  RefusedOnlyWhenExpired
  OnlyFailuresLeak
  CapExceededByOverlapOnly
PROPERTY
  FileIsRemoved
CHECK_DEADLOCK FALSE
