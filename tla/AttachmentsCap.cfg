\* Two uploads, each under the cap, checked before either is recorded; nothing
\* fails.
SPECIFICATION Spec
CONSTANTS
  u1 = u1
  u2 = u2
  Upload = {u1, u2}
  Size <- Sizes
  TotalLimit = 2
  Expiry = 1
  Hold = 1
  Download = {d1}
  MaxTime = 4
  MaxFailures = 0
INVARIANT
  CapIsKept
CHECK_DEADLOCK FALSE
