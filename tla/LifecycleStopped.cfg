\* A server that was shut down beside one that serves.
SPECIFICATION Spec
CONSTANTS
  s1 = s1
  s2 = s2
  Server = {s1, s2}
  m1 = m1
  Msg = {m1}
  Nobody = Nobody
PROPERTY
  StoppedTakesNothing
CHECK_DEADLOCK FALSE
