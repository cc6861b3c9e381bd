\* Two servers that find no keys.
SPECIFICATION Spec
CONSTANTS
  s1 = s1
  s2 = s2
  Server = {s1, s2}
  m1 = m1
  Msg = {m1}
  Nobody = Nobody
INVARIANT
  KeyIsStored
CHECK_DEADLOCK FALSE
