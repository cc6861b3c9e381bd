\* Two calls of start or start_async in any order and mix, and one delayed
\* message.  No symmetry: liveness is checked too.
SPECIFICATION Spec
CONSTANTS
  s1 = s1
  s2 = s2
  Server = {s1, s2}
  m1 = m1
  Msg = {m1}
  Nobody = Nobody
INVARIANTS
  TypeOK
  KeyIsKept
PROPERTIES
  StartIsAnswered
CHECK_DEADLOCK FALSE
