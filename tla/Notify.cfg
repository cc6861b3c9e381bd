\* One message, immediate, delayed or of the Matrix gateway, and a crash; two
\* browsers that subscribe three times between them, one mailbox.  Messages
\* share nothing but the table, which their tasks only read.
SPECIFICATION Spec
CONSTANTS
  Half = 4
  Unit = {1}
  m1 = m1
  Msg = {m1}
  t1 = t1
  Topic = {t1}
  TopicOf <- OneTopic
  NoMsg = NoMsg
  AnchorWindow = 0
  Capacity = 1
  CacheDuration = 1
  MaxDelay = 1
  Hold = 0
  MaxTime = 2
  MaxCrashes = 1
  e1 = e1
  e2 = e2
  Endpoint = {e1, e2}
  i1 = i1
  i2 = i2
  i3 = i3
  Id = {i1, i2, i3}
  a1 = a1
  Mailbox = {a1}
  Upstream = Upstream
  Configured = {"poll", "mail", "push"}
SYMMETRY Symmetry
INVARIANTS
  CalledOnce
  UnsubscribedIsSilent
CHECK_DEADLOCK FALSE
