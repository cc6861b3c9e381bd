\* Two messages of one second, a client that reconnects with since=<id>.
SPECIFICATION Spec
CONSTANTS
  Half = 4
  Unit = {1}
  m1 = m1
  m2 = m2
  m3 = m3
  Msg = {m1, m2}
  t1 = t1
  t2 = t2
  Topic = {t1}
  TopicOf <- OneTopic
  c1 = c1
  Client = {c1}
  Wants <- AllTopics
  SinceTimes = {0}
  NoMsg = NoMsg
  NoTopic = NoTopic
  AnchorWindow = 1
  Capacity = 1
  CacheDuration = 1
  MaxDelay = 0
  Hold = 1
  MaxTime = 2
  MaxCrashes = 0
INVARIANT
  SinceIdExcludesOnlyTheAnchor
CHECK_DEADLOCK FALSE
