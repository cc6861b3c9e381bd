\* Messages in two topics, a client that reconnects with since=<id> for both.
SPECIFICATION Spec
CONSTANTS
  Half = 4
  Unit = {1}
  m1 = m1
  m2 = m2
  m3 = m3
  Msg = {m1, m2}
  t1 = t1
  t2 = t2
  Topic = {t1, t2}
  TopicOf <- TwoTopics
  c1 = c1
  Client = {c1}
  Wants <- AllTopics
  SinceTimes = {0}
  NoMsg = NoMsg
  NoTopic = NoTopic
  AnchorWindow = 1
  Capacity = 1
  CacheDuration = 2
  MaxDelay = 0
  Hold = 1
  MaxTime = 3
  MaxCrashes = 0
INVARIANT
  SinceIdSpansTopics
CHECK_DEADLOCK FALSE
