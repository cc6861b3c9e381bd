\* A client that reconnects with since=<id> when the id has expired.
SPECIFICATION FairSpec
CONSTANTS
  Half = 4
  Unit = {1}
  m1 = m1
  m2 = m2
  m3 = m3
  Msg = {m1, m2}
  t1 = t1
  t2 = t2
  Topic = {t1}
  TopicOf <- OneTopic
  c1 = c1
  Client = {c1}
  Wants <- AllTopics
  SinceTimes = {0}
  NoMsg = NoMsg
  NoTopic = NoTopic
  AnchorWindow = 1
  Capacity = 1
  CacheDuration = 1
  MaxDelay = 0
  Hold = 1
  MaxTime = 3
  MaxCrashes = 0
PROPERTY
  MissingAnchorReplaysNothing
CHECK_DEADLOCK FALSE
