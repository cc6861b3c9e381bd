\* Two messages on one of two topics.  Rows expire at the end of their second, so
\* that anchors and cached messages go while a client reads.
SPECIFICATION FairSpec
CONSTANTS
  Half = 4
  Unit = {1}
  m1 = m1
  m2 = m2
  m3 = m3
  Msg = {m1, m2}
  t1 = t1
  t2 = t2
  Topic = {t1, t2}
  TopicOf <- OneTopic
  c1 = c1
  Client = {c1}
  Wants <- AllTopics
  SinceTimes = {1}
  NoMsg = NoMsg
  NoTopic = NoTopic
  AnchorWindow = 1
  Capacity = 1
  CacheDuration = 0
  MaxDelay = 1
  Hold = 0
  MaxTime = 2
  MaxCrashes = 1
INVARIANTS
  TypeOK
  ReceivedIsPublic
  LiveComplete
  ReplayComplete
CHECK_DEADLOCK FALSE
PROPERTIES
  StreamMovesOn
  ImplementsFeed
