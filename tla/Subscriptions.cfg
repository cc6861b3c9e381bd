\* A WebSocket on two topics and an event stream and a WebSocket on one of
\* them race with each other and with pruning.
SPECIFICATION FairSpec
CONSTANTS
  s1 = s1
  s2 = s2
  s3 = s3
  t1 = t1
  t2 = t2
  v1 = v1
  Stream = {s1, s2, s3}
  Topic = {t1, t2}
  Wants <- WantsTopics
  WebSocket = {s1, s3}
  Visitor = {v1}
  VisitorOf <- OneVisitor
  NoTopic = NoTopic
  MaxObjects = 3
INVARIANTS
  TypeOK
  UnwrapNeverPanics
  SubscribersAreReached
  CountCoversStreams
PROPERTIES
  CutOffWebSocketCloses
CHECK_DEADLOCK FALSE
