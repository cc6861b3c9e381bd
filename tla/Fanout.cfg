\* Two requests to one topic, delays within the retention and beyond it, one
\* crash.  No symmetry: liveness and the refinement are checked here too.
SPECIFICATION FairFanoutSpec
CONSTANTS
  Half = 8
  Unit = {1, 3}
  m1 = m1
  m2 = m2
  Msg = {m1, m2}
  t1 = t1
  Topic = {t1}
  TopicOf <- OneTopic
  NoMsg = NoMsg
  AnchorWindow = 1
  Capacity = 1
  CacheDuration = 1
  MaxDelay = 3
  Hold = 1
  MaxTime = 5
  MaxCrashes = 1
INVARIANTS
  DelayedWithinMax
  NeverEarly
  FanOutAtMostOnce
  FannedOutIsReplayable
  AnsweredIsKept
  FiredBeforeDeletion
PROPERTIES
  DelayedIsFired
  ImplementsMessageLife
CHECK_DEADLOCK FALSE
