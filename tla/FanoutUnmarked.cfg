\* One delayed message that is due within its retention.
SPECIFICATION FanoutSpec
CONSTANTS
  Half = 8
  Unit = {1, 3}
  m1 = m1
  Msg = {m1}
  t1 = t1
  Topic = {t1}
  TopicOf <- OneTopic
  NoMsg = NoMsg
  AnchorWindow = 1
  Capacity = 1
  CacheDuration = 1
  MaxDelay = 1
  Hold = 1
  MaxTime = 5
  MaxCrashes = 0
INVARIANT
  DueIsNeverDropped
CHECK_DEADLOCK FALSE
