SPECIFICATION FairSpec
CONSTANTS
  v1 = v1
  v2 = v2
  Viewers = {v1, v2}
  QueueSize = 2
  MaxSubs = 3
  MaxFrames = 3
CHECK_DEADLOCK FALSE
INVARIANTS UpstreamIsOwned NewestFramesWait ViewersServed
PROPERTY EndsAtLast
