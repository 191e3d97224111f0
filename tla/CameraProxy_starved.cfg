SPECIFICATION Spec
CONSTANTS
  v1 = v1
  v2 = v2
  Viewers = {v1, v2}
  QueueSize = 2
  MaxSubs = 3
  MaxFrames = 1
CHECK_DEADLOCK FALSE
SYMMETRY Symmetry
INVARIANT EveryViewerServed
