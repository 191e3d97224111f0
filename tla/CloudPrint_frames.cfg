SPECIFICATION FairSpec
CONSTANTS
  p1 = p1
  p2 = p2
  Printers = {p1, p2}
  MaxSubs = 2
  MaxQueued = 2
  MaxDrain = 1
  MaxProgress = 1
  MaxTimeouts = 1
CHECK_DEADLOCK FALSE
INVARIANTS SubmissionsApart VerdictOnItsWay
PROPERTY SubmissionsEnd
