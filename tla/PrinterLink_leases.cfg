SPECIFICATION SuiteSpec
CONSTANTS
  Links = {l1, l2}
  Conns = {c1, c2}
  Streams = {s1, s2}
  Users = {u1}
  Service = Service
  NoConn = NoConn
  MaxStreams = 2
  MaxEvents = 1
  Requests = {"r1", "r2"}
  Accounts = {"a1", "a2"}
  Devices = {"d1", "d2"}
  MaxDrops = 1
  MaxRestarts = 1
SYMMETRY Symmetry
INVARIANTS IdleTimerFits LoopsAreOwned LeasesMatch SessionIsAsShown
CHECK_DEADLOCK FALSE
