SPECIFICATION Spec
CONSTANTS
  j1 = j1
  j2 = j2
  w1 = w1
  w2 = w2
  c1 = c1
  c2 = c2
  lan = lan
  cloud = cloud
  Jobs = {j1, j2}
  Workers = {w1, w2}
  Clients = {c1}
  LanPrinters = {}
  CloudPrinters = {cloud}
  NoPrinter = NoPrinter
  NoJob = NoJob
  Stop = Stop
  MaxRestarts = 0
  ReadMayFail = TRUE
SYMMETRY Symmetry
INVARIANT OneOwner
PROPERTY ImplementsLifecycle
CHECK_DEADLOCK FALSE
