SPECIFICATION SuiteSpec
CONSTANTS
  j1 = j1
  j2 = j2
  w1 = w1
  w2 = w2
  c1 = c1
  c2 = c2
  lan = lan
  cloud = cloud
  Jobs = {j1, j2}
  Workers = {w1}
  Clients = {c1}
  LanPrinters = {lan}
  CloudPrinters = {}
  NoPrinter = NoPrinter
  NoJob = NoJob
  Stop = Stop
  MaxRestarts = 1
  ReadMayFail = FALSE
  Requests = {"r1", "r2"}
  Files = {"f"}
  Machines = {"a1", "p2"}
  Slots = {0, 1, 2}
  Trays = {0, 254}
  Picks = {0}
  Filaments = {"basic", "matte", "petg"}
  TypeOf <- TwoTypes
  FileName <- OneName
  UploadIds = {"u1", "u2"}
  Chunks = 2
  Gcodes = {"FINISH", "RUNNING", "PAUSE"}
  Stages = {"none", "prepare"}
  Forms = {{"gcode"}, {"stage"}, {"code"}, {"layer"}, {"percent"}}
  Serials = {"s1", "s2"}
  Ips = {"i1", "i2"}
  Codes = {"c1"}
  MaxWaiting = 1
  SavesFail = TRUE
  Versions = {"v1", "v2"}
  MaxFetches = 2
  MaxStarts = 3
SYMMETRY Symmetry
CHECK_DEADLOCK FALSE
INVARIANTS TypeOK RecordHasBlobs NoOrphanBlobs NoJobIsForgotten SentRightly
  RequestsKeepTheirs SlotsGetTheirTrays TrackerTellsTheTruth StatusIsRight RegistryAgrees InstallIsSound
PROPERTIES StepsImplementLifecycle PrintsFromItsTrays PrintsWholeFile ReportsHeal DiscoveryKeepsAddresses
