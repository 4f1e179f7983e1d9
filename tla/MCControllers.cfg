SPECIFICATION MCSpec
CONSTANTS
  Configs <- MCConfigs
  V4 <- MCV4
  V6 <- MCV6
  OnLink <- MCOnLink
  Nics = {"lo", "eth0", "eth1"}
  UpAtBoot = {"eth0"}
  BadMtu = {9000}
  None = None
  PodSeq <- OnePod
  Image <- OneImage
  Pause = pause
  Hangs = TRUE
  PodFaults = 2
  web = web
  imgWeb = imgWeb
  Configured = 0
  Starts = {20, 51}
  Clocks = {0, 22, 40}
  Unix = 10
  Era = 64
  Threshold = 1
  Timeout = 4
  MaxTime = 6
  MaxSyncs = 2
  MaxFaults = 2
  Unset = TRUE
INVARIANTS StatusesTrue ReportTrue SyncedIsClose
PROPERTIES NetworkConverges PodsRun ClockSet
CHECK_DEADLOCK FALSE
