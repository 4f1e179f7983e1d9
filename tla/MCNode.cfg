SPECIFICATION MCSpec
CONSTANTS
  Requests = {r1, r2}
  Kind <- MCKind
  Controllers = {"provision", "mount"}
  Provisioner = "provision"
  Mounter = "mount"
  Scenes <- MCScenes
  Kinds = {"blank", "foreign", "mbr", "image", "ours"}
  MaxBoots = 2
  Cas = {"ca1", "ca2"}
  Baked = "baked"
  BootSets <- MCBootSets
  Keeps = {"none", "ca1"}
  EarlyFaults = 3
  Clients <- MCClients
  Command <- MCCommand
  Known = {"DiskStatus"}
  r1 = r1
  r2 = r2
  c1 = c1
  c2 = c2
  c3 = c3
  c4 = c4
INVARIANTS VolumesAttested BootsRight ReportedIsQueued
PROPERTIES GoesDownRight IdentityKept RequestsEnd NothingLost StateComesUp CommandsEnd
CHECK_DEADLOCK FALSE
