\* The service and an instance started by hand, one process killed, one failed
\* read, two statements; a TOML file with two devices of one address among three.
SPECIFICATION FairSpec
CONSTANTS
  NULL = NULL
  Nobody = Nobody
  d1 = d1
  d2 = d2
  ip1 = ip1
  ip2 = ip2
  c1 = c1
  c2 = c2
  Instances = {"service", "second"}
  Service = "service"
  Devices = {d1, d2}
  Addresses = {ip1, ip2}
  Categories = {c1, c2}
  Names = {"first", "second"}
  Priorities = {1, 2}
  Tomls <- MCTomls
  FilesWith <- MCFilesWith
  MaxCrashes = 1
  MaxFaults = 1
  MaxEdits = 2
INVARIANTS
  TypeOK
  TablesFitVersion
  ReferencesHold
PROPERTIES
  MigrationsKeepRows
  SeedEndsWhole
  ServiceComesUp
