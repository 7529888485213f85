\* Two devices, two categories, two grants; a tick of five seconds, which is both
\* the interval of the refreshes and the wait for a locked database; one read that fails.
SPECIFICATION ParentalSpec
CONSTANTS
  Devices = {1, 2}
  Categories = {1, 2}
  Interval = 1
  BusyTimeout = 1
  DayLength = 4
  Formats = {"sql", "iso", "bad"}
  NewGrants <- MCNewGrants
  MaxNow = 5
  MaxGrants = 2
  MaxFaults = 1
  MaxEdits = 1
  video = video
  site = site
  ads = ads
  stranger = stranger
  Strangers = {stranger}
  Global = Global
  GlobalCategories = {}
  DefaultPolicy = "allow"
  Domains <- MCDomains
  Parents <- MCParents
  Lists <- MCLists
  Files <- MCFiles
  DeviceType <- MCDeviceType
  NewModes <- MCHarden
  Setup <- MCSetup
INVARIANTS
  TypeOK
  RevokeTakesEffect
  GrantTakesEffect
  HardNeverOpens
  OnlyGrantsOpen
\* The bounds end every behaviour.
CHECK_DEADLOCK FALSE
