\* A domain in two grantable categories.
SPECIFICATION ParentalSpec
CONSTANTS
  Devices = {1, 2}
  Categories = {1, 2}
  Interval = 1
  BusyTimeout = 1
  DayLength = 4
  Formats = {"sql", "iso", "bad"}
  NewGrants <- MCNewGrants
  MaxNow = 5
  MaxGrants = 2
  MaxFaults = 1
  MaxEdits = 1
  video = video
  site = site
  ads = ads
  stranger = stranger
  Strangers = {stranger}
  Global = Global
  GlobalCategories = {}
  DefaultPolicy = "allow"
  Domains <- MCDomains
  Parents <- MCParents
  Lists <- MCLists
  Files <- MCFiles
  DeviceType <- MCDeviceType
  NewModes <- MCSoften
  Setup <- MCSetup
INVARIANT GrantOpensCategory
CHECK_DEADLOCK FALSE
