SPECIFICATION Spec
CONSTANTS
  www = www
  google = google
  com = com
  lan = lan
  other = other
  six = six
  cn = cn
  group = group
  Direct = Direct
  Reject = Reject
  None = None
  Policies <- MCPolicies
  Labels <- MCLabels
  Names <- MCNames
  Addresses4 = {lan, other}
  Addresses6 = {six}
  Country <- MCCountry
  Files <- MCFiles
  Lines <- MCLines
  MaxLines = 4
INVARIANTS
  TypeOK
  FirstLineWinsByAddress
  FinalIsLast
  PassedOverOnlyIfHidden
  FilterAgreesWithProxy
CHECK_DEADLOCK FALSE
