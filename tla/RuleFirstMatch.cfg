SPECIFICATION Spec
CONSTANTS
  www = www
  google = google
  com = com
  lan = lan
  other = other
  six = six
  cn = cn
  group = group
  Direct = Direct
  Reject = Reject
  None = None
  Policies <- MCPolicies
  Labels <- MCLabels
  Names <- MCOneName
  Addresses4 = {lan, other}
  Addresses6 = {six}
  Country <- MCCountry
  Files <- MCFiles
  Lines <- MCLines
  MaxLines = 2
INVARIANT FirstMatchWins
CHECK_DEADLOCK FALSE
