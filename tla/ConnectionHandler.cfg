\* One connection at a time and the background task test and dial a group of
\* up to two members that go down, hang and come back.
SPECIFICATION FairSpec
CONSTANTS
  none = none
  Callers = {t1}
  Background = bg
  Configured <- MCConfigured
  Latency <- MCLatency
  Infinity = 3
  Names = {"rejected", "direct", "proxied", "named"}
  NoName = none
  Denied = {"proxied"}
  PolicyOf <- MCPolicyOf
  GroupNames = {"GROUP", "Group", "SS-HK"}
  Upper <- MCUpper
  Nowhere = Nowhere
INVARIANTS
  TypeOK
  OneSteadyMemberSuffices
  RelayFollowsPolicy
PROPERTIES
  NoConnectionHangs
  GroupSettles
