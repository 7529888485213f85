\* One task: the round robin meets an address in use with no race at all.
SPECIFICATION Spec
CONSTANTS
  Tasks = {t1}
  NoTask = NoTask
  NoDomain = NoDomain
  NoIp = NoIp
  Network = 0
  Broadcast = 4
  CacheSize = 2
  ZeroCapacity = 1000
  d1 = d1
  d2 = d2
  d3 = d3
  Domains <- MCDomains
  DomainShard <- MCDomainShard
  IpShard <- MCIpShard
INVARIANT NextIpIsFree
CHECK_DEADLOCK FALSE
