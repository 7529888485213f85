\* Two tasks, each of which waits for the lock that the other holds.
SPECIFICATION FairSpec
CONSTANTS
  Tasks = {t1, t2}
  NoTask = NoTask
  NoDomain = NoDomain
  NoIp = NoIp
  Network = 0
  Broadcast = 4
  CacheSize = 2
  ZeroCapacity = 1000
  d1 = d1
  d2 = d2
  d3 = d3
  Domains <- MCDomains
  DomainShard <- MCDomainShard
  IpShard <- MCIpShard
PROPERTY AllocateReturns
CHECK_DEADLOCK FALSE
