\* Two tasks that allocate the same domain at the same time.
SPECIFICATION Spec
CONSTANTS
  Tasks = {t1, t2}
  NoTask = NoTask
  NoDomain = NoDomain
  NoIp = NoIp
  Network = 0
  Broadcast = 4
  CacheSize = 2
  ZeroCapacity = 1000
  d1 = d1
  d2 = d2
  d3 = d3
  Domains <- MCDomains
  DomainShard <- MCDomainShard
  IpShard <- MCIpShard
SYMMETRY MCSymmetry
INVARIANT OneIpPerDomain
CHECK_DEADLOCK FALSE
