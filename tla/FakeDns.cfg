\* Three tasks, three domains, a pool of three addresses, room for two.
SPECIFICATION Spec
CONSTANTS
  Tasks = {t1, t2, t3}
  NoTask = NoTask
  NoDomain = NoDomain
  NoIp = NoIp
  Network = 0
  Broadcast = 4
  CacheSize = 2
  ZeroCapacity = 1000
  d1 = d1
  d2 = d2
  d3 = d3
  Domains <- MCDomains
  DomainShard <- MCDomainShard
  IpShard <- MCIpShard
SYMMETRY MCSymmetry
INVARIANTS
  TypeOK
  AnswersLeadBack
  LruTracksMappings
  CapacityBound
PROPERTIES
  Implements
\* Two tasks can wait for each other's lock: see FakeDnsDeadlock.cfg.
CHECK_DEADLOCK FALSE
