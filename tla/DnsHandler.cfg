\* Two queries at a time, two upstreams, a cache of one entry; TTLs below,
\* inside and above the range that is clamped to.
SPECIFICATION FairSpec
CONSTANTS
  NoEntry = NoEntry
  Nobody = Nobody
  child = child
  other = other
  n1 = n1
  n2 = n2
  bad = bad
  Tasks = {t1, t2}
  Clients = {child, other}
  Names <- MCNames
  Types <- MCTypes
  Keys <- MCKeys
  Asked <- MCAsked
  Deniable <- MCDeniable
  Blocked = {bad}
  FakeDnsOn = TRUE
  Upstreams <- MCUpstreams
  Timeout = 1
  Capacity = 1
  MinTtl = 1
  MaxTtl = 2
  UpstreamTtls <- MCUpstreamTtls
  CacheTtl = 1
INVARIANTS
  TypeOK
  CacheIsLru
  NoAnswerOutlivesItsFirstRecord
  RepliesFitTheirQuestion
  DenialReachesAnswers
  SilentUpstreamsArePassedOver
PROPERTIES
  EveryQueryIsAnswered
