CONSTANTS
  front = front  secret = secret
  Pages = {front, secret}
  Contents = {"v1", "v2"}
  Manual = {front}
  Sitemap = {secret}
  Dated = {secret}
  Seed = front
  Links <- MCLinks
  MaxDepth = 1
  Disallowed = {secret}
  Says <- MCSays
  Tagged = {secret}
  NoPage = NoPage  None = None
  Touched = {secret}
  Faults = {"silo", "crash"}
SPECIFICATION FairSpec
INVARIANTS TypeOK   
PROPERTIES OnlyRequestsRevive ManualStaysManual 
CHECK_DEADLOCK FALSE
