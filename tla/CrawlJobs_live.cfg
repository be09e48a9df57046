SPECIFICATION FairSpec
CONSTANTS
  Procs = {p1, p2}
  PerProc = 1
  Workers <- MCWorkers
  Home <- MCHome
  Domains = {d1}
  NoDomain = NoDomain
  MaxJobs = 2
  Faults = {}
INVARIANTS
  RunningHasExecutor

  
