SPECIFICATION Spec
CONSTANTS
  Procs = {p1}
  PerProc = 2
  Workers <- MCWorkers
  Home <- MCHome
  Domains = {d1, d2}
  NoDomain = NoDomain
  MaxJobs = 2
  Faults = {"crash", "flush"}
INVARIANTS
  OneActivePerDomain
  ExecutedJobIsOpen
PROPERTIES
  ClosedStaysClosed
  OneSlotPerDomain
