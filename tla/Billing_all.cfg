CONSTANTS
  Paid = {"pro"}
  AppLimit <- MCAppLimit
  AgentLimit <- MCAgentLimit
  Deliveries = {d1, d2}
  Clients = {c1, c2}
  MaxCustomers = 1
  MaxEvents = 2
  MaxApps = 3
  MaxAgents = 1
SPECIFICATION FairSpec
INVARIANTS TypeOK AppliedOnce   
PROPERTY EventProcessed
CHECK_DEADLOCK FALSE
