SPECIFICATION FairSpec
CONSTANTS
  d1 = d1
  d2 = d2
  d3 = d3
  p1 = p1
  p2 = p2
  f1 = f1
  Deliveries = {d1, d2, d3}
  Approvals = {p1, p2}
  Workloads <- MCOne
  Prints = {f1}
  PrintOf <- MCPrintOf
  Unprinted = Unprinted
  Free = Free
  TTL = 1
  FirstLimit = 1
  ResumeLimit = 1
  DrainLimit = 1
  MaxTries = 1
  MaxUnsaved = 1
  MaxRestarts = 1
PROPERTIES
  CrashResumes
