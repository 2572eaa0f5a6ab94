SPECIFICATION Spec
CONSTANTS
  c1 = c1
  c2 = c2
  a1 = a1
  a2 = a2
  s1 = s1
  s2 = s2
  Pids = {a1, a2, s1, s2}
  Calls = {c1, c2}
  PidOf <- MCPidOf
  Roles = {"app", "super", "none"}
  MaxKills = 2
  MaxBorn = 2
CHECK_DEADLOCK FALSE
PROPERTIES
  VerifiedIsTrue
