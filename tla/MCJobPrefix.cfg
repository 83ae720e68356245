CONSTANTS
  mono = mono  other = other  q1 = q1  user = user
  Dests = {mono, other}
  Configured = {mono}
  JobNumbers = {1, 10}
  Owners <- MCOwners
  Anybody = user
  Pollers = {q1}
  LpstatFaults = FALSE
SPECIFICATION Spec
INVARIANTS
  ProcessingIsGenuine
