CONSTANTS
  mono = mono  r1 = r1  r2 = r2  user = user
  Dests = {mono}
  Configured = {mono}
  JobNumbers = {1, 2}
  Owners <- MCOwners
  Anybody = user
  Pollers = {r1, r2}
  LpstatFaults = FALSE
  Printer = mono
  StartupTimeout = 1
  JobTimeout = 1
SPECIFICATION FairPowerSpec
INVARIANTS
  PrintsOnReadyPrinter
PROPERTIES
  ImplementsPowerPolicy
  ScriptEnds
\* every run of the script ends
CHECK_DEADLOCK FALSE
