CONSTANTS
  mono = mono  other = other  q1 = q1  user = user
  Dests = {mono, other}
  Configured = {mono}
  JobNumbers = {1, 2, 3}
  Owners <- MCOwners
  Anybody = user
  Pollers = {q1}
  LpstatFaults = TRUE
SPECIFICATION PollingSpec
INVARIANTS
  AnswerWasTrue
  CompletedIsGenuine
  NeverRevives
PROPERTIES
  PollerLearns
