CONSTANTS
  h1 = h1  h2 = h2  p1 = p1  p2 = p2
  mono = mono  photo = photo  refused = refused
  Handlers = {h1, h2}
  Paths = {p1, p2}
  Dests = {mono, photo}
  Unsupported = refused
  Documents <- FewDocuments
  JobNumbers = {1, 2, 3}
  Owners <- MCOwners
  Foreign = Foreign
  None = None
  MaxUploadBytes = 4
  FormRoom = 2
  MaxInt = 15
  HeaderLen = 2
  PrivateTmp = TRUE
  StoreFaults = TRUE
  CloseFaults = TRUE
  LpFaults = TRUE
  MaxCrashes = 1
  MaxForeignJobs = 1
SPECIFICATION FairSpec
PROPERTIES
  AbandonedIsReleased
  EveryRequestAnswered
\* the requests of a behaviour are finitely many
CHECK_DEADLOCK FALSE
