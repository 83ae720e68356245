CONSTANTS
  none = none
  NoMedia = none
  NoURI = none
  WellFormedIds <- MCIds
  SafeValues <- MCSafe
  ProbeURIs <- MCURIs
  ConfigFiles <- MCConfigFiles
  Requests <- MCRequests
SPECIFICATION Spec
INVARIANTS
  BareRequestAccepted
  PresetNeverMisroutes
  SubmittedWithinCapabilities
  ExplicitFieldsWin
  EdgeToEdgeEffective
  DefaultIsListed
  PresetListingIsFaithful
\* a configuration that does not validate ends the process
CHECK_DEADLOCK FALSE
