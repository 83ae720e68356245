CONSTANTS
  none = none
  FormNumbers <- MCNumbers
  Decimal <- MCDecimal
  Failed = Failed
  NoURI = none
  WellFormedIds <- MCIds
  SafeValues <- MCSafe
  ProbeURIs = {}
  ConfigFiles <- MCConfigFiles
  Calls <- MCCalls
SPECIFICATION Spec
INVARIANTS
  RequestReadAsMeant
  EveryReplyAccepted
PROPERTIES
  ImplementsRemoteCall
\* a behaviour is one call
CHECK_DEADLOCK FALSE
