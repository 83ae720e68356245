CONSTANTS
  PrinterStates <- MCPrinterStates
  Replies <- MCReplies
  MaxChanges = 2
SPECIFICATION PollingSpec
INVARIANTS
  ReadyWasIdle
  TroubleNeverReady
  DeviceReadAsItSaid
PROPERTIES
  ReadyInTheEnd
