CONSTANTS
  Chars <- MCChars
  Digits <- MCDigits
  Worth <- MCWorth
  MaxUint = 10
  Dash = "-"
  Destinations <- MCDestinations
  Numbers <- MCNumbers
  Asked <- MCAsked
  MaxPrinters = 2
  MaxLen = 3
SPECIFICATION Spec
INVARIANTS
  PrinterFoundIsOwner
  ListedIsThatJob
  PostedRoundTrips
