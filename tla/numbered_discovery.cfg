SPECIFICATION CoreSpec
CHECK_DEADLOCK FALSE
CONSTANTS
  Nodes <- MCNodes
  CapSize <- MCCapSize
  Readings <- MCReadings
  Uptimes <- MCUptimes
  IdDigits = {0, 1, 10}
  Procs = {}
  Offers = {}
  Codes = {}
  CodeSize <- MCCodeSize
  MaxOffers = 0
  CallNodes = {}
  NoCall = NoCall
INVARIANT NumberedDiscoveryIdentifies
