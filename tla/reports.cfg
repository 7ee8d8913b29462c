SPECIFICATION CoreSpec
CHECK_DEADLOCK FALSE
CONSTANTS
  Nodes <- MCNodes
  CapSize <- MCCapSize
  Readings <- MCReadings
  Uptimes <- MCUptimes
  IdDigits = {0, 10}
  Procs <- MCProcs
  Offers <- MCOffers
  Codes <- MCCodes
  CodeSize <- MCCodeSize
  MaxOffers = 3
  CallNodes <- MCCallNodes
  NoCall = NoCall
INVARIANT CoreTypeOK
INVARIANT EarlierFieldsFirst
INVARIANT ReportsIdentify
INVARIANT FeaturesDisplaceNothing
INVARIANT NothingMadeUp
INVARIANT CallReadsBack
INVARIANT ProcsAgree
