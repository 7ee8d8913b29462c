SPECIFICATION NodeFairSpec
CONSTANTS
  Volts = {0, 350, 365, 410}
  Thresholds = {360, 400}
  NoReading = NoReading
  NoEvent = NoEvent
  Subscribers = 2
  MaxPresses = 2
  MaxDepth = 2
INVARIANTS NodeTypeOK OneAcquisition AnswerWasTrue PressesHeardOnce LevelMatchesEdge
PROPERTIES RecoveryBetweenAlarms LowIsReported
