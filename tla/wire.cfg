SPECIFICATION Spec
CONSTANTS
  Alphabet = {" ", "nl", "#", "@", ":", ".", "7", "a", "group", "Group", "self", "eacute"}
  Targets <- MCTargets
  CommandNames <- MCCommandNames
  ArgTokens <- MCArgTokens
  RequestIds <- MCRequestIds
  ReplyBodies <- MCReplyBodies
  EventNames <- MCEventNames
  EventFields <- MCEventFields
  SenderNames <- MCSenderNames
  RequestCommands <- MCRequestCommands
  MAX_TOKEN = 4
  MAX_ARGS = 2
  MAX_REPLY = 13
  IdDigits = 2
  IdLimit = 32
  LongLimit = 64
  MAX_GLUED = 7
  MaxTyped = 5
  MaxAppended = 1
  NoMessage = NoMessage
INVARIANTS TypeOK ParsersAgree RequestArrives ReplyCorrelates AnswersAreNotRequests
CHECK_DEADLOCK FALSE
