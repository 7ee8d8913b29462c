SPECIFICATION Spec
CONSTANTS
  Alphabet = {"Group", ":", " ", "a"}
  Targets = {}
  CommandNames = {}
  ArgTokens = {}
  RequestIds = {}
  ReplyBodies = {}
  EventNames = {}
  EventFields = {}
  SenderNames = {}
  RequestCommands <- MCRequestCommands
  MAX_TOKEN = 4
  MAX_ARGS = 2
  MAX_REPLY = 13
  IdDigits = 2
  IdLimit = 32
  LongLimit = 64
  MAX_GLUED = 7
  MaxTyped = 5
  MaxAppended = 0
  NoMessage = NoMessage
INVARIANTS PythonMatchesNative
CHECK_DEADLOCK FALSE
