SPECIFICATION Spec
CONSTANTS
  c1 = c1  c2 = c2  n1 = n1  n2 = n2  n3 = n3  h1 = h1
  Clients = {c1, c2}
  Others = {h1}
  Nodes = {n1}
  Texts <- MCTexts
  Fold <- MCFold
  NodeName <- MCNodeName
  GroupName <- MCGroupName
  NodeHex <- MCNodeHex
  IdentityHash <- MCIdentityHash
  Commands = {"ping"}
  Registered <- MCRegistered
  IdLimit = 100
  LongIs32 = FALSE
  StartId <- MCDefaultStart
  ExplicitIds = {}
  ForeignIds = {7, 101}
  Targets <- MCOneTarget
  Timeouts = {0}
  Outcome <- MCOk
  Entropy = {0}
  PublishMode <- MCAllEx
  MaxBuilds <- MCTwoByFirst
  MaxEpochs = 2
  NoResult = NoResult
INVARIANTS ReplyMatchesRequest RequestIdPreserved
CHECK_DEADLOCK FALSE
