SPECIFICATION Spec
CONSTANTS
  c1 = c1  c2 = c2  n1 = n1  n2 = n2  n3 = n3  h1 = h1
  Clients = {c1}
  Others = {h1}
  Nodes = {n1, n2}
  Texts <- MCTexts
  Fold <- MCFold
  NodeName <- MCNodeName
  GroupName <- MCGroupName
  NodeHex <- MCNodeHex
  IdentityHash <- MCIdentityHash
  Commands = {"ping"}
  Registered <- MCRegistered
  IdLimit = 1000
  LongIs32 = FALSE
  StartId <- MCOwnRanges
  ExplicitIds = {}
  ForeignIds = {900}
  Targets <- MCTwoTargets
  Timeouts = {1}
  Outcome <- MCOk
  Entropy = {0}
  PublishMode <- MCAllEx
  MaxBuilds <- MCTwoByClients
  MaxEpochs = 2
  NoResult = NoResult
INVARIANTS TypeOK IdInv
PROPERTY KeepsThePromise
CHECK_DEADLOCK FALSE
