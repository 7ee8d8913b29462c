SPECIFICATION Spec
CONSTANTS
  c1 = c1  c2 = c2  n1 = n1  n2 = n2  n3 = n3  h1 = h1
  Clients = {c1}
  Others = {}
  Nodes = {n1, n2, n3}
  Texts <- MCTexts
  Fold <- MCFold
  NodeName <- MCNodeName
  GroupName <- MCGroupName
  NodeHex <- MCNodeHex
  IdentityHash <- MCIdentityHash
  Commands = {"ping"}
  Registered <- MCMixedRegistered
  IdLimit = 1000
  LongIs32 = FALSE
  StartId <- MCOwnRanges
  ExplicitIds = {}
  ForeignIds = {900}
  Targets <- MCAllTargets
  Timeouts = {1}
  Outcome <- MCOk
  Entropy = {0, 199, 200, 241}
  PublishMode <- MCMixedModes
  MaxBuilds <- MCOneEach
  MaxEpochs = 1
  NoResult = NoResult
INVARIANTS BroadcastWindow SlotsSeparateReplies
CHECK_DEADLOCK FALSE
