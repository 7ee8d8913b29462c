SPECIFICATION Spec
CONSTANTS
  f1 = f1  f2 = f2  l1 = l1
  Features = {f1, f2}
  Names <- MCNames
  FoldName <- MCFoldName
  FeatureCommands <- MCFeatureCommands
  FeatureCaps <- MCFeatureCaps
  AppNames = {}
  App = App
  Mesh = Mesh
  Listeners = {l1}
  MAX_FEATURES = 2
  MAX_COMMANDS = 3
  MAX_CAPS = 2
  MAX_EVENT_SUBS = 3
  HandlersMay = {"shutdown"}
  MaxEvents = 1
  NoHandler = NoHandler
PROPERTY NoLoopAfterShutdown
