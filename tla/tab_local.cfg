SPECIFICATION Spec
CONSTANTS
  Names <- MCNames
  Hosts <- MCHosts
  HostOf <- MCHostOf
  WellFormed <- MCWellFormed
  Control <- MCControl
  Sandbox <- MCSandbox
  DefaultURL <- MCDefaultURL
  StartURL <- LocalStart
  Targets <- MixedTargets
  ActionKinds = {"None", "Fetch", "Navigate"}
  Scrolls = {0, 1}
  NoScroll = NoScroll
  MAX_REDIRECTS = 1
  MAX_HISTORY_ENTRIES = 2
  SandboxedWorker = TRUE
  MaxInputs = 4
  MaxEvents = 0
INVARIANTS
  TabInv
  LoneChainWithinBudget
PROPERTIES
  OriginMovesAsAllowed
  ScrollIsOwn
CHECK_DEADLOCK FALSE
