SPECIFICATION FairSpec
CONSTANTS
  Names <- MCNames
  Hosts <- MCHosts
  HostOf <- MCHostOf
  WellFormed <- MCWellFormed
  Control <- MCControl
  Sandbox <- MCSandbox
  DefaultURL <- MCDefaultURL
  StartURL <- Blank
  Targets <- RemoteTargets
  ActionKinds = {"None", "Fetch", "Navigate"}
  Scrolls = {0}
  NoScroll = NoScroll
  MAX_REDIRECTS = 2
  MAX_HISTORY_ENTRIES = 2
  SandboxedWorker = FALSE
  MaxInputs = 1
  MaxEvents = 1
CHECK_DEADLOCK FALSE
INVARIANTS
  LogicStaysHome
PROPERTIES
  SpinnerStops
