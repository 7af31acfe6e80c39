SPECIFICATION Spec
CONSTANTS
  Names <- MCNames
  Hosts <- MCHosts
  HostOf <- MCHostOf
  WellFormed <- MCWellFormed
  Control <- MCControl
  Sandbox <- MCSandbox
  DefaultURL <- MCDefaultURL
  StartURL <- Blank
  Targets <- TwoTargets
  ActionKinds = {"None", "Fetch", "Navigate"}
  Scrolls = {0}
  NoScroll = NoScroll
  MAX_REDIRECTS = 1
  MAX_HISTORY_ENTRIES = 2
  SandboxedWorker = FALSE
  MaxInputs = 1
  MaxEvents = 0
CHECK_DEADLOCK FALSE
INVARIANT
  DocumentMatchesOrigin
