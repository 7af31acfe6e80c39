CONSTANTS
  Compromised = FALSE
  MAX_INFLIGHT_TIMER_TICKS = 1
  Nothing = Nothing
  MaxDocs = 2
  MaxEvents = 2
  MaxWorkers = 3
  MaxForged = 1
  PipeFrames = 1
  MaxFrames = 4
  HostileDocs = 1
  HostileEvents = 2
  HostileWorkers = 1
SPECIFICATION MCSpec
INVARIANTS
  BridgeInv
  GestureIsOwn
  UntrustedContained
PROPERTIES
  PendingDrains
  NoWorkerOutlives
  SendsComplete
CHECK_DEADLOCK FALSE
