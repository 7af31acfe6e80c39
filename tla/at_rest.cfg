CONSTANTS
  Domains = {d1, d2}
  Keys = {k1, k2}
  Values = {v1, file}
  Unstorable = {file}
  max_keys = 2
  EngineMayFail = TRUE
  MaxWrites = 4
  p1 = p1
  h1 = h1
  h2 = h2
  h3 = h3
  None = None
  Processes = {p1}
  Threads = {h1, h2, h3}
  ProcessOf <- OneProcess
  MaxGenerated = 3
  u1 = u1
  u2 = u2
  t1 = t1
  Pages = {u1, u2}
  Titles = {t1}
  Queries = {"q"}
  MaxSuggestions = 2
  HitsUrl <- MCHitsUrl
  HitsTitle <- MCHitsTitle
  MAX_LOG_ENTRIES = 2
  AUTOSAVE_INTERVAL = 1
  DAY = 2
  HEADER_HEIGHT = 2
  GROUP_ROW_H = 1
  ROW_H = 2
  WindowHeight = 5
  ScrollSteps = {3}
  HNone = HNone
  MaxClock = 4
  MaxFaults = 1
SPECIFICATION AtRestSpec
INVARIANTS
  DebounceInv
  KeysInv
  HistoryShown
  DiskHoldsTheLog
PROPERTIES
  EventuallyDurable
CHECK_DEADLOCK FALSE
