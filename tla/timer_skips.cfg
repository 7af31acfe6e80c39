CONSTANTS
  WNone = WNone
  Zero = Zero
  Scenes <- OneTimer
  BACKGROUND_TIMER_MIN = 2
  MAX_INFLIGHT_TIMER_TICKS = 1
  BarChars = {"s", "a", "A", "u", "r", "t", "w", "x", " "}
  SchemeChar = "s"
  WidthOf <- MCWidth
  LowerOf <- MCLower
  Overrides = {"x"}
  Separators = {" ", "s"}
  Spaces = {" "}
  Inputs <- MCInputs
  Commits <- MCCommits
  Suggest <- MCSuggest
  BNone = BNone
  BPanic = BPanic
  MaxText = 3
SPECIFICATION AgedSpec
INVARIANT TimersKeepTime
CHECK_DEADLOCK FALSE
