CONSTANTS
  WNone = WNone
  Zero = Zero
  Scenes <- MCScenes
  BACKGROUND_TIMER_MIN = 2
  MAX_INFLIGHT_TIMER_TICKS = 1
  BarChars = {"s", "a", "A", "u", "r", "t", "w", "x", " "}
  SchemeChar = "s"
  WidthOf <- MCWidth
  LowerOf <- MCLower
  Overrides = {"x"}
  Separators = {" ", "s"}
  Spaces = {" "}
  Inputs <- MCInputs
  Commits <- MCCommits
  Suggest <- MCSuggest
  BNone = BNone
  BPanic = BPanic
  MaxText = 3
SPECIFICATION MCSpec
INVARIANTS
  WindowInv
  PlaceholdersReplaced
  BarIsCoherent
PROPERTIES
  FocusMovesAsShown
  LoadingAnswersShown
CHECK_DEADLOCK FALSE
