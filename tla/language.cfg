CONSTANTS
  IntMax = 127
  Scale = 10
  ScaleDigits = 1
  MAX_JSON_DEPTH = 5
  MAX_JSON_NODES = 4
  MAX_INTERPOLATED_BYTES = 12
  max_instructions = 24
  MAX_EVAL_DEPTH = 5
  EQ_BUDGET_PER_VARIABLE = 4
  Documents <- MCDocuments
  Shown <- Display
  Unset <- Null
  UrlValue <- MCUrlValue
  Answers <- MCAnswers
  Typed <- MCTyped
  MaxInputs = 4
  Scalars <- MCScalars
  Samples <- MCSamples
  Lists <- MCLists
  SortField <- MCSortField
  Programs <- MCPrograms
  Scenarios <- MCScenarios
  Texts <- MCTexts
  Budgets <- MCBudgets
  WireTrees <- MCWireTrees
  Forms <- MCForms
  MAX_ARENA_NODES = 30
  MAX_TYPE_DEPTH = 1
  MAX_VALUE_DEPTH = 3
  U32 = 4
  MAX_PARSE_DEPTH = 3
  MAX_ROOT_TIMERS = 2
  ReservedHeaders <- MCReservedHeaders
  Capitals <- MCCapitals
  Sentences <- MCSentences
  Blocks <- MCBlocks
  WrittenActions <- MCWrittenActions
  Registry <- MCRegistry
SPECIFICATION LanguageSpec
INVARIANTS
  UiShowsSession
  CompsAreRight
  JsonRoundTrips
  SortFollowsOrder
  LimitsOnlyCut
  ChecksHoldAtRunTime
  SandboxChangesNothing
  FramesAreWhole
  ReadAsWritten
PROPERTY
  MirrorSpec
CHECK_DEADLOCK FALSE
