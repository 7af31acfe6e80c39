CONSTANTS
  Domains = {d1}
  Keys = {k1, k2}
  Values = {v1, v2}
  Unstorable = {}
  max_keys = 2
  EngineMayFail = FALSE
  MaxWrites = 4
SPECIFICATION DebounceFairSpec
INVARIANT LastWriteWins
CHECK_DEADLOCK FALSE
