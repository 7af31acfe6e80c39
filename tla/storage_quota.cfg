CONSTANTS
  v1 = v1
  v2 = v2
  Domains = {"unknown", "localhost", "file"}
  Keys = {k1, k2}
  Values = {v1, v2}
  Unstorable = {}
  max_keys = 2
  EngineMayFail = FALSE
  MaxWrites = 3
  Tabs = {t1, t2}
  StartTab = t1
  Urls <- MCUrls
  AboutBlank = "blank"
  StartURLs = {"blank", "file"}
  DefaultURL = "localhost"
  DomainOf <- MCDomainOf
  QuotaOf <- MCQuotaOf
  estimate_value_bytes <- MCBytes
  STORAGE_RATE_LIMIT_WRITES_PER_SEC = 1
  MaxRestarts = 1
SYMMETRY KeySymmetry
SPECIFICATION Spec
INVARIANTS
  LedgerWithinQuota
  StoreCharged
CHECK_DEADLOCK FALSE
