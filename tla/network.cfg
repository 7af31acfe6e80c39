CONSTANTS
  Commands <- MCCommands
  Workloads <- MCWorkloads
  HostInfo <- MCHosts
  Vaults <- MCVaults
  DnsAnswers <- MCAnswers
  LocalAddresses <- MCLocal
  Grants <- MCGrants
  OPENNIC_TLDS = {"geek"}
  PERMITTED_HTTP_METHODS = {"GET", "POST"}
  MAX_TOKEN_TTL_SECS = 1
  MAX_CONCURRENT_FETCHES = 2
  MAX_UI_CHANNEL_CAPACITY = 1
  MAX_POOL_SIZE = 1
  QUIC_MAX_IDLE_TIMEOUT = 2
  max_redirects = 1
  MAX_RESPONSE_BODY_BYTES = 8
  MaxTime = 1
SPECIFICATION NetSpec
INVARIANTS
  NetworkInv
  TokensStayInScope
  RequestsStayOutside
PROPERTIES
  EveryCommandAnswered
  AnsweredIsNotRepeated
  SubresourcesStayOnHost
CHECK_DEADLOCK FALSE
