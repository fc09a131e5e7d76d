\* Two clients of one token with two calls in all, retrying twice, the default policy scaled down.
SPECIFICATION Spec
CONSTANTS
  Clients = {c1, c2}
  Window = 1
  ReadRpm = 1
  WriteRpm = 1
  MaxRetries = 2
  BackoffInitial = 4
  BackoffMax = 8
  TotalTimeout = 10
  ProxyRetryAfter <- ProxyValues
  MaxCalls = 2
INVARIANTS ServedWithinRpm OutcomeTrue
PROPERTIES CallsEnd
CHECK_DEADLOCK FALSE
