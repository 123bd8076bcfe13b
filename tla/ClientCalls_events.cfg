\* A second caller of one account connects with an event handler of its own.
CONSTANTS
  Account = {a1}
  Caller = {c1, c2}
  MaxRetries = 1
  CONTRACT_CLIENT_CACHE_LIMIT = 1
  MaxConnects = 2
  MaxClears = 1
SPECIFICATION ClientSpec
INVARIANT NewestCallerIsHeard
CHECK_DEADLOCK FALSE
