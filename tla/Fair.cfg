SPECIFICATION FairSpec
CONSTANTS
  Elements = {"completion_status"}
  Values <- MCInvalid
  Refused = {"done"}
  NoValue = NoValue
  Pages = {p1}
  Timers = {t1}
  Store = "redis"
  Requests = {"initialize", "set", "reject", "get", "commit", "terminate"}
  Faults = {"set", "reject", "get"}
  RawOnly = {}
INVARIANTS
  ContentAgrees
PROPERTIES
  Answered
