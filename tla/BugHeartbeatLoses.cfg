SPECIFICATION Spec
CONSTANTS
  Elements = {"lesson_status"}
  Values <- MCValues
  Refused = {}
  NoValue = NoValue
  Pages = {p1}
  Timers = {t1}
  Store = "redis"
  Requests = {"initialize", "set", "commit"}
  Faults = {}
  RawOnly = {}
INVARIANTS
  CommitSaves
