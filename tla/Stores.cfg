SPECIFICATION MCSpec
CONSTANTS
  Elements = {"lesson_status", "exit"}
  Values <- MCValues
  Refused = {}
  NoValue = NoValue
  Pages = {p1}
  Timers = {t1}
  Store = "memory"
  Requests = {"initialize", "set", "reject", "get", "commit", "terminate"}
  Faults = {"initialize", "set", "reject", "get", "commit", "beat"}
  RawOnly = {"exit"}
INVARIANTS
  
  CommitSaves
  SessionAnswers
  ReportsNeverAhead
  StatusFollowsCMI
PROPERTIES
  KeptOrOpened
