SPECIFICATION MCSpec
CONSTANTS
  Elements = {"lesson_status", "lesson_location"}
  Values <- MCValues
  Refused = {}
  NoValue = NoValue
  Pages = {p1}
  Timers = {t1}
  Store = "redis"
  Requests = {"initialize", "set", "get", "commit", "terminate"}
  Faults = {"initialize", "get", "commit", "terminate"}
  RawOnly = {}
  Version = "scorm_1.2"
  Owner <- MCOwner
  Lossy = TRUE
INVARIANTS
  ApiOK
  
  LeftInOrder
  
