SPECIFICATION Spec
CONSTANTS
  Elements = {"lesson_status"}
  Values <- MCValues
  Refused = {}
  NoValue = NoValue
  Learner = {u1, u2}
  Previewer = {s1}
  Package = {p1, p2}
  p1 = p1
  d1 = d1
  Dept = {d1}
  NoDept = NoDept
  DeptOf <- MCDeptOf
  Owned = {p2}
  Global = {}
  Limit = 1
  MaxAttempts = 3
  MaxPlayed = 1
  Tracked <- MCTracked
  Unset = Unset
  MaxTracked = 4
  p2 = p2
  i1 = i1
  a1 = a1
  c1 = c1
  c2 = c2
  g1 = g1
  Title = {p1, p2}
  Class = {c1, c2}
  Student = {v1}
  Segment = {g1}
  Person = {i1, a1}
  Instructor = {i1}
  Anywhere = {a1}
  ScopeOf <- MCScopeOf
  UploadedBy <- MCUploadedBy
  DepartmentOf <- MCDepartmentOf
  IsGlobal <- MCIsGlobal
  Teaches <- MCTeaches
  PackageOf <- MCPackageOf
  PageSize = 1
  MaxTries = 1
SYMMETRY Symmetry
INVARIANTS
  ExportCovers
  ReportsAgree
  
  
