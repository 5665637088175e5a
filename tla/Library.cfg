SPECIFICATION Spec
CONSTANTS
  c1 = c1
  d1 = d1
  a1 = a1
  n1 = n1
  Template = {t1}
  Author = {a1, a2}
  TDept = {d1}
  Whole = {a2}
  ScopeOf <- MCScopeOf
  Css = {none, c1}
  NoCss = none
  Declaration = {x1}
  RulesOf <- MCRulesOf
  Absent = Absent
  NoTDept = NoTDept
  Unsaid = Unsaid
  Statuses = {}
  MaxVersion = 2
  Dept = {d1, d2, d3}
  Name = {n1, n2}
  Registrar = {r1, r2}
  NoDept = NoDept
  NoName = NoName
  Master = Master
  PassScore = {60}
  NoPass = NoPass
  Officer = {r1, r2}
  Unit = {n1, n2}
  Program = {d2, d3}
  Course = {c1}
  Exam = {x1}
  Custom = {t1}
  Unfiled = Unfiled
  Parcel = {k1}
  Nowhere = Nowhere
SYMMETRY Symmetry
INVARIANTS
  
  ShownAlike
  
PROPERTIES
  StaysLinked
