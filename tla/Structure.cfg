SPECIFICATION Spec
CONSTANTS
  Course = {c1}
  Level = {l1, l2}
  Author = {a1, a2}
  Nothing = Nothing
  Dept = {d1, d2, d3}
  Name = {n1, n2}
  Registrar = {r1, r2}
  NoDept = NoDept
  NoName = NoName
  Unit = {x1, x2}
  Role = {o1}
  Manager = {m1, m2}
  MaxRevision = 2
SYMMETRY Symmetry
INVARIANTS
  PublishedIsRendered
  
  ScopeReachesAll
  RolesFollow
