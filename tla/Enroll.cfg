SPECIFICATION MCSpec
CONSTANTS
  Course = {c1, c2}
  Handler = {h1, h2}
  NoCourse = NoCourse
  CourseStatus = {"active", "completed"}
  ManualStatus = {"on-leave"}
  l1 = l1
  l2 = l2
  g1 = g1
  g2 = g2
  d1 = d1
  d2 = d2
  Crs = {a1}
  Lev = {l1, l2}
  Prog = {g1, g2}
  ProgOf <- MCProgOf
  Piece = {d1, d2}
  BatchOf <- MCBatchOf
  NoLev = NoLev
SYMMETRY Symmetry
INVARIANTS
  Mirrors
  RepairConverges
