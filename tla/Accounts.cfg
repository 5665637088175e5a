SPECIFICATION Spec
CONSTANTS
  Id = {i1, i2}
  Email = {m1, m2}
  Password = {p1, p2}
  Token = {t1, t2}
  Visit = {v1, v2}
  None = None
  o1 = o1
  s1 = s1
  e1 = e1
  e2 = e2
  Owner = {o1}
  Seat = {s1}
  Entry = {e1, e2}
  OwnerOf <- MCOwnerOf
  EntryOwner <- MCEntryOwner
  EntrySeats <- MCEntrySeats
  Studied = {s1}
  MaxCopies = 2
  b1 = b1
  b2 = b2
  x1 = x1
  x2 = x2
  k1 = k1
  c1 = c1
  a1 = a1
  l1 = l1
  l2 = l2
  Subject = {b1, b2}
  Exam = {x1, x2}
  Package = {k1}
  Sitting = {a1}
  ClassLevel = {l1, l2}
  Segment = {}
  CourseOf <- MCCourseOf
  SubjectOf <- MCSubjectOf
  PlaceOf <- MCPlaceOf
  Mapped = {a1}
  LevelOf <- MCLevelOf
  Unmapped = Unmapped
  MaxOrder = 3
  Person = {i1, i2}
  Role = {"learner", "staff"}
  Duty = {m1, m2}
  Nobody = None
SYMMETRY Symmetry
INVARIANTS
  RegisteredServes
  EndedStaysOut
  EnrollmentsMigrated
  
  RolesCarried
