SPECIFICATION Spec
CONSTANTS
  Seat = {s1, s2}
  Doc = {d1, d2}
  Request = {r1, r2}
  NoDoc = none
  Outcome = {"passed"}
  Part = {exam, media}
  Value = {blank, v}
  Blank = blank
  MaxRecord = 1
  MaxVersion = 1
  c1 = c1
  k1 = k1
  Segment = {s1, s2}
  Custom = {c1}
  Package = {k1}
  Call = {r1, r2}
  None = none
  Bodies <- MCBodies
  Payload <- MCPayload
  Unset <- MCUnset
  MaxEvents = 2
  program = program
  term = term
  group = group
  exam1 = exam1
  exam2 = exam2
  year1 = year1
  year2 = year2
  Item = {program, term, group, exam1, exam2, year1, year2}
  KindOf <- MCKindOf
  Question = {d1, d2}
  Name = {a, b}
  NoName = none
  Clerk = {r1, r2}
SYMMETRY Symmetry
INVARIANTS
  NothingLost
  
  RecordsKept
PROPERTIES
  ArchiveSpec
  AnswersWhatIsStored
