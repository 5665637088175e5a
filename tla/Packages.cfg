SPECIFICATION Spec
CONSTANTS
  Package = {p1, p2}
  NoPackage = NoPackage
  Editor = {e1, e2}
  File = {f1, f2}
  Clerk = {k1, k2}
  Target = {t1, t2}
  User = {u1, u2}
  NoUser = NoUser
  Staff = {u1, u2}
  Launch = {l1, l2}
  MaxAttempts = 1
  MaxNumber = 2
  Nothing = Nothing
  Zips <- MCZips
SYMMETRY Symmetry
INVARIANTS
  UploadsServe
  PublishedAgrees
  AttemptsCounted
  ManifestsRead
