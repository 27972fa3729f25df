\* One student, two handlers at a time.
CONSTANTS
  b1 = b1
  c1 = c1
  c2 = c2
  t1 = t1
  t2 = t2
  Course = {c1, c2}
  Bundle = {b1}
  KycCourse = {c2}
  Task = {t1, t2}
  MaxIssues = 1
  MaxKyc = 2
  MaxFaults = 1
  CoursesOf <- BundledCourses
  MaxRecords = 2
  MaxPurchases = 1
  Visit = {t1, t2}
  Milestone = {2}
  MaxDay = 4
  MaxVisits = 5
  Issuer = {t1, t2}
  MaxCerts = 3
  MaxCertFaults = 1
SPECIFICATION Spec
SYMMETRY Symmetry
INVARIANTS
  CredentialsAreSound
  PromisesAreKept
  StreaksAreReal
  NoGhostCertificate
CHECK_DEADLOCK FALSE
