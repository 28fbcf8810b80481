SPECIFICATION Spec
CONSTANTS
  ana = ana
  ben = ben
  cem = cem
  User = {ana, ben, cem}
  Ip = {i1}
  Tier <- Plans
  Founders <- AnaFounded
  Task = {t1, t2}
  MaxRequests = 4
  MaxAttempts = 2
  MaxFailures = 1
  MaxEntries = 2
SYMMETRY Interchangeable
INVARIANTS TypeOK MembersCapped CodeAdmitsOne SharingIsConsented AttemptsBounded
PROPERTIES RevokedIsDead
CHECK_DEADLOCK FALSE
