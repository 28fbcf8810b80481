SPECIFICATION Spec
CONSTANTS
  ana = ana
  ben = ben
  a1 = a1
  a2 = a2
  User = {ana, ben}
  Address = {a1, a2}
  Home <- HomeOf
  Imap <- ImapKeys
  Serves <- Logins
  Limit <- OneEach
  Task = {t1, t2}
  Operations <- AllOps
  MaxRequests = 3
  MaxMishaps = 1
SYMMETRY Interchangeable
INVARIANTS TypeOK CapKept OneHolder StrayIsExplained CacheTellsTruth
CHECK_DEADLOCK FALSE
