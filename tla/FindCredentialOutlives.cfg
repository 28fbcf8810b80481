SPECIFICATION Spec
CONSTANTS
  ana = ana
  ben = ben
  a1 = a1
  a2 = a2
  User = {ana, ben}
  Address = {a1, a2}
  Home <- HomeOf
  Imap <- ImapKeys
  Serves <- Logins
  Limit <- OneEach
  Task = {t1}
  Operations = {"addImap", "disconnect"}
  MaxRequests = 2
  MaxMishaps = 1
INVARIANTS RemovalDestroys
CHECK_DEADLOCK FALSE
