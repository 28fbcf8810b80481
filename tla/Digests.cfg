SPECIFICATION Spec
CONSTANTS
  User = {ana, ben}
  Token = {k1, k2}
  MaxCalls = 3
  MaxSignIns = 2
  MaxTicks = 2
  MaxLosses = 1
  Nobody = nobody
  NoToken = noToken
SYMMETRY Interchangeable
INVARIANTS TypeOK OncePerDay ReaderHoldsPhone
PROPERTIES OthersServed
CHECK_DEADLOCK FALSE
