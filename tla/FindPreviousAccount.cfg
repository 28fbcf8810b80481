SPECIFICATION Spec
CONSTANTS
  User = {ana, ben}
  Token = {k1, k2}
  MaxCalls = 3
  MaxSignIns = 2
  MaxTicks = 2
  MaxLosses = 0
  Nobody = nobody
  NoToken = noToken
PROPERTIES PreviousAccountSilent
CHECK_DEADLOCK FALSE
