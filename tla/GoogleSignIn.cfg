SPECIFICATION FairSpec
CONSTANTS
  MaxAttempts = 3
  MaxKills = 2
  MaxLogins = 3
  MaxStates = 2
INVARIANTS TypeOK CodesMatchOnce RecentLoginsKept
PROPERTIES InterruptedSignInCompletes
CHECK_DEADLOCK FALSE
