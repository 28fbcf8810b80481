SPECIFICATION Spec
CONSTANTS
  Mail <- OneMail
  BoxOf <- AllInOne
  LetterOf <- Distinct
  NumBoxes = 1
  Provider <- Gmail
  SubjectSignal = {1}
  BodySignal = {}
  PerRunCap = 2
  ScanMax = 3
  MaxAttempts = 2
  Breaker = 2
  DailyBudget = 2
  Answers = {"empty", "transient"}
  InitBlocked = {}
  BlocklistGrows = FALSE
  CredLosses = {}
  BodyLoss = FALSE
  MaxFaults = 0
  MaxCrashes = 0
  MaxResets = 1
  MaxCalls = 9
INVARIANTS BoundedAfterReset
