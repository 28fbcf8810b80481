SPECIFICATION Spec
CONSTANTS
  Mail <- ThreeMails
  BoxOf <- LastApart
  LetterOf <- Distinct
  NumBoxes = 2
  Provider <- GmailImap
  SubjectSignal = {1}
  BodySignal = {3}
  PerRunCap = 2
  ScanMax = 3
  MaxAttempts = 1
  Breaker = 2
  DailyBudget = 1
  Answers = {"events", "empty", "transient", "fatal"}
  InitBlocked = {2}
  BlocklistGrows = TRUE
  CredLosses = {}
  BodyLoss = TRUE
  MaxFaults = 1
  MaxCrashes = 1
  MaxResets = 1
  MaxCalls = 4
INVARIANTS TypeOK BoundedCalls BudgetKept
PROPERTIES ImplementsLedger
