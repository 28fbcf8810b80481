SPECIFICATION Spec
CONSTANTS
  Mail <- TwoMails
  BoxOf <- AllInOne
  LetterOf <- Distinct
  NumBoxes = 1
  Provider <- Imap
  SubjectSignal = {}
  BodySignal = {1, 2}
  PerRunCap = 2
  ScanMax = 3
  MaxAttempts = 2
  Breaker = 2
  DailyBudget = 2
  Answers = {"empty", "transient"}
  InitBlocked = {}
  BlocklistGrows = FALSE
  CredLosses = {}
  BodyLoss = TRUE
  MaxFaults = 0
  MaxCrashes = 0
  MaxResets = 0
  MaxCalls = 9
INVARIANTS JudgedOnBody
