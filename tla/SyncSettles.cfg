SPECIFICATION FairSpec
CONSTANTS
  Mail <- ThreeMails
  BoxOf <- LastApart
  LetterOf <- Distinct
  NumBoxes = 2
  Provider <- GmailImap
  SubjectSignal = {1, 2, 3}
  BodySignal = {}
  PerRunCap = 2
  ScanMax = 3
  MaxAttempts = 2
  Breaker = 2
  DailyBudget = 1
  Answers = {"events", "transient", "permanent"}
  InitBlocked = {}
  BlocklistGrows = FALSE
  CredLosses = {"revoked", "cutOff"}
  BodyLoss = FALSE
  MaxFaults = 0
  MaxCrashes = 0
  MaxResets = 0
  MaxCalls = 9
INVARIANTS  BoundedCalls RunCap
PROPERTIES RunEnds MailSettles ImplementsLedger
