SPECIFICATION FairSpec
CONSTANTS
  ana = ana
  ben = ben
  Users <- Pair
  Cooldown = 1
  MaxPolls = 1
  MaxRestarts = 1
INVARIANTS TypeOK SingleFlight RegistryTellsTruth OutcomeIsFresh
PROPERTIES CooldownUnlessRestarted SyncedAgainAndAgain
