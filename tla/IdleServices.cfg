CONSTANTS
  Services = {"db", "admin"}
  Needs <- MCNeeds
  SiteUses <- MCSiteUses
  Asked <- MCAsked
  MaxUpsets = 1
  MaxWaiting = 1
SPECIFICATION FairSpec
INVARIANTS AsleepIsRemembered PageMatches
PROPERTIES WakesOnlyAsleep WakesWhenUsed SleepsWhenUnused WakesWhenOff
