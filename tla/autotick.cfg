CONSTANTS
  Symbols = {"a", "b", "c"}
  Ticks = {"cron", "tool"}
  Nobody = "nobody"
  MaxConcurrent = 2
  MaxOpens = 2
  Setups <- Deployments
SPECIFICATION FairSpec
INVARIANTS TypeOK RailsHold
PROPERTIES TripQuiets LosersExit
