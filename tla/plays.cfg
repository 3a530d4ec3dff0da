CONSTANTS
  Plays = {"p", "q"}
  Under <- OneUnderlying
  Ticks = {"cron", "tool"}
  Setups <- Deployments
SPECIFICATION FairSpec
INVARIANTS TypeOK HeldOnce
PROPERTIES RowLaw LosersClose
