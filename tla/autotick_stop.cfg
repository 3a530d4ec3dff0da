CONSTANTS
  Symbols = {"c"}
  Ticks = {"cron"}
  Nobody = "nobody"
  MaxConcurrent = 1
  MaxOpens = 1
  Setups <- Stopping
SPECIFICATION Spec
PROPERTY StoppedNotReopened
