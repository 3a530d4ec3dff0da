CONSTANTS
  Procs = {q1, q2}
  Symbols = {s1, s2}
  Sizes <- BothSides
  Setups <- Deployments
  GrossCap = 3
  MaxFills = 3
  MaxClock = 1
  NoFill = NoFill
SYMMETRY Interchangeable
SPECIFICATION Spec
CHECK_DEADLOCK FALSE
INVARIANTS TypeOK Parity GrossWithinCap
