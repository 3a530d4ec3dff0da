CONSTANTS
  btc = btc
  eth = eth
  Instruments = {btc, eth}
  Scopes <- TwoScopes
  Writers = {q1, q2}
  Ticks = {t1}
  Approvals = TRUE
  Crashes = TRUE
  MaxHalts = 2
  NoHalt = NoHalt
SYMMETRY Interchangeable
SPECIFICATION Spec
INVARIANTS TypeOK OneActivePerScope InForceIsMirrored MirrorSettled
PROPERTIES HistoryIsAppendOnly
