CONSTANTS
  Props = {"e", "f", "s", "c", "m"}
  Kind <- Kinds
  Orders <- OrderOf
  Combos <- ComboOf
  Setups <- Deployments
  Qty = 2
  MaxReads = 1
SPECIFICATION FairSpec
CHECK_DEADLOCK FALSE
INVARIANTS TypeOK PolledFillIsFinal Backed FamilyOnce CoverFirst CoverAccounted
PROPERTY EveryFireReturns
