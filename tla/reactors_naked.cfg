CONSTANTS
  Props = {"e", "f", "s", "c", "m"}
  Kind <- Kinds
  Orders <- OrderOf
  Combos <- ComboOf
  Setups <- Covered
  Qty = 2
  MaxReads = 1
SPECIFICATION Spec
CHECK_DEADLOCK FALSE
INVARIANT NoNakedShort
