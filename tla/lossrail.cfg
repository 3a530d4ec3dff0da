CONSTANTS
  Ticks = {t1, t2}
  Normalized = {t2}
  Fills <- BuyDearSellCheap
  Scale = 2
  Threshold = 2
  MaxFills = 3
  NoCheckpoint = NoCheckpoint
  NoValue = NoValue
SPECIFICATION FairSpec
INVARIANTS TypeOK SummedIsReplay
PROPERTY LossTrips
