CONSTANTS
  Actors = {q1, q2}
  Tokens = {t1, t2}
  NoToken = NoToken
  Setups <- Deployments
  MaxDay = 3
  Short = 1
  Long = 2
SPECIFICATION Spec
SYMMETRY Interchangeable
INVARIANTS TypeOK SpentOnce HaltHolds ReportedBlocks
