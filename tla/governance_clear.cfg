CONSTANTS
  Actors = {q1}
  Tokens = {t1, t2}
  NoToken = NoToken
  Setups <- OneOperator
  MaxDay = 1
  Short = 1
  Long = 2
SPECIFICATION Spec
INVARIANT ClearHaltClears
