CONSTANTS
  Procs = {q1, q2}
  ProposalIds = {p1, p2}
  TornWrites = TRUE
  Reconcile = "never"
  Sweeper = q1
  NoProposal = NoProposal
SPECIFICATION Spec
INVARIANTS
  AtMostOneFire
PROPERTIES
  IndexClosedIsFinal
