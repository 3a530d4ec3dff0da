CONSTANTS
  Procs = {q1, q2}
  ProposalIds = {p1, p2}
  TornWrites = FALSE
  Reconcile = "offline"
  Sweeper = q1
  NoProposal = NoProposal
SPECIFICATION LiveSpec
INVARIANTS
  TypeOK
  FiredStaysApproved
  ExecutionMeansFill
  FireUnderDurableClaim
  LogNeverAhead
PROPERTIES
  ClosedIsFinal
  ImplementsLifecycle
  OverdueIsClosed
