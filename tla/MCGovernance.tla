---------------------------- MODULE MCGovernance ----------------------------
(* Finite instances of Governance for TLC.                                   *)
EXTENDS Governance, TLC

Run(oneProcess, crashes, tokens, evaluates, maxEvents) ==
  [oneProcess |-> oneProcess, crashes |-> crashes, tokens |-> tokens,
   evaluates |-> evaluates, maxEvents |-> maxEvents]

\* Threads of one process and processes apart, two tokens each; the evaluator.
Deployments == {Run(TRUE, TRUE, Tokens, FALSE, 2), Run(FALSE, TRUE, Tokens, FALSE, 2),
                Run(TRUE, FALSE, {}, TRUE, 3)}

OneOperator == {Run(TRUE, FALSE, Tokens, FALSE, 2)}

Interchangeable == Permutations(Actors) \cup Permutations(Tokens)
=============================================================================
