-------------------------- MODULE MCCompositePlays --------------------------
(* Finite instances of CompositePlays for TLC: two plays on one underlying, or *)
(* one of them where ticks overlap, rows are written by hand or legs decompose. *)
EXTENDS CompositePlays

OneUnderlying == [p \in Plays |-> "X"]

Run(legops, takeProfit, infra, operator, plays) ==
  [legops |-> legops, takeProfit |-> takeProfit, infra |-> infra,
   operator |-> operator, plays |-> plays]

\* The default flags; two ticks at once, with the take-profit sweep; leg
\* operations, and rows written by hand, the latter without the lock too.
Deployments == {Run(FALSE, FALSE, FALSE, FALSE, Plays),
                Run(FALSE, TRUE, TRUE, FALSE, {"p"}),
                Run(TRUE, TRUE, FALSE, TRUE, {"p"}),
                Run(FALSE, FALSE, TRUE, TRUE, {"p"})}
=============================================================================
