----------------------------- MODULE MCAutoTick -----------------------------
(* Finite instances of AutoTick for TLC. *)
EXTENDS AutoTick

Run(watch, stop, options, infra, held, others) ==
  [watch |-> watch, stop |-> stop, options |-> options, infra |-> infra,
   held |-> held, others |-> others]

\* Room for one more symbol than is held, with and without options plays; a lock
\* that may be unusable; the stop with a watchlist and with none; nothing to do.
Deployments ==
  {Run(<<"a", "b">>, FALSE, FALSE, FALSE, {"c"}, {"a", "c"}),
   Run(<<"a", "b", "c">>, FALSE, TRUE, FALSE, {}, {}),
   Run(<<"a">>, FALSE, FALSE, TRUE, {"c"}, {"a"}),
   Run(<<"a", "c">>, TRUE, FALSE, FALSE, {"c"}, {"c"}),
   Run(<<>>, TRUE, FALSE, FALSE, {"a", "c"}, {"c"}),
   Run(<<>>, FALSE, FALSE, FALSE, {"a"}, {})}

Stopping == {Run(<<"c">>, TRUE, FALSE, FALSE, {"c"}, {"c"})}
=============================================================================
