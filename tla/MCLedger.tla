----------------------------- MODULE MCLedger -----------------------------
(* Finite instances of Ledger for TLC. *)
EXTENDS Ledger, TLC

Interchangeable == Permutations(Procs) \cup Permutations(Symbols)

BothSides == {2, -1}

\* The defaults: sizes are summed, and the rebuild is an operator tool that
\* is run while nothing fires.
Summed == [normalizer |-> FALSE, caps |-> FALSE, accountLock |-> FALSE,
           lockFaults |-> TRUE, rebuild |-> "quiet"]

\* Absolute targets, and a rebuild at any time.
Targets == [normalizer |-> TRUE, caps |-> FALSE, accountLock |-> FALSE,
            lockFaults |-> FALSE, rebuild |-> "online"]

\* The portfolio cap with both locks.
Capped == [normalizer |-> TRUE, caps |-> TRUE, accountLock |-> TRUE,
           lockFaults |-> FALSE, rebuild |-> "never"]

Deployments   == {Summed, Targets, Capped}
=============================================================================
