------------------------------ MODULE MCHalts ------------------------------
(* Finite instances of Halts for TLC. *)
EXTENDS Halts, TLC

CONSTANTS btc, eth

TwoScopes == {{btc}, {btc, eth}}

Interchangeable == Permutations(Writers) \cup Permutations(Ticks)
=============================================================================
