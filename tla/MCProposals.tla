---------------------------- MODULE MCProposals ----------------------------
(* Finite instances of Proposals for TLC. *)
EXTENDS Proposals, TLC

Interchangeable == Permutations(Procs) \cup Permutations(ProposalIds)
=============================================================================
