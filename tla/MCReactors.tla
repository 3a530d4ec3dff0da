----------------------------- MODULE MCReactors -----------------------------
(* Finite instances of Reactors for TLC. *)
EXTENDS Reactors

Kinds == [e |-> "equity", s |-> "single", c |-> "covered", m |-> "mleg",
          f |-> "equity"]

Run(backend, caps, active, maxFires, cash) ==
  [backend |-> backend, caps |-> caps, active |-> active, maxFires |-> maxFires,
   cash |-> cash]

\* At Alpaca one proposal of each kind; at the deterministic backend two equities
\* that share the cash of the book, and a covered structure.
Deployments ==
  {Run("alpaca", FALSE, {"e"}, 2, 0), Run("alpaca", TRUE, {"s"}, 2, 0),
   Run("alpaca", TRUE, {"m"}, 2, 0), Run("alpaca", FALSE, {"c"}, 1, 0),
   Run("deterministic", TRUE, {"e", "f"}, 2, 3),
   Run("deterministic", FALSE, {"c"}, 2, 2)}

Covered == {Run("alpaca", FALSE, {"c"}, 1, 0)}
=============================================================================
