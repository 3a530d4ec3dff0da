---------------------------- MODULE MCLossRail ----------------------------
(* Finite instances of LossRail for TLC. *)
EXTENDS LossRail

Fill(asof, size, price) == [asof |-> asof, size |-> size, price |-> price]

\* Two units are bought dear, or one is sold cheap, then or before: a sale
\* that is before the purchase and comes after it makes another book.
BuyDearSellCheap == {Fill(1, 2, 2), Fill(1, -1, 1), Fill(0, -1, 1)}
=============================================================================
