------------------------------ MODULE MCSession ------------------------------
(* A small session: two market makers, one other name, few numbers. *)
EXTENDS Session

MCSeedUsers ==
  [u \in 0..1 |-> [name |-> IF u = 0 THEN "mm_alpha" ELSE "mm_beta",
                   quote |-> 4, base |-> 1, lockedQuote |-> 0, lockedBase |-> 0]]
MCSeedOrders ==
  << [user |-> 0, side |-> "Buy", price |-> PriceMin, qty |-> 1],
     [user |-> 1, side |-> "Sell", price |-> PriceMin + 1, qty |-> 1] >>

\* In and out of range: below zero, and wider than the QtyMod of the instance.
MCNumbers == {-1, 3, 17}

\* As for the wrapper alone.
Small == INSTANCE MCOrderBook
LiveState == <<Small!LiveState, sessionVars>>
=============================================================================
