----------------------------- MODULE MCOrderBook -----------------------------
(* Small instances of the account wrapper for TLC. *)
EXTENDS OrderBook

\* Two market makers whose seed orders leave a spread, two levels of asks among
\* them, as in the constructor.
MCSeedUsers ==
  [u \in 0..1 |-> [name |-> IF u = 0 THEN "mm_alpha" ELSE "mm_beta",
                   quote |-> 6, base |-> 2, lockedQuote |-> 0, lockedBase |-> 0]]
MCSeedOrders ==
  << [user |-> 0, side |-> "Buy", price |-> PriceMin, qty |-> 1],
     [user |-> 1, side |-> "Sell", price |-> PriceMin + 1, qty |-> 1],
     [user |-> 1, side |-> "Sell", price |-> PriceMax, qty |-> 1] >>

\* A negative price passes the funds check and is left to the engine.
MCPrices == {-1, PriceMin, PriceMax}
MCQuoteDeltas == {-6, 6}

\* What a later step can still read: the live part of the engine and of the
\* order table, and the executions of the submission that runs.
Small == INSTANCE MCLimitOrderBook
LiveOrders == [id \in {i \in 1..Len(orders) : orders[i].active \/ op # Idle} |-> orders[id]]
LiveState ==
  <<Small!LiveState, LiveOrders, users, nextOrderId, seeding, op,
    IF op = Idle THEN <<>> ELSE executions>>
=============================================================================
