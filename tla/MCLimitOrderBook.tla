--------------------------- MODULE MCLimitOrderBook ---------------------------
(* Small instances of the matching engine for TLC. *)
EXTENDS MarketData

\* One price outside the range, and one id; the check of the other end of
\* each range is the same refusal.
MCPrices == PriceMin-1..PriceMax
MCIds == 0..MaxOrders

\* Fields that no call reads before it writes them: those of dead nodes, the
\* free link of live nodes, the vector of a call that has returned.
Dead == Node \ LiveNodes
Blank(f, nodes) == [i \in Node |-> IF i \in nodes THEN kNil ELSE f[i]]
LiveState ==
  <<levelVars, Blank(next, Dead), Blank(prev, Dead), Blank(orderId, Dead),
    Blank(orderPrice, Dead), Blank(orderQty, Dead),
    [i \in LiveNodes |-> orderSide[i]], Blank(nextFree, LiveNodes),
    freeHead, idToIdx, call, IF call.running THEN executions ELSE <<>> >>

\* Passing runs stay where quantities cannot wrap.
ASSUME QtyFits
=============================================================================
