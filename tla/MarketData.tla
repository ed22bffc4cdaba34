------------------------------ MODULE MarketData ------------------------------
(***************************************************************************)
(* What the wrapper tells of the market, computed from the engine: the     *)
(* best price and quantity of each side (getQuote) and the best levels in  *)
(* order (getDepth), found by walking from the cached best price to the    *)
(* next price whose level total is not zero.  These calls change nothing.  *)
(***************************************************************************)
EXTENDS LimitOrderBook

NoPrice == PriceMin - 1    \* stands for an empty optional

BestPrice(side) == IF best[side] = kNil THEN NoPrice ELSE LevelToPrice(best[side])
LevelQuantity(side, price) == IF InRange(price) THEN levelQty[side][PriceToLevel(price)] ELSE 0
Listing(side, price) == [price |-> price, qty |-> LevelQuantity(side, price)]

\* The best level, or nothing.
GetQuote(side) ==
  IF BestPrice(side) = NoPrice THEN <<>> ELSE <<Listing(side, BestPrice(side))>>

\* Seeded fault: the walk looks at the adjacent price only.
NextPrice_Adjacent(side, price) ==
  LET q == IF side = Buy THEN price - 1 ELSE price + 1
  IN IF LevelQuantity(side, q) # 0 THEN q ELSE NoPrice

\* The next price that the walk finds behind a price.
NextPrice(side, price) ==
  LET behind == {q \in PriceMin..PriceMax : Better(side, price, q) /\ LevelQuantity(side, q) # 0}
  IN IF behind = {} THEN NoPrice ELSE Foremost(side, behind)

\* The prices that the walk lists, one after the other, and NoPrice once there are no
\* more.  A best level whose total is zero is passed over.
Walk(side) ==
  LET price[k \in 1..kLevels] ==
        LET p == IF k = 1 THEN BestPrice(side) ELSE price[k-1]
        IN IF p = NoPrice \/ (k = 1 /\ LevelQuantity(side, p) # 0) THEN p
           ELSE NextPrice(side, p)
  IN price

\* At most max levels, best first.
GetDepth(side, max) ==
  LET price == Walk(side)
  IN [k \in {j \in 1..kLevels : j <= max /\ price[j] # NoPrice} |-> Listing(side, price[k])]
------------------------------------------------------------------------------
\* The levels of one side that hold orders, and the one of them that has k - 1
\* better ones.
HoldingLevels(side) == {l \in Level : NodesAt(side, l) # {}}
BetterThan(side, S, l) == {m \in S : Better(side, m, l)}
Ranked(side, S, k) == CHOOSE l \in S : Cardinality(BetterThan(side, S, l)) = k - 1

\* At most max of the levels with resting orders, best first, and what rests there.
TrueDepth(side, max) ==
  LET level(k) == Ranked(side, HoldingLevels(side), k)
  IN [k \in 1..Min({max, Cardinality(HoldingLevels(side))}) |->
        [price |-> LevelToPrice(level(k)), qty |-> QtyAt(side, level(k))]]

\* Between calls the depth of either side, asked for any number of levels, is
\* the best levels that hold orders, each with the quantity that really rests
\* there and in price order, across gaps between levels; and the quote is its
\* first line.
DepthShowsOrders ==
  ~call.running =>
    \A s \in Side :
      /\ GetQuote(s) = TrueDepth(s, 1)
      /\ \A max \in 0..kLevels + 1 : GetDepth(s, max) = TrueDepth(s, max)
=============================================================================
