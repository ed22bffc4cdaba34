---------------------------- MODULE PriceTimeBook ----------------------------
(***************************************************************************)
(* What a limit order book promises, without saying how: resting orders    *)
(* wait in one first-in first-out queue per side and price, an incoming    *)
(* order trades against the best crossing price first and the oldest order *)
(* of that price first, at the resting order's price, and what is left of  *)
(* it joins the back of its own queue.                                     *)
(*                                                                         *)
(* There is no pool, no free list, no occupancy bitset and no cached best  *)
(* price here: LimitOrderBook has them and is checked to implement this.   *)
(***************************************************************************)
EXTENDS Integers, FiniteSets, Sequences

CONSTANTS
  PriceMin, PriceMax,   \* the prices an order may rest at
  MaxOrders,            \* how many orders may rest at once; ids are 0..MaxOrders-1
  Prices, Qtys, Ids     \* what callers pass

VARIABLES
  book,        \* [side -> [price -> sequence of resting [id, qty], oldest first]]
  taker,       \* the order being matched
  ok,          \* what the last call returned
  executions   \* the trades of the last process_order call

vars == <<book, taker, ok, executions>>

Buy == "Buy"
Sell == "Sell"
Side == {Buy, Sell}
Opposite(side) == IF side = Buy THEN Sell ELSE Buy
Price == PriceMin..PriceMax
Id == 0..MaxOrders-1

NoTaker == [running |-> FALSE, side |-> Buy, price |-> PriceMin, remaining |-> 0, id |-> 0]

\* The prices with makers, one queue per price, that the taker accepts, and
\* the best of some prices.
CrossingPrices(makers) ==
  {p \in Price : /\ makers[p] # <<>>
                 /\ IF taker.side = Buy THEN p <= taker.price ELSE p >= taker.price}

BestOf(P) ==
  CHOOSE p \in P : \A r \in P : IF taker.side = Buy THEN p <= r ELSE p >= r

\* Where the orders with a given id rest: triples of side, price and position.
Places(id) ==
  LET resting == book
  IN {place \in Side \X Price \X (1..MaxOrders) :
        LET queue == resting[place[1]][place[2]]
        IN place[3] <= Len(queue) /\ queue[place[3]].id = id}

RestingIds ==
  LET resting == book
  IN UNION {{resting[s][p][k].id : k \in 1..Len(resting[s][p])} : s \in Side, p \in Price}

WithoutPosition(q, k) == SubSeq(q, 1, k - 1) \o SubSeq(q, k + 1, Len(q))
------------------------------------------------------------------------------
Init ==
  /\ book = [s \in Side |-> [p \in Price |-> <<>>]]
  /\ taker = NoTaker
  /\ ok = FALSE
  /\ executions = <<>>

Clear ==
  /\ ~taker.running
  /\ book' = [s \in Side |-> [p \in Price |-> <<>>]]
  /\ UNCHANGED <<taker, ok, executions>>

\* The orders that are accepted for matching.
Acceptable == [running : {TRUE}, side : Side, price : Prices \cap Price,
               remaining : Qtys \ {0}, id : Ids \cap Id]

Submit ==
  /\ ~taker.running
  /\ taker' \in Acceptable
  /\ ok' = FALSE
  /\ executions' = <<>>
  /\ UNCHANGED book

Refuse ==
  /\ ~taker.running
  /\ ok' = FALSE
  /\ executions' = <<>>
  /\ UNCHANGED <<book, taker>>

\* One trade, with the oldest order at the best crossing price.
Trade ==
  /\ taker.running
  /\ LET s == Opposite(taker.side)
         makers == book[s]
         crossing == CrossingPrices(makers)
         p == BestOf(crossing)
         maker == Head(makers[p])
         qty == IF maker.qty < taker.remaining THEN maker.qty ELSE taker.remaining
     IN /\ crossing # {}
        /\ executions' = Append(executions, [maker |-> maker.id, price |-> p, qty |-> qty])
        /\ book' = [book EXCEPT ![s][p] =
                      IF qty = maker.qty THEN Tail(@)
                      ELSE <<[maker EXCEPT !.qty = @ - qty]>> \o Tail(@)]
        /\ IF qty = taker.remaining
           THEN taker' = NoTaker /\ ok' = TRUE
           ELSE taker' = [taker EXCEPT !.remaining = @ - qty] /\ UNCHANGED ok

\* What no resting order crosses rests itself, if its id is not already
\* resting and there is room; otherwise the call fails.
Rest ==
  /\ taker.running
  /\ CrossingPrices(book[Opposite(taker.side)]) = {}
  /\ ok' = (taker.id \notin RestingIds /\ Cardinality(RestingIds) < MaxOrders)
  /\ book' = IF ok'
             THEN [book EXCEPT ![taker.side][taker.price] =
                     Append(@, [id |-> taker.id, qty |-> taker.remaining])]
             ELSE book
  /\ taker' = NoTaker
  /\ UNCHANGED executions

Cancel(id) ==
  /\ ~taker.running
  /\ ok' = (Places(id) # {})
  /\ \/ ~ok' /\ UNCHANGED book
     \/ \E place \in Places(id) :
          book' = [book EXCEPT ![place[1]][place[2]] = WithoutPosition(@, place[3])]
  /\ UNCHANGED <<taker, executions>>

Next ==
  \/ Clear
  \/ Submit
  \/ Refuse
  \/ Trade
  \/ Rest
  \/ \E id \in Ids : Cancel(id)

Spec == Init /\ [][Next]_vars
=============================================================================
