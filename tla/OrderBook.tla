------------------------------ MODULE OrderBook ------------------------------
(***************************************************************************)
(* The account wrapper of src/OrderBook.cpp around the matching engine:    *)
(* users with balances and locked funds, live orders, submission of limit, *)
(* immediate-or-cancel and market orders, settlement and cancellation.     *)
(*                                                                         *)
(* The wrapper is single-threaded, but a submission is long: it locks      *)
(* funds, runs the engine, settles the executions one by one and perhaps   *)
(* cancels the remainder, or undoes the lock when the engine refuses.      *)
(* Each of these is a step, so that an invariant can look between them.    *)
(* A call that fails its own checks changes no state kept here.            *)
(***************************************************************************)
EXTENDS Integers, FiniteSets, Sequences, FiniteSetsExt

CONSTANTS
  PriceMin, PriceMax, MaxOrders, QtyMod, WordBits,   \* parameters of the engine
  Names,                     \* names passed to makeUser
  Prices, Qtys, Ids,         \* arguments of submissions and cancellations
  QuoteDeltas, BaseDeltas,   \* arguments of addBalance
  SeedUsers, SeedOrders,     \* what the constructor creates
  QuoteCap, BaseCap,         \* bounds: all deposits together stay below
  IdCap                      \* bound: the last order id handed out

VARIABLES
  head, tail, levelQty, occ, best, next, prev, orderId, orderPrice, orderQty,
  orderSide, freeHead, nextFree, idToIdx, call, ok, executions,   \* the engine
  users,         \* [user id -> [name, quote, base, lockedQuote, lockedBase]]
  orders,        \* sequence of live orders, by order id
  nextOrderId,
  seeding,       \* the seed order that the constructor submits next
  op             \* the locals of the submission that runs

Engine == INSTANCE LimitOrderBook

engineVars == <<head, tail, levelQty, occ, best, next, prev, orderId, orderPrice, orderQty,
                orderSide, freeHead, nextFree, idToIdx, call, ok, executions>>
walletVars == <<users, orders, nextOrderId, seeding, op>>
vars == <<engineVars, walletVars>>

UserIds == DOMAIN users
Sides == Engine!Side
\* The class is instantiated with a non-empty price range; quantities have an
\* unsigned type, prices and sums of money a signed one.  The constructor numbers its
\* users from 0, with nothing locked, and submits orders of theirs.
ASSUME OrderBookAssumption ==
  /\ PriceMin \in Int /\ PriceMax \in Int /\ PriceMin < PriceMax
  /\ MaxOrders \in Nat \ {0} /\ QtyMod \in Nat \ {0} /\ WordBits \in Nat \ {0}
  /\ Prices \subseteq Int /\ Qtys \subseteq 0..QtyMod-1
  /\ QuoteDeltas \subseteq Int /\ BaseDeltas \subseteq 0..QtyMod-1
  /\ IsFiniteSet(DOMAIN SeedUsers) /\ DOMAIN SeedUsers = 0..Cardinality(DOMAIN SeedUsers)-1
  /\ SeedUsers \in [DOMAIN SeedUsers -> [name : {SeedUsers[u].name : u \in DOMAIN SeedUsers},
                                         quote : Int, base : 0..QtyMod-1,
                                         lockedQuote : {0}, lockedBase : {0}]]
  /\ SeedOrders \in Seq([user : DOMAIN SeedUsers, side : Sides, price : Int, qty : 0..QtyMod-1])

IsBid(side) == side = Engine!Buy
Idle == [phase |-> "idle"]
NewUser(name) == [name |-> name, quote |-> 0, base |-> 0, lockedQuote |-> 0, lockedBase |-> 0]
Total(field) == MapThenSumSet(LAMBDA u : users[u][field], UserIds)
CanCall == op = Idle /\ seeding > Len(SeedOrders)
------------------------------------------------------------------------------
Init ==
  /\ Engine!Init
  /\ users = SeedUsers
  /\ orders = <<>>
  /\ nextOrderId = 1
  /\ seeding = 1
  /\ op = Idle

\* makeUser: a known name gets its user back, a new name gets the next id.
MakeUser(name) ==
  /\ CanCall
  /\ LET n == Cardinality(UserIds)
     IN users' = IF \E u \in UserIds : users[u].name = name THEN users
                 ELSE [u \in 0..n |-> IF u = n THEN NewUser(name) ELSE users[u]]
  /\ UNCHANGED <<engineVars, orders, nextOrderId, seeding, op>>

\* addBalance: only the quote side checks a withdrawal, and against the whole
\* balance; the unsigned base balance wraps.
AddBalance(user, quoteDelta, baseDelta) ==
  /\ CanCall
  /\ user \in UserIds
  /\ quoteDelta < 0 => users[user].quote + quoteDelta >= 0
  /\ Total("quote") + quoteDelta <= QuoteCap /\ Total("base") + baseDelta <= BaseCap
  /\ users' = [users EXCEPT ![user].quote = @ + quoteDelta,
                            ![user].base = (@ + baseDelta) % QtyMod]
  /\ UNCHANGED <<engineVars, orders, nextOrderId, seeding, op>>

\* Seeded fault: funds locked by earlier orders are counted as available.
FreeQuote_WithLocked(u) == u.quote

FreeQuote(u) == u.quote - u.lockedQuote
FreeBase(u) == (u.base - u.lockedBase) % QtyMod

Funded(user, side, price, qty) ==
  /\ user \in UserIds
  /\ qty # 0
  /\ IF IsBid(side) THEN FreeQuote(users[user]) >= price * qty
                    ELSE FreeBase(users[user]) >= qty

LockQuote(side, price, qty) == IF IsBid(side) THEN price * qty ELSE 0
LockBase(side, qty) == IF IsBid(side) THEN 0 ELSE qty

\* Seeded fault: a release stops at zero.
Unlocked_AtLeastZero(locked, qty) == Max({0, locked - qty})

\* Locked base once qty of it is released.
Unlocked(locked, qty) == (locked - qty) % QtyMod

\* Seeded faults: the id counter is read but not advanced; it wraps while
\* orders of its first lap may still rest.
TakeId_Reused == UNCHANGED nextOrderId
TakeId_Wraps == nextOrderId' = 1 + (nextOrderId % 2)

TakeId == nextOrderId' = nextOrderId + 1

\* submit_bid and submit_ask up to the return of the engine's own checks.
Submit(user, side, price, qty, discard) ==
  LET id == nextOrderId
      order == [active |-> TRUE, user |-> user, side |-> side, limit |-> price,
                remaining |-> qty, lockedQuote |-> LockQuote(side, price, qty),
                lockedBase |-> LockBase(side, qty)]
  IN /\ Funded(user, side, price, qty)
     /\ id <= IdCap
     /\ TakeId
     /\ orders' = IF id > Len(orders) THEN Append(orders, order)
                  ELSE [orders EXCEPT ![id] = order]
     /\ users' = [users EXCEPT ![user].lockedQuote = @ + order.lockedQuote,
                               ![user].lockedBase = (@ + order.lockedBase) % QtyMod]
     /\ \/ /\ Engine!ProcessOrder(side, price, qty, id)
           /\ op' = [phase |-> "matching", id |-> id, discard |-> discard, next |-> 1]
        \/ /\ Engine!RefuseOrder(price, qty, id)
           /\ op' = [phase |-> "refused", id |-> id, discard |-> discard, next |-> 1]

\* add_bid, add_ask and their _ioc variants.
AddOrder(user, side, price, qty, discard) ==
  /\ CanCall
  /\ Submit(user, side, price, qty, discard)
  /\ UNCHANGED seeding

\* add_market_bid and add_market_ask: the worst price, and discard the rest.
AddMarketOrder(user, side, qty) ==
  /\ CanCall
  /\ Submit(user, side, IF IsBid(side) THEN PriceMax ELSE PriceMin, qty, TRUE)
  /\ UNCHANGED seeding

\* The constructor's own orders, before any caller can reach the object.
SeedOrder ==
  /\ op = Idle
  /\ seeding <= Len(SeedOrders)
  /\ LET o == SeedOrders[seeding]
     IN Submit(o.user, o.side, o.price, o.qty, FALSE)
  /\ seeding' = seeding + 1

\* The engine matches and rests; apply_executions does nothing for a taker
\* that is not active.
EngineStep ==
  /\ op.phase = "matching"
  /\ Engine!MatchStep \/ Engine!RestRemainder
  /\ op' = IF call'.running THEN op
           ELSE IF ~ok' THEN [op EXCEPT !.phase = "refused"]
           ELSE [op EXCEPT !.phase = "settling",
                           !.next = IF orders[op.id].active THEN 1 ELSE Len(executions') + 1]
  /\ UNCHANGED <<users, orders, nextOrderId, seeding>>

\* The engine returned false: the lock is undone, whatever the engine did.
Rollback ==
  /\ op.phase = "refused"
  /\ LET o == orders[op.id]
     IN /\ users' = [users EXCEPT ![o.user].lockedQuote = @ - o.lockedQuote,
                                  ![o.user].lockedBase = Unlocked(@, o.lockedBase)]
        /\ orders' = [orders EXCEPT ![op.id] = [o EXCEPT !.active = FALSE, !.remaining = 0,
                                                !.lockedQuote = 0, !.lockedBase = 0]]
  /\ op' = Idle
  /\ UNCHANGED <<engineVars, nextOrderId, seeding>>
------------------------------------------------------------------------------
\* Seeded fault: a bid's lock is released at the price of the trade.
ReleasePrice_Trade(o, price) == price

ReleasePrice(o, price) == o.limit

\* Seeded fault: an order filled to the end stays active.
StaysActive_Always(remaining) == TRUE

StaysActive(remaining) == remaining # 0

\* What a trade of qty at price leaves of a live order and its lock.
Filled(o, price, qty) ==
  LET remaining == (o.remaining - qty) % QtyMod
  IN [o EXCEPT !.remaining = remaining,
               !.lockedQuote = @ - LockQuote(o.side, ReleasePrice(o, price), qty),
               !.lockedBase = Unlocked(@, LockBase(o.side, qty)),
               !.active = StaysActive(remaining)]

\* Seeded fault: the seller keeps what it sold.
BaseMoved_SellerKeeps(side, qty) == IF IsBid(side) THEN qty ELSE 0

\* What a trade adds to the base and to the quote of the party on one side.
BaseMoved(side, qty) == IF IsBid(side) THEN qty ELSE -qty
QuoteMoved(side, notional) == IF IsBid(side) THEN -notional ELSE notional

\* "Refund BUY taker price improvement": a bid traded below its limit.
Refund(o, price, qty) == Max({0, LockQuote(o.side, o.limit, qty) - LockQuote(o.side, price, qty)})

\* The user of live order o after a trade: unlocked, settled, refunded.
AfterTrade(u, o, price, qty) ==
  [u EXCEPT !.lockedQuote = @ - LockQuote(o.side, o.limit, qty),
            !.lockedBase = Unlocked(@, LockBase(o.side, qty)),
            !.base = (@ + BaseMoved(o.side, qty)) % QtyMod,
            !.quote = @ + QuoteMoved(o.side, price * qty) + Refund(o, price, qty)]

\* One iteration of apply_executions; a maker that is not active is skipped.
\* Maker and taker may be orders of the same user.
Settle ==
  /\ op.phase = "settling"
  /\ op.next <= Len(executions)
  /\ LET e == executions[op.next]
         maker == orders[e.maker]
         taker == orders[op.id]
     IN IF maker.active
        THEN /\ orders' = [orders EXCEPT ![e.maker] = Filled(maker, e.price, e.qty),
                                         ![op.id] = Filled(taker, e.price, e.qty)]
             /\ users' = LET paid == [users EXCEPT ![maker.user] = AfterTrade(@, maker, e.price, e.qty)]
                         IN [paid EXCEPT ![taker.user] = AfterTrade(@, taker, e.price, e.qty)]
        ELSE UNCHANGED <<orders, users>>
  /\ op' = [op EXCEPT !.next = @ + 1]
  /\ UNCHANGED <<engineVars, nextOrderId, seeding>>

\* The wrapper's cancel, once it found an active order: what the engine
\* confirms is unlocked and forgotten.
CancelActive(id) ==
  /\ Engine!Cancel(id)
  /\ LET o == orders[id]
     IN IF ok'
        THEN /\ users' = [users EXCEPT ![o.user].lockedQuote = @ - o.lockedQuote,
                                       ![o.user].lockedBase = Unlocked(@, o.lockedBase)]
             /\ orders' = [orders EXCEPT ![id] = [o EXCEPT !.active = FALSE, !.remaining = 0,
                                                  !.lockedQuote = 0, !.lockedBase = 0]]
        ELSE UNCHANGED <<users, orders>>

\* Seeded fault: every discarded remainder is cancelled as a bid.
DiscardsRest_BidsOnly == op.discard /\ orders[op.id].active /\ IsBid(orders[op.id].side)

DiscardsRest == op.discard /\ orders[op.id].active

\* The end of a submission: IOC and market orders cancel what still rests.
Finish ==
  /\ op.phase = "settling"
  /\ op.next > Len(executions)
  /\ IF DiscardsRest THEN CancelActive(op.id)
     ELSE UNCHANGED <<engineVars, users, orders>>
  /\ op' = Idle
  /\ UNCHANGED <<nextOrderId, seeding>>

MayCancel(user, id, side) ==
  /\ user \in UserIds
  /\ id \in 1..Len(orders)
  /\ orders[id].active /\ orders[id].user = user /\ orders[id].side = side

\* cancelBid and cancelAsk.
CancelOrder(user, id, side) ==
  /\ CanCall
  /\ MayCancel(user, id, side)
  /\ CancelActive(id)
  /\ UNCHANGED <<nextOrderId, seeding, op>>

Next ==
  \/ \E name \in Names : MakeUser(name)
  \/ \E user \in UserIds, quote \in QuoteDeltas, base \in BaseDeltas :
       AddBalance(user, quote, base)
  \/ \E user \in UserIds, side \in Sides, price \in Prices, qty \in Qtys, discard \in BOOLEAN :
       AddOrder(user, side, price, qty, discard)
  \/ \E user \in UserIds, side \in Sides, qty \in Qtys : AddMarketOrder(user, side, qty)
  \/ SeedOrder
  \/ EngineStep
  \/ Rollback
  \/ Settle
  \/ Finish
  \/ \E user \in UserIds, id \in Ids, side \in Sides : CancelOrder(user, id, side)

Spec == Init /\ [][Next]_vars
------------------------------------------------------------------------------
(***************************************************************************)
(* Properties.                                                             *)
(***************************************************************************)
ActiveIds == {id \in 1..Len(orders) : orders[id].active}
OrdersOf(u) == {id \in ActiveIds : orders[id].user = u}

\* Balances are integers (a quote balance may go negative), base quantities
\* stay in their unsigned type, and ids are handed out densely.
TypeOK ==
  /\ Engine!TypeOK
  /\ \A u \in UserIds : /\ users[u].quote \in Int /\ users[u].lockedQuote \in Int
                        /\ users[u].base \in Engine!Qty /\ users[u].lockedBase \in Engine!Qty
  /\ \A id \in 1..Len(orders) :
       /\ orders[id].user \in UserIds
       /\ orders[id].remaining \in Engine!Qty /\ orders[id].lockedBase \in Engine!Qty
       /\ orders[id].lockedQuote \in Int
  /\ nextOrderId = Len(orders) + 1
  /\ op.phase \in {"idle", "matching", "refused", "settling"}

\* Each active order has locked what the rest of it needs at its limit.
ActiveLocked ==
  \A id \in ActiveIds :
    LET o == orders[id]
    IN /\ o.lockedQuote = LockQuote(o.side, o.limit, o.remaining)
       /\ o.lockedBase = LockBase(o.side, o.remaining)

\* What a user has locked is, at every step of a submission too, the sum of
\* what its active orders need at their limits: locking, rollback, fills and
\* cancels never leak a lock and never release one twice.
LocksAreSums ==
  /\ \A u \in UserIds :
       /\ users[u].lockedQuote = MapThenSumSet(LAMBDA id : orders[id].lockedQuote, OrdersOf(u))
       /\ users[u].lockedBase = MapThenSumSet(LAMBDA id : orders[id].lockedBase, OrdersOf(u))
  /\ ActiveLocked

\* The same where deposits may wrap: the locked base is then the sum modulo 2^w.
\* A balance that wraps below its lock, asks of more than there is and locks
\* that themselves pass 2^w leave no lock behind and take none away.
LocksAddUp ==
  /\ \A u \in UserIds :
       /\ users[u].lockedQuote = MapThenSumSet(LAMBDA id : orders[id].lockedQuote, OrdersOf(u))
       /\ users[u].lockedBase =
            MapThenSumSet(LAMBDA id : orders[id].lockedBase, OrdersOf(u)) % QtyMod
  /\ ActiveLocked

\* Between calls the wrapper's active orders are the engine's resting orders,
\* with the same side, limit and remaining quantity: so the engine never
\* refuses to cancel an order the wrapper believes in, and no order trades
\* that nobody's funds back.
EngineInSync ==
  op = Idle =>
    /\ ActiveIds = {id \in Engine!Node : idToIdx[id] # Engine!kNil}
    /\ \A id \in ActiveIds :
         LET i == idToIdx[id]
         IN /\ orderSide[i] = orders[id].side
            /\ orderPrice[i] = orders[id].limit
            /\ orderQty[i] = orders[id].remaining

\* The engine can trade and then fail for want of a node or because the id is
\* taken, and Rollback keeps no trade: such a failure would lose executions
\* that already left the engine's book.  Unique ids below MaxOrders rule it out.
RefusalTradesNothing == op.phase = "refused" => executions = <<>>

\* Only addBalance changes the amount of base in the system: settlement moves
\* it from the seller to the buyer, also when they are the same user.
TradesConserveBase ==
  [][op # Idle \/ op' # Idle => Total("base")' % QtyMod = Total("base") % QtyMod]_vars

\* A user whose balances cover its locks stays covered through its own and
\* everybody else's submissions, trades and cancels; only withdrawing quote
\* may end that.  (A negative price locks a negative sum until Rollback gives
\* it back: for a user who withdrew too much that looks like cover.)
Covered(u) == users[u].quote >= users[u].lockedQuote /\ users[u].base >= users[u].lockedBase
Withdraws(u) == op = Idle /\ op' = Idle /\ users'[u].quote < users[u].quote
LocksStayCovered ==
  [][\A u \in UserIds :
       Covered(u) /\ op.phase # "refused" => Covered(u)' \/ Withdraws(u)]_vars

\* When an IOC or market order returns, nothing of it rests: not in the engine
\* and not among the active orders.  With LocksAreSums, which sums over active
\* orders only, none of its funds stay locked either.
DiscardLeavesNothing ==
  [][op.phase = "settling" /\ op' = Idle /\ op.discard =>
       ~orders'[op.id].active /\ idToIdx'[op.id] = Engine!kNil]_vars

\* Settling a trade moves quote from the buyer to the seller and creates none.
TradesConserveQuote ==
  [][op.phase = "settling" => Total("quote")' = Total("quote")]_vars
=============================================================================
