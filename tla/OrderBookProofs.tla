--------------------------- MODULE OrderBookProofs ---------------------------
(***************************************************************************)
(* Proofs about OrderBook, for every price range, pool size, width of a    *)
(* quantity and set of users, whatever is submitted and cancelled: what    *)
(* the wrapper knows of its orders is what the engine holds of them.       *)
(***************************************************************************)
EXTENDS OrderBook, FiniteSetTheorems, SequenceTheorems, ArithmeticLemmas, TLAPS

\* The engine with every argument that its types allow, and what is proved of it.
E == INSTANCE LimitOrderBookProofs WITH Prices <- Int, Qtys <- 0..QtyMod-1, Ids <- Int

\* The engine that OrderBook calls is this one: the definitions are the same.
LEMMA SameEngine ==
  /\ Engine!Node = E!Node /\ Engine!Qty = E!Qty /\ Engine!Side = E!Side /\ Engine!kNil = E!kNil
  /\ Engine!Buy = E!Buy /\ Engine!Sell = E!Sell
  /\ UNCHANGED engineVars => UNCHANGED E!engineVars
  /\ Engine!Init => E!Init
  /\ \A side, price, qty, id : Engine!ProcessOrder(side, price, qty, id) =>
                                 E!ProcessOrder(side, price, qty, id)
  /\ \A price, qty, id : Engine!RefuseOrder(price, qty, id) => E!RefuseOrder(price, qty, id)
  /\ Engine!MatchStep => E!MatchStep
  /\ Engine!RestRemainder => E!RestRemainder
  /\ \A id : Engine!Cancel(id) => E!Cancel(id)
  /\ E!TypeOK => Engine!TypeOK
<1> USE DEF
      E!kNil, Engine!kNil, E!kNoSide, Engine!kNoSide, E!Buy, Engine!Buy, E!Sell, Engine!Sell,
      E!Side, Engine!Side, E!Opposite, Engine!Opposite, E!kLevels, Engine!kLevels, E!Level,
      Engine!Level, E!Bit, Engine!Bit, E!Word, Engine!Word, E!Node, Engine!Node, E!NodeOrNil,
      Engine!NodeOrNil, E!Qty, Engine!Qty, E!PriceToLevel, Engine!PriceToLevel,
      E!LevelToPrice, Engine!LevelToPrice, E!InRange, Engine!InRange, E!ValidId,
      Engine!ValidId, E!levelVars, Engine!levelVars, E!nodeVars, Engine!nodeVars, E!poolVars,
      Engine!poolVars, E!engineVars, Engine!engineVars, E!NoCall, Engine!NoCall, E!Return,
      Engine!Return, E!WordIndex, Engine!WordIndex, E!BitMask, Engine!BitMask, E!IsOccupied,
      Engine!IsOccupied, E!SetOccupied, Engine!SetOccupied, E!ClearOccupied,
      Engine!ClearOccupied, E!Foremost, Engine!Foremost, E!Scanned, Engine!Scanned,
      E!FindBest, Engine!FindBest, E!Better, Engine!Better, E!Crossing, Engine!Crossing,
      E!AllocFails, Engine!AllocFails, E!NextFree, Engine!NextFree, E!AllocOrder,
      Engine!AllocOrder, E!ChainedFree, Engine!ChainedFree, E!FreeOrder, Engine!FreeOrder,
      E!LinkNewOrder, Engine!LinkNewOrder, E!BestWithout, Engine!BestWithout, E!VacateLevel,
      Engine!VacateLevel, E!BackLinked, Engine!BackLinked, E!Splice, Engine!Splice,
      E!UnlinkOrder, Engine!UnlinkOrder, E!AllNil, Engine!AllNil, E!AllClear, Engine!AllClear,
      E!Init, Engine!Init, E!Acceptable, Engine!Acceptable, E!ProcessOrder,
      Engine!ProcessOrder, E!RefuseOrder, Engine!RefuseOrder, E!NextMaker, Engine!NextMaker,
      E!TradeWith, Engine!TradeWith, E!MatchStep, Engine!MatchStep, E!RestRemainder,
      Engine!RestRemainder, E!Cancel, Engine!Cancel, E!Bitset, Engine!Bitset, E!TypeOK,
      Engine!TypeOK, E!Max, Engine!Max, E!Min, Engine!Min
<1>1. /\ Engine!Node = E!Node /\ Engine!Qty = E!Qty /\ Engine!Side = E!Side /\ Engine!kNil = E!kNil
      /\ Engine!Buy = E!Buy /\ Engine!Sell = E!Sell
  BY ZenonT(120)
<1>2. UNCHANGED engineVars => UNCHANGED E!engineVars
  BY ZenonT(120) DEF engineVars
<1>3. Engine!Init => E!Init
  BY ZenonT(120)
<1>4. \A side, price, qty, id : Engine!ProcessOrder(side, price, qty, id) =>
                                  E!ProcessOrder(side, price, qty, id)
  BY ZenonT(120)
<1>5. \A price, qty, id : Engine!RefuseOrder(price, qty, id) => E!RefuseOrder(price, qty, id)
  BY ZenonT(120)
<1>6. Engine!MatchStep => E!MatchStep
  BY ZenonT(120)
<1>7. Engine!RestRemainder => E!RestRemainder
  BY ZenonT(120)
<1>8. ASSUME NEW id, Engine!Cancel(id) PROVE E!Cancel(id)
  BY <1>8, ZenonT(120)
<1>9. E!TypeOK => Engine!TypeOK
  BY ZenonT(120)
<1> HIDE DEF
      E!kNil, Engine!kNil, E!kNoSide, Engine!kNoSide, E!Buy, Engine!Buy, E!Sell, Engine!Sell,
      E!Side, Engine!Side, E!Opposite, Engine!Opposite, E!kLevels, Engine!kLevels, E!Level,
      Engine!Level, E!Bit, Engine!Bit, E!Word, Engine!Word, E!Node, Engine!Node, E!NodeOrNil,
      Engine!NodeOrNil, E!Qty, Engine!Qty, E!PriceToLevel, Engine!PriceToLevel,
      E!LevelToPrice, Engine!LevelToPrice, E!InRange, Engine!InRange, E!ValidId,
      Engine!ValidId, E!levelVars, Engine!levelVars, E!nodeVars, Engine!nodeVars, E!poolVars,
      Engine!poolVars, E!engineVars, Engine!engineVars, E!NoCall, Engine!NoCall, E!Return,
      Engine!Return, E!WordIndex, Engine!WordIndex, E!BitMask, Engine!BitMask, E!IsOccupied,
      Engine!IsOccupied, E!SetOccupied, Engine!SetOccupied, E!ClearOccupied,
      Engine!ClearOccupied, E!Foremost, Engine!Foremost, E!Scanned, Engine!Scanned,
      E!FindBest, Engine!FindBest, E!Better, Engine!Better, E!Crossing, Engine!Crossing,
      E!AllocFails, Engine!AllocFails, E!NextFree, Engine!NextFree, E!AllocOrder,
      Engine!AllocOrder, E!ChainedFree, Engine!ChainedFree, E!FreeOrder, Engine!FreeOrder,
      E!LinkNewOrder, Engine!LinkNewOrder, E!BestWithout, Engine!BestWithout, E!VacateLevel,
      Engine!VacateLevel, E!BackLinked, Engine!BackLinked, E!Splice, Engine!Splice,
      E!UnlinkOrder, Engine!UnlinkOrder, E!AllNil, Engine!AllNil, E!AllClear, Engine!AllClear,
      E!Init, Engine!Init, E!Acceptable, Engine!Acceptable, E!ProcessOrder,
      Engine!ProcessOrder, E!RefuseOrder, Engine!RefuseOrder, E!NextMaker, Engine!NextMaker,
      E!TradeWith, Engine!TradeWith, E!MatchStep, Engine!MatchStep, E!RestRemainder,
      Engine!RestRemainder, E!Cancel, Engine!Cancel, E!Bitset, Engine!Bitset, E!TypeOK,
      Engine!TypeOK, E!Max, Engine!Max, E!Min, Engine!Min
<1>10. QED BY <1>1, <1>2, <1>3, <1>4, <1>5, <1>6, <1>7, <1>8, <1>9
------------------------------------------------------------------------------
(***************************************************************************)
(* The engine underneath: whatever the wrapper does is a behaviour of the  *)
(* engine, so that everything proved of the engine holds here.             *)
(***************************************************************************)
\* A wrapper whose callers pass whatever the types allow; a name can be empty.
AnyName == Names \cup {""}
AnyStep ==
  \/ \E name \in AnyName : MakeUser(name)
  \/ \E user \in UserIds, quote \in Int, base \in 0..QtyMod-1 : AddBalance(user, quote, base)
  \/ \E user \in UserIds, side \in Sides, price \in Int, qty \in 0..QtyMod-1, discard \in BOOLEAN :
       AddOrder(user, side, price, qty, discard)
  \/ \E user \in UserIds, side \in Sides, qty \in 0..QtyMod-1 : AddMarketOrder(user, side, qty)
  \/ SeedOrder
  \/ EngineStep
  \/ Rollback
  \/ Settle
  \/ Finish
  \/ \E user \in UserIds, id \in 1..Len(orders), side \in Sides : CancelOrder(user, id, side)
AnySpec == Init /\ [][AnyStep]_vars

\* What is proved for every caller holds for those of OrderBook.
LEMMA NextIsAny == Next => AnyStep
<1> SUFFICES ASSUME Next PROVE AnyStep
  OBVIOUS
<1>1. CASE \E name \in Names : MakeUser(name)
  BY <1>1, Zenon DEF AnyStep, AnyName
<1>2. CASE \E user \in UserIds, quote \in QuoteDeltas, base \in BaseDeltas :
             AddBalance(user, quote, base)
  BY <1>2, OrderBookAssumption, Zenon DEF AnyStep
<1>3. CASE \E user \in UserIds, side \in Sides, price \in Prices, qty \in Qtys, discard \in BOOLEAN :
             AddOrder(user, side, price, qty, discard)
  BY <1>3, OrderBookAssumption, Zenon DEF AnyStep
<1>4. CASE \E user \in UserIds, side \in Sides, qty \in Qtys : AddMarketOrder(user, side, qty)
  BY <1>4, OrderBookAssumption, Zenon DEF AnyStep
<1>5. CASE \E user \in UserIds, id \in Ids, side \in Sides : CancelOrder(user, id, side)
  BY <1>5, Zenon DEF CancelOrder, MayCancel, AnyStep
<1>6. CASE SeedOrder \/ EngineStep \/ Rollback \/ Settle \/ Finish
  BY <1>6, Zenon DEF AnyStep
<1>7. QED BY <1>1, <1>2, <1>3, <1>4, <1>5, <1>6, Zenon DEF Next

LEMMA SpecIsAny == Spec => AnySpec
BY NextIsAny, PTL DEF Spec, AnySpec

\* The locals of a submission that runs.
Underway(o) ==
  /\ o = [phase |-> o.phase, id |-> o.id, discard |-> o.discard, next |-> o.next]
  /\ o.phase \in {"matching", "refused", "settling"}
  /\ o.id \in Nat \ {0} /\ o.discard \in BOOLEAN
OpTyped ==
  /\ seeding \in Nat \ {0} /\ nextOrderId \in Nat \ {0}
  /\ op = Idle \/ Underway(op)

LEMMA IdleFacts ==
  ASSUME OpTyped
  PROVE  (op = Idle <=> op.phase = "idle") /\ (op # Idle => Underway(op))
BY DEF OpTyped, Idle, Underway

LEMMA SeedTyped ==
  ASSUME OpTyped, seeding <= Len(SeedOrders)
  PROVE  LET o == SeedOrders[seeding]
         IN /\ o.user \in DOMAIN SeedUsers /\ o.side \in Sides /\ o.price \in Int
            /\ o.qty \in 0..QtyMod-1
<1>1. seeding \in 1..Len(SeedOrders)
  BY OrderBookAssumption DEF OpTyped
<1> DEFINE Seed == [user : DOMAIN SeedUsers, side : Sides, price : Int, qty : 0..QtyMod-1]
<1>2. SeedOrders \in Seq(Seed)
  BY OrderBookAssumption
<1> HIDE DEF Seed
<1>3. SeedOrders[seeding] \in Seed
  BY <1>1, <1>2
<1>4. QED BY <1>3 DEF Seed

LEMMA QtyModFacts == QtyMod \in Nat \ {0} /\ E!Qty = 0..QtyMod-1 /\ PriceMin \in Int /\ PriceMax \in Int
  BY OrderBookAssumption DEF E!Qty

\* The funds check lets no empty order through.
LEMMA SubmitTyped ==
  ASSUME OpTyped, NEW user, NEW side, NEW price, NEW qty, NEW discard \in BOOLEAN,
         Submit(user, side, price, qty, discard), seeding' \in Nat \ {0}
  PROVE  OpTyped'
<1>1. nextOrderId' = nextOrderId + 1
  BY DEF Submit, TakeId
<1>2. Underway(op')
  BY DEF Submit, OpTyped, Underway
<1>3. QED BY <1>1, <1>2 DEF OpTyped

\* AnyStep, action by action, for a step that is no submission.
LEMMA OpTypedAlways == AnySpec => []OpTyped
<1>1. Init => OpTyped
  BY DEF Init, OpTyped
<1>2. OpTyped /\ [AnyStep]_vars => OpTyped'
  <2> SUFFICES ASSUME OpTyped, [AnyStep]_vars PROVE OpTyped'
    OBVIOUS
  <2>1. ASSUME NEW name, MakeUser(name) PROVE OpTyped'
    BY <2>1 DEF MakeUser, OpTyped
  <2>2. ASSUME NEW user, NEW quote, NEW base, AddBalance(user, quote, base) PROVE OpTyped'
    BY <2>2 DEF AddBalance, OpTyped
  <2>3. ASSUME NEW user, NEW side, NEW price, NEW qty, NEW discard \in BOOLEAN,
               AddOrder(user, side, price, qty, discard)
        PROVE  OpTyped'
    BY <2>3, SubmitTyped DEF AddOrder, OpTyped
  <2>4. ASSUME NEW user, NEW side, NEW qty, AddMarketOrder(user, side, qty) PROVE OpTyped'
    BY <2>4, SubmitTyped DEF AddMarketOrder, OpTyped
  <2>5. CASE SeedOrder
    <3>1. seeding' \in Nat \ {0}
      BY <2>5 DEF SeedOrder, OpTyped
    <3>2. QED BY <2>5, <3>1, SubmitTyped DEF SeedOrder
  <2>6. CASE EngineStep
    <3>1. Underway(op)
      BY <2>6, IdleFacts DEF EngineStep
    <3>2. Underway(op')
      BY <2>6, <3>1 DEF EngineStep, Underway
    <3>3. QED BY <2>6, <3>2 DEF EngineStep, OpTyped
  <2>7. CASE Rollback
    BY <2>7 DEF Rollback, OpTyped
  <2>8. CASE Settle
    <3>1. Underway(op)
      BY <2>8, IdleFacts DEF Settle
    <3>2. Underway(op')
      BY <2>8, <3>1 DEF Settle, Underway
    <3>3. QED BY <2>8, <3>2 DEF Settle, OpTyped
  <2>9. CASE Finish
    BY <2>9 DEF Finish, OpTyped
  <2>10. ASSUME NEW user, NEW id, NEW side, CancelOrder(user, id, side) PROVE OpTyped'
    BY <2>10 DEF CancelOrder, OpTyped
  <2>11. CASE UNCHANGED vars
    BY <2>11 DEF vars, walletVars, OpTyped
  <2>12. QED BY <2>1, <2>2, <2>3, <2>4, <2>5, <2>6, <2>7, <2>8, <2>9, <2>10, <2>11 DEF AnyStep
<1>3. QED BY <1>1, <1>2, PTL DEF AnySpec

\* The prices that the market orders use are prices too.
LEMMA SubmitRuns ==
  ASSUME OpTyped, NEW user, NEW side \in Sides, NEW price \in Int, NEW qty \in 0..QtyMod-1,
         NEW discard, Submit(user, side, price, qty, discard)
  PROVE  E!Next
<1>1. nextOrderId \in Int /\ side \in E!Side
  BY SameEngine DEF OpTyped, Sides
<1>2. E!ProcessOrder(side, price, qty, nextOrderId) \/ E!RefuseOrder(price, qty, nextOrderId)
  BY SameEngine DEF Submit
<1>3. QED BY <1>1, <1>2 DEF E!Next

LEMMA CancelRuns == ASSUME NEW id \in Int, CancelActive(id) PROVE E!Next
BY SameEngine DEF CancelActive, E!Next

LEMMA EngineRuns == AnySpec => E!Spec
<1>1. Init => E!Init
  BY SameEngine DEF Init
<1>2. OpTyped /\ [AnyStep]_vars => [E!Next]_(E!engineVars)
  <2> SUFFICES ASSUME OpTyped, [AnyStep]_vars PROVE E!Next \/ UNCHANGED E!engineVars
    OBVIOUS
  <2>1. ASSUME NEW name, MakeUser(name) PROVE UNCHANGED E!engineVars
    BY <2>1, SameEngine DEF MakeUser
  <2>2. ASSUME NEW user, NEW quote, NEW base, AddBalance(user, quote, base)
        PROVE  UNCHANGED E!engineVars
    BY <2>2, SameEngine DEF AddBalance
  <2>3. ASSUME NEW user, NEW side \in Sides, NEW price \in Int, NEW qty \in 0..QtyMod-1, NEW discard,
               AddOrder(user, side, price, qty, discard)
        PROVE  E!Next
    <3>1. price \in Int /\ qty \in 0..QtyMod-1
      BY OrderBookAssumption
    <3>2. QED BY <2>3, <3>1, SubmitRuns DEF AddOrder
  <2>4. ASSUME NEW user, NEW side \in Sides, NEW qty \in 0..QtyMod-1, AddMarketOrder(user, side, qty)
        PROVE  E!Next
    <3>1. /\ (IF IsBid(side) THEN PriceMax ELSE PriceMin) \in Int
          /\ qty \in 0..QtyMod-1
      BY OrderBookAssumption
    <3>2. QED BY <2>4, <3>1, SubmitRuns DEF AddMarketOrder
  <2>5. CASE SeedOrder
    BY <2>5, SeedTyped, SubmitRuns DEF SeedOrder
  <2>6. CASE EngineStep
    BY <2>6, SameEngine DEF EngineStep, E!Next
  <2>7. CASE Rollback
    BY <2>7, SameEngine DEF Rollback
  <2>8. CASE Settle
    BY <2>8, SameEngine DEF Settle
  <2>9. CASE Finish
    <3>1. op.id \in Int
      BY <2>9, IdleFacts DEF Finish, Underway
    <3>2. QED BY <2>9, <3>1, CancelRuns, SameEngine DEF Finish
  <2>10. ASSUME NEW user, NEW id, NEW side, CancelOrder(user, id, side) PROVE E!Next
    <3>1. id \in Int
      BY <2>10 DEF CancelOrder, MayCancel
    <3>2. QED BY <2>10, <3>1, CancelRuns DEF CancelOrder
  <2>11. CASE UNCHANGED vars
    BY <2>11, SameEngine DEF vars
  <2>12. QED BY <2>1, <2>2, <2>3, <2>4, <2>5, <2>6, <2>7, <2>8, <2>9, <2>10, <2>11 DEF AnyStep
<1>3. QED BY <1>1, <1>2, OpTypedAlways, PTL DEF AnySpec, E!Spec

\* What is proved of the engine, for the engine underneath.
EngineOk == E!EngineInv /\ E!IdleCall

LEMMA EngineAssumed == E!EngineAssumption
BY OrderBookAssumption DEF E!EngineAssumption

LEMMA EngineAlwaysOk == AnySpec => []EngineOk
<1>1. E!EngineAssumption
  BY EngineAssumed
<1>2. E!Spec => []E!EngineInv
  BY <1>1, E!EngineAlways
<1>3. E!Spec => []E!IdleCall
  BY <1>1, E!IdleAlways
<1>4. QED BY <1>2, <1>3, EngineRuns, PTL DEF EngineOk

------------------------------------------------------------------------------
(***************************************************************************)
(* The tables: users are numbered from 0, orders from 1, without a gap,    *)
(* and every field has its type.                                           *)
(***************************************************************************)
UserNames == AnyName \cup {SeedUsers[u].name : u \in DOMAIN SeedUsers}
User == [name : UserNames, quote : Int, base : E!Qty, lockedQuote : Int, lockedBase : E!Qty]
Order == [active : BOOLEAN, user : Nat, side : Sides, limit : Int, remaining : E!Qty,
          lockedQuote : Int, lockedBase : E!Qty]
Execution == [maker : E!Node, price : Int, qty : E!Qty]

UsersTyped ==
  /\ IsFiniteSet(UserIds) /\ UserIds = 0..Cardinality(UserIds)-1
  /\ users \in [UserIds -> User]
OrdersTyped ==
  /\ orders \in Seq(Order) /\ nextOrderId = Len(orders) + 1
  /\ \A id \in 1..Len(orders) : orders[id].user \in UserIds
  /\ op # Idle => op.id = Len(orders) /\ op.id \in 1..Len(orders)
ExecutionsTyped ==
  /\ executions \in Seq(Execution)
  /\ op # Idle => op.next \in Nat \ {0}
Tables == UsersTyped /\ OrdersTyped /\ ExecutionsTyped

LEMMA UserFields ==
  ASSUME NEW r \in User, NEW q \in Int, NEW x \in E!Qty, NEW p \in Int, NEW y \in E!Qty
  PROVE  [r EXCEPT !.quote = q, !.base = x, !.lockedQuote = p, !.lockedBase = y] \in User
BY DEF User

LEMMA UsersKeep ==
  ASSUME UsersTyped, users' \in [UserIds -> User]
  PROVE  UsersTyped' /\ UserIds' = UserIds
<1>1. UserIds' = UserIds
  BY DEF UserIds
<1>2. QED BY <1>1 DEF UsersTyped

LEMMA Wrapped == ASSUME NEW a \in Int PROVE a % QtyMod \in E!Qty /\ a % QtyMod \in Int
BY QtyModFacts, ModRange

LEMMA LockTypes ==
  ASSUME NEW side, NEW price \in Int, NEW qty \in Int
  PROVE  LockQuote(side, price, qty) \in Int /\ LockBase(side, qty) \in Int
         /\ BaseMoved(side, qty) \in Int
BY DEF LockQuote, LockBase, BaseMoved

LEMMA MaxTwo ==
  ASSUME NEW a \in Int, NEW b \in Int
  PROVE  Max({a, b}) = IF a >= b THEN a ELSE b
<1>1. \E x \in {a, b} : \A y \in {a, b} : x >= y
  OBVIOUS
<1>2. Max({a, b}) \in {a, b} /\ \A y \in {a, b} : Max({a, b}) >= y
  BY <1>1 DEF Max
<1>3. QED BY <1>2

LEMMA RefundType ==
  ASSUME NEW o \in Order, NEW price \in Int, NEW qty \in Int
  PROVE  Refund(o, price, qty) \in Int
<1>1. LockQuote(o.side, o.limit, qty) \in Int /\ LockQuote(o.side, price, qty) \in Int
  BY LockTypes DEF Order
<1>2. QED BY <1>1, MaxTwo DEF Refund

LEMMA AfterTradeTyped ==
  ASSUME NEW u \in User, NEW o \in Order, NEW price \in Int, NEW qty \in Int
  PROVE  AfterTrade(u, o, price, qty) \in User
<1>1. LockQuote(o.side, o.limit, qty) \in Int /\ LockBase(o.side, qty) \in Int
      /\ BaseMoved(o.side, qty) \in Int /\ Refund(o, price, qty) \in Int
  BY LockTypes, RefundType DEF Order
<1>2. QuoteMoved(o.side, price * qty) \in Int
  BY DEF QuoteMoved
<1>3. u.quote \in Int /\ u.lockedQuote \in Int /\ u.base \in Int /\ u.lockedBase \in Int
  BY QtyModFacts DEF User
<1>4. PICK q, x, p, y :
        /\ q = u.quote + QuoteMoved(o.side, price * qty) + Refund(o, price, qty)
        /\ x = (u.base + BaseMoved(o.side, qty)) % QtyMod
        /\ p = u.lockedQuote - LockQuote(o.side, o.limit, qty)
        /\ y = (u.lockedBase - LockBase(o.side, qty)) % QtyMod
  OBVIOUS
<1>5. q \in Int /\ p \in Int
  BY <1>1, <1>2, <1>3, <1>4
<1>6. x \in E!Qty /\ y \in E!Qty
  BY <1>1, <1>3, <1>4, Wrapped
<1>7. AfterTrade(u, o, price, qty) = [u EXCEPT !.quote = q, !.base = x, !.lockedQuote = p, !.lockedBase = y]
  BY <1>4 DEF AfterTrade, User, Unlocked
<1>8. [u EXCEPT !.quote = q, !.base = x, !.lockedQuote = p, !.lockedBase = y] \in User
  BY <1>5, <1>6, UserFields
<1>9. QED BY <1>7, <1>8

LEMMA OrderFields ==
  ASSUME NEW o \in Order, NEW a \in BOOLEAN, NEW r \in E!Qty, NEW p \in Int, NEW y \in E!Qty
  PROVE  [o EXCEPT !.active = a, !.remaining = r, !.lockedQuote = p, !.lockedBase = y] \in Order
BY DEF Order

LEMMA FilledTyped ==
  ASSUME NEW o \in Order, NEW price \in Int, NEW qty \in Int
  PROVE  LET f == Filled(o, price, qty)
         IN f \in Order /\ f.user = o.user /\ f.side = o.side /\ f.limit = o.limit
<1>1. LockQuote(o.side, o.limit, qty) \in Int /\ LockBase(o.side, qty) \in Int
  BY LockTypes DEF Order
<1>2. o.remaining \in Int /\ o.lockedQuote \in Int /\ o.lockedBase \in Int
  BY QtyModFacts DEF Order
<1>3. PICK r, p, y : /\ r = (o.remaining - qty) % QtyMod
                     /\ p = o.lockedQuote - LockQuote(o.side, o.limit, qty)
                     /\ y = (o.lockedBase - LockBase(o.side, qty)) % QtyMod
  OBVIOUS
<1>4. p \in Int /\ r \in E!Qty /\ y \in E!Qty /\ (r # 0) \in BOOLEAN
  BY <1>1, <1>2, <1>3, Wrapped
<1>5. Filled(o, price, qty) =
        [o EXCEPT !.active = (r # 0), !.remaining = r, !.lockedQuote = p, !.lockedBase = y]
  BY <1>3 DEF Filled, ReleasePrice, StaysActive, Order, Unlocked
<1>6. [o EXCEPT !.active = (r # 0), !.remaining = r, !.lockedQuote = p, !.lockedBase = y] \in Order
  BY <1>4, OrderFields
<1>7. QED BY <1>5, <1>6 DEF Order

\* What an order is when it is no longer live.
Forgotten(o) == [o EXCEPT !.active = FALSE, !.remaining = 0, !.lockedQuote = 0, !.lockedBase = 0]

LEMMA ForgottenTyped ==
  ASSUME NEW o \in Order
  PROVE  LET f == Forgotten(o)
         IN f \in Order /\ f.user = o.user /\ f.side = o.side /\ f.limit = o.limit
<1>1. 0 \in E!Qty /\ 0 \in Int /\ FALSE \in BOOLEAN
  BY QtyModFacts
<1>2. Forgotten(o) \in Order
  BY <1>1, OrderFields, Zenon DEF Forgotten
<1>3. QED BY <1>2 DEF Forgotten, Order
------------------------------------------------------------------------------
(***************************************************************************)
(* The steps of the wrapper, as changes of the two tables.                 *)
(***************************************************************************)
\* A user's locks grow or shrink by what order o locks.
Locks(u, o) == [u EXCEPT !.lockedQuote = @ + o.lockedQuote,
                         !.lockedBase = (@ + o.lockedBase) % QtyMod]
Unlocks(u, o) == [u EXCEPT !.lockedQuote = @ - o.lockedQuote,
                           !.lockedBase = (@ - o.lockedBase) % QtyMod]

\* Order id is forgotten and its lock undone.
Releases(id) ==
  /\ users' = [users EXCEPT ![orders[id].user] = Unlocks(@, orders[id])]
  /\ orders' = [orders EXCEPT ![id] = Forgotten(@)]

\* The order that a submission creates.
NewOrder(user, side, price, qty) ==
  [active |-> TRUE, user |-> user, side |-> side, limit |-> price, remaining |-> qty,
   lockedQuote |-> LockQuote(side, price, qty), lockedBase |-> LockBase(side, qty)]

\* Execution k is settled, between its maker and the taker.
Settles(k) ==
  LET e == executions[k]
      maker == orders[e.maker]
      taker == orders[op.id]
  IN /\ orders' = [orders EXCEPT ![e.maker] = Filled(maker, e.price, e.qty),
                                 ![op.id] = Filled(taker, e.price, e.qty)]
     /\ users' = LET paid == [users EXCEPT ![maker.user] = AfterTrade(@, maker, e.price, e.qty)]
                 IN [paid EXCEPT ![taker.user] = AfterTrade(@, taker, e.price, e.qty)]

\* The orders stay where they are; what may change is how much of them is left.
Alike(x, y) == x.user = y.user /\ x.side = y.side /\ x.limit = y.limit
OrdersKept ==
  /\ orders' \in Seq(Order) /\ Len(orders') = Len(orders)
  /\ \A id \in 1..Len(orders) : Alike(orders'[id], orders[id])

LEMMA SubmitChanges ==
  ASSUME Tables, op = Idle, NEW user, NEW side \in Sides, NEW price \in Int, NEW qty \in 0..QtyMod-1,
         NEW discard \in BOOLEAN, Submit(user, side, price, qty, discard)
  PROVE  LET o == NewOrder(user, side, price, qty)
         IN /\ o \in Order /\ user \in UserIds /\ qty # 0
            /\ orders' = Append(orders, o)
            /\ users' = [users EXCEPT ![user] = Locks(@, o)]
            /\ nextOrderId' = nextOrderId + 1 /\ executions' = <<>>
            /\ op'.id = nextOrderId /\ op'.next = 1
            /\ op' # Idle /\ op'.discard = discard
            /\ \/ /\ op'.phase = "matching"
                  /\ E!ProcessOrder(side, price, qty, nextOrderId)
               \/ /\ op'.phase = "refused"
                  /\ E!RefuseOrder(price, qty, nextOrderId)
<1> DEFINE o == NewOrder(user, side, price, qty)
<1>1. user \in UserIds /\ qty # 0
  BY DEF Submit, Funded
<1>2. o \in Order
  <2>1. user \in Nat
    BY <1>1, FS_CardinalityType DEF Tables, UsersTyped
  <2>2. qty \in E!Qty /\ qty \in Int /\ 0 \in E!Qty
    BY QtyModFacts
  <2>3. LockQuote(side, price, qty) \in Int /\ LockBase(side, qty) \in E!Qty
    BY <2>2, LockTypes DEF LockBase
  <2>4. QED BY <2>1, <2>2, <2>3 DEF NewOrder, Order
<1>3. orders' = Append(orders, o)
  BY DEF Submit, NewOrder, Tables, OrdersTyped
<1>4. users' = [users EXCEPT ![user] = Locks(@, o)]
  BY <1>1 DEF Submit, NewOrder, Locks, Tables, UsersTyped, UserIds
<1>5. nextOrderId' = nextOrderId + 1
  BY DEF Submit, TakeId
<1>6. executions' = <<>>
  BY DEF Submit, Engine!ProcessOrder, Engine!RefuseOrder
<1>7. /\ op'.id = nextOrderId /\ op'.next = 1
      /\ op' # Idle /\ op'.discard = discard
      /\ \/ /\ op'.phase = "matching"
            /\ E!ProcessOrder(side, price, qty, nextOrderId)
         \/ /\ op'.phase = "refused"
            /\ E!RefuseOrder(price, qty, nextOrderId)
  BY SameEngine DEF Submit, Idle
<1>8. QED BY <1>1, <1>2, <1>3, <1>4, <1>5, <1>6, <1>7

LEMMA RollbackChanges ==
  ASSUME Tables, Rollback
  PROVE  /\ op.phase = "refused" /\ op # Idle /\ Releases(op.id) /\ op' = Idle
         /\ UNCHANGED <<nextOrderId, seeding>> /\ UNCHANGED E!engineVars
<1>1. op # Idle
  <2>1. op.phase = "refused"
    BY Zenon DEF Rollback
  <2>2. QED BY <2>1 DEF Idle
<1>2. Releases(op.id)
  BY <1>1 DEF Rollback, Releases, Unlocks, Forgotten, Tables, UsersTyped, OrdersTyped, UserIds, Unlocked
<1>3. QED BY <1>1, <1>2, SameEngine DEF Rollback

LEMMA CancelChanges ==
  ASSUME Tables, NEW id \in 1..Len(orders), CancelActive(id)
  PROVE  /\ E!Cancel(id)
         /\ IF ok' THEN Releases(id) ELSE UNCHANGED <<users, orders>>
<1>1. CASE ok'
  BY <1>1, SameEngine DEF CancelActive, Releases, Unlocks, Forgotten, Tables, UsersTyped,
                          OrdersTyped, UserIds, Unlocked
<1>2. CASE ~ok'
  BY <1>2, SameEngine DEF CancelActive
<1>3. QED BY <1>1, <1>2

LEMMA LockFields ==
  ASSUME NEW u \in User, NEW p \in Int, NEW y \in E!Qty
  PROVE  [u EXCEPT !.lockedQuote = p, !.lockedBase = y] \in User
BY DEF User

LEMMA UnlocksTyped ==
  ASSUME NEW u \in User, NEW o \in Order
  PROVE  Locks(u, o) \in User /\ Unlocks(u, o) \in User
<1>1. /\ u.lockedQuote \in Int /\ u.lockedBase \in Int /\ o.lockedQuote \in Int /\ o.lockedBase \in Int
      /\ u.quote \in Int /\ u.base \in E!Qty
  BY QtyModFacts DEF User, Order
<1>2. PICK x, y : /\ x = (u.lockedBase + o.lockedBase) % QtyMod
                  /\ y = (u.lockedBase - o.lockedBase) % QtyMod
  OBVIOUS
<1>3. x \in E!Qty /\ y \in E!Qty
  BY <1>1, <1>2, Wrapped
<1>4. u.lockedQuote + o.lockedQuote \in Int /\ u.lockedQuote - o.lockedQuote \in Int
  BY <1>1
<1>5. /\ [u EXCEPT !.lockedQuote = @ + o.lockedQuote, !.lockedBase = x] \in User
      /\ [u EXCEPT !.lockedQuote = @ - o.lockedQuote, !.lockedBase = y] \in User
  BY <1>3, <1>4, LockFields, Zenon
<1>6. QED BY <1>2, <1>5 DEF Locks, Unlocks

LEMMA SubmitTables ==
  ASSUME Tables, op = Idle, NEW user, NEW side \in Sides, NEW price \in Int, NEW qty \in 0..QtyMod-1,
         NEW discard \in BOOLEAN, Submit(user, side, price, qty, discard)
  PROVE  Tables'
<1> DEFINE o == NewOrder(user, side, price, qty)
<1>1. /\ o \in Order /\ user \in UserIds /\ o.user = user
      /\ orders' = Append(orders, o)
      /\ users' = [users EXCEPT ![user] = Locks(@, o)]
      /\ nextOrderId' = nextOrderId + 1 /\ executions' = <<>>
      /\ op'.id = nextOrderId /\ op'.next = 1
  BY SubmitChanges DEF NewOrder
<1> HIDE DEF o
<1>2. UsersTyped' /\ UserIds' = UserIds
  <2>1. Locks(users[user], o) \in User
    BY <1>1, UnlocksTyped DEF Tables, UsersTyped
  <2>2. users' \in [UserIds -> User]
    BY <1>1, <2>1 DEF Tables, UsersTyped
  <2>3. QED BY <2>2, UsersKeep DEF Tables
<1>3. OrdersTyped'
  BY <1>1, <1>2, AppendProperties DEF Tables, OrdersTyped
<1>4. ExecutionsTyped'
  BY <1>1, EmptySeq DEF ExecutionsTyped
<1>5. QED BY <1>2, <1>3, <1>4 DEF Tables

LEMMA ReleasesTables ==
  ASSUME Tables, NEW id \in 1..Len(orders), Releases(id)
  PROVE  UsersTyped' /\ UserIds' = UserIds /\ OrdersKept
<1> DEFINE o == orders[id]
<1>1. o \in Order /\ o.user \in UserIds
  BY DEF Tables, OrdersTyped
<1>2. users' = [users EXCEPT ![o.user] = Unlocks(@, o)] /\ orders' = [orders EXCEPT ![id] = Forgotten(@)]
  BY DEF Releases
<1>3. /\ Forgotten(o) \in Order /\ Forgotten(o).user = o.user
      /\ Forgotten(o).side = o.side /\ Forgotten(o).limit = o.limit
  BY <1>1, ForgottenTyped
<1>4. OrdersKept
  BY <1>2, <1>3 DEF Tables, OrdersTyped, OrdersKept, Alike
<1> HIDE DEF o
<1>5. Unlocks(users[o.user], o) \in User
  BY <1>1, UnlocksTyped DEF Tables, UsersTyped
<1>6. users' \in [UserIds -> User]
  BY <1>1, <1>2, <1>5 DEF Tables, UsersTyped
<1>7. QED BY <1>4, <1>6, UsersKeep DEF Tables

LEMMA SettlesTables ==
  ASSUME Tables, NEW k \in 1..Len(executions), Settles(k), op # Idle,
         executions[k].maker \in 1..Len(orders)
  PROVE  UsersTyped' /\ UserIds' = UserIds /\ OrdersKept
<1> DEFINE e == executions[k]
           m == orders[e.maker]
           t == orders[op.id]
<1>1. e.price \in Int /\ e.qty \in Int
  <2>1. executions[k] \in Execution
    BY DEF Tables, ExecutionsTyped
  <2>2. QED BY <2>1, QtyModFacts DEF Execution
<1>2. /\ m \in Order /\ m.user \in UserIds /\ t \in Order /\ t.user \in UserIds
      /\ op.id \in 1..Len(orders)
  BY DEF Tables, OrdersTyped
<1> DEFINE paid == [users EXCEPT ![m.user] = AfterTrade(@, m, e.price, e.qty)]
           half == [orders EXCEPT ![e.maker] = Filled(m, e.price, e.qty)]
<1>3. /\ orders' = [half EXCEPT ![op.id] = Filled(t, e.price, e.qty)]
      /\ users' = [paid EXCEPT ![t.user] = AfterTrade(@, t, e.price, e.qty)]
  BY DEF Settles
<1>4. /\ Filled(m, e.price, e.qty) \in Order /\ Alike(Filled(m, e.price, e.qty), m)
      /\ Filled(t, e.price, e.qty) \in Order /\ Alike(Filled(t, e.price, e.qty), t)
  <2>1. Filled(m, e.price, e.qty) \in Order /\ Alike(Filled(m, e.price, e.qty), m)
    BY <1>1, <1>2, FilledTyped DEF Alike
  <2>2. Filled(t, e.price, e.qty) \in Order /\ Alike(Filled(t, e.price, e.qty), t)
    BY <1>1, <1>2, FilledTyped DEF Alike
  <2>3. QED BY <2>1, <2>2
<1>5. OrdersKept
  <2>1. /\ half \in Seq(Order) /\ Len(half) = Len(orders)
        /\ \A j \in 1..Len(orders) : j # e.maker => half[j] = orders[j]
        /\ Alike(half[e.maker], m)
    BY <1>4 DEF Tables, OrdersTyped
  <2> HIDE DEF half
  <2>2. /\ orders' \in Seq(Order) /\ Len(orders') = Len(orders)
        /\ \A j \in 1..Len(orders) : j # op.id => orders'[j] = half[j]
        /\ Alike(orders'[op.id], t)
    <3>1. PICK i, f : i = op.id /\ f = Filled(t, e.price, e.qty)
      OBVIOUS
    <3>2. /\ orders' = [half EXCEPT ![i] = f] /\ f \in Order /\ i \in 1..Len(half)
          /\ half \in Seq(Order) /\ Len(half) = Len(orders)
      BY <1>2, <1>3, <1>4, <2>1, <3>1
    <3>3. /\ orders' \in Seq(Order) /\ Len(orders') = Len(orders) /\ orders'[i] = f
          /\ \A j \in 1..Len(orders) : j # i => orders'[j] = half[j]
      BY <3>2
    <3>4. QED BY <1>4, <3>1, <3>3
  <2>3. ASSUME NEW j \in 1..Len(orders) PROVE Alike(orders'[j], orders[j])
    <3>1. CASE j = op.id
      BY <2>2, <3>1 DEF Alike
    <3>2. CASE j # op.id /\ j = e.maker
      BY <2>1, <2>2, <3>2 DEF Alike
    <3>3. CASE j # op.id /\ j # e.maker
      BY <2>1, <2>2, <3>3 DEF Alike
    <3>4. QED BY <3>1, <3>2, <3>3
  <2>4. QED BY <2>2, <2>3 DEF OrdersKept
<1>6. users' \in [UserIds -> User]
  <2>1. AfterTrade(users[m.user], m, e.price, e.qty) \in User
    BY <1>1, <1>2, AfterTradeTyped DEF Tables, UsersTyped
  <2>2. paid \in [UserIds -> User]
    BY <2>1 DEF Tables, UsersTyped
  <2> HIDE DEF paid
  <2>3. AfterTrade(paid[t.user], t, e.price, e.qty) \in User
    BY <1>1, <1>2, <2>2, AfterTradeTyped
  <2>4. QED BY <1>3, <2>2, <2>3
<1>7. QED BY <1>5, <1>6, UsersKeep DEF Tables

\* What one iteration of the engine is for its taker and its makers: nothing,
\* a trade, or the end of the submission with its rest on the book.
LEMMA EngineStepChanges ==
  ASSUME OpTyped, EngineOk, Tables, EngineStep
  PROVE  /\ op.phase = "matching" /\ op # Idle /\ op' # Idle
         /\ op'.id = op.id /\ op'.discard = op.discard
         /\ UNCHANGED <<users, orders, nextOrderId, seeding>>
         /\ E!MatchStep \/ E!RestRemainder
         /\ executions' \in Seq(Execution)
         /\ IF call'.running THEN op' = op
            ELSE IF ~ok' THEN op'.phase = "refused" /\ op'.next = op.next
            ELSE /\ op'.phase = "settling"
                 /\ op'.next = IF orders[op.id].active THEN 1 ELSE Len(executions') + 1
<1>1. /\ op.phase = "matching" /\ UNCHANGED <<users, orders, nextOrderId, seeding>>
      /\ E!MatchStep \/ E!RestRemainder
  BY SameEngine DEF EngineStep
<1>2. Underway(op) /\ op # Idle
  BY <1>1, IdleFacts
<1>3. /\ op' # Idle /\ op'.id = op.id /\ op'.discard = op.discard
      /\ IF call'.running THEN op' = op
         ELSE IF ~ok' THEN op'.phase = "refused" /\ op'.next = op.next
         ELSE /\ op'.phase = "settling"
              /\ op'.next = IF orders[op.id].active THEN 1 ELSE Len(executions') + 1
  BY <1>2 DEF EngineStep, Underway, Idle
<1>4. executions' \in Seq(Execution)
  <2>1. executions \in Seq(Execution)
    BY DEF Tables, ExecutionsTyped
  <2>2. E!TypeOK /\ E!ListInv /\ E!QtyInv
    BY DEF EngineOk, E!EngineInv
  <2>3. CASE E!MatchStep
    <3>1. \/ executions' = executions
          \/ \E id \in E!Resting, qty \in Nat \ {0} : E!Trades(id, qty)
      BY <2>2, <2>3, EngineAssumed, E!MatchStepLedger
    <3>2. ASSUME NEW id \in E!Resting, NEW qty \in Nat \ {0}, E!Trades(id, qty)
          PROVE  executions' \in Seq(Execution)
      <4>1. id \in E!Node /\ E!PriceAt(id) \in Int /\ E!Left(id) \in E!Qty
        BY <2>2, EngineAssumed, E!LedgerFacts
      <4>2. qty \in E!Qty
        BY <3>2, <4>1, QtyModFacts DEF E!Trades
      <4>3. executions' = Append(executions, [maker |-> id, price |-> E!PriceAt(id), qty |-> qty])
        BY <3>2 DEF E!Trades
      <4>4. [maker |-> id, price |-> E!PriceAt(id), qty |-> qty] \in Execution
        BY <4>1, <4>2 DEF Execution
      <4>5. QED BY <2>1, <4>3, <4>4, AppendProperties
    <3>3. QED BY <2>1, <3>1, <3>2
  <2>4. CASE E!RestRemainder
    BY <2>1, <2>4 DEF E!RestRemainder
  <2>5. QED BY <1>1, <2>3, <2>4
<1>5. QED BY <1>1, <1>2, <1>3, <1>4

------------------------------------------------------------------------------
(***************************************************************************)
(* What the wrapper knows of the engine while a submission runs.           *)
(***************************************************************************)
\* The engine's ledger, at every step.
LedgerOk ==
  /\ E!Resting \subseteq E!Node
  /\ \A id : (id \in E!Resting <=> E!Left(id) # 0) /\ E!Left(id) \in E!Qty /\ E!Left(id) \in Int
  /\ \A id \in E!Resting : E!SideAt(id) \in E!Side /\ E!PriceAt(id) \in Int

LEMMA Ledger == EngineOk => LedgerOk
<1> SUFFICES ASSUME EngineOk PROVE LedgerOk
  OBVIOUS
<1>1. /\ E!Resting \subseteq E!Node
      /\ \A id : id \in E!Resting <=> E!Left(id) # 0
      /\ \A id : E!Left(id) \in E!Qty
      /\ \A id \in E!Resting : E!SideAt(id) \in E!Side /\ E!PriceAt(id) \in Int
  BY EngineAssumed, E!LedgerFacts DEF EngineOk, E!EngineInv
<1>2. E!Qty \subseteq Int
  BY QtyModFacts
<1>3. QED BY <1>1, <1>2 DEF LedgerOk

LEMMA UndisturbedFacts ==
  ASSUME EngineOk, EngineOk', NEW id, E!Undisturbed(id)
  PROVE  /\ E!Left(id)' = E!Left(id) /\ (id \in E!Resting' <=> id \in E!Resting)
         /\ id \in E!Resting => /\ E!SideAt(id)' = E!SideAt(id)
                                /\ E!PriceAt(id)' = E!PriceAt(id)
<1>1. LedgerOk /\ LedgerOk'
  BY Ledger, PTL
<1>2. E!Left(id)' = E!Left(id) /\ (id \in E!Resting => E!Placed(id))
  BY DEF E!Undisturbed
<1>3. (id \in E!Resting <=> E!Left(id) # 0) /\ (id \in E!Resting' <=> E!Left(id)' # 0)
  BY <1>1 DEF LedgerOk
<1>4. QED BY <1>2, <1>3 DEF E!Placed

\* The call that the engine runs is the submission's.
RunsCall ==
  /\ call.running <=> op.phase = "matching"
  /\ op.phase = "matching" =>
       LET o == orders[op.id]
       IN /\ call.id = op.id /\ call.side = o.side /\ call.price = o.limit
          /\ o.active /\ op.next = 1
  /\ op.phase \in {"matching", "settling"} => op.id \in E!Node

\* An order that rests is known, on its side and at its limit; the taker rests
\* only once it is done.
Known ==
  /\ \A id \in E!Resting : /\ id \in 1..Len(orders)
                           /\ E!SideAt(id) = orders[id].side
                           /\ E!PriceAt(id) = orders[id].limit
  /\ op.phase \in {"matching", "refused"} => op.id \notin E!Resting

\* Executions that are not settled yet are trades of the taker with an order of
\* the other side, at that order's limit, which the taker's limit accepts.
Pending == IF op = Idle THEN {} ELSE op.next..Len(executions)
Fair(e, o, taker) ==
  LET maker == o[e.maker]
  IN /\ e.qty > 0 /\ e.maker \in 1..Len(o) /\ e.maker # taker
     /\ e.price = maker.limit /\ maker.side = E!Opposite(o[taker].side)
     /\ IF o[taker].side = E!Buy THEN e.price <= o[taker].limit ELSE e.price >= o[taker].limit
PendingFair == \A k \in Pending : Fair(executions[k], orders, op.id)

BaseInv == Tables /\ RunsCall /\ Known /\ PendingFair /\ RefusalTradesNothing

\* Id 0 is never handed out, so the engine always has a node for a taker.
LEMMA RoomToRest == ASSUME BaseInv, EngineOk PROVE E!Resting # E!Node
<1>1. 0 \in E!Node
  BY OrderBookAssumption DEF E!Node
<1>2. 0 \notin E!Resting
  BY DEF BaseInv, Known
<1>3. QED BY <1>1, <1>2

\* Steps that leave the engine's book as it is, and only settle or forget.
LEMMA KnownKept ==
  ASSUME Tables, Known, EngineOk, EngineOk', OrdersKept, \A id : E!Undisturbed(id),
         op'.phase \in {"matching", "refused"} => op'.id \notin E!Resting
  PROVE  Known'
<1>1. \A id : /\ id \in E!Resting' <=> id \in E!Resting
              /\ id \in E!Resting => /\ E!SideAt(id)' = E!SideAt(id)
                                     /\ E!PriceAt(id)' = E!PriceAt(id)
  BY UndisturbedFacts
<1>2. ASSUME NEW id \in E!Resting'
      PROVE  /\ id \in 1..Len(orders') /\ E!SideAt(id)' = orders'[id].side
             /\ E!PriceAt(id)' = orders'[id].limit
  BY <1>1, <1>2 DEF Known, OrdersKept, Alike
<1>3. op'.id \notin E!Resting => op'.id \notin E!Resting'
  <2>1. PICK i : i = op'.id
    OBVIOUS
  <2>2. QED BY <1>1, <2>1
<1>4. QED BY <1>2, <1>3 DEF Known

LEMMA FairKept ==
  ASSUME OrdersKept, NEW e, NEW taker \in 1..Len(orders), Fair(e, orders, taker)
  PROVE  Fair(e, orders', taker)
BY DEF OrdersKept, Alike, Fair

\* A step that ends a submission, or happens between two.
LEMMA IdleBase ==
  ASSUME BaseInv, EngineOk, EngineOk', Tables', op' = Idle, ~call'.running, Known'
  PROVE  BaseInv'
BY DEF BaseInv, RunsCall, PendingFair, Pending, RefusalTradesNothing, Idle

LEMMA SubmitBase ==
  ASSUME OpTyped, BaseInv, EngineOk, EngineOk', op = Idle, NEW user, NEW side \in Sides,
         NEW price \in Int, NEW qty \in 0..QtyMod-1, NEW discard \in BOOLEAN,
         Submit(user, side, price, qty, discard)
  PROVE  BaseInv'
<1> DEFINE o == NewOrder(user, side, price, qty)
           id == Len(orders) + 1
<1>1. Tables /\ Tables'
  BY SubmitTables DEF BaseInv
<1>2. /\ o \in Order /\ orders' = Append(orders, o)
      /\ executions' = <<>> /\ op'.id = id /\ op'.next = 1 /\ op' # Idle
      /\ \/ op'.phase = "matching" /\ E!ProcessOrder(side, price, qty, id)
         \/ op'.phase = "refused" /\ E!RefuseOrder(price, qty, id)
  <2>1. /\ o \in Order /\ orders' = Append(orders, o)
        /\ executions' = <<>> /\ op'.id = nextOrderId /\ op'.next = 1 /\ op' # Idle
        /\ \/ op'.phase = "matching" /\ E!ProcessOrder(side, price, qty, nextOrderId)
           \/ op'.phase = "refused" /\ E!RefuseOrder(price, qty, nextOrderId)
    BY <1>1, SubmitChanges, Zenon
  <2>2. nextOrderId = id
    BY <1>1 DEF Tables, OrdersTyped
  <2>3. QED BY <2>1, <2>2
<1>3. /\ o.active /\ o.side = side /\ o.limit = price
  BY DEF NewOrder
<1>4. UNCHANGED <<E!nodeVars, E!poolVars>>
  BY <1>2 DEF E!ProcessOrder, E!RefuseOrder
<1>5. \A j : /\ j \in E!Resting' <=> j \in E!Resting
             /\ j \in E!Resting => /\ E!SideAt(j)' = E!SideAt(j)
                                   /\ E!PriceAt(j)' = E!PriceAt(j)
  BY <1>4, EngineAssumed, E!SameLedger, UndisturbedFacts
<1> HIDE DEF o
<1>6. /\ orders \in Seq(Order) /\ orders' \in Seq(Order) /\ Len(orders') = id
      /\ orders'[id] = o /\ \A j \in 1..Len(orders) : orders'[j] = orders[j]
  BY <1>1, <1>2, AppendProperties DEF Tables, OrdersTyped
<1>7. RunsCall'
  <2>1. CASE op'.phase = "matching" /\ E!ProcessOrder(side, price, qty, id)
    <3>1. /\ call'.running /\ call'.id = id /\ call'.side = side /\ call'.price = price
          /\ E!ValidId(id)
      BY <2>1 DEF E!ProcessOrder, E!Acceptable
    <3>2. id \in E!Node
      BY <1>6, <3>1, OrderBookAssumption DEF E!ValidId, E!Node
    <3>3. QED BY <1>2, <1>3, <1>6, <2>1, <3>1, <3>2 DEF RunsCall
  <2>2. CASE op'.phase = "refused" /\ E!RefuseOrder(price, qty, id)
    <3>1. ~call'.running
      BY <2>2 DEF E!RefuseOrder, E!Return, E!NoCall
    <3>2. QED BY <2>2, <3>1 DEF RunsCall
  <2>3. QED BY <1>2, <2>1, <2>2
<1>8. Known'
  <2>1. ASSUME NEW j \in E!Resting'
        PROVE  /\ j \in 1..Len(orders') /\ E!SideAt(j)' = orders'[j].side
               /\ E!PriceAt(j)' = orders'[j].limit
    BY <1>5, <1>6, <2>1 DEF BaseInv, Known
  <2>2. id \notin E!Resting'
    BY <1>5, <1>6 DEF BaseInv, Known
  <2>3. op'.id \notin E!Resting'
    BY <1>2, <2>2
  <2>4. QED BY <2>1, <2>3 DEF Known
<1>9. PendingFair' /\ RefusalTradesNothing'
  BY <1>2 DEF PendingFair, Pending, RefusalTradesNothing
<1>10. QED BY <1>1, <1>7, <1>8, <1>9 DEF BaseInv

LEMMA RollbackBase ==
  ASSUME OpTyped, BaseInv, EngineOk, EngineOk', Rollback
  PROVE  BaseInv' /\ Releases(op.id) /\ op.phase = "refused" /\ op' = Idle
         /\ UNCHANGED E!engineVars
<1>1. /\ op.phase = "refused" /\ op # Idle /\ Releases(op.id) /\ op' = Idle
      /\ UNCHANGED <<nextOrderId, seeding>> /\ UNCHANGED E!engineVars
  BY RollbackChanges DEF BaseInv
<1>2. op.id \in 1..Len(orders)
  BY <1>1 DEF BaseInv, Tables, OrdersTyped
<1>3. UsersTyped' /\ UserIds' = UserIds /\ OrdersKept
  BY <1>1, <1>2, ReleasesTables DEF BaseInv
<1>4. Tables'
  BY <1>1, <1>3 DEF BaseInv, Tables, OrdersTyped, ExecutionsTyped, OrdersKept, Alike, E!engineVars
<1>5. \A id : E!Undisturbed(id)
  BY <1>1, EngineAssumed, E!SameLedger DEF E!engineVars
<1>6. Known'
  BY <1>1, <1>3, <1>5, KnownKept DEF BaseInv, Idle
<1>7. ~call'.running
  BY <1>1 DEF BaseInv, RunsCall, E!engineVars
<1>8. QED BY <1>1, <1>4, <1>6, <1>7, IdleBase

LEMMA CancelBase ==
  ASSUME OpTyped, BaseInv, EngineOk, EngineOk', NEW id \in 1..Len(orders), CancelActive(id),
         op' = Idle, UNCHANGED nextOrderId, op.phase # "matching"
  PROVE  /\ BaseInv' /\ id \notin E!Resting'
         /\ \A j : j # id => E!Undisturbed(j)
         /\ IF id \in E!Resting THEN Releases(id) ELSE UNCHANGED <<users, orders>>
<1>1. E!Cancel(id) /\ (IF ok' THEN Releases(id) ELSE UNCHANGED <<users, orders>>)
  BY CancelChanges DEF BaseInv
<1>2. /\ UNCHANGED executions /\ call' = E!NoCall
      /\ IF id \in E!Resting THEN ok' = TRUE ELSE ok' = FALSE
      /\ id \notin E!Resting' /\ \A j : j # id => E!Undisturbed(j)
  <2>1. id \in Int /\ E!TypeOK /\ E!ListInv
    BY DEF EngineOk, E!EngineInv
  <2>2. QED BY <1>1, <2>1, EngineAssumed, E!CancelLedger
<1>3. IF id \in E!Resting THEN Releases(id) ELSE UNCHANGED <<users, orders>>
  BY <1>1, <1>2
<1>4. UsersTyped' /\ UserIds' = UserIds /\ OrdersKept
  <2>1. CASE Releases(id)
    BY <2>1, ReleasesTables DEF BaseInv
  <2>2. CASE UNCHANGED <<users, orders>>
    BY <2>2, UsersKeep DEF BaseInv, Tables, UsersTyped, OrdersTyped, OrdersKept, Alike
  <2>3. QED BY <1>3, <2>1, <2>2
<1>5. Tables'
  BY <1>2, <1>4 DEF BaseInv, Tables, OrdersTyped, ExecutionsTyped, OrdersKept, Alike
<1>6. Known'
  <2>1. \A j : j # id => /\ j \in E!Resting' <=> j \in E!Resting
                         /\ j \in E!Resting => /\ E!SideAt(j)' = E!SideAt(j)
                                               /\ E!PriceAt(j)' = E!PriceAt(j)
    BY <1>2, UndisturbedFacts
  <2>2. ASSUME NEW j \in E!Resting'
        PROVE  /\ j \in 1..Len(orders') /\ E!SideAt(j)' = orders'[j].side
               /\ E!PriceAt(j)' = orders'[j].limit
    BY <1>2, <1>4, <2>1, <2>2 DEF BaseInv, Known, OrdersKept, Alike
  <2>3. QED BY <2>2 DEF Known, Idle
<1>7. ~call'.running
  BY <1>2 DEF E!NoCall
<1>8. QED BY <1>2, <1>3, <1>5, <1>6, <1>7, IdleBase

\* The three things that an iteration of the engine can be for the wrapper.
Passes == UNCHANGED <<E!nodeVars, E!poolVars, call, executions, op>>
TakesFrom(id, qty) ==
  /\ E!Trades(id, qty) /\ id \in 1..Len(orders) /\ id # op.id
  /\ op'.phase = "matching" \/ op'.phase = "settling"
  /\ op'.phase = "matching" => /\ call' = [call EXCEPT !.remaining = @ - qty]
                               /\ call'.running /\ call'.remaining = call.remaining - qty
  /\ op'.phase = "settling" => qty = call.remaining /\ ~call'.running
RestsAs(id) ==
  /\ id = op.id /\ id \notin E!Resting /\ id \in E!Resting' /\ E!Left(id)' = call.remaining
  /\ E!SideAt(id)' = call.side /\ E!PriceAt(id)' = call.price
  /\ \A j : j # id => E!Undisturbed(j)
  /\ UNCHANGED executions /\ ~call'.running /\ op'.phase = "settling"

LEMMA EngineStepCases ==
  ASSUME OpTyped, BaseInv, EngineOk, EngineStep
  PROVE  /\ op.phase = "matching" /\ op # Idle /\ op' # Idle /\ op'.id = op.id
         /\ op'.discard = op.discard /\ op'.next = 1
         /\ UNCHANGED <<users, orders, nextOrderId, seeding>>
         /\ executions' \in Seq(Execution)
         /\ \/ Passes
            \/ \E id \in E!Resting, qty \in Nat \ {0} : TakesFrom(id, qty)
            \/ \E id : RestsAs(id)
<1> DEFINE ends == /\ op'.phase = "settling"
                   /\ op'.next = IF orders[op.id].active THEN 1 ELSE Len(executions') + 1
<1>1. /\ op.phase = "matching" /\ op # Idle /\ op' # Idle
      /\ op'.id = op.id /\ op'.discard = op.discard
      /\ UNCHANGED <<users, orders, nextOrderId, seeding>>
      /\ E!MatchStep \/ E!RestRemainder
      /\ executions' \in Seq(Execution)
      /\ IF call'.running THEN op' = op
         ELSE IF ~ok' THEN op'.phase = "refused" /\ op'.next = op.next
         ELSE ends
  BY EngineStepChanges DEF BaseInv
<1>2. /\ call.running /\ call.id = op.id /\ op.next = 1 /\ orders[op.id].active
      /\ op.id \in 1..Len(orders) /\ op.id \notin E!Resting
  BY <1>1 DEF BaseInv, RunsCall, Known, Tables, OrdersTyped
<1>3. ends => op'.next = 1
  BY <1>2
<1> HIDE DEF ends
<1>4. E!TypeOK /\ E!ListInv /\ E!QtyInv
  BY DEF EngineOk, E!EngineInv
<1>5. CASE E!MatchStep
  <2>1. \/ UNCHANGED <<E!nodeVars, E!poolVars, call, ok, executions>>
        \/ \E id \in E!Resting, qty \in Nat \ {0} : E!Trades(id, qty)
    BY <1>4, <1>5, EngineAssumed, E!MatchStepLedger
  <2>2. CASE UNCHANGED <<E!nodeVars, E!poolVars, call, ok, executions>>
    <3>1. op' = op
      BY <1>1, <1>2, <2>2
    <3>2. QED BY <1>1, <1>2, <2>2, <3>1 DEF Passes
  <2>3. ASSUME NEW id \in E!Resting, NEW qty \in Nat \ {0}, E!Trades(id, qty)
        PROVE  TakesFrom(id, qty) /\ op'.next = 1
    <3>1. id \in 1..Len(orders) /\ id # op.id
      BY <1>2 DEF BaseInv, Known
    <3>2. E!TakerTraded(qty)
      BY <2>3 DEF E!Trades
    <3>3. CASE qty = call.remaining /\ E!Return(TRUE)
      <4>1. ~call'.running /\ ok'
        BY <3>3 DEF E!Return, E!NoCall
      <4>2. ends
        BY <1>1, <4>1
      <4>3. QED BY <1>3, <2>3, <3>1, <3>3, <4>1, <4>2 DEF TakesFrom, ends
    <3>4. CASE /\ call' = [call EXCEPT !.remaining = @ - qty]
               /\ call'.running /\ call'.remaining = call.remaining - qty
      <4>1. op' = op
        BY <1>1, <3>4
      <4>2. QED BY <1>1, <1>2, <2>3, <3>1, <3>4, <4>1 DEF TakesFrom
    <3>5. QED BY <3>2, <3>3, <3>4 DEF E!TakerTraded
  <2>4. QED BY <1>1, <2>1, <2>2, <2>3, <1>2
<1>6. CASE E!RestRemainder
  <2>1. PICK id : id = op.id
    OBVIOUS
  <2>2. /\ UNCHANGED executions /\ call' = E!NoCall
        /\ \/ /\ ok' = TRUE /\ id \notin E!Resting /\ id \in E!Resting'
              /\ E!Left(id)' = call.remaining
              /\ E!SideAt(id)' = call.side /\ E!PriceAt(id)' = call.price
              /\ \A j : j # id => E!Undisturbed(j)
           \/ id \in E!Resting \/ E!Resting = E!Node
    BY <1>2, <1>4, <1>6, <2>1, EngineAssumed, E!RestRemainderLedger
  <2>3. ~call'.running
    BY <2>2 DEF E!NoCall
  <2>4. id \notin E!Resting /\ E!Resting # E!Node
    BY <1>2, <2>1, RoomToRest
  <2>5. ends
    BY <1>1, <2>2, <2>3, <2>4
  <2>6. RestsAs(id)
    BY <2>1, <2>2, <2>3, <2>4, <2>5 DEF RestsAs, ends
  <2>7. QED BY <1>1, <1>3, <2>5, <2>6
<1>7. QED BY <1>1, <1>5, <1>6

LEMMA EngineStepBase ==
  ASSUME OpTyped, OpTyped', BaseInv, EngineOk, EngineOk', EngineStep
  PROVE  BaseInv'
<1>1. /\ op.phase = "matching" /\ op # Idle /\ op' # Idle /\ op'.id = op.id /\ op'.next = 1
      /\ UNCHANGED <<users, orders, nextOrderId, seeding>>
      /\ executions' \in Seq(Execution)
      /\ \/ Passes
         \/ \E id \in E!Resting, qty \in Nat \ {0} : TakesFrom(id, qty)
         \/ \E id : RestsAs(id)
  BY EngineStepCases
<1>2. /\ call.running /\ call.id = op.id /\ op.next = 1 /\ orders[op.id].active
      /\ call.side = orders[op.id].side /\ call.price = orders[op.id].limit
      /\ op.id \in 1..Len(orders) /\ op.id \notin E!Resting /\ op.id \in E!Node
  BY <1>1 DEF BaseInv, RunsCall, Known, Tables, OrdersTyped
<1>3. Tables'
  BY <1>1 DEF BaseInv, Tables, UsersTyped, OrdersTyped, ExecutionsTyped, UserIds
<1>4. executions \in Seq(Execution)
  BY DEF BaseInv, Tables, ExecutionsTyped
<1>5. CASE Passes
  <2>1. op' = op /\ call' = call /\ executions' = executions /\ UNCHANGED <<E!nodeVars, E!poolVars>>
    BY <1>5 DEF Passes
  <2>2. RunsCall' /\ PendingFair' /\ RefusalTradesNothing'
    BY <1>1, <2>1 DEF BaseInv, RunsCall, PendingFair, Pending, RefusalTradesNothing
  <2>3. Known'
    BY <1>1, <2>1, EngineAssumed, E!SameLedger, UndisturbedFacts DEF BaseInv, Known
  <2>4. QED BY <1>3, <2>2, <2>3 DEF BaseInv
<1>6. ASSUME NEW id \in E!Resting, NEW qty \in Nat \ {0}, TakesFrom(id, qty)
      PROVE  BaseInv'
  <2>1. /\ id \in 1..Len(orders) /\ id # op.id
        /\ E!SideAt(id) = E!Opposite(call.side)
        /\ IF call.side = E!Buy THEN E!PriceAt(id) <= call.price ELSE E!PriceAt(id) >= call.price
        /\ executions' = Append(executions, [maker |-> id, price |-> E!PriceAt(id), qty |-> qty])
        /\ id \in E!Resting' => E!Placed(id)
        /\ \A j : j # id => E!Undisturbed(j)
    BY <1>6 DEF TakesFrom, E!Trades
  <2>2. E!SideAt(id) = orders[id].side /\ E!PriceAt(id) = orders[id].limit
    BY DEF BaseInv, Known
  <2>3. RunsCall'
    <3>1. op'.phase = "matching" => call'.running /\ call'.id = call.id /\ call'.side = call.side
                                    /\ call'.price = call.price
      <4>1. call \in [running : BOOLEAN, side : E!Side, price : PriceMin..PriceMax,
                      remaining : E!Qty, id : E!Node]
        BY DEF EngineOk, E!EngineInv, E!TypeOK
      <4>2. QED BY <1>6, <4>1 DEF TakesFrom
    <3>2. op'.phase = "settling" => ~call'.running
      BY <1>6 DEF TakesFrom
    <3>3. op'.phase = "matching" \/ op'.phase = "settling"
      BY <1>6 DEF TakesFrom
    <3>4. QED BY <1>1, <1>2, <3>1, <3>2, <3>3 DEF RunsCall
  <2>4. Known'
    <3>1. \A j : j # id => /\ j \in E!Resting' <=> j \in E!Resting
                           /\ j \in E!Resting => /\ E!SideAt(j)' = E!SideAt(j)
                                                 /\ E!PriceAt(j)' = E!PriceAt(j)
      BY <2>1, UndisturbedFacts
    <3>2. ASSUME NEW j \in E!Resting'
          PROVE  /\ j \in 1..Len(orders') /\ E!SideAt(j)' = orders'[j].side
                 /\ E!PriceAt(j)' = orders'[j].limit
      <4>1. CASE j = id
        BY <1>1, <2>1, <2>2, <3>2, <4>1 DEF E!Placed
      <4>2. CASE j # id
        BY <1>1, <3>1, <3>2, <4>2 DEF BaseInv, Known
      <4>3. QED BY <4>1, <4>2
    <3>3. op'.id \notin E!Resting'
      <4>1. PICK t : t = op.id
        OBVIOUS
      <4>2. t \notin E!Resting'
        BY <1>2, <2>1, <3>1, <4>1
      <4>3. QED BY <1>1, <4>1, <4>2
    <3>4. QED BY <3>2, <3>3 DEF Known
  <2>5. PendingFair'
    <3> DEFINE e == [maker |-> id, price |-> E!PriceAt(id), qty |-> qty]
    <3>1. Fair(e, orders, op.id)
      BY <1>2, <2>1, <2>2 DEF Fair
    <3> HIDE DEF e
    <3>2. e \in Execution
      <4>1. Len(executions) + 1 \in 1..Len(executions') /\ executions'[Len(executions) + 1] = e
        BY <1>4, <2>1 DEF e
      <4>2. QED BY <1>1, <4>1
    <3>3. /\ Len(executions') = Len(executions) + 1 /\ executions'[Len(executions) + 1] = e
          /\ \A k \in 1..Len(executions) : executions'[k] = executions[k]
      BY <1>4, <2>1, <3>2, AppendProperties DEF e
    <3>4. \A k \in 1..Len(executions) : Fair(executions[k], orders, op.id)
      BY <1>1, <1>2 DEF BaseInv, PendingFair, Pending
    <3>5. \A k \in 1..Len(executions') : Fair(executions'[k], orders, op.id)
      BY <1>4, <3>1, <3>3, <3>4
    <3>6. QED BY <1>1, <3>5 DEF PendingFair, Pending
  <2>6. RefusalTradesNothing'
    BY <1>6 DEF TakesFrom, RefusalTradesNothing
  <2>7. QED BY <1>3, <2>3, <2>4, <2>5, <2>6 DEF BaseInv
<1>7. ASSUME NEW id, RestsAs(id) PROVE BaseInv'
  <2>1. /\ id = op.id /\ E!SideAt(id)' = call.side /\ E!PriceAt(id)' = call.price
        /\ \A j : j # id => E!Undisturbed(j)
        /\ executions' = executions /\ ~call'.running /\ op'.phase = "settling"
    BY <1>7 DEF RestsAs
  <2>2. RunsCall' /\ RefusalTradesNothing'
    BY <1>1, <1>2, <2>1 DEF RunsCall, RefusalTradesNothing
  <2>3. Known'
    <3>1. \A j : j # id => /\ j \in E!Resting' <=> j \in E!Resting
                           /\ j \in E!Resting => /\ E!SideAt(j)' = E!SideAt(j)
                                                 /\ E!PriceAt(j)' = E!PriceAt(j)
      BY <2>1, UndisturbedFacts
    <3>2. ASSUME NEW j \in E!Resting'
          PROVE  /\ j \in 1..Len(orders') /\ E!SideAt(j)' = orders'[j].side
                 /\ E!PriceAt(j)' = orders'[j].limit
      <4>1. CASE j = id
        BY <1>1, <1>2, <2>1, <4>1
      <4>2. CASE j # id
        BY <1>1, <3>1, <3>2, <4>2 DEF BaseInv, Known
      <4>3. QED BY <4>1, <4>2
    <3>3. QED BY <2>1, <3>2 DEF Known
  <2>4. PendingFair'
    BY <1>1, <1>2, <2>1 DEF BaseInv, PendingFair, Pending
  <2>5. QED BY <1>3, <2>2, <2>3, <2>4 DEF BaseInv
<1>8. QED BY <1>1, <1>5, <1>6, <1>7

LEMMA OrdersKeep ==
  ASSUME OrdersTyped, OrdersKept, UserIds' = UserIds, nextOrderId' = nextOrderId,
         op # Idle, op'.id = op.id
  PROVE  OrdersTyped'
<1>1. \A id \in 1..Len(orders') : orders'[id].user \in UserIds'
  BY DEF OrdersTyped, OrdersKept, Alike
<1>2. QED BY <1>1 DEF OrdersTyped, OrdersKept

LEMMA SettleBase ==
  ASSUME OpTyped, BaseInv, EngineOk, EngineOk', Settle
  PROVE  /\ BaseInv' /\ UNCHANGED E!engineVars /\ op # Idle /\ op' # Idle
         /\ op.phase = "settling" /\ op'.phase = "settling" /\ op'.id = op.id /\ op'.discard = op.discard
         /\ op.next \in 1..Len(executions) /\ op'.next = op.next + 1
         /\ IF orders[executions[op.next].maker].active THEN Settles(op.next)
            ELSE UNCHANGED <<orders, users>>
<1>1. /\ op.phase = "settling" /\ op.next <= Len(executions)
      /\ UNCHANGED E!engineVars /\ UNCHANGED <<nextOrderId, seeding>>
      /\ IF orders[executions[op.next].maker].active THEN Settles(op.next)
         ELSE UNCHANGED <<orders, users>>
  BY SameEngine DEF Settle, Settles
<1>2. Underway(op) /\ op # Idle
  BY <1>1, IdleFacts
<1>3. op'.phase = "settling" /\ op'.id = op.id /\ op'.next = op.next + 1 /\ op' # Idle
      /\ op'.discard = op.discard
  BY <1>1, <1>2 DEF Settle, Underway, Idle
<1>4. /\ op.next \in 1..Len(executions) /\ op.id \in 1..Len(orders)
      /\ Fair(executions[op.next], orders, op.id)
  <2>1. op.next \in Nat \ {0} /\ executions \in Seq(Execution) /\ op.id \in 1..Len(orders)
    BY <1>2 DEF BaseInv, Tables, OrdersTyped, ExecutionsTyped
  <2>2. op.next \in Pending
    BY <1>1, <1>2, <2>1 DEF Pending
  <2>3. QED BY <1>1, <2>1, <2>2 DEF BaseInv, PendingFair
<1>5. UsersTyped' /\ UserIds' = UserIds /\ OrdersKept
  <2>1. CASE Settles(op.next)
    BY <1>2, <1>4, <2>1, SettlesTables DEF BaseInv, Fair
  <2>2. CASE UNCHANGED <<users, orders>>
    BY <2>2, UsersKeep DEF BaseInv, Tables, UsersTyped, OrdersTyped, OrdersKept, Alike
  <2>3. QED BY <1>1, <2>1, <2>2
<1>6. Tables'
  <2>1. OrdersTyped'
    BY <1>1, <1>2, <1>3, <1>5, OrdersKeep DEF BaseInv, Tables
  <2>2. ExecutionsTyped'
    BY <1>1, <1>3, <1>4 DEF BaseInv, Tables, ExecutionsTyped, E!engineVars
  <2>3. QED BY <1>5, <2>1, <2>2 DEF Tables
<1>7. RunsCall' /\ RefusalTradesNothing'
  BY <1>1, <1>3 DEF BaseInv, RunsCall, RefusalTradesNothing, E!engineVars
<1>8. Known'
  <2>1. \A id : E!Undisturbed(id)
    BY <1>1, EngineAssumed, E!SameLedger DEF E!engineVars
  <2>2. QED BY <1>3, <1>5, <2>1, KnownKept DEF BaseInv
<1>9. PendingFair'
  <2>1. ASSUME NEW k \in Pending' PROVE Fair(executions'[k], orders', op'.id)
    <3>1. k \in Pending /\ executions' = executions
      <4>1. op.next \in Int /\ Len(executions) \in Int
        BY <1>4
      <4>2. QED BY <1>1, <1>2, <1>3, <2>1, <4>1 DEF Pending, E!engineVars
    <3>2. Fair(executions[k], orders, op.id)
      BY <3>1 DEF BaseInv, PendingFair
    <3>3. QED BY <1>3, <1>4, <1>5, <3>1, <3>2, FairKept
  <2>2. QED BY <2>1 DEF PendingFair
<1>10. QED BY <1>1, <1>2, <1>3, <1>4, <1>6, <1>7, <1>8, <1>9 DEF BaseInv

\* Steps between submissions that leave the orders and the engine alone.
LEMMA QuietBase ==
  ASSUME OpTyped, BaseInv, EngineOk, EngineOk', op = Idle, UsersTyped', UserIds \subseteq UserIds',
         UNCHANGED <<engineVars, orders, nextOrderId, op>>
  PROVE  BaseInv'
<1>1. UNCHANGED E!engineVars
  BY SameEngine
<1>2. Tables'
  <2>1. OrdersTyped'
    BY DEF BaseInv, Tables, OrdersTyped
  <2>2. ExecutionsTyped'
    BY <1>1 DEF BaseInv, Tables, ExecutionsTyped, E!engineVars
  <2>3. QED BY <2>1, <2>2 DEF Tables
<1>3. \A id : E!Undisturbed(id)
  BY <1>1, EngineAssumed, E!SameLedger DEF E!engineVars
<1>4. OrdersKept
  BY DEF OrdersKept, Alike, BaseInv, Tables, OrdersTyped
<1>5. Known'
  BY <1>3, <1>4, KnownKept DEF BaseInv, Idle
<1>6. ~call'.running
  BY <1>1 DEF BaseInv, RunsCall, Idle, E!engineVars
<1>7. QED BY <1>2, <1>5, <1>6, IdleBase

LEMMA MakeUserTyped ==
  ASSUME UsersTyped, NEW name \in AnyName, MakeUser(name)
  PROVE  UsersTyped' /\ UserIds \subseteq UserIds'
<1> DEFINE n == Cardinality(UserIds)
<1>1. CASE \E u \in UserIds : users[u].name = name
  BY <1>1 DEF MakeUser, UsersTyped, UserIds
<1>2. CASE ~\E u \in UserIds : users[u].name = name
  <2>1. users' = [u \in 0..n |-> IF u = n THEN NewUser(name) ELSE users[u]]
    BY <1>2 DEF MakeUser
  <2>2. n \in Nat /\ UserIds = 0..n-1
    BY FS_CardinalityType DEF UsersTyped
  <2>3. NewUser(name) \in User
    <3>1. 0 \in E!Qty /\ 0 \in Int /\ name \in UserNames
      BY QtyModFacts DEF UserNames
    <3>2. QED BY <3>1 DEF NewUser, User
  <2> HIDE DEF n
  <2>4. UserIds' = 0..n /\ UserIds \subseteq UserIds'
    BY <2>1, <2>2 DEF UserIds
  <2>5. users' \in [0..n -> User]
    BY <2>1, <2>2, <2>3 DEF UsersTyped
  <2>6. IsFiniteSet(0..n) /\ Cardinality(0..n) = n + 1
    BY <2>2, FS_Interval
  <2>7. QED BY <2>2, <2>4, <2>5, <2>6 DEF UsersTyped
<1>3. QED BY <1>1, <1>2

LEMMA AddBalanceTyped ==
  ASSUME UsersTyped, NEW user, NEW quote \in Int, NEW base \in 0..QtyMod-1,
         AddBalance(user, quote, base)
  PROVE  UsersTyped' /\ UserIds' = UserIds
<1>1. user \in UserIds /\ quote \in Int /\ base \in Int
  BY OrderBookAssumption, QtyModFacts DEF AddBalance
<1>2. /\ users[user] \in User /\ users[user].quote \in Int /\ users[user].base \in Int
      /\ users[user].lockedQuote \in Int /\ users[user].lockedBase \in E!Qty
  BY <1>1, QtyModFacts DEF UsersTyped, User
<1>3. PICK q, x : q = users[user].quote + quote /\ x = (users[user].base + base) % QtyMod
  OBVIOUS
<1>4. q \in Int /\ x \in E!Qty
  BY <1>1, <1>2, <1>3, Wrapped
<1>5. [users[user] EXCEPT !.quote = q, !.base = x] \in User
  BY <1>2, <1>4 DEF User
<1>6. users' = [users EXCEPT ![user] = [users[user] EXCEPT !.quote = q, !.base = x]]
  BY <1>1, <1>3 DEF AddBalance, UsersTyped, UserIds
<1>7. users' \in [UserIds -> User]
  BY <1>1, <1>5, <1>6 DEF UsersTyped
<1>8. QED BY <1>7, UsersKeep

LEMMA FinishChanges ==
  ASSUME OpTyped, BaseInv, EngineOk, EngineOk', Finish
  PROVE  /\ BaseInv' /\ op.phase = "settling" /\ op # Idle /\ op' = Idle
         /\ op.id \in 1..Len(orders) /\ op.next > Len(executions)
         /\ IF op.discard /\ orders[op.id].active
            THEN /\ op.id \in E!Resting => Releases(op.id)
                 /\ op.id \notin E!Resting => UNCHANGED <<users, orders>>
                 /\ \A j : j # op.id => E!Undisturbed(j)
                 /\ op.id \in 1..Len(orders) /\ CancelActive(op.id)
            ELSE UNCHANGED <<users, orders>> /\ UNCHANGED E!engineVars
<1>1. /\ op.phase = "settling" /\ op.next > Len(executions) /\ op' = Idle
      /\ UNCHANGED <<nextOrderId, seeding>>
  BY DEF Finish
<1>2. op # Idle /\ op.id \in 1..Len(orders)
  BY <1>1, IdleFacts DEF Idle, BaseInv, Tables, OrdersTyped
<1>3. CASE op.discard /\ orders[op.id].active
  <2>1. CancelActive(op.id)
    BY <1>3 DEF Finish, DiscardsRest
  <2>2. PICK id : id = op.id
    OBVIOUS
  <2>3. /\ BaseInv' /\ \A j : j # id => E!Undisturbed(j)
        /\ IF id \in E!Resting THEN Releases(id) ELSE UNCHANGED <<users, orders>>
    BY <1>1, <1>2, <2>1, <2>2, CancelBase
  <2>4. QED BY <1>1, <1>2, <1>3, <2>1, <2>2, <2>3
<1>4. CASE ~(op.discard /\ orders[op.id].active)
  <2>1. UNCHANGED <<users, orders>> /\ UNCHANGED E!engineVars
    BY <1>4, SameEngine DEF Finish, DiscardsRest
  <2>2. Tables'
    <3>1. UsersTyped'
      BY <2>1 DEF BaseInv, Tables, UsersTyped, UserIds
    <3>2. OrdersTyped' /\ ExecutionsTyped'
      BY <1>1, <2>1, <3>1 DEF BaseInv, Tables, OrdersTyped, ExecutionsTyped, UserIds, E!engineVars
    <3>3. QED BY <3>1, <3>2 DEF Tables
  <2>3. \A id : E!Undisturbed(id)
    BY <2>1, EngineAssumed, E!SameLedger DEF E!engineVars
  <2>4. OrdersKept
    BY <2>1 DEF OrdersKept, Alike, BaseInv, Tables, OrdersTyped
  <2>5. Known'
    BY <1>1, <2>3, <2>4, KnownKept DEF BaseInv, Idle
  <2>6. ~call'.running
    BY <1>1, <2>1 DEF BaseInv, RunsCall, E!engineVars
  <2>7. BaseInv'
    BY <1>1, <2>2, <2>5, <2>6, IdleBase
  <2>8. QED BY <1>1, <1>2, <1>4, <2>1, <2>7
<1>5. QED BY <1>3, <1>4

\* The steps, without the calls that they are made by.
SubmitStep ==
  \E user \in UserIds, side \in Sides, price \in Int, qty \in 0..QtyMod-1, discard \in BOOLEAN :
    op = Idle /\ Submit(user, side, price, qty, discard)
CancelStep ==
  \E id \in 1..Len(orders) :
    op = Idle /\ op' = Idle /\ UNCHANGED nextOrderId /\ orders[id].active /\ CancelActive(id)
QuietStep ==
  \/ \E name \in AnyName : MakeUser(name)
  \/ \E user \in UserIds, quote \in Int, base \in 0..QtyMod-1 : AddBalance(user, quote, base)

LEMMA StepKinds ==
  ASSUME OpTyped, [AnyStep]_vars
  PROVE  SubmitStep \/ CancelStep \/ QuietStep \/ EngineStep \/ Rollback \/ Settle \/ Finish
         \/ UNCHANGED vars
<1>1. ASSUME NEW user, NEW side \in Sides, NEW price \in Int, NEW qty \in 0..QtyMod-1,
             NEW discard \in BOOLEAN, AddOrder(user, side, price, qty, discard)
      PROVE  SubmitStep
  <2>1. price \in Int /\ qty \in 0..QtyMod-1
    BY OrderBookAssumption
  <2>2. op = Idle /\ Submit(user, side, price, qty, discard) /\ user \in UserIds
    BY <1>1 DEF AddOrder, CanCall, Submit, Funded
  <2>3. QED BY <2>1, <2>2, Zenon DEF SubmitStep
<1>2. ASSUME NEW user, NEW side \in Sides, NEW qty \in 0..QtyMod-1, AddMarketOrder(user, side, qty)
      PROVE  SubmitStep
  <2>1. PICK price : price = IF IsBid(side) THEN PriceMax ELSE PriceMin
    OBVIOUS
  <2>2. price \in Int /\ qty \in 0..QtyMod-1 /\ TRUE \in BOOLEAN
    BY <2>1, OrderBookAssumption
  <2>3. op = Idle /\ Submit(user, side, price, qty, TRUE) /\ user \in UserIds
    BY <1>2, <2>1 DEF AddMarketOrder, CanCall, Submit, Funded
  <2>4. QED BY <2>2, <2>3, Zenon DEF SubmitStep
<1>3. CASE SeedOrder
  <2>1. PICK o : o = SeedOrders[seeding]
    OBVIOUS
  <2>2. /\ o.side \in Sides /\ o.price \in Int /\ o.qty \in 0..QtyMod-1
        /\ FALSE \in BOOLEAN
    BY <1>3, <2>1, SeedTyped DEF SeedOrder
  <2>3. op = Idle /\ Submit(o.user, o.side, o.price, o.qty, FALSE) /\ o.user \in UserIds
    BY <1>3, <2>1 DEF SeedOrder, Submit, Funded
  <2>4. QED BY <2>2, <2>3, Zenon DEF SubmitStep
<1>4. ASSUME NEW user, NEW id, NEW side, CancelOrder(user, id, side) PROVE CancelStep
  BY <1>4 DEF CancelOrder, CanCall, MayCancel, CancelStep
<1>5. CASE AnyStep
  BY <1>1, <1>2, <1>3, <1>4, <1>5, Zenon DEF AnyStep, QuietStep
<1>6. QED BY <1>5

LEMMA BaseStep ==
  ASSUME OpTyped, OpTyped', EngineOk, EngineOk', BaseInv, [AnyStep]_vars PROVE BaseInv'
<1>1. CASE SubmitStep
  BY <1>1, SubmitBase DEF SubmitStep
<1>2. CASE CancelStep
  BY <1>2, CancelBase DEF CancelStep, Idle
<1>3. CASE QuietStep
  <2>1. op = Idle /\ UNCHANGED <<engineVars, orders, nextOrderId, op>>
    BY <1>3 DEF QuietStep, MakeUser, AddBalance, CanCall
  <2>2. UsersTyped' /\ UserIds \subseteq UserIds'
    BY <1>3, MakeUserTyped, AddBalanceTyped DEF QuietStep, BaseInv, Tables
  <2>3. QED BY <2>1, <2>2, QuietBase
<1>4. CASE EngineStep
  BY <1>4, EngineStepBase
<1>5. CASE Rollback
  BY <1>5, RollbackBase
<1>6. CASE Settle
  BY <1>6, SettleBase
<1>7. CASE Finish
  BY <1>7, FinishChanges
<1>8. CASE UNCHANGED vars
  <2>1. UNCHANGED E!engineVars /\ UNCHANGED <<users, orders, nextOrderId, op>>
    BY <1>8, SameEngine DEF vars, walletVars
  <2>2. Tables' /\ RunsCall' /\ PendingFair' /\ RefusalTradesNothing'
    BY <2>1 DEF BaseInv, Tables, UsersTyped, OrdersTyped, ExecutionsTyped, UserIds, RunsCall,
                PendingFair, Pending, RefusalTradesNothing, E!engineVars
  <2>3. Known'
    BY <2>1, EngineAssumed, E!SameLedger, UndisturbedFacts DEF BaseInv, Known, E!engineVars
  <2>4. QED BY <2>2, <2>3 DEF BaseInv
<1>9. QED BY <1>1, <1>2, <1>3, <1>4, <1>5, <1>6, <1>7, <1>8, StepKinds

LEMMA BaseInit == ASSUME Init, EngineOk PROVE BaseInv
<1>1. E!Init
  BY SameEngine DEF Init
<1>2. Tables
  <2>1. /\ users = SeedUsers /\ IsFiniteSet(DOMAIN SeedUsers)
        /\ DOMAIN SeedUsers = 0..Cardinality(DOMAIN SeedUsers)-1
    BY OrderBookAssumption DEF Init
  <2>2. SeedUsers \in [DOMAIN SeedUsers -> User]
    <3> DEFINE Seed == [name : {SeedUsers[u].name : u \in DOMAIN SeedUsers}, quote : Int,
                        base : 0..QtyMod-1, lockedQuote : {0}, lockedBase : {0}]
    <3>1. SeedUsers \in [DOMAIN SeedUsers -> Seed]
      BY OrderBookAssumption
    <3>2. 0 \in E!Qty /\ 0 \in Int /\ E!Qty = 0..QtyMod-1
          /\ {SeedUsers[u].name : u \in DOMAIN SeedUsers} \subseteq UserNames
      BY QtyModFacts DEF UserNames
    <3>3. Seed \subseteq User
      BY <3>2 DEF User
    <3> HIDE DEF Seed
    <3>4. QED BY <3>1, <3>3
  <2>3. orders = <<>> /\ executions = <<>> /\ nextOrderId = 1 /\ op = Idle
    BY <1>1 DEF Init, E!Init
  <2>4. QED BY <2>1, <2>2, <2>3, EmptySeq DEF Tables, UsersTyped, OrdersTyped, ExecutionsTyped, UserIds
<1>3. op = Idle /\ ~call.running /\ \A id \in E!Node : idToIdx[id] = E!kNil
  BY <1>1 DEF Init, E!Init, E!NoCall
<1>4. E!Resting = {}
  BY <1>3 DEF E!Resting
<1>5. QED BY <1>2, <1>3, <1>4 DEF BaseInv, RunsCall, Known, PendingFair, Pending,
                                  RefusalTradesNothing, Idle

LEMMA BaseAlways == AnySpec => []BaseInv
<1>1. Init /\ EngineOk => BaseInv
  BY BaseInit
<1>2. OpTyped /\ OpTyped' /\ EngineOk /\ EngineOk' /\ BaseInv /\ [AnyStep]_vars => BaseInv'
  BY BaseStep
<1>3. QED BY <1>1, <1>2, OpTypedAlways, EngineAlwaysOk, PTL DEF AnySpec

\* Every field keeps its type, base quantities stay in theirs, and the ids of
\* users and orders are handed out without a gap.
THEOREM TypeCorrect == Spec => []TypeOK
<1>1. OpTyped /\ EngineOk /\ BaseInv => TypeOK
  <2> SUFFICES ASSUME OpTyped, EngineOk, BaseInv PROVE TypeOK
    OBVIOUS
  <2>1. Engine!TypeOK /\ Engine!Qty = E!Qty
    BY SameEngine DEF EngineOk, E!EngineInv
  <2>2. \A u \in UserIds : /\ users[u].quote \in Int /\ users[u].lockedQuote \in Int
                           /\ users[u].base \in E!Qty /\ users[u].lockedBase \in E!Qty
    BY DEF BaseInv, Tables, UsersTyped, User
  <2>3. \A id \in 1..Len(orders) :
          /\ orders[id].user \in UserIds
          /\ orders[id].remaining \in E!Qty /\ orders[id].lockedBase \in E!Qty
          /\ orders[id].lockedQuote \in Int
    <3>1. \A id \in 1..Len(orders) : orders[id] \in Order /\ orders[id].user \in UserIds
      BY DEF BaseInv, Tables, OrdersTyped
    <3>2. QED BY <3>1 DEF Order
  <2>4. nextOrderId = Len(orders) + 1
    BY DEF BaseInv, Tables, OrdersTyped
  <2>5. op.phase \in {"idle", "matching", "refused", "settling"}
    BY DEF OpTyped, Idle, Underway
  <2>6. QED BY <2>1, <2>2, <2>3, <2>4, <2>5 DEF TypeOK
<1>2. QED BY <1>1, SpecIsAny, OpTypedAlways, EngineAlwaysOk, BaseAlways, PTL

\* A submission that the engine refuses has traded nothing: nothing that
\* Rollback undoes has left the book.  The engine always finds a node for the
\* rest of a taker, because ids are new and id 0 is never used.
THEOREM RefusalsTradeNothing == Spec => []RefusalTradesNothing
BY SpecIsAny, BaseAlways, PTL DEF BaseInv

------------------------------------------------------------------------------
(***************************************************************************)
(* The books agree.  What the wrapper has left of an order is what the     *)
(* engine has left of it, plus what trades that are not settled yet take   *)
(* from it, plus, for the taker, what the engine is still to match.        *)
(***************************************************************************)
\* What the executions of x take from order id, from the n-th one on.
Taken(x, n, id, taker) ==
  SumFunctionOnSet([k \in 1..Len(x) |-> x[k].qty],
                   {k \in n..Len(x) : x[k].maker = id \/ taker = id})
Share(e, id, taker) == IF e.maker = id \/ taker = id THEN e.qty ELSE 0

LEMMA TakenFacts ==
  ASSUME NEW x \in Seq(Execution), NEW n \in Nat \ {0}, NEW id, NEW taker
  PROVE  /\ Taken(x, n, id, taker) \in Nat
         /\ n > Len(x) => Taken(x, n, id, taker) = 0
         /\ n <= Len(x) =>
              Taken(x, n, id, taker) = Taken(x, n + 1, id, taker) + Share(x[n], id, taker)
<1> DEFINE f == [k \in 1..Len(x) |-> x[k].qty]
           S(m) == {k \in m..Len(x) : x[k].maker = id \/ taker = id}
<1>1. \A k \in 1..Len(x) : f[k] \in 0..QtyMod-1 /\ f[k] \in Int /\ f[k] = x[k].qty
  <2>1. \A k \in 1..Len(x) : x[k] \in Execution
    OBVIOUS
  <2>2. QED BY <2>1, QtyModFacts DEF Execution
<1>2. \A m \in Nat \ {0} : /\ IsFiniteSet(S(m)) /\ S(m) \subseteq 1..Len(x)
                           /\ Cardinality(S(m)) \in Nat
  <2>1. ASSUME NEW m \in Nat \ {0}
        PROVE  IsFiniteSet(S(m)) /\ S(m) \subseteq 1..Len(x)
    <3>1. IsFiniteSet(1..Len(x)) /\ S(m) \subseteq 1..Len(x)
      BY FS_Interval
    <3>2. QED BY <3>1, FS_Subset
  <2>2. QED BY <2>1, FS_CardinalityType
<1>3. \A m \in Nat \ {0} : Taken(x, m, id, taker) = SumFunctionOnSet(f, S(m))
  BY DEF Taken
<1>4. n + 1 \in Nat \ {0} /\ QtyMod - 1 \in Nat
  BY QtyModFacts
<1>5. n > Len(x) => S(n) = {}
  OBVIOUS
<1>6. n <= Len(x) => S(n) = IF x[n].maker = id \/ taker = id THEN S(n+1) \cup {n} ELSE S(n+1)
  OBVIOUS
<1>7. n \notin S(n+1)
  OBVIOUS
<1> HIDE DEF f, S
<1>8. Taken(x, n, id, taker) \in Nat
  <2>1. SumFunctionOnSet(f, S(n)) \in 0..Cardinality(S(n)) * (QtyMod - 1)
    <3>1. IsFiniteSet(S(n)) /\ \A k \in S(n) : f[k] \in 0..QtyMod-1
      BY <1>1, <1>2
    <3>2. QED BY <1>4, <3>1, SumBounds
  <2>2. QED BY <1>3, <2>1
<1>9. n > Len(x) => Taken(x, n, id, taker) = 0
  BY <1>3, <1>5, SumEmpty
<1>10. ASSUME n <= Len(x)
       PROVE  Taken(x, n, id, taker) = Taken(x, n + 1, id, taker) + Share(x[n], id, taker)
  <2>1. n \in 1..Len(x) /\ f[n] \in Int /\ f[n] = x[n].qty
    BY <1>1, <1>10
  <2>2. CASE x[n].maker = id \/ taker = id
    <3>1. S(n) = S(n+1) \cup {n}
      BY <1>6, <1>10, <2>2
    <3>2. IsFiniteSet(S(n+1)) /\ \A k \in S(n+1) : f[k] \in Int
      BY <1>1, <1>2, <1>4
    <3>3. SumFunctionOnSet(f, S(n+1) \cup {n}) = SumFunctionOnSet(f, S(n+1)) + f[n]
      BY <1>7, <2>1, <3>2, SumAdd
    <3>4. QED BY <1>3, <1>4, <2>1, <2>2, <3>1, <3>3 DEF Share
  <2>3. CASE ~(x[n].maker = id \/ taker = id)
    <3>1. S(n) = S(n+1)
      BY <1>6, <1>10, <2>3
    <3>2. SumFunctionOnSet(f, S(n+1)) \in Int
      <4>1. IsFiniteSet(S(n+1)) /\ \A k \in S(n+1) : f[k] \in Int
        BY <1>1, <1>2, <1>4
      <4>2. QED BY <4>1, SumTake
    <3>3. QED BY <1>3, <1>4, <2>3, <3>1, <3>2 DEF Share
  <2>4. QED BY <2>2, <2>3
<1>11. QED BY <1>8, <1>9, <1>10

LEMMA TakenNone ==
  ASSUME NEW x \in Seq(Execution), NEW n \in Nat \ {0}, n > Len(x), NEW id, NEW taker
  PROVE  Taken(x, n, id, taker) = 0
BY TakenFacts

LEMMA TakenAppends ==
  ASSUME NEW x \in Seq(Execution), NEW e \in Execution, NEW id, NEW taker
  PROVE  Taken(Append(x, e), 1, id, taker) = Taken(x, 1, id, taker) + Share(e, id, taker)
<1> DEFINE y == Append(x, e)
           n == Len(x) + 1
           f == [k \in 1..Len(x) |-> x[k].qty]
           g == [k \in 1..Len(y) |-> y[k].qty]
           S == {k \in 1..Len(x) : x[k].maker = id \/ taker = id}
           T == {k \in 1..Len(y) : y[k].maker = id \/ taker = id}
<1>1. /\ y \in Seq(Execution) /\ Len(y) = n /\ y[n] = e /\ n \in 1..Len(y)
      /\ \A k \in 1..Len(x) : y[k] = x[k] /\ k \in 1..Len(y)
  BY AppendProperties
<1> HIDE DEF y
<1>2. \A k \in 1..Len(x) : x[k] \in Execution
  OBVIOUS
<1>3. /\ \A k \in 1..Len(x) : f[k] = g[k] /\ g[k] \in Int
      /\ g[n] = e.qty /\ g[n] \in Int
  <2>1. e.qty \in Int /\ \A k \in 1..Len(x) : x[k].qty \in Int
    BY <1>2, QtyModFacts DEF Execution
  <2>2. QED BY <1>1, <2>1
<1>4. IsFiniteSet(S) /\ S \subseteq 1..Len(x) /\ n \notin S
  <2>1. IsFiniteSet(1..Len(x)) /\ S \subseteq 1..Len(x)
    BY FS_Interval
  <2>2. QED BY <2>1, FS_Subset
<1>5. T = IF e.maker = id \/ taker = id THEN S \cup {n} ELSE S
  BY <1>1
<1>6. Taken(x, 1, id, taker) = SumFunctionOnSet(f, S) /\ Taken(y, 1, id, taker) = SumFunctionOnSet(g, T)
  BY DEF Taken
<1> HIDE DEF f, g, S, T, n
<1>7. SumFunctionOnSet(f, S) = SumFunctionOnSet(g, S) /\ SumFunctionOnSet(g, S) \in Int
  <2>1. IsFiniteSet(S) /\ (\A k \in S : f[k] = g[k]) /\ (\A k \in S : g[k] \in Int)
    BY <1>3, <1>4
  <2>2. QED BY <2>1, SumSame, SumTake
<1>8. SumFunctionOnSet(g, S \cup {n}) = SumFunctionOnSet(g, S) + g[n]
  <2>1. IsFiniteSet(S) /\ (\A k \in S : g[k] \in Int) /\ n \notin S /\ g[n] \in Int
    BY <1>3, <1>4
  <2>2. QED BY <2>1, SumAdd
<1>9. QED BY <1>3, <1>5, <1>6, <1>7, <1>8 DEF Share, y

Unsettled(id) == IF op = Idle THEN 0 ELSE Taken(executions, op.next, id, op.id)
Unmatched(id) == IF op.phase = "matching" /\ op.id = id THEN call.remaining ELSE 0
Agrees(id) ==
  /\ orders[id].active <=> orders[id].remaining # 0
  /\ ~(op.phase = "refused" /\ op.id = id) =>
       orders[id].remaining = E!Left(id) + Unsettled(id) + Unmatched(id)
Synced == \A id \in 1..Len(orders) : Agrees(id)

LEMMA SyncFacts ==
  ASSUME OpTyped, BaseInv, EngineOk, NEW id \in 1..Len(orders)
  PROVE  /\ Unsettled(id) \in Nat /\ Unmatched(id) \in Nat /\ E!Left(id) \in Nat
         /\ orders[id].remaining \in 0..QtyMod-1
         /\ op = Idle => Unsettled(id) = 0 /\ Unmatched(id) = 0
<1>1. op # Idle => Unsettled(id) \in Nat
  <2>1. executions \in Seq(Execution) /\ (op # Idle => op.next \in Nat \ {0})
    BY DEF BaseInv, Tables, ExecutionsTyped
  <2>2. op # Idle => Taken(executions, op.next, id, op.id) \in Nat
    BY <2>1, TakenFacts
  <2>3. QED BY <2>2 DEF Unsettled
<1>2. Unmatched(id) \in Nat
  <2>1. call.remaining \in E!Qty
    BY DEF EngineOk, E!EngineInv, E!TypeOK
  <2>2. QED BY <2>1, QtyModFacts DEF Unmatched
<1>3. E!Left(id) \in Nat
  BY Ledger, QtyModFacts DEF LedgerOk
<1>4. orders[id].remaining \in 0..QtyMod-1
  <2>1. orders[id] \in Order
    BY DEF BaseInv, Tables, OrdersTyped
  <2>2. QED BY <2>1, QtyModFacts DEF Order
<1>5. QED BY <1>1, <1>2, <1>3, <1>4 DEF Unsettled, Unmatched, Idle

\* An order that the engine has not touched, while nothing of it was settled.
LEMMA AgreesKept ==
  ASSUME OpTyped, OpTyped', BaseInv, BaseInv', EngineOk, EngineOk', NEW id \in 1..Len(orders),
         Agrees(id), E!Undisturbed(id), orders'[id] = orders[id],
         Unsettled(id)' = Unsettled(id), Unmatched(id)' = Unmatched(id),
         op.phase = "refused" => op.id # id
  PROVE  Agrees(id)'
<1>1. E!Left(id)' = E!Left(id)
  BY DEF E!Undisturbed
<1>2. QED BY <1>1 DEF Agrees

\* An order that is forgotten while the engine holds nothing of it.
LEMMA AgreesForgotten ==
  ASSUME OpTyped', BaseInv', EngineOk', NEW id \in 1..Len(orders), id \in 1..Len(orders'),
         op' = Idle, Tables, orders' = [orders EXCEPT ![id] = Forgotten(@)], id \notin E!Resting'
  PROVE  Agrees(id)'
<1>1. orders[id] \in Order /\ orders'[id] = Forgotten(orders[id])
  BY DEF Tables, OrdersTyped
<1>2. ~orders'[id].active /\ orders'[id].remaining = 0
  BY <1>1 DEF Forgotten, Order
<1>3. LedgerOk'
  BY Ledger, PTL
<1>4. E!Left(id)' = 0
  BY <1>3 DEF LedgerOk
<1>5. Unsettled(id)' = 0 /\ Unmatched(id)' = 0
  BY DEF Unsettled, Unmatched, Idle
<1>6. QED BY <1>2, <1>4, <1>5 DEF Agrees

LEMMA SubmitSync ==
  ASSUME OpTyped, OpTyped', BaseInv, BaseInv', EngineOk, EngineOk', Synced, SubmitStep
  PROVE  Synced'
<1>1. PICK user \in UserIds, side \in Sides, price \in Int, qty \in 0..QtyMod-1, discard \in BOOLEAN :
        op = Idle /\ Submit(user, side, price, qty, discard)
  BY DEF SubmitStep
<1>2. PICK id : id = Len(orders) + 1
  OBVIOUS
<1>3. PICK o : o = NewOrder(user, side, price, qty)
  OBVIOUS
<1>4. /\ o \in Order /\ qty # 0 /\ orders' = Append(orders, o)
      /\ executions' = <<>> /\ op'.id = id /\ op'.next = 1 /\ op' # Idle
      /\ \/ op'.phase = "matching" /\ E!ProcessOrder(side, price, qty, id)
         \/ op'.phase = "refused" /\ E!RefuseOrder(price, qty, id)
  BY <1>1, <1>2, <1>3, SubmitChanges DEF BaseInv, Tables, OrdersTyped
<1>5. o.active /\ o.remaining = qty
  BY <1>3 DEF NewOrder
<1>6. /\ orders \in Seq(Order) /\ Len(orders') = id /\ orders'[id] = o
      /\ \A j \in 1..Len(orders) : orders'[j] = orders[j]
  BY <1>2, <1>4, AppendProperties DEF BaseInv, Tables, OrdersTyped
<1>7. \A j : E!Undisturbed(j)
  <2>1. UNCHANGED <<E!nodeVars, E!poolVars>>
    BY <1>4 DEF E!ProcessOrder, E!RefuseOrder
  <2>2. QED BY <2>1, EngineAssumed, E!SameLedger
<1>8. \A j : Unsettled(j)' = 0
  <2>1. PICK x \in Seq(Execution) : x = <<>> /\ Len(x) = 0
    BY EmptySeq
  <2>2. ASSUME NEW j PROVE Unsettled(j)' = 0
    <3>1. PICK t : t = op'.id
      OBVIOUS
    <3>2. Taken(x, 1, j, t) = 0
      <4>1. PICK n : n = 1
        OBVIOUS
      <4>2. x \in Seq(Execution) /\ n \in Nat \ {0} /\ n > Len(x)
        BY <2>1, <4>1
      <4>3. Taken(x, n, j, t) = 0
        BY ONLY <4>2, TakenNone
      <4>4. QED BY <4>1, <4>3
    <3>3. QED BY <1>4, <2>1, <3>1, <3>2 DEF Unsettled
  <2>3. QED BY <2>2
<1>9. ASSUME NEW j \in 1..Len(orders) PROVE Agrees(j)'
  <2>1. Unsettled(j) = 0 /\ Unmatched(j) = 0
    BY <1>1, SyncFacts
  <2>2. Unmatched(j)' = 0
    BY <1>2, <1>4, <1>6 DEF Unmatched
  <2>3. op.phase # "refused"
    BY <1>1 DEF Idle
  <2>4. QED BY <1>6, <1>7, <1>8, <2>1, <2>2, <2>3, AgreesKept DEF Synced
<1>10. Agrees(id)'
  <2>1. E!Left(id)' = 0
    <3>1. id \notin E!Resting
      BY <1>2, <1>6 DEF BaseInv, Known
    <3>2. E!Left(id) = 0
      BY <3>1, Ledger DEF LedgerOk
    <3>3. QED BY <1>7, <3>2 DEF E!Undisturbed
  <2>2. op'.phase # "refused" => Unmatched(id)' = qty
    BY <1>4 DEF Unmatched, E!ProcessOrder
  <2>3. QED BY <1>4, <1>5, <1>6, <1>8, <2>1, <2>2 DEF Agrees
<1>11. QED BY <1>2, <1>6, <1>9, <1>10 DEF Synced

LEMMA EngineStepSync ==
  ASSUME OpTyped, OpTyped', BaseInv, BaseInv', EngineOk, EngineOk', Synced, EngineStep
  PROVE  Synced'
<1>1. /\ op.phase = "matching" /\ op # Idle /\ op' # Idle /\ op'.id = op.id /\ op'.next = 1
      /\ UNCHANGED <<users, orders, nextOrderId, seeding>>
      /\ \/ Passes
         \/ \E id \in E!Resting, qty \in Nat \ {0} : TakesFrom(id, qty)
         \/ \E id : RestsAs(id)
  BY EngineStepCases
<1>2. PICK t : t = op.id
  OBVIOUS
<1>3. /\ op.next = 1 /\ t \in 1..Len(orders) /\ t \notin E!Resting
      /\ executions \in Seq(Execution) /\ call.remaining \in Int
  <2>1. call.remaining \in E!Qty
    BY DEF EngineOk, E!EngineInv, E!TypeOK
  <2>2. QED BY <1>1, <1>2, <2>1, QtyModFacts
            DEF BaseInv, RunsCall, Known, Tables, OrdersTyped, ExecutionsTyped
<1>4. SUFFICES ASSUME NEW j \in 1..Len(orders) PROVE Agrees(j)'
  BY <1>1 DEF Synced
<1>5. /\ Agrees(j) /\ Unsettled(j) = Taken(executions, 1, j, t) /\ Unsettled(j) \in Nat
      /\ Unmatched(j) \in Nat /\ E!Left(j) \in Nat
  BY <1>1, <1>2, <1>3, SyncFacts DEF Synced, Unsettled
<1>6. Unsettled(j)' = Taken(executions', 1, j, t)
  BY <1>1, <1>2 DEF Unsettled
<1>7. /\ Unmatched(j) = IF j = t THEN call.remaining ELSE 0
      /\ Unmatched(j)' = IF op'.phase = "matching" /\ j = t THEN call'.remaining ELSE 0
  BY <1>1, <1>2 DEF Unmatched
<1>8. /\ orders[j].active <=> orders[j].remaining # 0
      /\ orders[j].remaining = E!Left(j) + Unsettled(j) + Unmatched(j)
  BY <1>1, <1>5 DEF Agrees
<1>9. SUFFICES E!Left(j)' + Unsettled(j)' + Unmatched(j)' = E!Left(j) + Unsettled(j) + Unmatched(j)
  BY <1>1, <1>8 DEF Agrees
<1>10. CASE Passes
  <2>1. op' = op /\ call' = call /\ executions' = executions /\ UNCHANGED <<E!nodeVars, E!poolVars>>
    BY <1>10 DEF Passes
  <2>2. E!Left(j)' = E!Left(j)
    BY <2>1, EngineAssumed, E!SameLedger DEF E!Undisturbed
  <2>3. QED BY <1>1, <1>5, <1>6, <1>7, <2>1, <2>2
<1>11. ASSUME NEW id \in E!Resting, NEW qty \in Nat \ {0}, TakesFrom(id, qty)
       PROVE  E!Left(j)' + Unsettled(j)' + Unmatched(j)' = E!Left(j) + Unsettled(j) + Unmatched(j)
  <2> DEFINE e == [maker |-> id, price |-> E!PriceAt(id), qty |-> qty]
  <2>1. /\ id # t /\ executions' = Append(executions, e)
        /\ E!Left(id)' = E!Left(id) - qty
        /\ j # id => E!Undisturbed(j)
    BY <1>2, <1>11 DEF TakesFrom, E!Trades
  <2>2. e \in Execution
    <3>1. executions' \in Seq(Execution) /\ executions'[Len(executions) + 1] = e
          /\ Len(executions) + 1 \in 1..Len(executions')
      BY <1>3, <2>1 DEF BaseInv, Tables, ExecutionsTyped
    <3>2. QED BY <3>1
  <2>3. Share(e, j, t) = IF j = id \/ j = t THEN qty ELSE 0
    BY DEF Share
  <2> HIDE DEF e
  <2>4. Taken(executions', 1, j, t) = Taken(executions, 1, j, t) + Share(e, j, t)
    BY <1>3, <2>1, <2>2, TakenAppends
  <2>5. Unsettled(j)' = Unsettled(j) + Share(e, j, t)
    BY <1>5, <1>6, <2>4
  <2>6. /\ op'.phase = "matching" => call'.remaining = call.remaining - qty
        /\ op'.phase # "matching" => qty = call.remaining
    BY <1>11 DEF TakesFrom
  <2>7. CASE j = id
    BY <1>5, <1>7, <2>1, <2>3, <2>5, <2>7
  <2>8. CASE j = t
    <3>1. E!Left(j)' = E!Left(j)
      BY <2>1, <2>8 DEF E!Undisturbed
    <3>2. QED BY <1>3, <1>5, <1>7, <2>3, <2>5, <2>6, <2>8, <3>1
  <2>9. CASE j # id /\ j # t
    <3>1. E!Left(j)' = E!Left(j)
      BY <2>1, <2>9 DEF E!Undisturbed
    <3>2. QED BY <1>5, <1>7, <2>3, <2>5, <2>9, <3>1
  <2>10. QED BY <2>7, <2>8, <2>9
<1>12. ASSUME NEW id, RestsAs(id)
       PROVE  E!Left(j)' + Unsettled(j)' + Unmatched(j)' = E!Left(j) + Unsettled(j) + Unmatched(j)
  <2>1. /\ id = t /\ E!Left(id)' = call.remaining /\ op'.phase = "settling"
        /\ executions' = executions /\ (j # id => E!Undisturbed(j))
    BY <1>2, <1>12 DEF RestsAs
  <2>2. CASE j = t
    <3>1. E!Left(j) = 0
      BY <1>3, <2>2, Ledger DEF LedgerOk
    <3>2. QED BY <1>3, <1>5, <1>6, <1>7, <2>1, <2>2, <3>1
  <2>3. CASE j # t
    <3>1. E!Left(j)' = E!Left(j)
      BY <2>1, <2>3 DEF E!Undisturbed
    <3>2. QED BY <1>5, <1>6, <1>7, <2>1, <2>3, <3>1
  <2>4. QED BY <2>2, <2>3
<1>13. QED BY <1>1, <1>10, <1>11, <1>12

LEMMA RollbackSync ==
  ASSUME OpTyped, OpTyped', BaseInv, BaseInv', EngineOk, EngineOk', Synced, Rollback
  PROVE  Synced'
<1>1. /\ Releases(op.id) /\ op.phase = "refused" /\ op # Idle /\ op' = Idle
      /\ UNCHANGED E!engineVars
  BY RollbackBase, IdleFacts
<1>2. PICK t : t = op.id
  OBVIOUS
<1>3. /\ t \in 1..Len(orders) /\ t \notin E!Resting /\ executions = <<>> /\ Tables
      /\ op.next \in Nat \ {0}
  BY <1>1, <1>2 DEF BaseInv, Known, RefusalTradesNothing, Tables, OrdersTyped, ExecutionsTyped
<1>4. /\ orders' = [orders EXCEPT ![t] = Forgotten(@)] /\ Len(orders') = Len(orders)
      /\ \A j \in 1..Len(orders) : j # t => orders'[j] = orders[j]
  BY <1>1, <1>2, <1>3 DEF Releases, Tables, OrdersTyped
<1>5. \A j : E!Undisturbed(j)
  BY <1>1, EngineAssumed, E!SameLedger DEF E!engineVars
<1>6. Agrees(t)'
  <2>1. t \notin E!Resting'
    BY <1>3, <1>5, UndisturbedFacts
  <2>2. QED BY <1>1, <1>3, <1>4, <2>1, AgreesForgotten
<1>7. ASSUME NEW j \in 1..Len(orders), j # t PROVE Agrees(j)'
  <2>1. Unsettled(j)' = 0 /\ Unmatched(j)' = 0 /\ Unmatched(j) = 0
    BY <1>1 DEF Unsettled, Unmatched, Idle
  <2>2. Unsettled(j) = 0
    <3>1. PICK x, n : x = executions /\ n = op.next
      OBVIOUS
    <3>2. x \in Seq(Execution) /\ n \in Nat \ {0} /\ n > Len(x)
      <4>1. executions \in Seq(Execution) /\ Len(executions) = 0
        BY <1>3, EmptySeq
      <4>2. QED BY <1>3, <3>1, <4>1
    <3>3. Taken(x, n, j, t) = 0
      BY <3>2, TakenNone
    <3>4. QED BY <1>1, <1>2, <3>1, <3>3 DEF Unsettled
  <2>3. QED BY <1>2, <1>4, <1>5, <1>7, <2>1, <2>2, AgreesKept DEF Synced
<1>8. QED BY <1>4, <1>6, <1>7 DEF Synced

\* A trade that is to be settled finds its maker and its taker active, with
\* enough left of each.
LEMMA SettleFinds ==
  ASSUME OpTyped, BaseInv, EngineOk, Synced, op.phase = "settling", op # Idle,
         op.next \in 1..Len(executions)
  PROVE  LET e == executions[op.next]
         IN /\ e \in Execution /\ e.qty \in Nat \ {0} /\ e.maker \in 1..Len(orders) /\ e.maker # op.id
            /\ op.id \in 1..Len(orders)
            /\ \A id \in {e.maker, op.id} :
                 /\ orders[id].active /\ orders[id].remaining >= e.qty
<1>1. PICK e : e = executions[op.next]
  OBVIOUS
<1>2. executions \in Seq(Execution) /\ op.next \in Nat \ {0} /\ op.id \in 1..Len(orders)
  BY DEF BaseInv, Tables, OrdersTyped, ExecutionsTyped
<1>3. e \in Execution /\ Fair(e, orders, op.id)
  <2>1. op.next \in Pending
    BY <1>2 DEF Pending
  <2>2. QED BY <1>1, <1>2, <2>1 DEF BaseInv, PendingFair
<1>4. e.qty \in Nat \ {0} /\ e.maker \in 1..Len(orders) /\ e.maker # op.id
  <2>1. e.qty \in Nat
    BY <1>3, QtyModFacts DEF Execution
  <2>2. QED BY <1>3, <2>1 DEF Fair
<1>5. ASSUME NEW id \in {e.maker, op.id}
      PROVE  orders[id].active /\ orders[id].remaining >= e.qty
  <2>1. id \in 1..Len(orders)
    BY <1>2, <1>4
  <2>2. /\ Agrees(id) /\ Unmatched(id) \in Nat /\ E!Left(id) \in Nat /\ orders[id].remaining \in Int
    BY <2>1, SyncFacts DEF Synced
  <2>3. Unsettled(id) = Taken(executions, op.next + 1, id, op.id) + e.qty
    <3>1. Taken(executions, op.next, id, op.id) =
            Taken(executions, op.next + 1, id, op.id) + Share(executions[op.next], id, op.id)
      BY <1>2, TakenFacts
    <3>2. Share(e, id, op.id) = e.qty
      BY DEF Share
    <3>3. QED BY <1>1, <3>1, <3>2 DEF Unsettled
  <2>4. Taken(executions, op.next + 1, id, op.id) \in Nat
    <3>1. op.next + 1 \in Nat \ {0}
      BY <1>2
    <3>2. QED BY <1>2, <3>1, TakenFacts
  <2>5. orders[id].remaining >= e.qty
    BY <1>4, <2>2, <2>3, <2>4 DEF Agrees
  <2>6. QED BY <1>4, <2>2, <2>5 DEF Agrees
<1>6. QED BY <1>1, <1>2, <1>3, <1>4, <1>5

\* What settling takes from an order is exact: nothing wraps.
LEMMA FilledExact ==
  ASSUME NEW o \in Order, NEW price \in Int, NEW qty \in Nat, o.remaining >= qty
  PROVE  LET f == Filled(o, price, qty)
         IN f.remaining = o.remaining - qty /\ (f.active <=> f.remaining # 0)
<1>1. o.remaining \in 0..QtyMod-1
  BY QtyModFacts DEF Order
<1>2. o.remaining - qty \in 0..QtyMod-1
  BY <1>1, QtyModFacts
<1>3. (o.remaining - qty) % QtyMod = o.remaining - qty
  BY <1>2, QtyModFacts, ModSmall
<1>4. PICK r : r = (o.remaining - qty) % QtyMod
  OBVIOUS
<1>5. Filled(o, price, qty).remaining = r /\ Filled(o, price, qty).active = (r # 0)
  BY <1>4 DEF Filled, StaysActive, Order, Unlocked
<1>6. QED BY <1>3, <1>4, <1>5

LEMMA SettleSync ==
  ASSUME OpTyped, OpTyped', BaseInv, BaseInv', EngineOk, EngineOk', Synced, Settle
  PROVE  Synced'
<1>1. /\ UNCHANGED E!engineVars /\ op # Idle /\ op' # Idle
      /\ op.phase = "settling" /\ op'.phase = "settling" /\ op'.id = op.id
      /\ op.next \in 1..Len(executions) /\ op'.next = op.next + 1
      /\ IF orders[executions[op.next].maker].active THEN Settles(op.next)
         ELSE UNCHANGED <<orders, users>>
  BY SettleBase
<1>2. PICK e, t, n : e = executions[op.next] /\ t = op.id /\ n = op.next
  OBVIOUS
<1>3. /\ e \in Execution /\ e.qty \in Nat \ {0} /\ e.maker \in 1..Len(orders) /\ e.maker # t
      /\ t \in 1..Len(orders)
      /\ \A id \in {e.maker, t} : orders[id].active /\ orders[id].remaining >= e.qty
  BY <1>1, <1>2, SettleFinds
<1>4. orders' = [orders EXCEPT ![e.maker] = Filled(orders[e.maker], e.price, e.qty),
                               ![t] = Filled(orders[t], e.price, e.qty)]
  BY <1>1, <1>2, <1>3 DEF Settles
<1>5. orders \in Seq(Order) /\ executions \in Seq(Execution) /\ n \in Nat \ {0} /\ n <= Len(executions)
  BY <1>1, <1>2 DEF BaseInv, Tables, OrdersTyped, ExecutionsTyped
<1>6. /\ Len(orders') = Len(orders)
      /\ \A j \in 1..Len(orders) :
           orders'[j] = IF j = e.maker \/ j = t THEN Filled(orders[j], e.price, e.qty) ELSE orders[j]
  BY <1>3, <1>4, <1>5
<1>7. ASSUME NEW j \in 1..Len(orders) PROVE Agrees(j)'
  <2>1. /\ Agrees(j) /\ E!Left(j)' = E!Left(j) /\ Unmatched(j) = 0 /\ Unmatched(j)' = 0
        /\ E!Left(j) \in Nat /\ orders[j].remaining \in Int
    BY <1>1, SyncFacts, EngineAssumed, E!SameLedger DEF Synced, Unmatched, E!Undisturbed, E!engineVars
  <2>2. /\ Unsettled(j) = Taken(executions, n, j, t)
        /\ Unsettled(j)' = Taken(executions, n + 1, j, t)
    BY <1>1, <1>2 DEF Unsettled, E!engineVars
  <2>3. Unsettled(j) = Unsettled(j)' + Share(e, j, t) /\ Unsettled(j) \in Int /\ Unsettled(j)' \in Int
    <3>1. Taken(executions, n, j, t) = Taken(executions, n + 1, j, t) + Share(e, j, t)
          /\ Taken(executions, n, j, t) \in Nat
      BY <1>2, <1>5, TakenFacts
    <3>2. n + 1 \in Nat \ {0}
      BY <1>5
    <3>3. Taken(executions, n + 1, j, t) \in Nat
      BY <1>5, <3>2, TakenFacts
    <3>4. QED BY <2>2, <3>1, <3>3
  <2>4. Share(e, j, t) = IF j = e.maker \/ j = t THEN e.qty ELSE 0
    BY DEF Share
  <2>5. CASE j = e.maker \/ j = t
    <3>1. orders[j] \in Order /\ e.price \in Int /\ orders[j].remaining >= e.qty
      BY <1>3, <1>5, <2>5 DEF Execution
    <3>2. orders'[j].remaining = orders[j].remaining - e.qty
          /\ (orders'[j].active <=> orders'[j].remaining # 0)
      BY <1>3, <1>6, <2>5, <3>1, FilledExact
    <3>3. QED BY <1>1, <1>3, <2>1, <2>3, <2>4, <2>5, <3>2 DEF Agrees
  <2>6. CASE ~(j = e.maker \/ j = t)
    <3>1. orders'[j] = orders[j]
      BY <1>6, <2>6
    <3>2. Unsettled(j)' = Unsettled(j)
      BY <2>3, <2>4, <2>6
    <3>3. E!Undisturbed(j)
      BY <1>1, EngineAssumed, E!SameLedger DEF E!engineVars
    <3>4. Unmatched(j)' = Unmatched(j) /\ (op.phase = "refused" => op.id # j)
      BY <1>1, <2>1
    <3>5. QED BY <2>1, <3>1, <3>2, <3>3, <3>4, AgreesKept
  <2>7. QED BY <2>5, <2>6
<1>8. QED BY <1>6, <1>7 DEF Synced

\* Cancelling an order that is live, once every trade is settled.
LEMMA CancelActiveSync ==
  ASSUME OpTyped, OpTyped', BaseInv, BaseInv', EngineOk, EngineOk', Synced,
         NEW id \in 1..Len(orders), orders[id].active, CancelActive(id), op' = Idle,
         UNCHANGED nextOrderId, op.phase \in {"idle", "settling"},
         \A j : Unsettled(j) = 0
  PROVE  Synced' /\ Releases(id) /\ id \notin E!Resting' /\ ~orders'[id].active
<1>1. \A j : Unmatched(j) = 0 /\ Unmatched(j)' = 0 /\ Unsettled(j)' = 0
  BY DEF Unmatched, Unsettled, Idle
<1>2. id \in E!Resting
  <2>1. /\ E!Left(id) \in Nat /\ Agrees(id) /\ Unsettled(id) = 0 /\ Unmatched(id) = 0
    BY <1>1, SyncFacts DEF Synced
  <2>2. orders[id].remaining = E!Left(id) /\ orders[id].remaining # 0
    BY <2>1 DEF Agrees
  <2>3. QED BY <2>2, Ledger DEF LedgerOk
<1>3. /\ id \notin E!Resting' /\ (\A j : j # id => E!Undisturbed(j)) /\ Releases(id)
  <2>1. op.phase # "matching"
    OBVIOUS
  <2>2. QED BY <1>2, <2>1, CancelBase
<1>4. /\ orders \in Seq(Order) /\ orders' = [orders EXCEPT ![id] = Forgotten(@)]
      /\ Len(orders') = Len(orders) /\ orders'[id] = Forgotten(orders[id])
      /\ \A j \in 1..Len(orders) : j # id => orders'[j] = orders[j]
  BY <1>3 DEF Releases, BaseInv, Tables, OrdersTyped
<1>5. Agrees(id)'
  <2>1. id \in 1..Len(orders') /\ Tables
    BY <1>4 DEF BaseInv
  <2>2. QED BY <1>3, <1>4, <2>1, AgreesForgotten
<1>6. ASSUME NEW j \in 1..Len(orders), j # id PROVE Agrees(j)'
  <2>1. /\ Agrees(j) /\ E!Undisturbed(j) /\ orders'[j] = orders[j] /\ op.phase # "refused"
        /\ Unsettled(j)' = Unsettled(j) /\ Unmatched(j)' = Unmatched(j)
    BY <1>1, <1>3, <1>4, <1>6 DEF Synced
  <2>2. QED BY <2>1, AgreesKept
<1>7. ~orders'[id].active
  <2>1. orders[id] \in Order
    BY <1>4
  <2>2. QED BY <1>4, <2>1 DEF Forgotten, Order
<1>8. QED BY <1>3, <1>4, <1>5, <1>6, <1>7 DEF Synced

\* A step that leaves the orders and the engine as they are, and no trade pending.
LEMMA UnchangedSync ==
  ASSUME OpTyped, OpTyped', BaseInv, BaseInv', EngineOk, EngineOk', Synced,
         UNCHANGED orders, UNCHANGED E!engineVars, op.phase # "refused",
         \A j : Unsettled(j)' = Unsettled(j) /\ Unmatched(j)' = Unmatched(j)
  PROVE  Synced'
<1>1. ASSUME NEW j \in 1..Len(orders) PROVE Agrees(j)'
  <2>1. Agrees(j) /\ E!Undisturbed(j) /\ orders'[j] = orders[j]
    BY EngineAssumed, E!SameLedger DEF Synced, E!engineVars
  <2>2. QED BY <2>1, AgreesKept
<1>2. QED BY <1>1 DEF Synced

LEMMA IdleSettled == ASSUME op = Idle PROVE \A j : Unsettled(j) = 0 /\ Unmatched(j) = 0
BY DEF Unsettled, Unmatched, Idle

\* At the end of a submission every trade is settled.
LEMMA FinishSettled ==
  ASSUME OpTyped, BaseInv, op # Idle, op.phase = "settling", op.next > Len(executions)
  PROVE  \A j : Unsettled(j) = 0 /\ Unmatched(j) = 0
<1>1. PICK n, t : n = op.next /\ t = op.id
  OBVIOUS
<1>2. executions \in Seq(Execution) /\ n \in Nat \ {0} /\ n > Len(executions)
  BY <1>1 DEF BaseInv, Tables, ExecutionsTyped
<1>3. ASSUME NEW j PROVE Unsettled(j) = 0
  <2>1. Taken(executions, n, j, t) = 0
    BY <1>2, TakenNone
  <2>2. QED BY <1>1, <2>1 DEF Unsettled
<1>4. QED BY <1>3 DEF Unmatched

LEMMA FinishSync ==
  ASSUME OpTyped, OpTyped', BaseInv, BaseInv', EngineOk, EngineOk', Synced, Finish
  PROVE  /\ Synced'
         /\ op.discard /\ orders[op.id].active => Releases(op.id)
         /\ op.discard => op.id \notin E!Resting' /\ ~orders'[op.id].active
<1>1. PICK id : id = op.id
  OBVIOUS
<1>2. /\ op.phase = "settling" /\ op # Idle /\ op' = Idle /\ op.next > Len(executions)
      /\ id \in 1..Len(orders) /\ UNCHANGED nextOrderId
      /\ IF op.discard /\ orders[id].active THEN CancelActive(id)
         ELSE UNCHANGED orders /\ UNCHANGED E!engineVars
  <2>1. UNCHANGED nextOrderId
    BY DEF Finish
  <2>2. QED BY <1>1, <2>1, FinishChanges
<1>3. \A j : Unsettled(j) = 0 /\ Unmatched(j) = 0
  BY <1>2, FinishSettled
<1>4. CASE op.discard /\ orders[id].active
  <2>1. Synced' /\ Releases(id) /\ id \notin E!Resting' /\ ~orders'[id].active
    BY <1>2, <1>3, <1>4, CancelActiveSync
  <2>2. QED BY <1>1, <2>1
<1>5. CASE ~(op.discard /\ orders[id].active)
  <2>1. UNCHANGED orders /\ UNCHANGED E!engineVars /\ op.phase # "refused"
    BY <1>2, <1>5
  <2>2. \A j : Unsettled(j)' = 0 /\ Unmatched(j)' = 0
    BY <1>2 DEF Unsettled, Unmatched, Idle
  <2>3. Synced'
    BY <1>3, <2>1, <2>2, UnchangedSync
  <2>4. ASSUME op.discard PROVE id \notin E!Resting' /\ ~orders'[id].active
    <3>1. ~orders[id].active /\ Agrees(id) /\ E!Left(id) \in Nat
      BY <1>2, <1>5, <2>4, SyncFacts DEF Synced
    <3>2. E!Left(id) = 0
      BY <1>2, <1>3, <3>1 DEF Agrees
    <3>3. id \notin E!Resting
      BY <3>2, Ledger DEF LedgerOk
    <3>4. id \notin E!Resting'
      BY <2>1, <3>3, EngineAssumed, E!SameLedger, UndisturbedFacts DEF E!engineVars
    <3>5. QED BY <2>1, <3>1, <3>4
  <2>5. QED BY <1>1, <1>5, <2>3, <2>4
<1>6. QED BY <1>1, <1>4, <1>5

LEMMA SyncStep ==
  ASSUME OpTyped, OpTyped', BaseInv, BaseInv', EngineOk, EngineOk', Synced, [AnyStep]_vars
  PROVE  Synced'
<1>1. CASE SubmitStep
  BY <1>1, SubmitSync
<1>2. CASE CancelStep
  <2>1. PICK id \in 1..Len(orders) :
          op = Idle /\ op' = Idle /\ UNCHANGED nextOrderId /\ orders[id].active /\ CancelActive(id)
    BY <1>2 DEF CancelStep
  <2>2. op.phase \in {"idle", "settling"}
    BY <2>1 DEF Idle
  <2>3. QED BY <2>1, <2>2, IdleSettled, CancelActiveSync
<1>3. CASE QuietStep
  <2>1. op = Idle /\ op' = Idle /\ UNCHANGED orders /\ UNCHANGED E!engineVars
    BY <1>3, SameEngine DEF QuietStep, MakeUser, AddBalance, CanCall
  <2>2. op.phase # "refused"
    BY <2>1 DEF Idle
  <2>3. \A j : /\ Unsettled(j) = 0 /\ Unmatched(j) = 0
               /\ Unsettled(j)' = 0 /\ Unmatched(j)' = 0
    BY <2>1 DEF Unsettled, Unmatched, Idle
  <2>4. QED BY <2>1, <2>2, <2>3, UnchangedSync
<1>4. CASE EngineStep
  BY <1>4, EngineStepSync
<1>5. CASE Rollback
  BY <1>5, RollbackSync
<1>6. CASE Settle
  BY <1>6, SettleSync
<1>7. CASE Finish
  BY <1>7, FinishSync
<1>8. CASE UNCHANGED vars
  <2>1. op' = op /\ orders' = orders /\ UNCHANGED E!engineVars
    BY <1>8, SameEngine DEF vars, walletVars
  <2>2. \A j : E!Left(j)' = E!Left(j)
    BY <2>1, EngineAssumed, E!SameLedger DEF E!engineVars, E!Undisturbed
  <2>3. QED BY <2>1, <2>2 DEF Synced, Agrees, Unsettled, Unmatched, E!engineVars
<1>9. QED BY <1>1, <1>2, <1>3, <1>4, <1>5, <1>6, <1>7, <1>8, StepKinds

LEMMA SyncAlways == AnySpec => []Synced
<1>1. Init => Synced
  BY DEF Init, Synced
<1>2. OpTyped /\ OpTyped' /\ BaseInv /\ BaseInv' /\ EngineOk /\ EngineOk' /\ Synced /\ [AnyStep]_vars
      => Synced'
  BY SyncStep
<1>3. QED BY <1>1, <1>2, OpTypedAlways, EngineAlwaysOk, BaseAlways, PTL DEF AnySpec

\* Between calls the wrapper and the engine hold the same orders, on the same
\* side, at the same limit, with the same quantity left: the engine never
\* refuses to cancel an order that the wrapper believes in, and no order
\* trades that nobody's funds back.
THEOREM BooksAgree == Spec => []EngineInSync
<1>1. OpTyped /\ BaseInv /\ EngineOk /\ Synced => EngineInSync
  <2> SUFFICES ASSUME OpTyped, BaseInv, EngineOk, Synced, op = Idle PROVE
        /\ ActiveIds = {id \in Engine!Node : idToIdx[id] # Engine!kNil}
        /\ \A id \in ActiveIds :
             LET i == idToIdx[id]
             IN /\ orderSide[i] = orders[id].side
                /\ orderPrice[i] = orders[id].limit
                /\ orderQty[i] = orders[id].remaining
    BY Zenon DEF EngineInSync
  <2>1. {id \in Engine!Node : idToIdx[id] # Engine!kNil} = E!Resting
    BY SameEngine DEF E!Resting
  <2>2. ASSUME NEW id \in 1..Len(orders)
        PROVE  /\ orders[id].active <=> id \in E!Resting
               /\ orders[id].remaining = E!Left(id)
    <3>1. /\ Agrees(id) /\ Unsettled(id) = 0 /\ Unmatched(id) = 0
          /\ E!Left(id) \in Nat /\ op.phase # "refused"
      BY SyncFacts, IdleSettled DEF Synced, Idle
    <3>2. orders[id].remaining = E!Left(id) /\ (orders[id].active <=> orders[id].remaining # 0)
      BY <3>1 DEF Agrees
    <3>3. id \in E!Resting <=> E!Left(id) # 0
      BY Ledger DEF LedgerOk
    <3>4. QED BY <3>2, <3>3
  <2>3. ActiveIds = E!Resting
    <3>1. \A id \in E!Resting : id \in 1..Len(orders)
      BY DEF BaseInv, Known
    <3>2. QED BY <2>2, <3>1 DEF ActiveIds
  <2>4. ASSUME NEW id \in ActiveIds
        PROVE  /\ orderSide[idToIdx[id]] = orders[id].side
               /\ orderPrice[idToIdx[id]] = orders[id].limit
               /\ orderQty[idToIdx[id]] = orders[id].remaining
    <3>1. id \in E!Resting /\ id \in 1..Len(orders)
      BY <2>3 DEF ActiveIds
    <3>2. E!SideAt(id) = orders[id].side /\ E!PriceAt(id) = orders[id].limit
      BY <3>1 DEF BaseInv, Known
    <3>3. E!Left(id) = orders[id].remaining
      BY <2>2, <3>1
    <3>4. QED BY <3>1, <3>2, <3>3 DEF E!SideAt, E!PriceAt, E!Left
  <2>5. QED BY <2>1, <2>3, <2>4
<1>2. QED BY <1>1, SpecIsAny, OpTypedAlways, EngineAlwaysOk, BaseAlways, SyncAlways, PTL

\* When an immediate-or-cancel or a market order returns, nothing of it rests:
\* not in the engine, and not among the wrapper's active orders.
THEOREM DiscardsWhole == Spec => DiscardLeavesNothing
<1>1. OpTyped /\ OpTyped' /\ BaseInv /\ BaseInv' /\ EngineOk /\ EngineOk' /\ Synced /\ [AnyStep]_vars
      => [op.phase = "settling" /\ op' = Idle /\ op.discard =>
            ~orders'[op.id].active /\ idToIdx'[op.id] = Engine!kNil]_vars
  <2> SUFFICES ASSUME OpTyped, OpTyped', BaseInv, BaseInv', EngineOk, EngineOk', Synced, [AnyStep]_vars,
                      op.phase = "settling", op' = Idle, op.discard
               PROVE  ~orders'[op.id].active /\ idToIdx'[op.id] = Engine!kNil
    OBVIOUS
  <2>1. op # Idle
    BY DEF Idle
  <2>2. Finish
    <3>1. ~SubmitStep /\ ~CancelStep /\ ~QuietStep
      BY <2>1 DEF SubmitStep, CancelStep, QuietStep, MakeUser, AddBalance, CanCall
    <3>2. ~EngineStep /\ ~Rollback
      BY DEF EngineStep, Rollback
    <3>3. ~Settle
      BY SettleBase
    <3>4. ~(UNCHANGED vars)
      BY <2>1 DEF vars, walletVars
    <3>5. QED BY <3>1, <3>2, <3>3, <3>4, StepKinds
  <2>3. PICK id : id = op.id
    OBVIOUS
  <2>4. id \notin E!Resting' /\ ~orders'[id].active
    BY <2>2, <2>3, FinishSync
  <2>5. id \in E!Node
    BY <2>3 DEF BaseInv, RunsCall
  <2>6. idToIdx'[id] = Engine!kNil
    BY <2>4, <2>5, SameEngine DEF E!Resting
  <2>7. QED BY <2>3, <2>4, <2>6
<1>2. QED BY <1>1, SpecIsAny, OpTypedAlways, EngineAlwaysOk, BaseAlways, SyncAlways,
             PTL DEF AnySpec, DiscardLeavesNothing
=============================================================================
