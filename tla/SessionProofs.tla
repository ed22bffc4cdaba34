----------------------------- MODULE SessionProofs -----------------------------
(***************************************************************************)
(* Proofs about the interactive session, for every set of users, names and *)
(* numbers that are typed: a session is a run of the wrapper, so that what *)
(* is proved of the wrapper holds in it, and it acts for its own users     *)
(* only.                                                                   *)
(***************************************************************************)
EXTENDS Session, OrderBookFundsProofs

\* The choices that need a user are only taken once there is one, who signed up.
UiTyped ==
  /\ ui \in [choice : 0..10, typed : Seq(Int)]
  /\ ui.choice \in {2, 4, 5, 6, 8, 9} => hasUser
  /\ hasUser => currentUser \in signedUp

LEMMA UiTypedAlways == SpecSession => []UiTyped
<1>1. InitSession => UiTyped
  BY EmptySeq DEF InitSession, UiTyped, AtMenu
<1>2. UiTyped /\ [NextSession]_<<vars, sessionVars>> => UiTyped'
  <2> SUFFICES ASSUME UiTyped, [NextSession]_<<vars, sessionVars>> PROVE UiTyped'
    OBVIOUS
  <2>1. ASSUME NEW choice \in 1..9, Choose(choice) PROVE UiTyped'
    BY <2>1, EmptySeq DEF Choose, UiTyped, AtMenu, NeedsUser
  <2>2. CASE SignUp
    BY <2>2, EmptySeq DEF SignUp, UiTyped, AtMenu
  <2>3. ASSUME NEW n \in Numbers, ReadNumber(n) PROVE UiTyped'
    <3>1. PICK c, t : ui = [choice |-> c, typed |-> t] /\ c \in 0..10 /\ t \in Seq(Int)
      BY DEF UiTyped
    <3>2. n \in Int
      BY SessionAssumption
    <3>3. ui' = [choice |-> c, typed |-> Append(t, n)] /\ Append(t, n) \in Seq(Int)
      BY <2>3, <3>1, <3>2, AppendProperties DEF ReadNumber
    <3>4. QED BY <2>3, <3>1, <3>3 DEF ReadNumber, UiTyped
  <2>4. CASE Call
    BY <2>4, EmptySeq DEF Call, UiTyped, AtMenu
  <2>5. CASE Leave
    BY <2>5, EmptySeq DEF Leave, UiTyped, Over
  <2>6. CASE UNCHANGED <<ui, hasUser, currentUser, signedUp>>
    BY <2>6 DEF UiTyped
  <2>7. QED BY <2>1, <2>2, <2>3, <2>4, <2>5, <2>6
            DEF NextSession, EndInput, AskAgain, InsideCall, sessionVars
<1>3. QED BY <1>1, <1>2, PTL DEF SpecSession

\* What a session passes to the wrapper has the type of the argument.
LEMMA NumbersFit ==
  ASSUME NEW n \in Int
  PROVE  AsU32(n) \in 0..QtyMod-1 /\ AsPrice(n) \in Int
<1>1. n % QtyMod \in 0..QtyMod-1 /\ n % QtyMod \in Int
  BY QtyModFacts, ModRange
<1>2. QED BY <1>1, QtyModFacts DEF AsU32, AsPrice

\* The calls of the menu.
Deposits == \E quote \in Int, n \in Int : AddBalance(currentUser, quote, AsU32(n))
Places ==
  \E side \in Sides, price \in Int, qty \in 0..QtyMod-1 :
    AddOrder(currentUser, side, price, qty, FALSE) \/ AddMarketOrder(currentUser, side, qty)
Cancels == \E id \in 1..Len(orders), side \in Sides : CancelOrder(currentUser, id, side)
NoCallMade == UNCHANGED vars

LEMMA CallKinds ==
  ASSUME UiTyped, Call
  PROVE  /\ hasUser /\ currentUser \in signedUp /\ UNCHANGED signedUp /\ CanCall
         /\ Deposits \/ Places \/ Cancels \/ NoCallMade
<1>1. /\ ui.typed \in Seq(Int) /\ Len(ui.typed) >= Asks(ui.choice) /\ Asks(ui.choice) > 0
      /\ ui.choice \in {2, 4, 5, 6, 8, 9}
  BY DEF Call, UiTyped, Prompting, Asks
<1>2. hasUser /\ currentUser \in signedUp /\ UNCHANGED signedUp /\ CanCall
  BY <1>1 DEF UiTyped, Call
<1>3. ui.typed[1] \in Int /\ (ui.choice \in {2, 4, 5} => ui.typed[2] \in Int)
  BY <1>1 DEF Asks
<1>4. /\ Engine!Buy \in Sides /\ Engine!Sell \in Sides
  BY DEF Sides, Engine!Side
<1>5. ASSUME UpdateBalance, ui.choice = 2 PROVE Deposits \/ NoCallMade
  BY <1>3, <1>5 DEF UpdateBalance, Deposits, NoCallMade
<1>6. ASSUME NEW side \in Sides, NEW price \in Int, NEW qty \in 0..QtyMod-1, NEW market \in BOOLEAN,
             PlaceOrder(side, price, qty, market)
      PROVE  Places \/ NoCallMade
  BY <1>6, Zenon DEF PlaceOrder, Places, NoCallMade
<1>7. ASSUME NEW side \in Sides, NEW id, CancelById(side, id) PROVE Cancels \/ NoCallMade
  BY <1>7, Zenon DEF CancelById, Cancels, NoCallMade, MayCancel
<1>8. PriceMax \in Int
  BY QtyModFacts
<1>9. ui.choice \in {4, 5} => AsPrice(ui.typed[1]) \in Int /\ AsU32(ui.typed[2]) \in 0..QtyMod-1
  BY <1>3, NumbersFit
<1>10. AsU32(ui.typed[1]) \in 0..QtyMod-1 /\ AsU32(ui.typed[1]) \in Int
  BY <1>3, NumbersFit
<1>11. Deposits \/ Places \/ Cancels \/ NoCallMade
  <2>1. CASE UpdateBalance
    BY <1>5, <2>1 DEF UpdateBalance
  <2>2. CASE ui.choice = 4 /\ PlaceOrder(Engine!Buy, AsPrice(ui.typed[1]), AsU32(ui.typed[2]), FALSE)
    BY <1>4, <1>6, <1>9, <2>2
  <2>3. CASE ui.choice = 5 /\ PlaceOrder(Engine!Sell, AsPrice(ui.typed[1]), AsU32(ui.typed[2]), FALSE)
    BY <1>4, <1>6, <1>9, <2>3
  <2>4. CASE ui.choice = 6 /\ PlaceOrder(Engine!Buy, PriceMax, AsU32(ui.typed[1]), TRUE)
    BY <1>4, <1>6, <1>8, <1>10, <2>4
  <2>5. CASE ui.choice = 8 /\ CancelById(Engine!Buy, AsU32(ui.typed[1]))
    BY <1>4, <1>7, <2>5
  <2>6. CASE ui.choice = 9 /\ CancelById(Engine!Sell, AsU32(ui.typed[1]))
    BY <1>4, <1>7, <2>6
  <2>7. QED BY <2>1, <2>2, <2>3, <2>4, <2>5, <2>6 DEF Call
<1>12. QED BY <1>2, <1>11

\* A step of a session, by what it does to the wrapper.
Idles == UNCHANGED vars
Signs == \E name \in AnyName : MakeUser(name)
LEMMA SessionKinds ==
  ASSUME UiTyped, [NextSession]_<<vars, sessionVars>>
  PROVE  Idles \/ Signs \/ Deposits \/ Places \/ Cancels \/ InsideCall
<1>1. CASE SignUp
  BY <1>1, Zenon DEF SignUp, NamesRead, AnyName, Signs
<1>2. CASE Call
  BY <1>2, CallKinds DEF NoCallMade, Idles
<1>3. CASE InsideCall
  BY <1>3 DEF InsideCall, sessionVars
<1>4. ASSUME NEW choice, Choose(choice) PROVE Idles
  BY <1>4 DEF Choose, Idles
<1>5. ASSUME NEW n, ReadNumber(n) PROVE Idles
  BY <1>5 DEF ReadNumber, Idles
<1>6. CASE EndInput \/ Leave \/ AskAgain \/ UNCHANGED <<vars, sessionVars>>
  BY <1>6 DEF EndInput, Leave, AskAgain, sessionVars, Idles
<1>7. QED BY <1>1, <1>2, <1>3, <1>4, <1>5, <1>6 DEF NextSession

\* A session is a run of the wrapper, whatever is typed.
THEOREM SessionRuns == SpecSession => AnySpec
<1>1. UiTyped /\ [NextSession]_<<vars, sessionVars>> => [AnyStep]_vars
  <2> SUFFICES ASSUME UiTyped, [NextSession]_<<vars, sessionVars>> PROVE AnyStep \/ UNCHANGED vars
    OBVIOUS
  <2>1. CASE Signs
    BY <2>1, Zenon DEF Signs, AnyStep
  <2>2. CASE Deposits
    <3>1. PICK quote \in Int, n \in Int : AddBalance(currentUser, quote, AsU32(n))
      BY <2>2 DEF Deposits
    <3>2. currentUser \in UserIds /\ AsU32(n) \in 0..QtyMod-1
      BY <3>1, NumbersFit DEF AddBalance
    <3>3. QED BY <3>1, <3>2, Zenon DEF AnyStep
  <2>3. CASE Places
    <3>1. PICK side \in Sides, price \in Int, qty \in 0..QtyMod-1 :
            AddOrder(currentUser, side, price, qty, FALSE) \/ AddMarketOrder(currentUser, side, qty)
      BY <2>3 DEF Places
    <3>2. currentUser \in UserIds /\ FALSE \in BOOLEAN
      BY <3>1 DEF AddOrder, AddMarketOrder, Submit, Funded
    <3>3. QED BY <3>1, <3>2, Zenon DEF AnyStep
  <2>4. CASE Cancels
    <3>1. PICK id \in 1..Len(orders), side \in Sides : CancelOrder(currentUser, id, side)
      BY <2>4 DEF Cancels
    <3>2. currentUser \in UserIds
      BY <3>1 DEF CancelOrder, MayCancel
    <3>3. QED BY <3>1, <3>2, Zenon DEF AnyStep
  <2>5. CASE InsideCall
    BY <2>5, Zenon DEF InsideCall, AnyStep
  <2>6. QED BY <2>1, <2>2, <2>3, <2>4, <2>5, SessionKinds DEF Idles
<1>2. InitSession => Init
  BY DEF InitSession
<1>3. QED BY <1>1, <1>2, UiTypedAlways, PTL DEF SpecSession, AnySpec

\* In a session too, whose numbers are cut to 32 bits unchecked and wrap
\* balances at will, a user's locks are what its active orders need, modulo 2^w.
THEOREM SessionLocksAddUp == SpecSession => []LocksAddUp
BY FundsAddUp, SessionRuns, BaseAlways, SyncAlways, FundsAlways, PTL
------------------------------------------------------------------------------
(***************************************************************************)
(* Whom a session acts for.                                                *)
(***************************************************************************)
LEMMA DepositTouches ==
  ASSUME BaseInv, Deposits, NEW u \in UserIds, u # currentUser
  PROVE  Untouched(u)
<1>1. PICK quote \in Int, n \in Int : AddBalance(currentUser, quote, AsU32(n))
  BY DEF Deposits
<1>2. users'[u] = users[u] /\ orders' = orders
  BY <1>1 DEF AddBalance, UserIds
<1>3. Len(orders) \in Nat
  BY DEF BaseInv, Tables, OrdersTyped
<1>4. QED BY <1>2, <1>3 DEF Untouched

LEMMA PlacesTouches ==
  ASSUME BaseInv, Places, CanCall, NEW u \in UserIds, u # currentUser
  PROVE  Untouched(u)
<1>1. PICK side \in Sides, price \in Int, qty \in 0..QtyMod-1, discard \in BOOLEAN :
        Submit(currentUser, side, price, qty, discard)
  <2>1. PICK side \in Sides, p \in Int, qty \in 0..QtyMod-1 :
          AddOrder(currentUser, side, p, qty, FALSE) \/ AddMarketOrder(currentUser, side, qty)
    BY DEF Places
  <2>2. CASE AddOrder(currentUser, side, p, qty, FALSE)
    BY <2>2, Zenon DEF AddOrder
  <2>3. CASE AddMarketOrder(currentUser, side, qty)
    <3>1. PICK price : price = IF IsBid(side) THEN PriceMax ELSE PriceMin
      OBVIOUS
    <3>2. price \in Int /\ TRUE \in BOOLEAN /\ Submit(currentUser, side, price, qty, TRUE)
      BY <2>3, <3>1, QtyModFacts DEF AddMarketOrder
    <3>3. QED BY <3>2, Zenon
  <2>4. QED BY <2>1, <2>2, <2>3
<1>2. PICK v, o : v = currentUser /\ o = NewOrder(v, side, price, qty)
  OBVIOUS
<1>3. /\ o \in Order /\ orders' = Append(orders, o)
      /\ users' = [users EXCEPT ![v] = Locks(@, o)]
  <2>1. op = Idle /\ Tables /\ Submit(v, side, price, qty, discard)
    BY <1>1, <1>2 DEF CanCall, BaseInv
  <2>2. side \in Sides /\ price \in Int /\ qty \in 0..QtyMod-1 /\ discard \in BOOLEAN
    BY <1>1
  <2>3. LET w == NewOrder(v, side, price, qty)
        IN w \in Order /\ orders' = Append(orders, w) /\ users' = [users EXCEPT ![v] = Locks(@, w)]
    BY ONLY <2>1, <2>2, SubmitChanges
  <2>4. QED BY <1>2, <2>3
<1>4. users'[u] = users[u]
  BY <1>2, <1>3 DEF UserIds
<1>5. o.user = currentUser
  BY <1>2 DEF NewOrder
<1>6. orders \in Seq(Order)
  BY DEF BaseInv, Tables, OrdersTyped
<1>7. ASSUME NEW id \in 1..Len(orders'), orders'[id].user = u
      PROVE  id <= Len(orders) /\ orders'[id] = orders[id]
  BY <1>3, <1>5, <1>6, <1>7, AppendProperties
<1>8. QED BY <1>4, <1>7 DEF Untouched

LEMMA CancelsTouches ==
  ASSUME BaseInv, Cancels, NEW u \in UserIds, u # currentUser
  PROVE  Untouched(u)
<1>1. PICK id \in 1..Len(orders), side \in Sides : CancelOrder(currentUser, id, side)
  BY DEF Cancels
<1>2. orders[id].user = currentUser /\ CancelActive(id)
  BY <1>1 DEF CancelOrder, MayCancel
<1>3. IF ok' THEN Releases(id) ELSE UNCHANGED <<users, orders>>
  BY <1>2, CancelChanges DEF BaseInv
<1>4. /\ orders \in Seq(Order) /\ Len(orders) \in Nat /\ users \in [UserIds -> User]
  BY DEF BaseInv, Tables, OrdersTyped, UsersTyped
<1>5. CASE Releases(id)
  <2>1. users'[u] = users[u]
    BY <1>2, <1>4, <1>5 DEF Releases
  <2>2. PICK o : o = orders[id]
    OBVIOUS
  <2>3. o \in Order /\ Forgotten(o).user = currentUser
    BY <1>2, <1>4, <2>2, ForgottenTyped
  <2>4. orders' = [orders EXCEPT ![id] = Forgotten(o)] /\ Len(orders') = Len(orders)
    BY <1>4, <1>5, <2>2 DEF Releases
  <2>5. ASSUME NEW j \in 1..Len(orders'), orders'[j].user = u
        PROVE  j <= Len(orders) /\ orders'[j] = orders[j]
    BY <1>4, <2>3, <2>4, <2>5
  <2>6. QED BY <2>1, <2>5 DEF Untouched
<1>6. CASE UNCHANGED <<users, orders>>
  BY <1>4, <1>6 DEF Untouched
<1>7. QED BY <1>3, <1>5, <1>6

\* The session acts for the users that it signed up and for nobody else: the
\* market makers keep their balances and orders through every call, until
\* somebody signs up by a market maker's name.
THEOREM OwnUsersOnly == SpecSession => ActsForSignedUp
<1>1. UiTyped /\ OpTyped /\ BaseInv /\ [NextSession]_<<vars, sessionVars>>
      => [CanCall => \A u \in UserIds \ signedUp' : Untouched(u)]_<<vars, sessionVars>>
  <2> SUFFICES ASSUME UiTyped, OpTyped, BaseInv, [NextSession]_<<vars, sessionVars>>, CanCall,
                      NEW u \in UserIds, u \notin signedUp'
               PROVE  Untouched(u)
    OBVIOUS
  <2>1. Len(orders) \in Nat
    BY DEF BaseInv, Tables, OrdersTyped
  <2>2. CASE UNCHANGED vars
    BY <2>1, <2>2 DEF vars, walletVars, Untouched
  <2>3. CASE Signs
    <3>1. PICK name \in AnyName : MakeUser(name)
      BY <2>3 DEF Signs
    <3>2. UserIds = 0..Cardinality(UserIds)-1 /\ Cardinality(UserIds) \in Nat
      BY FS_CardinalityType DEF BaseInv, Tables, UsersTyped
    <3>3. users'[u] = users[u] /\ orders' = orders
      BY <3>1, <3>2 DEF MakeUser
    <3>4. QED BY <2>1, <3>3 DEF Untouched
  <2>4. CASE Call
    <3>1. /\ u # currentUser
          /\ Deposits \/ Places \/ Cancels \/ NoCallMade
      BY <2>4, CallKinds
    <3>2. QED BY <2>2, <3>1, DepositTouches, PlacesTouches, CancelsTouches DEF NoCallMade
  <2>5. CASE InsideCall
    BY <2>5, IdleFacts DEF InsideCall, CanCall, SeedOrder, EngineStep, Rollback, Settle, Finish,
                           Idle, OpTyped
  <2>6. CASE SignUp
    BY <2>3, <2>6, Zenon DEF SignUp, NamesRead, AnyName, Signs
  <2>7. ASSUME NEW choice, Choose(choice) PROVE UNCHANGED vars
    BY <2>7 DEF Choose
  <2>8. ASSUME NEW n, ReadNumber(n) PROVE UNCHANGED vars
    BY <2>8 DEF ReadNumber
  <2>9. CASE EndInput \/ Leave \/ AskAgain \/ UNCHANGED <<vars, sessionVars>>
    BY <2>2, <2>9 DEF EndInput, Leave, AskAgain
  <2>10. QED BY <2>2, <2>4, <2>5, <2>6, <2>7, <2>8, <2>9 DEF NextSession
<1>2. QED BY <1>1, UiTypedAlways, SessionRuns, OpTypedAlways, BaseAlways,
             PTL DEF SpecSession, ActsForSignedUp
=============================================================================
