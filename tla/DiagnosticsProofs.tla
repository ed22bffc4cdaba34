--------------------------- MODULE DiagnosticsProofs ---------------------------
(***************************************************************************)
(* Proofs that the trade log keeps its promise for every capacity, that    *)
(* the statistics account for every order and trade, whatever is           *)
(* submitted, cancelled and reset, and that a submission that returns has  *)
(* its trades in the log.                                                  *)
(***************************************************************************)
EXTENDS Diagnostics, OrderBookProofs, TLAPS

\* The ring is full, or its write position is the number of trades in it.
LogInv ==
  /\ kTradeLogCap \in Nat \ {0}
  /\ tradeLogEnabled \in BOOLEAN
  /\ tradeLogHead \in Log!Position
  /\ tradeLogSize \in 0..kTradeLogCap
  /\ tradeLog = [p \in Log!Position |-> tradeLog[p]]
  /\ tradeLogSize < kTradeLogCap => tradeLogHead = tradeLogSize

\* A position back from the head that does not need the remainder.
BackFrom(h, i) == IF i < h THEN h - 1 - i ELSE h - 1 - i + kTradeLogCap

LEMMA ReadPositionIs ==
  ASSUME tradeLogHead \in Log!Position, NEW i \in Nat, i < kTradeLogCap
  PROVE  /\ Log!ReadPosition(i) = BackFrom(tradeLogHead, i)
         /\ Log!ReadPosition(i) \in Log!Position
<1>1. kTradeLogCap \in Nat \ {0} /\ tradeLogHead \in Nat /\ tradeLogHead < kTradeLogCap
  BY DiagnosticsAssumption DEF Log!Position
<1> DEFINE a == tradeLogHead + (kTradeLogCap - 1) - i
<1>2. CASE i < tradeLogHead
  <2>1. a = (tradeLogHead - 1 - i) + kTradeLogCap
    BY <1>1
  <2>2. tradeLogHead - 1 - i \in 0..kTradeLogCap-1
    BY <1>1, <1>2
  <2>3. a % kTradeLogCap = tradeLogHead - 1 - i
    BY <1>1, <2>1, <2>2
  <2>4. QED BY <1>2, <2>2, <2>3 DEF Log!ReadPosition, BackFrom, Log!Position
<1>3. CASE ~(i < tradeLogHead)
  <2>1. a \in 0..kTradeLogCap-1 /\ a = tradeLogHead - 1 - i + kTradeLogCap
    BY <1>1, <1>3
  <2>2. a % kTradeLogCap = a
    BY <1>1, <2>1
  <2>3. QED BY <1>3, <2>1, <2>2 DEF Log!ReadPosition, BackFrom, Log!Position
<1>4. QED BY <1>2, <1>3

Recent == Log!GetRecentTrades(kTradeLogCap + 1)

LEMMA RecentIs ==
  LogInv => Recent = [k \in 1..tradeLogSize |-> tradeLog[BackFrom(tradeLogHead, k - 1)]]
<1> SUFFICES ASSUME LogInv
             PROVE  Recent = [k \in 1..tradeLogSize |-> tradeLog[BackFrom(tradeLogHead, k - 1)]]
  OBVIOUS
<1>1. Log!Smaller(kTradeLogCap + 1, tradeLogSize) = tradeLogSize
  BY DEF LogInv, Log!Smaller
<1>2. ASSUME NEW k \in 1..tradeLogSize
      PROVE  Log!ReadPosition(k - 1) = BackFrom(tradeLogHead, k - 1)
  <2>1. k - 1 \in Nat /\ k - 1 < kTradeLogCap
    BY DEF LogInv
  <2>2. QED BY <2>1, ReadPositionIs DEF LogInv
<1>3. QED BY <1>1, <1>2 DEF Recent, Log!GetRecentTrades

LEMMA RecentIsNext ==
  LogInv' => (Recent = [k \in 1..tradeLogSize |-> tradeLog[BackFrom(tradeLogHead, k - 1)]])'
  BY RecentIs, PTL
------------------------------------------------------------------------------
LEMMA InitLog ==
  ASSUME Log!Init
  PROVE  LogInv
<1>1. tradeLog = [p \in Log!Position |-> tradeLog[p]]
  BY DEF Log!Init
<1>2. kTradeLogCap \in Nat \ {0} /\ 0 \in Log!Position
  BY DiagnosticsAssumption DEF Log!Position
<1>3. QED BY <1>1, <1>2 DEF Log!Init, LogInv

LEMMA PushTradeInv ==
  ASSUME LogInv, tradeLogEnabled, NEW trade, Log!PushTrade(trade)
  PROVE  LogInv'
<1>1. /\ tradeLog' = [tradeLog EXCEPT ![tradeLogHead] = trade]
      /\ tradeLogHead' = (tradeLogHead + 1) % kTradeLogCap
      /\ tradeLogSize' = Log!Smaller(tradeLogSize + 1, kTradeLogCap)
      /\ tradeLogEnabled' = tradeLogEnabled
  BY DEF Log!PushTrade
<1>2. /\ kTradeLogCap \in Nat \ {0} /\ tradeLogHead \in 0..kTradeLogCap-1
      /\ tradeLogSize \in 0..kTradeLogCap
      /\ tradeLogSize < kTradeLogCap => tradeLogHead = tradeLogSize
  BY DEF LogInv, Log!Position
<1>3. tradeLogHead' = IF tradeLogHead + 1 = kTradeLogCap THEN 0 ELSE tradeLogHead + 1
  <2>1. CASE tradeLogHead + 1 = kTradeLogCap
    <3>1. kTradeLogCap % kTradeLogCap = 0
      BY <1>2
    <3>2. QED BY <1>1, <2>1, <3>1
  <2>2. CASE tradeLogHead + 1 # kTradeLogCap
    BY <1>1, <1>2, <2>2
  <2>3. QED BY <2>1, <2>2
<1>4. tradeLogHead' \in Log!Position
  BY <1>2, <1>3 DEF Log!Position
<1>5. /\ tradeLogSize' \in 0..kTradeLogCap
      /\ tradeLogSize' < kTradeLogCap => tradeLogHead' = tradeLogSize'
  BY <1>1, <1>2, <1>3 DEF Log!Smaller
<1>6. tradeLog' = [p \in Log!Position |-> tradeLog'[p]]
  BY <1>1 DEF LogInv
<1>7. QED BY <1>1, <1>4, <1>5, <1>6 DEF LogInv, Log!Position

\* The trade written at the head is the newest, and every other keeps its
\* place behind it; in a full ring it overwrites the oldest.
LEMMA PushTradeRecords ==
  ASSUME LogInv, LogInv', tradeLogEnabled, NEW trade, Log!PushTrade(trade)
  PROVE  /\ Log!Promise!Record
         /\ tradeLogSize' = IF tradeLogSize < kTradeLogCap THEN tradeLogSize + 1 ELSE kTradeLogCap
         /\ \A k \in 1..tradeLogSize' : Recent'[k] = IF k = 1 THEN trade ELSE Recent[k - 1]
<1>1. /\ tradeLog' = [tradeLog EXCEPT ![tradeLogHead] = trade]
      /\ tradeLogHead' = (tradeLogHead + 1) % kTradeLogCap
      /\ tradeLogSize' = Log!Smaller(tradeLogSize + 1, kTradeLogCap)
      /\ tradeLogEnabled' = tradeLogEnabled
  BY DEF Log!PushTrade
<1>2. /\ kTradeLogCap \in Nat \ {0} /\ tradeLogHead \in 0..kTradeLogCap-1
      /\ tradeLogSize \in 0..kTradeLogCap
  BY DEF LogInv, Log!Position
<1>3. tradeLogHead' = IF tradeLogHead + 1 = kTradeLogCap THEN 0 ELSE tradeLogHead + 1
  <2>1. CASE tradeLogHead + 1 = kTradeLogCap
    <3>1. kTradeLogCap % kTradeLogCap = 0
      BY <1>2
    <3>2. QED BY <1>1, <2>1, <3>1
  <2>2. CASE tradeLogHead + 1 # kTradeLogCap
    BY <1>1, <1>2, <2>2
  <2>3. QED BY <2>1, <2>2
<1>4. Recent = [k \in 1..tradeLogSize |-> tradeLog[BackFrom(tradeLogHead, k - 1)]]
  BY RecentIs
<1>5. Recent' = [k \in 1..tradeLogSize' |-> tradeLog'[BackFrom(tradeLogHead', k - 1)]]
  BY RecentIsNext DEF BackFrom
<1>6. /\ tradeLogSize' = IF tradeLogSize < kTradeLogCap THEN tradeLogSize + 1 ELSE kTradeLogCap
      /\ tradeLogSize' \in Nat \ {0} /\ tradeLogSize' <= kTradeLogCap
  BY <1>1, <1>2 DEF Log!Smaller
<1>7. tradeLog'[tradeLogHead] = trade /\ BackFrom(tradeLogHead', 0) = tradeLogHead
  <2>1. tradeLogHead \in DOMAIN tradeLog
    BY DEF LogInv
  <2>2. QED BY <1>1, <1>2, <1>3, <2>1 DEF BackFrom
<1>8. ASSUME NEW k \in 1..tradeLogSize', k # 1
      PROVE  tradeLog'[BackFrom(tradeLogHead', k - 1)] = Recent[k - 1]
  <2>1. k - 1 \in 1..tradeLogSize /\ k - 2 \in Nat /\ k - 1 < kTradeLogCap
    BY <1>2, <1>6, <1>8
  <2>2. BackFrom(tradeLogHead', k - 1) = BackFrom(tradeLogHead, k - 2)
    BY <1>2, <1>3, <2>1 DEF BackFrom
  <2>3. BackFrom(tradeLogHead, k - 2) # tradeLogHead
    BY <1>2, <2>1 DEF BackFrom
  <2>4. BackFrom(tradeLogHead, k - 2) \in Log!Position
    BY <1>2, <2>1 DEF BackFrom, Log!Position
  <2>5. tradeLog'[BackFrom(tradeLogHead, k - 2)] = tradeLog[BackFrom(tradeLogHead, k - 2)]
    BY <1>1, <2>3, <2>4 DEF LogInv
  <2>6. Recent[k - 1] = tradeLog[BackFrom(tradeLogHead, k - 2)]
    <3>1. (k - 1) - 1 = k - 2
      BY <2>1
    <3>2. QED BY <1>4, <2>1, <3>1
  <2>7. QED BY <2>2, <2>5, <2>6
<1>9. Len(Recent) = tradeLogSize
  BY <1>2, <1>4
<1>10. Recent'[1] = trade /\ 1 \in 1..tradeLogSize'
  <2>1. 1 \in 1..tradeLogSize' /\ 1 - 1 = 0
    BY <1>6
  <2>2. QED BY <1>5, <1>7, <2>1
<1>11. Recent' = Log!Promise!Pushed(Recent'[1], Recent)
  <2>1. ASSUME NEW k \in 1..tradeLogSize'
        PROVE  tradeLog'[BackFrom(tradeLogHead', k - 1)] = IF k = 1 THEN Recent'[1] ELSE Recent[k - 1]
    <3>1. CASE k = 1
      BY <1>5, <1>10, <3>1
    <3>2. CASE k # 1
      BY <1>8, <3>2
    <3>3. QED BY <3>1, <3>2
  <2>2. QED BY <1>5, <1>6, <1>9, <2>1 DEF Log!Promise!Pushed
<1>12. Recent' # << >>
  BY <1>5, <1>6
<1>13. Log!Promise!Record
  BY <1>1, <1>11, <1>12 DEF Log!Promise!Record, Recent
<1>14. \A k \in 1..tradeLogSize' : Recent'[k] = IF k = 1 THEN trade ELSE Recent[k - 1]
  BY <1>5, <1>8, <1>10
<1>15. QED BY <1>6, <1>13, <1>14

\* One step of the log, or none.
LogStep ==
  \/ \E trade : Log!PushTrade(trade)
  \/ \E enabled \in BOOLEAN : Log!SetTradeLogEnabled(enabled)
  \/ Log!ClearTradeLog
  \/ UNCHANGED logVars

LEMMA StepsOfLog == [NextRecorded]_<<vars, diagnosticVars>> => LogStep
  BY DEF NextRecorded, ManageUsers, Submitted, SubmittedInVain, Matched, Settled, RolledBack,
         Accepted, Cancelled, CancelledInVain, SetTradeLogEnabled, ClearTradeLog, ResetStats,
         diagnosticVars, LogStep

LEMMA LogStepInv == ASSUME LogInv, LogStep PROVE LogInv'
<1>1. CASE \E trade : Log!PushTrade(trade) /\ tradeLogEnabled
  BY <1>1, PushTradeInv
<1>2. CASE UNCHANGED logVars
  BY <1>2 DEF LogInv, logVars, Log!Position
<1>3. CASE \E enabled \in BOOLEAN : Log!SetTradeLogEnabled(enabled)
  BY <1>3 DEF LogInv, Log!SetTradeLogEnabled, Log!Position
<1>4. CASE Log!ClearTradeLog
  BY <1>4 DEF LogInv, Log!ClearTradeLog, Log!Position
<1>5. QED BY <1>1, <1>2, <1>3, <1>4 DEF LogStep, Log!PushTrade, Log!logVars, logVars

LEMMA LogStepRefines ==
  ASSUME LogInv, LogInv', LogStep
  PROVE  [Log!Promise!Next]_(Log!Promise!vars)
<1> USE DEF Log!Promise!Next, Log!Promise!vars
<1>1. CASE \E trade : Log!PushTrade(trade) /\ tradeLogEnabled
  BY <1>1, PushTradeRecords
<1>2. CASE UNCHANGED logVars
  <2>1. UNCHANGED <<tradeLogEnabled, Recent>>
    BY <1>2 DEF logVars, Recent, Log!GetRecentTrades, Log!ReadPosition
  <2>2. QED BY <2>1 DEF Recent
<1>3. CASE \E enabled \in BOOLEAN : Log!SetTradeLogEnabled(enabled)
  <2>1. tradeLogEnabled' \in BOOLEAN /\ UNCHANGED Recent
    BY <1>3 DEF Log!SetTradeLogEnabled, Recent, Log!GetRecentTrades, Log!ReadPosition
  <2>2. QED BY <2>1 DEF Log!Promise!Enable, Recent
<1>4. CASE Log!ClearTradeLog
  <2>1. tradeLogSize' = 0 /\ UNCHANGED tradeLogEnabled
    BY <1>4 DEF Log!ClearTradeLog
  <2>2. Recent' = << >>
    BY <2>1, RecentIsNext
  <2>3. QED BY <2>1, <2>2 DEF Log!Promise!Clear, Recent
<1>5. QED BY <1>1, <1>2, <1>3, <1>4 DEF LogStep, Log!PushTrade, Log!logVars, logVars

\* For every capacity, and whatever the wrapper does around it, the ring that
\* push_trade writes and getRecentTrades reads backwards holds the last trades
\* since it was cleared, newest first.
THEOREM LogRefines == SpecRecorded => LogKeepsPromise
<1>1. InitRecorded => LogInv
  BY InitLog DEF InitRecorded
<1>2. InitRecorded => Log!Promise!Init
  <2> SUFFICES ASSUME InitRecorded PROVE Log!Promise!Init
    OBVIOUS
  <2>1. LogInv /\ tradeLogSize = 0 /\ tradeLogEnabled = FALSE
    BY <1>1 DEF InitRecorded, Log!Init
  <2>2. Recent = << >>
    BY <2>1, RecentIs
  <2>3. QED BY <2>1, <2>2 DEF Log!Promise!Init, Recent
<1>3. LogInv /\ [NextRecorded]_<<vars, diagnosticVars>> => LogInv'
  BY StepsOfLog, LogStepInv
<1>4. LogInv /\ LogInv' /\ [NextRecorded]_<<vars, diagnosticVars>>
        => [Log!Promise!Next]_(Log!Promise!vars)
  BY StepsOfLog, LogStepRefines
<1>5. QED BY <1>1, <1>2, <1>3, <1>4, PTL
      DEF SpecRecorded, LogKeepsPromise, Log!ImplementsRecentTrades, Log!Promise!Spec
------------------------------------------------------------------------------
(***************************************************************************)
(* The counters.  They add up because a trade always empties one of its    *)
(* two orders: its maker, unless it is the last trade of a taker of which  *)
(* nothing rests.                                                          *)
(***************************************************************************)
TradesFill ==
  \A k \in Pending :
    \/ orders[executions[k].maker].remaining = executions[k].qty
    \/ k = Len(executions) /\ op.phase = "settling" /\ E!Left(op.id) = 0
RefusedLive == op.phase = "refused" => orders[op.id].active
NextBounded == op.phase = "settling" => op.next <= Len(executions) + 1
FillInv == TradesFill /\ RefusedLive /\ NextBounded

\* What is taken from an order includes each execution of it.
LEMMA TakenHas ==
  ASSUME NEW x \in Seq(Execution), NEW n \in Nat \ {0}, NEW k \in n..Len(x), NEW id, NEW taker,
         x[k].maker = id
  PROVE  x[k].qty <= Taken(x, n, id, taker)
<1> DEFINE f == [j \in 1..Len(x) |-> x[j].qty]
           S == {j \in n..Len(x) : x[j].maker = id \/ taker = id}
           T == S \ {k}
<1>1. \A j \in 1..Len(x) : f[j] \in 0..QtyMod-1 /\ f[j] \in Int /\ f[j] = x[j].qty
  <2>1. \A j \in 1..Len(x) : x[j] \in Execution
    OBVIOUS
  <2>2. QED BY <2>1, QtyModFacts DEF Execution
<1>2. IsFiniteSet(S) /\ S \subseteq 1..Len(x) /\ k \in S
  <2>1. IsFiniteSet(1..Len(x)) /\ S \subseteq 1..Len(x)
    BY FS_Interval
  <2>2. QED BY <2>1, FS_Subset
<1>3. IsFiniteSet(T) /\ Cardinality(T) \in Nat /\ QtyMod - 1 \in Nat
  <2>1. IsFiniteSet(T)
    <3> HIDE DEF S
    <3>1. QED BY <1>2, FS_RemoveElement
  <2>2. Cardinality(T) \in Nat
    BY <2>1, FS_CardinalityType
  <2>3. QED BY <2>1, <2>2, QtyModFacts
<1>4. Taken(x, n, id, taker) = SumFunctionOnSet(f, S)
  BY DEF Taken
<1> HIDE DEF f, S
<1>5. SumFunctionOnSet(f, S) = f[k] + SumFunctionOnSet(f, T)
  <2>1. IsFiniteSet(S) /\ \A j \in S : f[j] \in Int
    BY <1>1, <1>2
  <2>2. QED BY <1>2, <2>1, SumTake
<1>6. SumFunctionOnSet(f, T) \in Nat
  <2>1. \A j \in T : f[j] \in 0..QtyMod-1
    BY <1>1, <1>2
  <2> HIDE DEF T
  <2>2. SumFunctionOnSet(f, T) \in 0..Cardinality(T) * (QtyMod - 1)
    BY <1>3, <2>1, SumBounds
  <2>3. QED BY <2>2
<1>7. f[k] = x[k].qty /\ f[k] \in Int
  BY <1>1, <1>2
<1>8. QED BY <1>4, <1>5, <1>6, <1>7

LEMMA TakenZero ==
  ASSUME NEW x \in Seq(Execution), NEW n \in Nat \ {0}, NEW id, NEW taker,
         taker # id, \A k \in n..Len(x) : x[k].maker # id
  PROVE  Taken(x, n, id, taker) = 0
<1>1. {k \in n..Len(x) : x[k].maker = id \/ taker = id} = {}
  OBVIOUS
<1>2. QED BY <1>1, SumEmpty DEF Taken

\* A step that returns to the caller leaves nothing to settle.
LEMMA IdleFill == ASSUME op' = Idle PROVE FillInv'
BY DEF FillInv, TradesFill, RefusedLive, NextBounded, Pending, Idle

LEMMA SubmitFill ==
  ASSUME OpTyped, OpTyped', BaseInv, SubmitStep
  PROVE  FillInv'
<1>1. PICK user \in UserIds, side \in Sides, price \in Int, qty \in 0..QtyMod-1, discard \in BOOLEAN :
        op = Idle /\ Submit(user, side, price, qty, discard)
  BY DEF SubmitStep
<1>2. PICK o : o = NewOrder(user, side, price, qty)
  OBVIOUS
<1>3. /\ orders' = Append(orders, o) /\ executions' = <<>> /\ op'.id = nextOrderId
      /\ op'.next = 1 /\ (op'.phase = "matching" \/ op'.phase = "refused")
  BY <1>1, <1>2, SubmitChanges DEF BaseInv
<1>4. orders'[op'.id] = o
  <2>1. orders \in Seq(Order) /\ nextOrderId = Len(orders) + 1
    BY DEF BaseInv, Tables, OrdersTyped
  <2>2. QED BY <1>3, <2>1
<1>5. o.active
  BY <1>2 DEF NewOrder
<1>6. TradesFill' /\ NextBounded'
  BY <1>3 DEF TradesFill, NextBounded, Pending
<1>7. QED BY <1>4, <1>5, <1>6 DEF FillInv, RefusedLive

\* An order that a trade fills has no other trade to settle.
LEMMA LastTrade ==
  ASSUME OpTyped, BaseInv, EngineOk, Synced, TradesFill, op.phase = "matching",
         NEW id \in E!Resting, id \in 1..Len(orders), id # op.id
  PROVE  orders[id].remaining = E!Left(id)
<1>1. PICK x, t : x = executions /\ t = op.id
  OBVIOUS
<1>2. x \in Seq(Execution) /\ op # Idle /\ op.next = 1 /\ 1 \in Nat \ {0}
  BY <1>1 DEF BaseInv, Tables, ExecutionsTyped, RunsCall, Idle
<1>3. /\ Agrees(id) /\ Unmatched(id) = 0 /\ E!Left(id) \in Nat
      /\ orders[id].remaining \in Int /\ op.phase # "refused"
  BY SyncFacts DEF Synced, Unmatched
<1>4. Unsettled(id) = Taken(x, 1, id, t)
  BY <1>1, <1>2 DEF Unsettled
<1>5. Taken(x, 1, id, t) \in Nat
  BY <1>2, TakenFacts
<1>6. orders[id].remaining = E!Left(id) + Taken(x, 1, id, t)
  BY <1>3, <1>4, <1>5 DEF Agrees
<1>7. E!Left(id) # 0
  BY Ledger DEF LedgerOk
<1>8. ASSUME NEW k \in 1..Len(x) PROVE x[k].maker # id
  <2>1. SUFFICES ASSUME x[k].maker = id PROVE FALSE
    OBVIOUS
  <2>2. orders[id].remaining = x[k].qty
    <3>1. k \in Pending
      BY <1>1, <1>2 DEF Pending
    <3>2. QED BY <1>1, <2>1, <3>1 DEF TradesFill
  <2>3. x[k].qty <= Taken(x, 1, id, t)
    BY <1>2, <2>1, TakenHas
  <2>4. QED BY <1>3, <1>5, <1>6, <1>7, <2>2, <2>3
<1>9. Taken(x, 1, id, t) = 0
  BY <1>1, <1>2, <1>8, TakenZero
<1>10. QED BY <1>3, <1>6, <1>9

LEMMA EngineStepFill ==
  ASSUME OpTyped, OpTyped', BaseInv, BaseInv', EngineOk, EngineOk', Synced, FillInv, EngineStep
  PROVE  FillInv'
<1>1. /\ op.phase = "matching" /\ op # Idle /\ op' # Idle /\ op'.id = op.id /\ op'.next = 1
      /\ UNCHANGED orders /\ executions' \in Seq(Execution)
      /\ \/ Passes
         \/ \E id \in E!Resting, qty \in Nat \ {0} : TakesFrom(id, qty)
         \/ \E id : RestsAs(id)
  BY EngineStepCases
<1>2. PICK t : t = op.id
  OBVIOUS
<1>3. /\ op.next = 1 /\ t \notin E!Resting /\ executions \in Seq(Execution)
      /\ Pending = 1..Len(executions) /\ Pending' = 1..Len(executions')
  BY <1>1, <1>2 DEF BaseInv, RunsCall, Known, Tables, ExecutionsTyped, Pending
<1>4. \A k \in 1..Len(executions) : orders[executions[k].maker].remaining = executions[k].qty
  BY <1>1, <1>3 DEF FillInv, TradesFill
<1>5. RefusedLive' /\ NextBounded'
  <2>1. op'.phase # "refused"
    BY <1>1 DEF Passes, TakesFrom, RestsAs
  <2>2. 1 <= Len(executions') + 1
    BY <1>1
  <2>3. QED BY <1>1, <2>1, <2>2 DEF RefusedLive, NextBounded
<1>6. CASE UNCHANGED executions
  BY <1>1, <1>3, <1>4, <1>5, <1>6 DEF FillInv, TradesFill
<1>7. ASSUME NEW id \in E!Resting, NEW qty \in Nat \ {0}, TakesFrom(id, qty)
      PROVE  FillInv'
  <2> DEFINE e == [maker |-> id, price |-> E!PriceAt(id), qty |-> qty]
  <2>1. /\ E!Trades(id, qty) /\ id \in 1..Len(orders) /\ id # t
        /\ executions' = Append(executions, e) /\ (qty = E!Left(id) \/ qty = call.remaining)
    BY <1>2, <1>7 DEF TakesFrom, E!Trades
  <2>2. /\ Len(executions') = Len(executions) + 1 /\ executions'[Len(executions) + 1] = e
        /\ \A k \in 1..Len(executions) : executions'[k] = executions[k]
    BY <1>3, <2>1
  <2>3. orders[id].remaining = qty \/ (op'.phase = "settling" /\ E!Left(t)' = 0)
    <3>1. CASE qty = E!Left(id)
      BY <1>1, <1>2, <2>1, <3>1, LastTrade DEF FillInv
    <3>2. CASE qty = call.remaining
      <4>1. op'.phase = "settling"
        <5>1. SUFFICES ASSUME op'.phase = "matching" PROVE FALSE
          BY <1>7 DEF TakesFrom
        <5>2. call'.running /\ call'.remaining = call.remaining - qty
          BY <1>7, <5>1 DEF TakesFrom
        <5>3. call'.remaining > 0
          BY <5>2 DEF EngineOk, E!EngineInv, E!QtyInv, E!Positive
        <5>4. QED BY <3>2, <5>2, <5>3
      <4>2. E!Left(t) = 0
        BY <1>3, Ledger DEF LedgerOk
      <4>3. E!Left(t)' = E!Left(t)
        BY <2>1 DEF E!Trades, E!Undisturbed
      <4>4. QED BY <4>1, <4>2, <4>3
    <3>3. QED BY <2>1, <3>1, <3>2
  <2>4. ASSUME NEW k \in Pending'
        PROVE  \/ orders'[executions'[k].maker].remaining = executions'[k].qty
               \/ k = Len(executions') /\ op'.phase = "settling" /\ E!Left(t)' = 0
    <3>1. CASE k = Len(executions) + 1
      BY <1>1, <2>2, <2>3, <3>1
    <3>2. CASE k # Len(executions) + 1
      <4>1. k \in 1..Len(executions)
        BY <1>3, <2>2, <3>2
      <4>2. QED BY <1>1, <1>4, <2>2, <4>1
    <3>3. QED BY <3>1, <3>2
  <2>5. E!Left(op.id)' = E!Left(t)'
    BY <1>1, <1>2
  <2>6. QED BY <1>5, <2>4, <2>5 DEF FillInv, TradesFill
<1>8. QED BY <1>1, <1>6, <1>7 DEF Passes, RestsAs

LEMMA SettleFill ==
  ASSUME OpTyped, OpTyped', BaseInv, BaseInv', EngineOk, EngineOk', Synced, FillInv, Settle
  PROVE  FillInv'
<1>1. /\ UNCHANGED E!engineVars /\ op # Idle /\ op' # Idle
      /\ op.phase = "settling" /\ op'.phase = "settling" /\ op'.id = op.id
      /\ op.next \in 1..Len(executions) /\ op'.next = op.next + 1
      /\ IF orders[executions[op.next].maker].active THEN Settles(op.next)
         ELSE UNCHANGED <<orders, users>>
  BY SettleBase
<1>2. PICK e, t, n, x : e = executions[op.next] /\ t = op.id /\ n = op.next /\ x = executions
  OBVIOUS
<1>3. /\ e \in Execution /\ e.qty \in Nat \ {0} /\ e.maker \in 1..Len(orders) /\ e.maker # t
      /\ t \in 1..Len(orders)
      /\ \A id \in {e.maker, t} : orders[id].active /\ orders[id].remaining >= e.qty
  BY <1>1, <1>2, SettleFinds
<1>4. orders' = [orders EXCEPT ![e.maker] = Filled(orders[e.maker], e.price, e.qty),
                               ![t] = Filled(orders[t], e.price, e.qty)]
  BY <1>1, <1>2, <1>3 DEF Settles
<1>5. /\ orders \in Seq(Order) /\ x \in Seq(Execution) /\ n \in Nat \ {0} /\ n + 1 \in Nat \ {0}
      /\ n <= Len(x) /\ executions' = x /\ Pending = n..Len(x) /\ Pending' = n+1..Len(x)
  BY <1>1, <1>2 DEF BaseInv, Tables, OrdersTyped, ExecutionsTyped, Pending, E!engineVars
<1>6. ASSUME NEW k \in n+1..Len(x), orders[x[k].maker].remaining = x[k].qty
      PROVE  orders'[x[k].maker].remaining = x[k].qty
  <2>1. PICK m : m = x[k].maker
    OBVIOUS
  <2>2. k \in Pending /\ k \in 1..Len(x) /\ x[k] \in Execution
    BY <1>5
  <2>3. m \in 1..Len(orders) /\ m # t /\ x[k].qty > 0 /\ x[k].qty \in Int
    BY <1>2, <2>1, <2>2, QtyModFacts DEF BaseInv, PendingFair, Fair, Execution
  <2>4. m # e.maker
    <3>1. SUFFICES ASSUME m = e.maker PROVE FALSE
      OBVIOUS
    <3>2. /\ Agrees(m) /\ Unmatched(m) = 0 /\ E!Left(m) \in Nat /\ op.phase # "refused"
          /\ orders[m].remaining \in Int
      BY <1>1, <2>3, SyncFacts DEF Synced, Unmatched
    <3>3. Unsettled(m) = Taken(x, n, m, t)
      BY <1>1, <1>2 DEF Unsettled
    <3>4. Taken(x, n, m, t) = Taken(x, n + 1, m, t) + Share(x[n], m, t)
      BY <1>5, TakenFacts
    <3>5. Share(x[n], m, t) = e.qty
      BY <1>2, <3>1 DEF Share
    <3>6. x[k].qty <= Taken(x, n + 1, m, t) /\ Taken(x, n + 1, m, t) \in Nat
      BY <1>5, <2>1, TakenHas, TakenFacts
    <3>7. orders[m].remaining = E!Left(m) + Unsettled(m) + 0
      BY <3>2 DEF Agrees
    <3>8. PICK left, later, rest, q \in Int :
            /\ left = E!Left(m) /\ later = Taken(x, n + 1, m, t)
            /\ rest = orders[m].remaining /\ q = x[k].qty
      BY <2>3, <3>2, <3>6
    <3>9. e.qty \in Int /\ e.qty > 0
      BY <1>3
    <3>10. left >= 0 /\ q <= later /\ rest = q
      BY <1>6, <2>1, <3>2, <3>6, <3>8
    <3>11. rest = (left + (later + e.qty)) + 0
      BY <3>3, <3>4, <3>5, <3>7, <3>8
    <3>12. QED BY ONLY <3>8, <3>9, <3>10, <3>11
  <2>5. orders'[m] = orders[m]
    BY <1>4, <1>5, <2>3, <2>4
  <2>6. QED BY <1>6, <2>1, <2>5
<1>7. E!Left(t)' = E!Left(t)
  BY <1>1, EngineAssumed, E!SameLedger DEF E!Undisturbed, E!engineVars
<1>8. ASSUME NEW k \in Pending'
      PROVE  \/ orders'[executions'[k].maker].remaining = executions'[k].qty
             \/ k = Len(executions') /\ op'.phase = "settling" /\ E!Left(t)' = 0
  <2>1. k \in Pending /\ k \in n+1..Len(x)
    BY <1>5, <1>8
  <2>2. \/ orders[x[k].maker].remaining = x[k].qty
        \/ k = Len(x) /\ E!Left(t) = 0
    BY <1>2, <2>1 DEF FillInv, TradesFill
  <2>3. QED BY <1>1, <1>5, <1>6, <1>7, <2>1, <2>2
<1>9. E!Left(op.id)' = E!Left(t)'
  BY <1>1, <1>2
<1>10. op.next + 1 <= Len(executions) + 1
  BY <1>2, <1>5
<1>11. QED BY <1>1, <1>2, <1>5, <1>8, <1>9, <1>10 DEF FillInv, TradesFill, RefusedLive, NextBounded

LEMMA FillStep ==
  ASSUME OpTyped, OpTyped', BaseInv, BaseInv', EngineOk, EngineOk', Synced, FillInv, [AnyStep]_vars
  PROVE  FillInv'
<1>1. CASE SubmitStep
  BY <1>1, SubmitFill
<1>2. CASE CancelStep
  BY <1>2, IdleFill DEF CancelStep
<1>3. CASE QuietStep
  BY <1>3, IdleFill DEF QuietStep, MakeUser, AddBalance, CanCall
<1>4. CASE EngineStep
  BY <1>4, EngineStepFill
<1>5. CASE Rollback
  BY <1>5, IdleFill DEF Rollback
<1>6. CASE Settle
  BY <1>6, SettleFill
<1>7. CASE Finish
  BY <1>7, IdleFill DEF Finish
<1>8. CASE UNCHANGED vars
  <2>1. UNCHANGED <<op, orders, executions>> /\ UNCHANGED E!engineVars
    BY <1>8, SameEngine DEF vars, walletVars, E!engineVars
  <2>2. PICK t : t = op.id
    OBVIOUS
  <2>3. E!Left(t)' = E!Left(t)
    BY <2>1, EngineAssumed, E!SameLedger DEF E!engineVars, E!Undisturbed
  <2>4. E!Left(op.id)' = E!Left(op.id)
    BY <2>1, <2>2, <2>3
  <2>5. QED BY <2>1, <2>4 DEF FillInv, TradesFill, RefusedLive, NextBounded, Pending
<1>9. QED BY <1>1, <1>2, <1>3, <1>4, <1>5, <1>6, <1>7, <1>8, StepKinds

LEMMA FillAlways == AnySpec => []FillInv
<1>1. Init => FillInv
  BY DEF Init, FillInv, TradesFill, RefusedLive, NextBounded, Pending, Idle
<1>2. /\ OpTyped /\ OpTyped' /\ BaseInv /\ BaseInv' /\ EngineOk /\ EngineOk' /\ Synced
      /\ FillInv /\ [AnyStep]_vars
      => FillInv'
  BY FillStep
<1>3. QED BY <1>1, <1>2, OpTypedAlways, EngineAlwaysOk, BaseAlways, SyncAlways, PTL DEF AnySpec

\* Forgetting an active order leaves one fewer.
LEMMA ActiveFinite == ASSUME Tables PROVE IsFiniteSet(ActiveIds) /\ ActiveCount \in Nat
<1>1. IsFiniteSet(1..Len(orders)) /\ ActiveIds \subseteq 1..Len(orders)
  BY FS_Interval DEF ActiveIds, Tables, OrdersTyped
<1>2. IsFiniteSet(ActiveIds)
  BY <1>1, FS_Subset
<1>3. QED BY <1>2, FS_CardinalityType DEF ActiveCount

LEMMA ReleasedCount ==
  ASSUME Tables, NEW id \in 1..Len(orders), orders[id].active, Releases(id)
  PROVE  ActiveCount' = ActiveCount - 1
<1>1. orders \in Seq(Order) /\ orders[id] \in Order
  BY DEF Tables, OrdersTyped
<1>2. ~Forgotten(orders[id]).active
  BY <1>1 DEF Forgotten, Order
<1>3. /\ Len(orders') = Len(orders) /\ ~orders'[id].active
      /\ \A j \in 1..Len(orders) : j # id => orders'[j] = orders[j]
  BY <1>1, <1>2 DEF Releases
<1>4. ActiveIds' = ActiveIds \ {id} /\ id \in ActiveIds
  BY <1>3 DEF ActiveIds
<1>5. QED BY <1>4, ActiveFinite, FS_RemoveElement DEF ActiveCount

\* A trade that is settled takes one or two orders from the active ones.
LEMMA SettledCount ==
  ASSUME OpTyped, OpTyped', BaseInv, BaseInv', EngineOk, EngineOk', Synced, FillInv, Settle
  PROVE  ActiveCount' = ActiveCount - 1 \/ ActiveCount' = ActiveCount - 2
<1>1. /\ op # Idle /\ op.phase = "settling" /\ op.next \in 1..Len(executions)
      /\ IF orders[executions[op.next].maker].active THEN Settles(op.next)
         ELSE UNCHANGED <<orders, users>>
  BY SettleBase
<1>2. PICK e, t, m, n, x : /\ e = executions[op.next] /\ t = op.id /\ m = e.maker
                           /\ n = op.next /\ x = executions
  OBVIOUS
<1>3. /\ e \in Execution /\ e.qty \in Nat \ {0} /\ m \in 1..Len(orders) /\ m # t
      /\ t \in 1..Len(orders)
      /\ \A id \in {m, t} : orders[id].active /\ orders[id].remaining >= e.qty
  BY <1>1, <1>2, SettleFinds
<1>4. orders' = [orders EXCEPT ![m] = Filled(orders[m], e.price, e.qty),
                               ![t] = Filled(orders[t], e.price, e.qty)]
  BY <1>1, <1>2, <1>3 DEF Settles
<1>5. orders \in Seq(Order) /\ x \in Seq(Execution) /\ n \in Nat \ {0} /\ n <= Len(x)
  BY <1>1, <1>2 DEF BaseInv, Tables, OrdersTyped, ExecutionsTyped
<1>6. /\ Len(orders') = Len(orders)
      /\ \A j \in 1..Len(orders) :
           orders'[j] = IF j = m \/ j = t THEN Filled(orders[j], e.price, e.qty) ELSE orders[j]
  BY <1>3, <1>4, <1>5
<1>7. ASSUME NEW j \in {m, t}
      PROVE  orders'[j].active <=> orders[j].remaining # e.qty
  <2>1. orders[j] \in Order /\ e.price \in Int /\ e.qty \in Nat /\ orders[j].remaining >= e.qty
    BY <1>3, <1>5 DEF Execution
  <2>2. /\ orders'[j].remaining = orders[j].remaining - e.qty
        /\ orders'[j].active <=> orders'[j].remaining # 0
    BY <1>3, <1>6, <2>1, FilledExact
  <2>3. orders[j].remaining \in Int
    BY <2>1, QtyModFacts DEF Order
  <2>4. QED BY <2>1, <2>2, <2>3
<1>8. orders[m].remaining = e.qty \/ orders[t].remaining = e.qty
  <2>1. n \in Pending
    BY <1>1, <1>2, <1>5 DEF Pending
  <2>2. orders[m].remaining = e.qty \/ (n = Len(x) /\ E!Left(t) = 0)
    BY <1>2, <2>1 DEF FillInv, TradesFill
  <2>3. ASSUME n = Len(x), E!Left(t) = 0 PROVE orders[t].remaining = e.qty
    <3>1. Agrees(t) /\ Unmatched(t) = 0 /\ op.phase # "refused" /\ orders[t].remaining \in Int
      BY <1>1, <1>3, SyncFacts DEF Synced, Unmatched
    <3>2. Unsettled(t) = Taken(x, n, t, t)
      BY <1>1, <1>2 DEF Unsettled
    <3>3. Taken(x, n, t, t) = Taken(x, n + 1, t, t) + Share(x[n], t, t)
      BY <1>5, TakenFacts
    <3>4. Taken(x, n + 1, t, t) = 0
      <4>1. n + 1 \in Nat \ {0} /\ n + 1 > Len(x)
        BY <1>5, <2>3
      <4>2. QED BY <1>5, <4>1, TakenNone
    <3>5. Share(x[n], t, t) = e.qty
      BY <1>2 DEF Share
    <3>6. orders[t].remaining = E!Left(t) + Unsettled(t) + Unmatched(t)
      BY <3>1 DEF Agrees
    <3>7. QED BY <1>3, <2>3, <3>1, <3>2, <3>3, <3>4, <3>5, <3>6
  <2>4. QED BY <2>2, <2>3
<1>9. m \in ActiveIds /\ t \in ActiveIds
  BY <1>3 DEF ActiveIds
<1>10. ActiveIds' = {j \in ActiveIds : (j = m \/ j = t) => orders[j].remaining # e.qty}
  BY <1>3, <1>6, <1>7 DEF ActiveIds
<1>11. /\ IsFiniteSet(ActiveIds) /\ ActiveCount \in Nat
  BY ActiveFinite DEF BaseInv
<1>12. /\ IsFiniteSet(ActiveIds \ {m}) /\ Cardinality(ActiveIds \ {m}) = ActiveCount - 1
       /\ Cardinality(ActiveIds \ {t}) = ActiveCount - 1
  BY <1>9, <1>11, FS_RemoveElement DEF ActiveCount
<1>13. Cardinality((ActiveIds \ {m}) \ {t}) = (ActiveCount - 1) - 1
  <2>1. t \in ActiveIds \ {m}
    BY <1>3, <1>9
  <2>2. QED BY <1>12, <2>1, FS_RemoveElement
<1>14. CASE orders[m].remaining = e.qty /\ orders[t].remaining = e.qty
  <2>1. ActiveIds' = (ActiveIds \ {m}) \ {t}
    BY <1>10, <1>14
  <2>2. QED BY <1>11, <1>13, <2>1 DEF ActiveCount
<1>15. CASE orders[m].remaining = e.qty /\ orders[t].remaining # e.qty
  <2>1. ActiveIds' = ActiveIds \ {m}
    BY <1>3, <1>10, <1>15
  <2>2. QED BY <1>12, <2>1 DEF ActiveCount
<1>16. CASE orders[m].remaining # e.qty /\ orders[t].remaining = e.qty
  <2>1. ActiveIds' = ActiveIds \ {t}
    BY <1>3, <1>10, <1>16
  <2>2. QED BY <1>12, <2>1 DEF ActiveCount
<1>17. QED BY <1>8, <1>14, <1>15, <1>16

\* The balance of the counters at any step: a running submission is neither
\* accepted nor refused yet, and its trades are counted before they are settled.
Running == IF op = Idle THEN 0 ELSE 1
Unlogged == IF op.phase = "settling" THEN Len(executions) + 1 - op.next ELSE 0
OrdersFilled == stats.ordersAccepted + Running + carried - ActiveCount - stats.cancelsSucceeded
TradesSettled == stats.tradesExecuted - Unlogged
Stats == [ordersSubmitted : Int, ordersAccepted : Int, cancelsAttempted : Int,
          cancelsSucceeded : Int, tradesExecuted : Int]
Counted == stats \in Stats /\ carried \in Int
CountersInv == Counted /\ TradesSettled <= OrdersFilled /\ OrdersFilled <= 2 * TradesSettled

\* What a step does to each of them.
Moves(accepted, running, active, cancelled, traded, unlogged) ==
  /\ stats'.ordersAccepted = stats.ordersAccepted + accepted /\ Running' = Running + running
  /\ ActiveCount' = ActiveCount + active
  /\ stats'.cancelsSucceeded = stats.cancelsSucceeded + cancelled
  /\ stats'.tradesExecuted = stats.tradesExecuted + traded /\ Unlogged' = Unlogged + unlogged
  /\ carried' = carried /\ Counted'

LEMMA CountTypes ==
  ASSUME OpTyped, BaseInv, Counted
  PROVE  /\ stats.ordersAccepted \in Int /\ stats.cancelsSucceeded \in Int
         /\ stats.tradesExecuted \in Int /\ carried \in Int /\ ActiveCount \in Int
         /\ Running \in Int /\ Unlogged \in Int
<1>1. Unlogged \in Int
  <2>1. CASE op.phase = "settling"
    <3>1. op # Idle
      BY <2>1 DEF Idle
    <3>2. op.next \in Int /\ executions \in Seq(Execution)
      BY <3>1 DEF BaseInv, Tables, ExecutionsTyped
    <3>3. QED BY <3>2 DEF Unlogged
  <2>2. QED BY <2>1 DEF Unlogged
<1>2. QED BY <1>1, ActiveFinite DEF Counted, Stats, Running, BaseInv

\* Either nothing is filled and no trade settled, or one trade with one order
\* or two.
LEMMA MovesKeep ==
  ASSUME OpTyped, BaseInv, CountersInv, NEW a \in Int, NEW r \in Int, NEW n \in Int, NEW c \in Int,
         NEW t \in Int, NEW u \in Int, Moves(a, r, n, c, t, u),
         \/ t - u = 0 /\ (a + r) - (n + c) = 0
         \/ t - u = 1 /\ (a + r) - (n + c) \in {1, 2}
  PROVE  CountersInv'
<1>1. /\ stats.ordersAccepted \in Int /\ stats.cancelsSucceeded \in Int
      /\ stats.tradesExecuted \in Int /\ carried \in Int /\ ActiveCount \in Int
      /\ Running \in Int /\ Unlogged \in Int
  BY CountTypes DEF CountersInv
<1>2. OrdersFilled' = OrdersFilled + ((a + r) - (n + c)) /\ OrdersFilled \in Int
  BY <1>1 DEF OrdersFilled, Moves
<1>3. TradesSettled' = TradesSettled + (t - u) /\ TradesSettled \in Int
  BY <1>1 DEF TradesSettled, Moves
<1>4. QED BY <1>2, <1>3 DEF CountersInv, Moves

\* A step that leaves every count alone but that of the attempts.
LEMMA StillKeep ==
  ASSUME OpTyped, BaseInv, CountersInv, UNCHANGED <<op, orders, carried>>,
         op = Idle \/ UNCHANGED executions, Counted',
         \A f \in {"ordersAccepted", "cancelsSucceeded", "tradesExecuted"} : stats'[f] = stats[f]
  PROVE  CountersInv'
<1>1. ActiveCount' = ActiveCount /\ Running' = Running
  BY DEF ActiveCount, ActiveIds, Running
<1>2. Unlogged' = Unlogged
  BY DEF Unlogged, Idle
<1>3. OrdersFilled' = OrdersFilled /\ TradesSettled' = TradesSettled
  BY <1>1, <1>2 DEF OrdersFilled, TradesSettled
<1>4. QED BY <1>3 DEF CountersInv

LEMMA WithCancelCounts ==
  ASSUME NEW s \in Stats, NEW succeeded \in BOOLEAN
  PROVE  LET t == WithCancel(s, succeeded)
         IN /\ t \in Stats
            /\ t.ordersAccepted = s.ordersAccepted /\ t.tradesExecuted = s.tradesExecuted
            /\ t.cancelsSucceeded = s.cancelsSucceeded + (IF succeeded THEN 1 ELSE 0)
<1>1. s.cancelsAttempted + 1 \in Int /\ s.cancelsSucceeded + 1 \in Int /\ s.cancelsSucceeded \in Int
  BY DEF Stats
<1>2. PICK a, c : /\ a = s.cancelsAttempted + 1
                  /\ c = IF succeeded THEN s.cancelsSucceeded + 1 ELSE s.cancelsSucceeded
  OBVIOUS
<1>3. PICK t : t = [s EXCEPT !.cancelsAttempted = a, !.cancelsSucceeded = c]
  OBVIOUS
<1>4. t = WithCancel(s, succeeded)
  BY <1>2, <1>3, Zenon DEF WithCancel
<1>5. a \in Int /\ c \in Int
  BY <1>1, <1>2
<1>6. /\ t \in Stats /\ t.ordersAccepted = s.ordersAccepted
      /\ t.tradesExecuted = s.tradesExecuted /\ t.cancelsSucceeded = c
  BY <1>3, <1>5 DEF Stats
<1>7. c = s.cancelsSucceeded + (IF succeeded THEN 1 ELSE 0)
  BY <1>1, <1>2
<1>8. QED BY <1>4, <1>6, <1>7

LEMMA SubmitBegins ==
  ASSUME NEW user, NEW side, NEW price, NEW qty, NEW discard, Submit(user, side, price, qty, discard)
  PROVE  op'.phase = "matching" \/ op'.phase = "refused"
BY DEF Submit

LEMMA SubmittedCounts ==
  ASSUME OpTyped, OpTyped', BaseInv, BaseInv', CountersInv, [AnyStep]_vars, Submitted
  PROVE  CountersInv'
<1>1. op = Idle /\ (op'.phase = "matching" \/ op'.phase = "refused")
  <2>1. ASSUME NEW user, NEW side, NEW price, NEW qty, NEW discard,
               AddOrder(user, side, price, qty, discard)
        PROVE  op = Idle /\ (op'.phase = "matching" \/ op'.phase = "refused")
    BY <2>1, SubmitBegins, Zenon DEF AddOrder, CanCall
  <2>2. ASSUME NEW user, NEW side, NEW qty, AddMarketOrder(user, side, qty)
        PROVE  op = Idle /\ (op'.phase = "matching" \/ op'.phase = "refused")
    BY <2>2, SubmitBegins, Zenon DEF AddMarketOrder, CanCall
  <2>3. CASE SeedOrder
    BY <2>3, SubmitBegins, Zenon DEF SeedOrder
  <2>4. QED BY <2>1, <2>2, <2>3, Zenon DEF Submitted
<1>2. SubmitStep
  <2>1. ~CancelStep /\ ~QuietStep /\ ~(UNCHANGED vars)
    <3>1. op' # op /\ op' # Idle
      BY <1>1 DEF Idle
    <3>2. QED BY <3>1, Zenon DEF CancelStep, QuietStep, MakeUser, AddBalance, vars, walletVars
  <2>2. ~EngineStep /\ ~Rollback /\ ~Settle /\ ~Finish
    BY <1>1 DEF EngineStep, Rollback, Settle, Finish, Idle
  <2>3. QED BY <2>1, <2>2, StepKinds
<1>3. PICK user \in UserIds, side \in Sides, price \in Int, qty \in 0..QtyMod-1, discard \in BOOLEAN :
        op = Idle /\ Submit(user, side, price, qty, discard)
  BY <1>2 DEF SubmitStep
<1>4. PICK o : o = NewOrder(user, side, price, qty)
  OBVIOUS
<1>5. orders' = Append(orders, o) /\ op' # Idle
  BY <1>3, <1>4, SubmitChanges DEF BaseInv
<1>6. ActiveCount' = ActiveCount + 1
  <2>1. PICK id : id = Len(orders) + 1
    OBVIOUS
  <2>2. orders \in Seq(Order)
    BY DEF BaseInv, Tables, OrdersTyped
  <2>3. Len(orders') = id /\ orders'[id] = o /\ \A j \in 1..Len(orders) : orders'[j] = orders[j]
    BY <1>5, <2>1, <2>2
  <2>4. o.active
    BY <1>4 DEF NewOrder
  <2>5. ActiveIds' = ActiveIds \cup {id} /\ id \notin ActiveIds
    BY <2>1, <2>2, <2>3, <2>4 DEF ActiveIds
  <2>6. IsFiniteSet(ActiveIds)
    BY ActiveFinite DEF BaseInv
  <2>7. QED BY <2>5, <2>6, FS_AddElement DEF ActiveCount
<1>7. /\ stats' \in Stats /\ stats'.ordersAccepted = stats.ordersAccepted
      /\ stats'.cancelsSucceeded = stats.cancelsSucceeded
      /\ stats'.tradesExecuted = stats.tradesExecuted /\ carried' = carried
  BY DEF Submitted, CountersInv, Counted, Stats
<1>8. Running = 0 /\ Running' = 1 /\ Unlogged = 0 /\ Unlogged' = 0
  BY <1>1, <1>5 DEF Running, Unlogged, Idle
<1>9. Moves(0, 1, 1, 0, 0, 0)
  BY <1>6, <1>7, <1>8 DEF Moves, CountersInv, Counted, Stats
<1>10. QED BY <1>9, MovesKeep

LEMMA MatchedCounts ==
  ASSUME OpTyped, OpTyped', BaseInv, BaseInv', EngineOk, CountersInv, Matched
  PROVE  CountersInv'
<1>1. /\ op.phase = "matching" /\ op # Idle /\ op' # Idle /\ op'.next = 1 /\ UNCHANGED orders
      /\ executions' \in Seq(Execution)
  BY EngineStepCases DEF Matched
<1>2. PICK n \in Int : n = IF op'.phase = "settling" THEN Len(executions') ELSE 0
  BY <1>1
<1>3. /\ Unlogged = 0 /\ Running' = Running /\ ActiveCount' = ActiveCount
  BY <1>1 DEF Unlogged, Running, ActiveCount, ActiveIds
<1>4. Unlogged' = n
  BY <1>1, <1>2 DEF Unlogged
<1>5. stats.tradesExecuted \in Int /\ stats \in Stats /\ carried' = carried
  BY DEF CountersInv, Counted, Stats, Matched
<1>6. stats' = [stats EXCEPT !.tradesExecuted = @ + n]
  <2>1. CASE op'.phase = "settling"
    BY <1>1, <1>2, <2>1 DEF Matched
  <2>2. CASE op'.phase # "settling"
    <3>1. stats' = stats /\ n = 0
      BY <1>2, <2>2 DEF Matched
    <3>2. stats = [stats EXCEPT !.tradesExecuted = stats.tradesExecuted + 0]
      BY <1>5 DEF Stats
    <3>3. QED BY <3>1, <3>2
  <2>3. QED BY <2>1, <2>2
<1>7. /\ stats' \in Stats /\ stats'.tradesExecuted = stats.tradesExecuted + n
      /\ stats'.ordersAccepted = stats.ordersAccepted
      /\ stats'.cancelsSucceeded = stats.cancelsSucceeded
  BY <1>5, <1>6 DEF Stats
<1>8. Moves(0, 0, 0, 0, n, n)
  <2>1. /\ stats.ordersAccepted \in Int /\ stats.cancelsSucceeded \in Int /\ ActiveCount \in Int
        /\ Running \in Int /\ carried \in Int
    BY CountTypes DEF CountersInv
  <2>2. QED BY <1>3, <1>4, <1>5, <1>7, <2>1 DEF Moves, Counted
<1>9. QED BY <1>8, MovesKeep

LEMMA SettledCounts ==
  ASSUME OpTyped, OpTyped', BaseInv, BaseInv', EngineOk, EngineOk', Synced, FillInv,
         CountersInv, Settled
  PROVE  CountersInv'
<1>1. /\ op # Idle /\ op' # Idle /\ op.phase = "settling" /\ op'.phase = "settling"
      /\ op.next \in 1..Len(executions) /\ op'.next = op.next + 1 /\ executions' = executions
  BY SettleBase DEF Settled, E!engineVars
<1>2. ActiveCount' = ActiveCount - 1 \/ ActiveCount' = ActiveCount - 2
  BY SettledCount DEF Settled
<1>3. Running' = Running /\ stats' = stats /\ carried' = carried
  BY <1>1 DEF Running, Settled
<1>4. Unlogged' = Unlogged - 1
  <2>1. op.next \in Int /\ Len(executions) \in Int
    BY <1>1 DEF BaseInv, Tables, ExecutionsTyped
  <2>2. QED BY <1>1, <2>1 DEF Unlogged
<1>5. /\ stats.ordersAccepted \in Int /\ stats.cancelsSucceeded \in Int /\ ActiveCount \in Int
      /\ stats.tradesExecuted \in Int /\ Running \in Int /\ Unlogged \in Int
  BY CountTypes DEF CountersInv
<1>6. PICK n \in {-1, -2} : ActiveCount' = ActiveCount + n
  BY <1>2, <1>5
<1>7. Moves(0, 0, n, 0, 0, -1)
  BY <1>3, <1>4, <1>5, <1>6 DEF Moves, CountersInv, Counted
<1>8. n \in Int /\ 0 - (-1) = 1 /\ (0 + 0) - (n + 0) \in {1, 2}
  BY <1>6
<1>9. QED BY <1>7, <1>8, MovesKeep

LEMMA RolledBackCounts ==
  ASSUME OpTyped, OpTyped', BaseInv, BaseInv', FillInv, CountersInv, RolledBack
  PROVE  CountersInv'
<1>1. PICK id : id = op.id
  OBVIOUS
<1>2. op.phase = "refused" /\ op # Idle /\ op' = Idle /\ Releases(id) /\ Tables
  BY <1>1, RollbackChanges DEF BaseInv, RolledBack
<1>3. id \in 1..Len(orders) /\ orders[id].active
  BY <1>1, <1>2 DEF FillInv, RefusedLive, BaseInv, Tables, OrdersTyped
<1>4. ActiveCount' = ActiveCount - 1
  BY <1>2, <1>3, ReleasedCount
<1>5. Running = 1 /\ Running' = 0 /\ Unlogged = 0 /\ Unlogged' = 0
  BY <1>2 DEF Running, Unlogged, Idle
<1>6. stats' = stats /\ carried' = carried
  BY DEF RolledBack, diagnosticVars
<1>7. /\ stats.ordersAccepted \in Int /\ stats.cancelsSucceeded \in Int /\ ActiveCount \in Int
      /\ stats.tradesExecuted \in Int
  BY CountTypes DEF CountersInv
<1>8. Moves(0, -1, -1, 0, 0, 0)
  BY <1>4, <1>5, <1>6, <1>7 DEF Moves, CountersInv, Counted
<1>9. QED BY <1>8, MovesKeep

\* The wrapper's cancel counts what it releases.
LEMMA CancelCount ==
  ASSUME BaseInv, EngineOk', NEW id \in 1..Len(orders), orders[id].active, CancelActive(id)
  PROVE  ok' \in BOOLEAN /\ ActiveCount' = ActiveCount - (IF ok' THEN 1 ELSE 0)
<1>1. ok' \in BOOLEAN
  BY DEF EngineOk, E!EngineInv, E!TypeOK
<1>2. IF ok' THEN Releases(id) ELSE UNCHANGED <<users, orders>>
  BY CancelChanges DEF BaseInv
<1>3. CASE ok'
  BY <1>2, <1>3, <1>1, ReleasedCount DEF BaseInv
<1>4. CASE ~ok'
  <2>1. ActiveCount' = ActiveCount /\ ActiveCount \in Int
    BY <1>2, <1>4, ActiveFinite DEF ActiveCount, ActiveIds, BaseInv
  <2>2. QED BY <1>1, <1>4, <2>1
<1>5. QED BY <1>3, <1>4

LEMMA AcceptedCounts ==
  ASSUME OpTyped, OpTyped', BaseInv, BaseInv', EngineOk, EngineOk', FillInv, CountersInv, Accepted
  PROVE  CountersInv'
<1>1. PICK id, s : /\ id = op.id
                   /\ s = IF DiscardsRest THEN WithCancel(stats, ok') ELSE stats
  OBVIOUS
<1>2. /\ op.phase = "settling" /\ op # Idle /\ op' = Idle /\ id \in 1..Len(orders)
      /\ op.next > Len(executions)
  BY <1>1, FinishChanges DEF Accepted
<1>3. Unlogged = 0 /\ Unlogged' = 0 /\ Running = 1 /\ Running' = 0
  <2>1. op.next \in Int /\ Len(executions) \in Int
    BY <1>2 DEF BaseInv, Tables, ExecutionsTyped
  <2>2. op.next = Len(executions) + 1
    BY <1>2, <2>1 DEF FillInv, NextBounded
  <2>3. QED BY <1>2, <2>1, <2>2 DEF Unlogged, Running, Idle
<1>4. stats \in Stats /\ carried' = carried /\ carried \in Int
  BY DEF Accepted, CountersInv, Counted
<1>5. PICK c \in {0, 1} : /\ s \in Stats /\ s.ordersAccepted = stats.ordersAccepted
                          /\ s.tradesExecuted = stats.tradesExecuted
                          /\ s.cancelsSucceeded = stats.cancelsSucceeded + c
                          /\ ActiveCount' = ActiveCount - c
  <2>1. CASE DiscardsRest
    <3>1. orders[id].active /\ CancelActive(id)
      BY <1>1, <2>1 DEF Accepted, Finish, DiscardsRest
    <3>2. ok' \in BOOLEAN /\ ActiveCount' = ActiveCount - (IF ok' THEN 1 ELSE 0)
      BY <1>2, <3>1, CancelCount
    <3>3. PICK b \in BOOLEAN : b = ok'
      BY <3>2
    <3>4. s = WithCancel(stats, b)
      BY <1>1, <2>1, <3>3
    <3>5. /\ s \in Stats /\ s.ordersAccepted = stats.ordersAccepted
          /\ s.tradesExecuted = stats.tradesExecuted
          /\ s.cancelsSucceeded = stats.cancelsSucceeded + (IF b THEN 1 ELSE 0)
      BY <1>4, <3>4, WithCancelCounts
    <3>6. QED BY <3>2, <3>3, <3>5
  <2>2. CASE ~DiscardsRest
    <3>1. ActiveCount' = ActiveCount
      BY <2>2 DEF Accepted, Finish, ActiveCount, ActiveIds
    <3>2. stats.cancelsSucceeded \in Int /\ ActiveCount \in Int
      BY CountTypes DEF CountersInv
    <3>3. s = stats
      BY <1>1, <2>2
    <3>4. /\ s.cancelsSucceeded = stats.cancelsSucceeded + 0 /\ ActiveCount' = ActiveCount - 0
      BY <3>1, <3>2, <3>3
    <3>5. QED BY <1>4, <3>3, <3>4
  <2>3. QED BY <2>1, <2>2
<1>6. stats' = [s EXCEPT !.ordersAccepted = @ + 1]
  BY <1>1 DEF Accepted
<1>7. /\ stats' \in Stats /\ stats'.ordersAccepted = stats.ordersAccepted + 1
      /\ stats'.cancelsSucceeded = stats.cancelsSucceeded + c
      /\ stats'.tradesExecuted = stats.tradesExecuted
  BY <1>5, <1>6 DEF Stats
<1>8. /\ stats.tradesExecuted \in Int /\ ActiveCount \in Int
  BY CountTypes DEF CountersInv
<1>9. PICK d \in Int : d = -c
  BY <1>5
<1>10. Moves(1, -1, d, c, 0, 0)
  BY <1>3, <1>4, <1>5, <1>7, <1>8, <1>9 DEF Moves, Counted
<1>11. (1 + (-1)) - (d + c) = 0 /\ c \in Int /\ 0 - 0 = 0
  BY <1>5, <1>9
<1>12. QED BY <1>10, <1>11, MovesKeep

LEMMA CancelledCounts ==
  ASSUME OpTyped, OpTyped', BaseInv, BaseInv', EngineOk, EngineOk', CountersInv, Cancelled
  PROVE  CountersInv'
<1>1. PICK id \in 1..Len(orders) :
        op = Idle /\ op' = Idle /\ orders[id].active /\ CancelActive(id)
  BY DEF Cancelled, CancelOrder, CanCall, MayCancel
<1>2. ok' \in BOOLEAN /\ ActiveCount' = ActiveCount - (IF ok' THEN 1 ELSE 0)
  BY <1>1, CancelCount
<1>3. PICK b \in BOOLEAN : b = ok'
  BY <1>2
<1>4. PICK c \in {0, 1}, d \in Int : c = (IF b THEN 1 ELSE 0) /\ d = -c
  OBVIOUS
<1>5. stats \in Stats /\ carried' = carried /\ stats' = WithCancel(stats, b)
  BY <1>3 DEF Cancelled, CountersInv, Counted
<1>6. /\ stats' \in Stats /\ stats'.ordersAccepted = stats.ordersAccepted
      /\ stats'.tradesExecuted = stats.tradesExecuted
      /\ stats'.cancelsSucceeded = stats.cancelsSucceeded + c
  BY <1>4, <1>5, WithCancelCounts
<1>7. /\ stats.ordersAccepted \in Int /\ ActiveCount \in Int /\ stats.tradesExecuted \in Int
      /\ carried \in Int
  BY CountTypes DEF CountersInv
<1>8. ActiveCount' = ActiveCount + d
  BY <1>2, <1>3, <1>4, <1>7
<1>9. Running = 0 /\ Running' = 0 /\ Unlogged = 0 /\ Unlogged' = 0
  BY <1>1 DEF Running, Unlogged, Idle
<1>10. Moves(0, 0, d, c, 0, 0)
  BY <1>5, <1>6, <1>7, <1>8, <1>9 DEF Moves, Counted
<1>11. c \in Int /\ d + c = 0
  BY <1>4
<1>12. (0 + 0) - (d + c) = 0 /\ 0 - 0 = 0
  BY <1>11
<1>13. QED BY <1>10, <1>11, <1>12, MovesKeep

\* Calls that leave the orders alone.
LEMMA QuietCounts ==
  ASSUME OpTyped, BaseInv, CountersInv,
         \/ ManageUsers \/ SubmittedInVain \/ CancelledInVain \/ SetTradeLogEnabled
         \/ ClearTradeLog \/ UNCHANGED <<vars, diagnosticVars>>
  PROVE  CountersInv'
<1>1. stats \in Stats /\ carried \in Int
  BY DEF CountersInv, Counted
<1>2. \A f \in DOMAIN stats : stats[f] \in Int
  BY <1>1 DEF Stats
<1>3. UNCHANGED <<op, orders, carried>> /\ (op = Idle \/ UNCHANGED executions)
  BY DEF ManageUsers, MakeUser, AddBalance, CanCall, SubmittedInVain, CancelledInVain,
         SetTradeLogEnabled, ClearTradeLog, vars, engineVars, walletVars, diagnosticVars
<1>4. stats' \in Stats /\ \A f \in {"ordersAccepted", "cancelsSucceeded", "tradesExecuted"} :
                            stats'[f] = stats[f]
  <2>1. CASE SubmittedInVain
    <3>1. stats' = [stats EXCEPT !.ordersSubmitted = @ + 1]
      BY <2>1 DEF SubmittedInVain
    <3>2. QED BY <1>1, <3>1 DEF Stats
  <2>2. CASE CancelledInVain
    <3>1. stats' = WithCancel(stats, FALSE)
      BY <2>2 DEF CancelledInVain
    <3>2. stats' \in Stats
      BY <1>1, <3>1, WithCancelCounts
    <3>3. QED BY <1>1, <3>1, <3>2 DEF WithCancel, Stats
  <2>3. CASE ~SubmittedInVain /\ ~CancelledInVain
    <3>1. stats' = stats
      BY <2>3 DEF ManageUsers, SetTradeLogEnabled, ClearTradeLog, diagnosticVars
    <3>2. QED BY <1>1, <3>1
  <2>4. QED BY <2>1, <2>2, <2>3
<1>5. Counted'
  BY <1>1, <1>3, <1>4 DEF Counted
<1>6. QED BY <1>3, <1>4, <1>5, StillKeep

LEMMA ResetCounts ==
  ASSUME OpTyped, BaseInv, CountersInv, ResetStats
  PROVE  CountersInv'
<1>1. op = Idle /\ op' = Idle /\ orders' = orders /\ stats' = NoStats /\ carried' = ActiveCount
  BY DEF ResetStats, CanCall, vars, walletVars
<1>2. ActiveCount' = ActiveCount /\ ActiveCount \in Int
  BY <1>1, ActiveFinite DEF ActiveCount, ActiveIds, BaseInv
<1>3. Running' = 0 /\ Unlogged' = 0
  BY <1>1 DEF Running, Unlogged, Idle
<1>4. stats' \in Stats /\ OrdersFilled' = 0 /\ TradesSettled' = 0
  BY <1>1, <1>2, <1>3 DEF NoStats, Stats, OrdersFilled, TradesSettled
<1>5. QED BY <1>1, <1>2, <1>4 DEF CountersInv, Counted

\* What is recorded changes nothing in the wrapper.
LEMMA RecordedSteps == [NextRecorded]_<<vars, diagnosticVars>> => [AnyStep]_vars
<1>1. [NextRecorded]_<<vars, diagnosticVars>> => [Next]_vars
  BY Zenon DEF NextRecorded, ManageUsers, Submitted, SubmittedInVain, Matched, Settled, RolledBack,
           Accepted, Cancelled, CancelledInVain, SetTradeLogEnabled, ClearTradeLog, ResetStats, Next
<1>2. QED BY <1>1, NextIsAny

LEMMA RecordedRuns == SpecRecorded => AnySpec
<1>1. InitRecorded => Init
  BY DEF InitRecorded
<1>2. QED BY <1>1, RecordedSteps, PTL DEF SpecRecorded, AnySpec

LEMMA CountersStep ==
  ASSUME OpTyped, OpTyped', BaseInv, BaseInv', EngineOk, EngineOk', Synced, FillInv, CountersInv,
         [NextRecorded]_<<vars, diagnosticVars>>
  PROVE  CountersInv'
<1>1. CASE Submitted
  BY <1>1, RecordedSteps, SubmittedCounts
<1>2. CASE Matched
  BY <1>2, MatchedCounts
<1>3. CASE Settled
  BY <1>3, SettledCounts
<1>4. CASE RolledBack
  BY <1>4, RolledBackCounts
<1>5. CASE Accepted
  BY <1>5, AcceptedCounts
<1>6. CASE Cancelled
  BY <1>6, CancelledCounts
<1>7. CASE ResetStats
  BY <1>7, ResetCounts
<1>8. CASE \/ ManageUsers \/ SubmittedInVain \/ CancelledInVain \/ SetTradeLogEnabled
           \/ ClearTradeLog \/ UNCHANGED <<vars, diagnosticVars>>
  BY <1>8, QuietCounts
<1>9. QED BY <1>1, <1>2, <1>3, <1>4, <1>5, <1>6, <1>7, <1>8, Zenon DEF NextRecorded

\* The counters of getStats account for every order, whatever is submitted,
\* refused, cancelled and reset: none is counted twice and none is forgotten.
THEOREM CountersCorrect == SpecRecorded => []CountersAddUp
<1>1. InitRecorded => CountersInv
  <2> SUFFICES ASSUME InitRecorded PROVE CountersInv
    OBVIOUS
  <2>1. op = Idle /\ orders = <<>> /\ stats = NoStats /\ carried = 0
    BY DEF InitRecorded, Init
  <2>2. ActiveIds = {}
    BY <2>1 DEF ActiveIds
  <2>3. ActiveCount = 0
    BY <2>2, FS_EmptySet DEF ActiveCount
  <2>4. Running = 0 /\ Unlogged = 0
    BY <2>1 DEF Running, Unlogged, Idle
  <2>5. stats \in Stats /\ OrdersFilled = 0 /\ TradesSettled = 0
    BY <2>1, <2>3, <2>4 DEF NoStats, Stats, OrdersFilled, TradesSettled
  <2>6. QED BY <2>1, <2>5 DEF CountersInv, Counted
<1>2. /\ OpTyped /\ OpTyped' /\ BaseInv /\ BaseInv' /\ EngineOk /\ EngineOk' /\ Synced /\ FillInv
      /\ CountersInv /\ [NextRecorded]_<<vars, diagnosticVars>>
      => CountersInv'
  BY CountersStep
<1>3. OpTyped /\ BaseInv /\ CountersInv => CountersAddUp
  <2> SUFFICES ASSUME OpTyped, BaseInv, CountersInv, op = Idle
               PROVE  LET filled == stats.ordersAccepted + carried - ActiveCount
                                      - stats.cancelsSucceeded
                      IN stats.tradesExecuted <= filled /\ filled <= 2 * stats.tradesExecuted
    BY DEF CountersAddUp
  <2>1. /\ stats.ordersAccepted \in Int /\ stats.cancelsSucceeded \in Int
        /\ stats.tradesExecuted \in Int /\ carried \in Int /\ ActiveCount \in Int
    BY CountTypes DEF CountersInv
  <2>2. Running = 0 /\ Unlogged = 0
    BY DEF Running, Unlogged, Idle
  <2>3. /\ OrdersFilled = stats.ordersAccepted + carried - ActiveCount - stats.cancelsSucceeded
        /\ TradesSettled = stats.tradesExecuted
    BY <2>1, <2>2 DEF OrdersFilled, TradesSettled
  <2>4. QED BY <2>3 DEF CountersInv
<1>4. QED BY <1>1, <1>2, <1>3, RecordedRuns, OpTypedAlways, EngineAlwaysOk, BaseAlways,
             SyncAlways, FillAlways, PTL DEF SpecRecorded
------------------------------------------------------------------------------
(***************************************************************************)
(* What a submission finds in the log when it returns.  While its trades   *)
(* are being settled, the newest entries of the log are those that are     *)
(* settled already, for no trade is skipped.                               *)
(***************************************************************************)
LEMMA LogAlways == SpecRecorded => []LogInv
<1>1. InitRecorded => LogInv
  BY InitLog DEF InitRecorded
<1>2. LogInv /\ [NextRecorded]_<<vars, diagnosticVars>> => LogInv'
  BY StepsOfLog, LogStepInv
<1>3. QED BY <1>1, <1>2, PTL DEF SpecRecorded

ToldAt(k) ==
  LET e == executions[op.next - k]
  IN /\ k <= tradeLogSize /\ e.maker \in 1..Len(orders)
     /\ Recent[k] = TradeOf(e, op.id)
Told ==
  op.phase = "settling" /\ tradeLogEnabled =>
    \A k \in 1..kTradeLogCap : k < op.next => ToldAt(k)

\* A trade leaves the sides of the orders alone, so it reads the same after it.
LEMMA TradeStays ==
  ASSUME NEW e, NEW t \in 1..Len(orders), e.maker \in 1..Len(orders), Len(orders') = Len(orders),
         \A id \in 1..Len(orders) : orders'[id].side = orders[id].side
  PROVE  TradeOf(e, t)' = TradeOf(e, t)
BY DEF TradeOf, IsBid

LEMMA ToldNext ==
  ASSUME NEW k, NEW d, NEW t, executions'[op'.next - k] = d, op'.id = t, k <= tradeLogSize',
         d.maker \in 1..Len(orders'), Recent'[k] = TradeOf(d, t)'
  PROVE  ToldAt(k)'
BY DEF ToldAt, TradeOf

LEMMA SettledTells ==
  ASSUME OpTyped, BaseInv, EngineOk, EngineOk', Synced, LogInv, LogInv', Told, Settled
  PROVE  Told'
<1>1. /\ op # Idle /\ op.phase = "settling" /\ op'.id = op.id /\ executions' = executions
      /\ op.next \in 1..Len(executions) /\ op'.next = op.next + 1
      /\ IF orders[executions[op.next].maker].active THEN Settles(op.next)
         ELSE UNCHANGED <<orders, users>>
  BY SettleBase DEF Settled, E!engineVars
<1>2. PICK e, t, n, x : /\ e = executions[op.next] /\ t = op.id /\ n = op.next
                        /\ x = executions
  OBVIOUS
<1>3. /\ e \in Execution /\ e.qty \in Nat \ {0} /\ e.maker \in 1..Len(orders) /\ e.maker # t
      /\ t \in 1..Len(orders)
      /\ \A id \in {e.maker, t} : orders[id].active /\ orders[id].remaining >= e.qty
  BY <1>1, <1>2, SettleFinds
<1>4. orders' = [orders EXCEPT ![e.maker] = Filled(orders[e.maker], e.price, e.qty),
                               ![t] = Filled(orders[t], e.price, e.qty)]
  BY <1>1, <1>2, <1>3 DEF Settles
<1>5. orders \in Seq(Order) /\ n \in Nat \ {0}
  BY <1>1, <1>2 DEF BaseInv, Tables, OrdersTyped, ExecutionsTyped
<1>6. ASSUME NEW id \in 1..Len(orders)
      PROVE  orders'[id].side = orders[id].side
  <2>1. orders[id] \in Order
    BY <1>5
  <2>2. Filled(orders[id], e.price, e.qty).side = orders[id].side
    BY <2>1 DEF Filled, Order
  <2>3. orders'[id] = Filled(orders[id], e.price, e.qty) \/ orders'[id] = orders[id]
    BY <1>3, <1>4, <1>5
  <2>4. QED BY <2>2, <2>3
<1>7. Len(orders') = Len(orders)
  BY <1>3, <1>4, <1>5
<1>8. Log!PushTrade(TradeOf(e, t))
  BY <1>2, <1>3 DEF Settled, Logs
<1>9. SUFFICES ASSUME tradeLogEnabled', NEW k \in 1..kTradeLogCap, k < op'.next
               PROVE  ToldAt(k)'
  BY DEF Told
<1>10. tradeLogEnabled
  BY <1>8, <1>9 DEF Log!PushTrade, Log!logVars
<1>11. /\ tradeLogSize' = IF tradeLogSize < kTradeLogCap THEN tradeLogSize + 1 ELSE kTradeLogCap
       /\ \A j \in 1..tradeLogSize' : Recent'[j] = IF j = 1 THEN TradeOf(e, t) ELSE Recent[j - 1]
  BY <1>8, <1>10, PushTradeRecords
<1>12. tradeLogSize \in 0..kTradeLogCap /\ kTradeLogCap \in Nat \ {0}
  BY DEF LogInv
<1>13. CASE k = 1
  <2>1. op'.next - k = n
    BY <1>1, <1>2, <1>5, <1>13
  <2>2. 1 \in 1..tradeLogSize'
    BY <1>11, <1>12
  <2>3. Recent'[1] = TradeOf(e, t)
    BY <1>11, <2>2
  <2>4. TradeOf(e, t)' = TradeOf(e, t)
    BY <1>3, <1>6, <1>7, TradeStays
  <2>5. executions'[op'.next - k] = e /\ op'.id = t /\ k <= tradeLogSize'
    BY <1>1, <1>2, <1>13, <2>1, <2>2
  <2>6. e.maker \in 1..Len(orders') /\ Recent'[k] = TradeOf(e, t)'
    BY <1>3, <1>7, <1>13, <2>3, <2>4
  <2>7. QED BY ONLY <2>5, <2>6, ToldNext
<1>14. CASE k # 1
  <2>1. /\ k - 1 \in 1..kTradeLogCap /\ k - 1 < n /\ n - (k - 1) = op'.next - k
    <3>1. op'.next = n + 1 /\ n \in Nat
      BY <1>1, <1>2, <1>5
    <3>2. k \in Nat \ {0, 1} /\ k <= kTradeLogCap
      BY <1>12, <1>14
    <3>3. QED BY <1>9, <1>12, <3>1, <3>2
  <2>2. PICK d : d = x[n - (k - 1)]
    OBVIOUS
  <2>3. k - 1 <= tradeLogSize /\ d.maker \in 1..Len(orders) /\ Recent[k - 1] = TradeOf(d, t)
    BY <1>1, <1>2, <1>10, <2>1, <2>2 DEF Told, ToldAt
  <2>4. k \in 1..tradeLogSize'
    BY <1>11, <1>12, <2>3
  <2>5. Recent'[k] = TradeOf(d, t)
    BY <1>11, <1>14, <2>3, <2>4
  <2>6. TradeOf(d, t)' = TradeOf(d, t)
    BY <1>3, <1>6, <1>7, <2>3, TradeStays
  <2>7. executions'[op'.next - k] = d /\ op'.id = t /\ k <= tradeLogSize'
    BY <1>1, <1>2, <2>1, <2>2, <2>4
  <2>8. d.maker \in 1..Len(orders') /\ Recent'[k] = TradeOf(d, t)'
    BY <1>7, <2>3, <2>5, <2>6
  <2>9. QED BY ONLY <2>7, <2>8, ToldNext
<1>15. QED BY <1>13, <1>14

LEMMA ToldStep ==
  ASSUME OpTyped, OpTyped', BaseInv, EngineOk, EngineOk', Synced, LogInv, LogInv', Told,
         [NextRecorded]_<<vars, diagnosticVars>>
  PROVE  Told'
<1>1. CASE Settled
  BY <1>1, SettledTells
<1>2. CASE Matched
  <2>1. op'.next = 1
    BY <1>2, EngineStepCases DEF Matched
  <2>2. QED BY <2>1 DEF Told
<1>3. CASE op' = Idle \/ op'.phase \in {"matching", "refused"}
  BY <1>3 DEF Told, Idle
<1>4. CASE UNCHANGED <<vars, diagnosticVars>>
  <2>1. UNCHANGED <<op, orders, executions, logVars>>
    BY <1>4 DEF vars, engineVars, walletVars, diagnosticVars
  <2>2. UNCHANGED Recent
    BY <2>1 DEF logVars, Recent, Log!GetRecentTrades, Log!ReadPosition
  <2>3. QED BY <2>1, <2>2 DEF Told, ToldAt, TradeOf, logVars
<1>5. CASE ManageUsers \/ SubmittedInVain \/ Cancelled \/ CancelledInVain \/ SetTradeLogEnabled
           \/ ClearTradeLog \/ ResetStats
  <2>1. op' = Idle
    BY <1>5 DEF ManageUsers, MakeUser, AddBalance, SubmittedInVain, CanBeRefused, CanCall, Cancelled,
                CancelOrder, CancelledInVain, SetTradeLogEnabled, ClearTradeLog, ResetStats,
                vars, walletVars
  <2>2. QED BY <1>3, <2>1
<1>6. CASE RolledBack \/ Accepted
  <2>1. op' = Idle
    BY <1>6 DEF RolledBack, Rollback, Accepted, Finish
  <2>2. QED BY <1>3, <2>1
<1>7. CASE Submitted
  <2>1. ASSUME NEW user, NEW side, NEW price, NEW qty, NEW discard,
               Submit(user, side, price, qty, discard)
        PROVE  op'.phase \in {"matching", "refused"}
    BY <2>1 DEF Submit
  <2>2. op'.phase \in {"matching", "refused"}
    BY <1>7, <2>1, Zenon DEF Submitted, AddOrder, AddMarketOrder, SeedOrder
  <2>3. QED BY <1>3, <2>2
<1>8. QED BY <1>1, <1>2, <1>4, <1>5, <1>6, <1>7, Zenon DEF NextRecorded

\* A submission returns from the end of its settlement.
LEMMA ReturnTells ==
  ASSUME OpTyped, BaseInv, EngineOk, EngineOk', FillInv, LogInv, Told,
         [NextRecorded]_<<vars, diagnosticVars>>,
         op.phase = "settling", op' = Idle, tradeLogEnabled
  PROVE  LET recent == Log!GetRecentTrades(kTradeLogCap)
             n == Len(executions)
         IN /\ Len(recent) >= Min({n, kTradeLogCap})
            /\ \A k \in 1..Min({n, kTradeLogCap}) :
                 recent[k] = TradeOf(executions[n - (k - 1)], op.id)
<1>1. op # Idle
  BY DEF Idle
<1>2. ~Settled
  BY SettleBase DEF Settled
<1>3. ~(Matched \/ RolledBack)
  BY DEF Matched, EngineStep, RolledBack, Rollback
<1>4. ~(ManageUsers \/ Submitted \/ SubmittedInVain \/ Cancelled \/ CancelledInVain)
  BY <1>1 DEF ManageUsers, MakeUser, AddBalance, Submitted, AddOrder, AddMarketOrder, SeedOrder,
     CanCall, SubmittedInVain, CanBeRefused, Cancelled, CancelOrder, CancelledInVain
<1>5. ~(SetTradeLogEnabled \/ ClearTradeLog \/ ResetStats)
  BY <1>1 DEF CanCall, SetTradeLogEnabled, ClearTradeLog, ResetStats
<1>6. ~UNCHANGED <<vars, diagnosticVars>>
  BY <1>1 DEF vars, walletVars
<1>7. Accepted
  BY <1>2, <1>3, <1>4, <1>5, <1>6, Zenon DEF NextRecorded
<1>8. PICK n : n = Len(executions)
  OBVIOUS
<1>9. n \in Nat /\ op.next = n + 1
  <2>1. op.next \in Nat /\ n \in Nat
    BY <1>1, <1>8, IdleFacts DEF BaseInv, Tables, ExecutionsTyped, Underway
  <2>2. op.next > n
    BY <1>7, <1>8 DEF Accepted, Finish
  <2>3. op.next <= n + 1
    BY <1>8 DEF FillInv, NextBounded
  <2>4. QED BY <2>1, <2>2, <2>3
<1>10. PICK m : m = Min({n, kTradeLogCap})
  OBVIOUS
<1>11. m \in Nat /\ m <= n /\ m <= kTradeLogCap
  <2>1. kTradeLogCap \in Nat
    BY DEF LogInv
  <2>2. m \in {n, kTradeLogCap} /\ m <= n /\ m <= kTradeLogCap
    BY <1>9, <1>10, <2>1, E!MinOfTwo DEF Min, E!Min
  <2>3. QED BY <1>9, <2>1, <2>2
<1>12. ASSUME NEW k \in 1..m
       PROVE  k <= tradeLogSize /\ Recent[k] = TradeOf(executions[n - (k - 1)], op.id)
  <2>1. k \in 1..kTradeLogCap /\ k < op.next /\ op.next - k = n - (k - 1)
    BY <1>9, <1>11 DEF LogInv
  <2>2. QED BY <2>1 DEF Told, ToldAt
<1>13. Log!GetRecentTrades(kTradeLogCap) = Recent
  BY DEF LogInv, Recent, Log!GetRecentTrades, Log!Smaller
<1>14. Len(Recent) = tradeLogSize /\ tradeLogSize \in Nat
  BY RecentIs DEF LogInv
<1>15. m <= tradeLogSize
  <2>1. CASE m = 0
    BY <1>14, <2>1
  <2>2. CASE m # 0
    <3>1. m \in 1..m
      BY <1>11, <2>2
    <3>2. QED BY <1>12, <3>1
  <2>3. QED BY <2>1, <2>2
<1>16. QED BY <1>8, <1>10, <1>11, <1>12, <1>13, <1>14, <1>15

\* For every capacity of the log: a submission that returns while logging is on
\* has told all its trades, the last one newest, as far as the log reaches back.
THEOREM SubmissionTold == SpecRecorded => LogTellsSubmission
<1>1. InitRecorded => Told
  BY DEF InitRecorded, Init, Told, Idle
<1>2. /\ OpTyped /\ OpTyped' /\ BaseInv /\ EngineOk /\ EngineOk' /\ Synced /\ LogInv /\ LogInv'
      /\ Told /\ [NextRecorded]_<<vars, diagnosticVars>>
      => Told'
  BY ToldStep
<1>3. /\ OpTyped /\ BaseInv /\ EngineOk /\ EngineOk' /\ FillInv /\ LogInv /\ Told
      /\ [NextRecorded]_<<vars, diagnosticVars>>
      => [op.phase = "settling" /\ op' = Idle /\ tradeLogEnabled =>
            LET recent == Log!GetRecentTrades(kTradeLogCap)
                n == Len(executions)
            IN /\ Len(recent) >= Min({n, kTradeLogCap})
               /\ \A k \in 1..Min({n, kTradeLogCap}) :
                    recent[k] = TradeOf(executions[n - (k - 1)], op.id)]_<<vars, diagnosticVars>>
  BY ReturnTells
<1>4. QED BY <1>1, <1>2, <1>3, LogAlways, RecordedRuns, OpTypedAlways, EngineAlwaysOk, BaseAlways,
             SyncAlways, FillAlways, PTL DEF SpecRecorded, LogTellsSubmission
=============================================================================
