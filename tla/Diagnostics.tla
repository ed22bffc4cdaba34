----------------------------- MODULE Diagnostics -----------------------------
(***************************************************************************)
(* The account wrapper with what it records about itself: the trade log    *)
(* that settlement writes, and the five counters of getStats.  Each action *)
(* of OrderBook is taken with what its code counts and logs; the calls     *)
(* that their own checks refuse, which OrderBook leaves out because they   *)
(* change nothing there, are counted too.                                  *)
(***************************************************************************)
EXTENDS OrderBook

CONSTANTS kTradeLogCap,
          CallCap   \* bound: refused calls that are counted between two resets

ASSUME DiagnosticsAssumption == kTradeLogCap \in Nat \ {0} /\ CallCap \in Nat

VARIABLES tradeLogEnabled, tradeLog, tradeLogSize, tradeLogHead,
          stats,    \* the counters
          carried   \* orders that were active when the counters were last reset

Log == INSTANCE TradeLog

logVars == <<tradeLogEnabled, tradeLog, tradeLogSize, tradeLogHead>>
diagnosticVars == <<logVars, stats, carried>>

NoStats == [ordersSubmitted |-> 0, ordersAccepted |-> 0, cancelsAttempted |-> 0,
            cancelsSucceeded |-> 0, tradesExecuted |-> 0]
CanBeRefused(done, granted) == CanCall /\ stats[done] < stats[granted] + CallCap

ActiveCount == Cardinality(ActiveIds)
------------------------------------------------------------------------------
InitRecorded == Init /\ Log!Init /\ stats = NoStats /\ carried = 0

\* The account calls record nothing.
ManageUsers ==
  /\ \/ \E name \in Names : MakeUser(name)
     \/ \E user \in UserIds, quote \in QuoteDeltas, base \in BaseDeltas :
          AddBalance(user, quote, base)
  /\ UNCHANGED diagnosticVars

\* submit_bid and submit_ask count before their first check ...
Submitted ==
  /\ \/ \E user \in UserIds, side \in Sides, price \in Prices, qty \in Qtys, discard \in BOOLEAN :
          AddOrder(user, side, price, qty, discard)
     \/ \E user \in UserIds, side \in Sides, qty \in Qtys : AddMarketOrder(user, side, qty)
     \/ SeedOrder
  /\ stats' = [stats EXCEPT !.ordersSubmitted = @ + 1]
  /\ UNCHANGED <<logVars, carried>>

\* ... so a submission counts that its own checks refuse.
SubmittedInVain ==
  /\ CanBeRefused("ordersSubmitted", "ordersAccepted")
  /\ \E user \in UserIds \cup {Cardinality(UserIds)}, side \in Sides, price \in Prices, qty \in Qtys :
       ~Funded(user, side, price, qty)
  /\ stats' = [stats EXCEPT !.ordersSubmitted = @ + 1]
  /\ UNCHANGED <<vars, logVars, carried>>

\* apply_executions counts every execution of an active taker at once.
Matched ==
  /\ EngineStep
  /\ stats' = IF op'.phase = "settling" /\ op'.next = 1
              THEN [stats EXCEPT !.tradesExecuted = @ + Len(executions')] ELSE stats
  /\ UNCHANGED <<logVars, carried>>

TradeOf(e, taker) ==
  [taker |-> taker, maker |-> e.maker, price |-> e.price, qty |-> e.qty,
   takerIsBuy |-> IsBid(orders[taker].side), makerIsBuy |-> IsBid(orders[e.maker].side)]

\* Seeded fault: a trade is logged when the taker can go on trading after it.
Logs_UnlessLast(e) == orders[e.maker].active /\ orders[op.id].remaining # e.qty

\* Only the trades of active makers are settled and logged.
Logs(e) == orders[e.maker].active

Settled ==
  /\ Settle
  /\ LET e == executions[op.next]
     IN IF Logs(e) THEN Log!PushTrade(TradeOf(e, op.id)) ELSE UNCHANGED logVars
  /\ UNCHANGED <<stats, carried>>

RolledBack == Rollback /\ UNCHANGED diagnosticVars

\* Seeded fault: the cancel that discards a remainder is not counted.
WithCancel_CallersOnly(s, succeeded) ==
  IF op # Idle THEN s
  ELSE [s EXCEPT !.cancelsAttempted = @ + 1,
                 !.cancelsSucceeded = IF succeeded THEN @ + 1 ELSE @]

\* The counters after a cancel, a caller's or that of a discarded remainder.
WithCancel(s, succeeded) ==
  [s EXCEPT !.cancelsAttempted = @ + 1, !.cancelsSucceeded = IF succeeded THEN @ + 1 ELSE @]

Accepted ==
  /\ Finish
  /\ LET s == IF DiscardsRest THEN WithCancel(stats, ok') ELSE stats
     IN stats' = [s EXCEPT !.ordersAccepted = @ + 1]
  /\ UNCHANGED <<logVars, carried>>

Cancelled ==
  /\ \E user \in UserIds, id \in Ids, side \in Sides : CancelOrder(user, id, side)
  /\ stats' = WithCancel(stats, ok')
  /\ UNCHANGED <<logVars, carried>>

CancelledInVain ==
  /\ CanBeRefused("cancelsAttempted", "cancelsSucceeded")
  /\ \E user \in UserIds, id \in Ids, side \in Sides : ~MayCancel(user, id, side)
  /\ stats' = WithCancel(stats, FALSE)
  /\ UNCHANGED <<vars, logVars, carried>>

SetTradeLogEnabled ==
  /\ CanCall
  /\ \E enabled \in BOOLEAN : Log!SetTradeLogEnabled(enabled)
  /\ UNCHANGED <<vars, stats, carried>>

ClearTradeLog ==
  /\ CanCall
  /\ Log!ClearTradeLog
  /\ UNCHANGED <<vars, stats, carried>>

ResetStats ==
  /\ CanCall
  /\ stats' = NoStats
  /\ carried' = ActiveCount
  /\ UNCHANGED <<vars, logVars>>

NextRecorded ==
  \/ ManageUsers \/ Submitted \/ SubmittedInVain \/ Matched \/ Settled \/ RolledBack
  \/ Accepted \/ Cancelled \/ CancelledInVain
  \/ SetTradeLogEnabled \/ ClearTradeLog \/ ResetStats

SpecRecorded == InitRecorded /\ [][NextRecorded]_<<vars, diagnosticVars>>
------------------------------------------------------------------------------
(***************************************************************************)
(* Properties.                                                             *)
(***************************************************************************)
\* Whatever is submitted, settled, cleared and switched, getRecentTrades keeps
\* the promise of RecentTrades.
LogKeepsPromise == Log!ImplementsRecentTrades

\* While logging is on, a submission that returns leaves its trades as the
\* newest of the log, last one first: matching, settlement and the log agree
\* on every one of them, also when a trade fills its maker or its taker.
LogTellsSubmission ==
  [][op.phase = "settling" /\ op' = Idle /\ tradeLogEnabled =>
       LET recent == Log!GetRecentTrades(kTradeLogCap)
           n == Len(executions)
       IN /\ Len(recent) >= Min({n, kTradeLogCap})
          /\ \A k \in 1..Min({n, kTradeLogCap}) :
               recent[k] = TradeOf(executions[n - (k - 1)], op.id)]_<<vars, diagnosticVars>>

\* Between calls the counters account for every order: an order accepted since
\* the last reset, or active then, is active now, was cancelled, or was filled,
\* and a trade fills one order or two.  No path counts an order or a trade
\* twice, or forgets one.
CountersAddUp ==
  op = Idle =>
    LET filled == stats.ordersAccepted + carried - ActiveCount - stats.cancelsSucceeded
    IN stats.tradesExecuted <= filled /\ filled <= 2 * stats.tradesExecuted
=============================================================================
