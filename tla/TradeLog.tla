------------------------------- MODULE TradeLog -------------------------------
(***************************************************************************)
(* The trade log of src/OrderBook.cpp: a ring of kTradeLogCap trades, the  *)
(* next position to write, and how many were written since it was cleared. *)
(* Clearing forgets the trades without erasing them.                       *)
(***************************************************************************)
EXTENDS Naturals, Sequences

CONSTANT kTradeLogCap

VARIABLES tradeLogEnabled, tradeLog, tradeLogSize, tradeLogHead

logVars == <<tradeLogEnabled, tradeLog, tradeLogSize, tradeLogHead>>

Position == 0..kTradeLogCap-1
Smaller(a, b) == IF a <= b THEN a ELSE b
------------------------------------------------------------------------------
Init ==
  /\ tradeLogEnabled = FALSE
  /\ tradeLog = [p \in Position |-> <<>>]
  /\ tradeLogSize = 0 /\ tradeLogHead = 0

\* push_trade.
PushTrade(trade) ==
  IF tradeLogEnabled
  THEN /\ tradeLog' = [tradeLog EXCEPT ![tradeLogHead] = trade]
       /\ tradeLogHead' = (tradeLogHead + 1) % kTradeLogCap
       /\ tradeLogSize' = Smaller(tradeLogSize + 1, kTradeLogCap)
       /\ UNCHANGED tradeLogEnabled
  ELSE UNCHANGED logVars

SetTradeLogEnabled(enabled) ==
  /\ tradeLogEnabled' = enabled
  /\ UNCHANGED <<tradeLog, tradeLogSize, tradeLogHead>>

ClearTradeLog ==
  /\ tradeLogSize' = 0 /\ tradeLogHead' = 0
  /\ UNCHANGED <<tradeLogEnabled, tradeLog>>

\* Seeded fault: counted back from the next write position itself.
ReadPosition_FromHead(i) == (tradeLogHead + kTradeLogCap - i) % kTradeLogCap

\* Where the trade lies that i newer ones follow.
ReadPosition(i) == (tradeLogHead + (kTradeLogCap - 1) - i) % kTradeLogCap

GetRecentTrades(max) ==
  [k \in 1..Smaller(max, tradeLogSize) |-> tradeLog[ReadPosition(k - 1)]]
------------------------------------------------------------------------------
\* Read newest first from the ring, the log is what RecentTrades promises: it
\* forgets exactly the oldest trades, and no trade of before the last clear or
\* of a time when logging was off comes back.
Promise == INSTANCE RecentTrades WITH Cap <- kTradeLogCap,
             enabled <- tradeLogEnabled, recent <- GetRecentTrades(kTradeLogCap + 1)
ImplementsRecentTrades == Promise!Spec
=============================================================================
