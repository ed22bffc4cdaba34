---------------------------- MODULE MCDiagnostics ----------------------------
(* A small instance of the recorded wrapper: one user who trades with itself. *)
EXTENDS Diagnostics

MCSeedUsers == [u \in {0} |-> [name |-> "mm_alpha", quote |-> 30, base |-> 6,
                               lockedQuote |-> 0, lockedBase |-> 0]]
MCSeedOrders == << [user |-> 0, side |-> "Buy", price |-> PriceMin, qty |-> 1] >>

\* What a later step can still read, as for the wrapper alone; of the log, the
\* positions that hold a trade since it was cleared.
Small == INSTANCE MCOrderBook
LiveLog == [p \in {q \in DOMAIN tradeLog : q < tradeLogSize} |-> tradeLog[p]]
LiveState == <<Small!LiveState, tradeLogEnabled, LiveLog, tradeLogSize, tradeLogHead,
               stats, carried>>
=============================================================================
