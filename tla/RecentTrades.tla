----------------------------- MODULE RecentTrades -----------------------------
(***************************************************************************)
(* What the trade log promises to a caller of getRecentTrades: the last    *)
(* trades since the log was cleared, newest first, at most Cap of them,    *)
(* and none of those made while logging was off.                           *)
(***************************************************************************)
EXTENDS Naturals, Sequences

CONSTANT Cap

VARIABLES enabled, recent

vars == <<enabled, recent>>

Init == enabled = FALSE /\ recent = <<>>

\* The trade in front of the ones before, and no more than Cap of them.
Pushed(trade, before) ==
  [k \in 1..(IF Len(before) < Cap THEN Len(before) + 1 ELSE Cap) |->
     IF k = 1 THEN trade ELSE before[k - 1]]

\* A trade becomes the newest one; when the log was full the oldest is gone.
Record ==
  /\ enabled
  /\ recent' # <<>>
  /\ recent' = Pushed(recent'[1], recent)
  /\ UNCHANGED enabled

Clear == recent' = <<>> /\ UNCHANGED enabled

Enable == enabled' \in BOOLEAN /\ UNCHANGED recent

Next == Record \/ Clear \/ Enable

Spec == Init /\ [][Next]_vars
=============================================================================
