------------------------------ MODULE TaskPool ------------------------------
(***************************************************************************)
(* What a thread pool promises about its tasks: each task that is          *)
(* submitted is started at most once, by one worker, and finishes after    *)
(* it started; when the pool is gone, no task is left behind.              *)
(***************************************************************************)
CONSTANTS Tasks

VARIABLES
  status,   \* [task -> "new", "queued", "running" or "done"]
  open      \* FALSE once the destructor has returned

vars == <<status, open>>

Init == status = [t \in Tasks |-> "new"] /\ open = TRUE

Become(t, from, to) == status[t] = from /\ status' = [status EXCEPT ![t] = to]

Submit(t) == open /\ Become(t, "new", "queued") /\ UNCHANGED open
Start(t) == Become(t, "queued", "running") /\ UNCHANGED open
Finish(t) == Become(t, "running", "done") /\ UNCHANGED open

Close ==
  /\ open
  /\ \A t \in Tasks : status[t] \in {"new", "done"}
  /\ open' = FALSE
  /\ UNCHANGED status

Next == Close \/ \E t \in Tasks : Submit(t) \/ Start(t) \/ Finish(t)

Spec == Init /\ [][Next]_vars
=============================================================================
