------------------------ MODULE WorkStealingThreadPool ------------------------
(***************************************************************************)
(* include/work_stealing_thread_pool.hpp: workers with a deque each, which *)
(* run their own tasks and steal from each other; callers that submit and  *)
(* wait; a constructor that starts the workers while it still builds the   *)
(* pool, and a destructor.  The steps are the accesses that other threads  *)
(* can interleave with.                                                    *)
(*                                                                         *)
(* A deque is only touched under its mutex, so each critical section is    *)
(* one step; the only trace of the mutex is that the try_lock of a thief   *)
(* may fail, and the thief then skips that victim.  Waiting on a condition *)
(* variable is two steps, because cv_ is notified without its mutex: a     *)
(* worker evaluates the predicate, then blocks.  A blocked thread may also *)
(* wake for no reason.                                                     *)
(***************************************************************************)
EXTENDS Integers, FiniteSets, Sequences, SequencesExt

CONSTANTS
  Threads,       \* how many workers the constructor makes
  Callers, Main, \* threads that use the pool; Main owns it
  Tasks,         \* the tasks they submit
  CountMod       \* 2^w for the unsigned counter pending_

NoTask == "none"

ASSUME PoolAssumption ==
  /\ Threads \in Nat \ {0}
  /\ Main \in Callers /\ IsFiniteSet(Callers)
  /\ IsFiniteSet(Tasks) /\ NoTask \notin Tasks
  /\ CountMod \in Nat /\ CountMod > Cardinality(Tasks) + 1

Worker == 0..Threads-1
Count == 0..CountMod-1

VARIABLES
  built,      \* how many workers the constructor has put into workers_
  queue,      \* [worker -> its deque, front first]
  pending,    \* pending_
  rr,         \* rr_
  stop,       \* stop_
  pc,         \* [worker -> where worker_loop is]
  task,       \* [worker -> the task it holds, or NoTask]
  offset,     \* [worker -> the offset of the next victim]
  size,       \* [worker -> workers_.size() as steal() read it]
  callerPc,   \* [caller -> where its current call is]
  submitting, \* [caller -> the task and the deque of its submit]
  mine,       \* [caller -> the tasks it has begun to submit]
  done        \* tasks that have run

workerVars == <<pc, task, offset, size>>
callerVars == <<callerPc, submitting, mine>>
vars == <<built, queue, pending, rr, stop, workerVars, callerVars, done>>

\* Whoever waits on a condition variable.
Asleep == {w \in Worker : pc[w] = "asleep"}
IdleWaiters == {c \in Callers : callerPc[c] \in {"idleBlocked", "destroyBlocked"}}
\* Seeded fault: a waiter that wakes does not look at its predicate again.
IdleWakened_NoRecheck(c) == IF callerPc[c] = "idleBlocked" THEN "ready" ELSE "setStop"

IdleWakened(c) == IF callerPc[c] = "idleBlocked" THEN "idleWait" ELSE "destroyWait"
------------------------------------------------------------------------------
Init ==
  /\ built = 0
  /\ queue = [w \in Worker |-> <<>>]
  /\ pending = 0 /\ rr = 0 /\ stop = FALSE
  /\ pc = [w \in Worker |-> "unborn"]
  /\ task = [w \in Worker |-> NoTask]
  /\ offset = [w \in Worker |-> 1]
  /\ size = [w \in Worker |-> 0]
  /\ callerPc = [c \in Callers |-> IF c = Main THEN "constructing" ELSE "absent"]
  /\ submitting = [c \in Callers |-> [task |-> NoTask, idx |-> 0]]
  /\ mine = [c \in Callers |-> {}]
  /\ done = {}

\* The constructor adds a worker and starts its thread at once; when the last
\* one runs, the pool is handed to the other callers.
StartWorker ==
  /\ callerPc[Main] = "constructing"
  /\ built' = built + 1
  /\ pc' = [pc EXCEPT ![built] = "check"]
  /\ callerPc' = IF built' = Threads THEN [c \in Callers |-> "ready"] ELSE callerPc
  /\ UNCHANGED <<queue, pending, rr, stop, task, offset, size, submitting, mine, done>>
------------------------------------------------------------------------------
(***************************************************************************)
(* worker_loop                                                             *)
(***************************************************************************)
CheckStop(w) ==
  /\ pc[w] = "check"
  /\ pc' = [pc EXCEPT ![w] = IF stop THEN "exited" ELSE "pop"]
  /\ UNCHANGED <<built, queue, pending, rr, stop, task, offset, size, callerVars, done>>

\* Worker w holds task t from now on.
Holds(w, t) == task' = [task EXCEPT ![w] = t] /\ pc' = [pc EXCEPT ![w] = "run"]

\* pop_local from the front; with nothing there, steal() begins with the first
\* victim and a size that may be read while the constructor changes it: any size
\* the vector has had since this worker was started.  Once the pool is built it is
\* the last one; to read less would be to skip the victims beyond it.
PopLocal(w) ==
  /\ pc[w] = "pop"
  /\ IF queue[w] # <<>>
     THEN /\ Holds(w, Head(queue[w]))
          /\ queue' = [queue EXCEPT ![w] = Tail(@)]
          /\ UNCHANGED <<offset, size>>
     ELSE /\ pc' = [pc EXCEPT ![w] = "steal"]
          /\ offset' = [offset EXCEPT ![w] = 1]
          /\ \E n \in (w + 1)..built : /\ built = Threads => n = built
                                       /\ size' = [size EXCEPT ![w] = n]
          /\ UNCHANGED <<queue, task>>
  /\ UNCHANGED <<built, pending, rr, stop, callerVars, done>>

\* Seeded fault: a thief only ever looks at its neighbour.
Victim_Neighbour(w) == (w + 1) % size[w]

Victim(w) == (w + offset[w]) % size[w]

\* Seeded fault: the loop goes on to offset n.
MoreVictims_OffByOne(w) == offset[w] <= size[w]

MoreVictims(w) == offset[w] < size[w]

\* Seeded fault: the task is taken but not removed from the victim's deque.
Robbed_Peeked(q) == q

\* A deque after a theft from its back.
Robbed(q) == Front(q)

StealTask(w) ==
  /\ pc[w] = "steal" /\ MoreVictims(w)
  /\ queue[Victim(w)] # <<>>
  /\ Holds(w, Last(queue[Victim(w)]))
  /\ queue' = [queue EXCEPT ![Victim(w)] = Robbed(@)]
  /\ UNCHANGED <<built, pending, rr, stop, offset, size, callerVars, done>>

\* The victim has nothing, or its mutex is busy.
SkipVictim(w) ==
  /\ pc[w] = "steal" /\ MoreVictims(w)
  /\ offset' = [offset EXCEPT ![w] = @ + 1]
  /\ UNCHANGED <<built, queue, pending, rr, stop, pc, task, size, callerVars, done>>

GiveUpStealing(w) ==
  /\ pc[w] = "steal" /\ ~MoreVictims(w)
  /\ pc' = [pc EXCEPT ![w] = "wait"]
  /\ UNCHANGED <<built, queue, pending, rr, stop, task, offset, size, callerVars, done>>

RunTask(w) ==
  /\ pc[w] = "run"
  /\ done' = done \cup {task[w]}
  /\ task' = [task EXCEPT ![w] = NoTask]
  /\ pc' = [pc EXCEPT ![w] = "count"]
  /\ UNCHANGED <<built, queue, pending, rr, stop, offset, size, callerVars>>

\* Seeded fault: a counter that would wrap is clamped at zero.
Decremented_Clamped(n) == IF n = 0 THEN 0 ELSE n - 1

Decremented(n) == (n - 1) % CountMod

\* Seeded fault: the value before the subtraction is taken for the new one.
ReachesZero_OldValue(n) == n = 0

ReachesZero(n) == Decremented(n) = 0

\* pending_.fetch_sub: the worker that reaches zero will notify.
CountOff(w) ==
  /\ pc[w] = "count"
  /\ pending' = Decremented(pending)
  /\ pc' = [pc EXCEPT ![w] = IF ReachesZero(pending) THEN "notifyIdle" ELSE "check"]
  /\ UNCHANGED <<built, queue, rr, stop, task, offset, size, callerVars, done>>

\* idle_cv_.notify_all under idle_m_: a waiter evaluates its predicate and
\* blocks under the same mutex, so that is one step of the waiter.
NotifyIdle(w) ==
  /\ pc[w] = "notifyIdle"
  /\ pc' = [pc EXCEPT ![w] = "check"]
  /\ callerPc' = [c \in Callers |-> IF c \in IdleWaiters THEN IdleWakened(c) ELSE callerPc[c]]
  /\ UNCHANGED <<built, queue, pending, rr, stop, task, offset, size, submitting, mine, done>>

\* cv_.wait: the predicate is read under cv_m_, which no notifier holds ...
EvaluateWait(w) ==
  /\ pc[w] = "wait"
  /\ ~\E v \in Worker : pc[v] = "block"
  /\ pc' = [pc EXCEPT ![w] = IF stop \/ pending > 0 THEN "check" ELSE "block"]
  /\ UNCHANGED <<built, queue, pending, rr, stop, task, offset, size, callerVars, done>>

\* ... and the worker is not yet among the waiters until it blocks.
Block(w) ==
  /\ pc[w] = "block"
  /\ pc' = [pc EXCEPT ![w] = "asleep"]
  /\ UNCHANGED <<built, queue, pending, rr, stop, task, offset, size, callerVars, done>>

SpuriousWake(w) ==
  /\ pc[w] = "asleep"
  /\ pc' = [pc EXCEPT ![w] = "wait"]
  /\ UNCHANGED <<built, queue, pending, rr, stop, task, offset, size, callerVars, done>>

WorkerStep(w) ==
  \/ CheckStop(w) \/ PopLocal(w) \/ StealTask(w) \/ SkipVictim(w) \/ GiveUpStealing(w)
  \/ RunTask(w) \/ CountOff(w) \/ NotifyIdle(w) \/ EvaluateWait(w) \/ Block(w)
------------------------------------------------------------------------------
(***************************************************************************)
(* submit, wait_idle and the destructor                                    *)
(***************************************************************************)
Submitted == UNION {mine[c] : c \in Callers}
CallerTo(c, where) == callerPc' = [callerPc EXCEPT ![c] = where]

\* submit: a deque by rr_, the task to its front, then the counter, then one
\* waiting worker is notified, if there is one.
ChooseDeque(c, t) ==
  /\ callerPc[c] = "ready"
  /\ t \notin Submitted
  /\ mine' = [mine EXCEPT ![c] = @ \cup {t}]
  /\ submitting' = [submitting EXCEPT ![c] = [task |-> t, idx |-> rr % Threads]]
  /\ rr' = rr + 1
  /\ CallerTo(c, "push")
  /\ UNCHANGED <<built, queue, pending, stop, workerVars, done>>

PushTask(c) ==
  /\ callerPc[c] = "push"
  /\ queue' = [queue EXCEPT ![submitting[c].idx] = <<submitting[c].task>> \o @]
  /\ CallerTo(c, "count")
  /\ UNCHANGED <<built, pending, rr, stop, workerVars, submitting, mine, done>>

CountIn(c) ==
  /\ callerPc[c] = "count"
  /\ pending' = (pending + 1) % CountMod
  /\ CallerTo(c, "notify")
  /\ UNCHANGED <<built, queue, rr, stop, workerVars, submitting, mine, done>>

NotifyOne(c) ==
  /\ callerPc[c] = "notify"
  /\ IF Asleep = {} THEN UNCHANGED pc
     ELSE \E w \in Asleep : pc' = [pc EXCEPT ![w] = "wait"]
  /\ CallerTo(c, "ready")
  /\ UNCHANGED <<built, queue, pending, rr, stop, task, offset, size, submitting, mine, done>>

\* wait_idle, called by a user of the pool or by the destructor once every
\* other user has left.
WaitIdle(c) ==
  /\ callerPc[c] = "ready"
  /\ CallerTo(c, "idleWait")
  /\ UNCHANGED <<built, queue, pending, rr, stop, workerVars, submitting, mine, done>>

Leave(c) ==
  /\ c # Main /\ callerPc[c] = "ready"
  /\ CallerTo(c, "left")
  /\ UNCHANGED <<built, queue, pending, rr, stop, workerVars, submitting, mine, done>>

Destroy ==
  /\ callerPc[Main] = "ready"
  /\ \A c \in Callers \ {Main} : callerPc[c] = "left"
  /\ CallerTo(Main, "destroyWait")
  /\ UNCHANGED <<built, queue, pending, rr, stop, workerVars, submitting, mine, done>>

EvaluateIdle(c) ==
  /\ \/ callerPc[c] = "idleWait" /\ CallerTo(c, IF pending = 0 THEN "ready" ELSE "idleBlocked")
     \/ callerPc[c] = "destroyWait"
        /\ CallerTo(c, IF pending = 0 THEN "setStop" ELSE "destroyBlocked")
  /\ UNCHANGED <<built, queue, pending, rr, stop, workerVars, submitting, mine, done>>

SpuriousIdleWake(c) ==
  /\ c \in IdleWaiters
  /\ CallerTo(c, IdleWakened(c))
  /\ UNCHANGED <<built, queue, pending, rr, stop, workerVars, submitting, mine, done>>

SetStop ==
  /\ callerPc[Main] = "setStop"
  /\ stop' = TRUE
  /\ CallerTo(Main, "notifyAll")
  /\ UNCHANGED <<built, queue, pending, rr, workerVars, submitting, mine, done>>

NotifyAll ==
  /\ callerPc[Main] = "notifyAll"
  /\ pc' = [w \in Worker |-> IF w \in Asleep THEN "wait" ELSE pc[w]]
  /\ CallerTo(Main, "join")
  /\ UNCHANGED <<built, queue, pending, rr, stop, task, offset, size, submitting, mine, done>>

JoinAll ==
  /\ callerPc[Main] = "join"
  /\ \A w \in Worker : pc[w] = "exited"
  /\ CallerTo(Main, "gone")
  /\ UNCHANGED <<built, queue, pending, rr, stop, workerVars, submitting, mine, done>>

\* After the destructor nothing happens to the pool.
Gone == callerPc[Main] = "gone" /\ UNCHANGED vars

\* What a caller must go on with once its call has begun.
CallerStep(c) == PushTask(c) \/ CountIn(c) \/ NotifyOne(c) \/ EvaluateIdle(c)
DestructorStep == SetStop \/ NotifyAll \/ JoinAll

Next ==
  \/ StartWorker
  \/ \E w \in Worker : WorkerStep(w) \/ SpuriousWake(w)
  \/ \E c \in Callers, t \in Tasks : ChooseDeque(c, t)
  \/ \E c \in Callers : CallerStep(c) \/ WaitIdle(c) \/ Leave(c) \/ SpuriousIdleWake(c)
  \/ Destroy
  \/ DestructorStep
  \/ Gone

Spec == Init /\ [][Next]_vars

\* Every thread that can go on does; a try_lock that is tried again and again
\* on a deque with work does not fail for ever; a contended mutex is granted.
\* Nobody must submit, wait or destroy, and no spurious wakeup must come.
FairSpec ==
  /\ Spec
  /\ WF_vars(StartWorker) /\ WF_vars(DestructorStep)
  /\ \A c \in Callers : WF_vars(CallerStep(c))
  /\ \A w \in Worker : WF_vars(WorkerStep(w)) /\ SF_vars(StealTask(w)) /\ SF_vars(EvaluateWait(w))
------------------------------------------------------------------------------
(***************************************************************************)
(* Properties.                                                             *)
(***************************************************************************)
TypeOK ==
  /\ built \in 0..Threads
  /\ queue \in [Worker -> Seq(Tasks)]
  /\ pending \in Count /\ rr \in Nat /\ stop \in BOOLEAN
  /\ pc \in [Worker -> {"unborn", "check", "pop", "steal", "run", "count", "notifyIdle",
                        "wait", "block", "asleep", "exited"}]
  /\ task \in [Worker -> Tasks \cup {NoTask}]
  /\ offset \in [Worker -> 1..Threads] /\ size \in [Worker -> 0..Threads]
  /\ callerPc \in [Callers -> {"constructing", "absent", "ready", "push", "count", "notify",
                               "idleWait", "idleBlocked", "left", "destroyWait",
                               "destroyBlocked", "setStop", "notifyAll", "join", "gone"}]
  /\ submitting \in [Callers -> [task : Tasks \cup {NoTask}, idx : Worker]]
  /\ mine \in [Callers -> SUBSET Tasks]
  /\ done \subseteq Tasks

Queued == UNION {ToSet(queue[w]) : w \in Worker}

\* pending_ is the number of tasks that were pushed and not counted off, less
\* the pushes that submit has not counted yet, modulo 2^w: what wait_idle and
\* the sleeping workers read differs from the truth by exactly that.
PendingCounts ==
  LET unfinished == Cardinality(Queued) + Cardinality({w \in Worker : pc[w] \in {"run", "count"}})
      uncounted == Cardinality({c \in Callers : callerPc[c] = "count"})
  IN pending = (unfinished - uncounted) % CountMod

\* Every task runs at most once and in one worker, whether it is popped or
\* stolen, and the destructor returns only when none is left: the pool
\* implements TaskPool.
Status(t) ==
  IF t \in done THEN "done"
  ELSE IF \E w \in Worker : task[w] = t THEN "running"
  ELSE IF t \in Queued THEN "queued" ELSE "new"
Promise == INSTANCE TaskPool WITH status <- [t \in Tasks |-> Status(t)],
                                  open <- (callerPc[Main] # "gone")
ImplementsTaskPool == Promise!Spec

\* "`pending_` tracks unfinished tasks so `wait_idle()` is well-defined": when
\* wait_idle returns, the tasks that its caller had submitted have run.
WaitIdleMeansDone ==
  [][\A c \in Callers :
       callerPc[c] \in {"idleWait", "idleBlocked"} /\ callerPc'[c] = "ready"
         => mine[c] \subseteq done]_vars

\* Every submitted task runs, whoever is asleep when it is submitted.  (With a
\* single worker it does not: the worker may have found the counter at zero
\* and not sleep yet when it is notified.)
TasksRun == \A t \in Tasks : t \in Submitted ~> t \in done

\* A wait_idle that blocks returns: the notification that the pool is idle is
\* not lost.  (With a second caller it is: the count of a submit may be what
\* brings the counter to zero, and submit notifies workers only.)
WaitIdleReturns == \A c \in Callers : callerPc[c] = "idleBlocked" ~> callerPc[c] = "ready"

\* "Wait for submitted work, then stop worker threads": the destructor ends.
DestructorReturns == callerPc[Main] = "destroyWait" ~> callerPc[Main] = "gone"
=============================================================================
