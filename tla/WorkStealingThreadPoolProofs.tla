--------------------- MODULE WorkStealingThreadPoolProofs ---------------------
(***************************************************************************)
(* Proofs about the work-stealing pool, for every number of workers,       *)
(* callers and tasks and every width of the counter.  Steps move a task    *)
(* from stage to stage; the proofs talk about the sets of tasks per stage  *)
(* and the sets of threads between two of their accesses.                  *)
(***************************************************************************)
EXTENDS WorkStealingThreadPool, ArithmeticLemmas, FiniteSetTheorems, SequenceTheorems

\* Tasks that a submit has chosen a deque for, that a worker holds; threads
\* that have still to push, to count in, to count off.
Pushing == {c \in Callers : callerPc[c] = "push"}
Counting == {c \in Callers : callerPc[c] = "count"}
Hands == {w \in Worker : pc[w] \in {"run", "count"}}
InPush == {submitting[c].task : c \in Pushing}
Held == {task[w] : w \in Worker} \ {NoTask}

\* A task is in one deque, or in one worker's hands, or with one submitter.
DequesApart ==
  /\ \A w \in Worker : IsInjective(queue[w])
  /\ \A v, w \in Worker : v # w => ToSet(queue[v]) \cap ToSet(queue[w]) = {}
HoldersApart ==
  /\ \A w \in Worker : task[w] # NoTask <=> pc[w] = "run"
  /\ \A v, w \in Worker : task[v] = task[w] /\ task[v] # NoTask => v = w
SubmittersApart ==
  /\ \A c \in Pushing : submitting[c].task \in mine[c]
  /\ \A c, d \in Callers : c # d => mine[c] \cap mine[d] = {}

\* A submitted task is at exactly one stage, and no other task is at any.
StagesApart ==
  /\ Submitted = InPush \cup Queued \cup Held \cup done
  /\ InPush \cap (Queued \cup Held \cup done) = {}
  /\ Queued \cap (Held \cup done) = {}
  /\ Held \cap done = {}
OneStage == DequesApart /\ HoldersApart /\ SubmittersApart /\ StagesApart

\* The constructor starts the workers in order and hands the pool out last;
\* the destructor begins when every other caller has left.
Destroying == {"destroyWait", "destroyBlocked", "setStop", "notifyAll", "join", "gone"}
Stopping == {"setStop", "notifyAll", "join", "gone"}
Phases ==
  /\ \A w \in Worker : w >= built => pc[w] = "unborn"
  /\ callerPc[Main] = "constructing" =>
       built < Threads /\ \A c \in Callers : c # Main => callerPc[c] = "absent"
  /\ callerPc[Main] \in Destroying => \A c \in Callers : c # Main => callerPc[c] = "left"

\* Every task that was pushed and not counted off was submitted by someone,
\* so the counter never comes round.
Bounded ==
  Cardinality(Queued) + Cardinality(Hands) + Cardinality(Pushing) <= Cardinality(Submitted)

\* When the destructor stops the workers, there is nothing left for them.
NothingLeft == callerPc[Main] \in Stopping => Queued = {} /\ Hands = {}

IInv == TypeOK /\ Phases /\ OneStage /\ PendingCounts /\ Bounded /\ NothingLeft
------------------------------------------------------------------------------
(***************************************************************************)
(* Deques as sequences and as sets.                                        *)
(***************************************************************************)
\* Both ends of a deque and what is left of it; a push to its front.
LEMMA PoppedDeque ==
  ASSUME NEW S, NEW q \in Seq(S), q # <<>>, IsInjective(q)
  PROVE  /\ Tail(q) \in Seq(S) /\ IsInjective(Tail(q))
         /\ Head(q) \in S /\ Head(q) \in ToSet(q)
         /\ ToSet(Tail(q)) = ToSet(q) \ {Head(q)}
<1> DEFINE r == Tail(q)
<1>1. /\ Len(q) \in Nat \ {0} /\ DOMAIN q = 1..Len(q)
      /\ r \in Seq(S) /\ Len(r) = Len(q) - 1 /\ DOMAIN r = 1..Len(q)-1
      /\ \A i \in 1..Len(q)-1 : r[i] = q[i+1]
  BY EmptySeq, LenProperties, HeadTailProperties
<1>2. Head(q) = q[1]
  OBVIOUS
<1> HIDE DEF r
<1>3. \A i \in 1..Len(q) : i = 1 \/ (i - 1 \in 1..Len(q)-1 /\ q[i] = r[i-1])
  BY <1>1
<1>4. \A i \in 1..Len(q)-1 : i + 1 \in 1..Len(q) /\ i + 1 # 1
  BY <1>1
<1>5. IsInjective(r)
  <2>1. ASSUME NEW i \in 1..Len(q)-1, NEW j \in 1..Len(q)-1, r[i] = r[j] PROVE i = j
    <3>1. i + 1 = j + 1
      BY <1>1, <1>4, <2>1 DEF IsInjective
    <3>2. QED BY <3>1
  <2>2. QED BY <1>1, <2>1 DEF IsInjective
<1>6. ToSet(r) = ToSet(q) \ {q[1]}
  <2>1. ASSUME NEW i \in 1..Len(q)-1 PROVE r[i] \in ToSet(q) \ {q[1]}
    BY <1>1, <1>4 DEF ToSet, IsInjective
  <2>2. ASSUME NEW i \in 1..Len(q), q[i] # q[1] PROVE q[i] \in ToSet(r)
    BY <1>1, <1>3, <2>2 DEF ToSet
  <2>3. QED BY <1>1, <2>1, <2>2 DEF ToSet
<1>7. q[1] \in ToSet(q) /\ q[1] \in S
  BY <1>1, ElementOfSeq DEF ToSet
<1>8. QED BY <1>1, <1>2, <1>5, <1>6, <1>7 DEF r

LEMMA RobbedDeque ==
  ASSUME NEW S, NEW q \in Seq(S), q # <<>>, IsInjective(q)
  PROVE  /\ Front(q) \in Seq(S) /\ IsInjective(Front(q))
         /\ Last(q) \in S /\ Last(q) \in ToSet(q)
         /\ ToSet(Front(q)) = ToSet(q) \ {Last(q)}
<1> DEFINE r == Front(q)
           n == Len(q)
<1>1. n \in Nat \ {0} /\ DOMAIN q = 1..n /\ \A i \in 1..n-1 : q[i] \in S
  BY EmptySeq, LenProperties, ElementOfSeq
<1>2. r = SubSeq(q, 1, n - 1)
  BY DEF Front
<1> HIDE DEF n
<1>3. /\ r \in Seq(S) /\ Len(r) = n - 1 /\ \A i \in 1..n-1 : r[i] = q[i]
  BY <1>1, <1>2, SubSeqProperties
<1>4. DOMAIN r = 1..n-1
  BY <1>3, LenProperties
<1> HIDE DEF r
<1>5. IsInjective(r)
  BY <1>1, <1>3, <1>4 DEF IsInjective
<1>6. \A i \in 1..n : i = n \/ i \in 1..n-1
  BY <1>1
<1>7. n \notin 1..n-1
  BY <1>1
<1>8. ToSet(r) = ToSet(q) \ {q[n]}
  BY <1>1, <1>3, <1>4, <1>6, <1>7 DEF ToSet, IsInjective
<1>9. q[n] \in ToSet(q) /\ q[n] \in S
  BY <1>1, ElementOfSeq DEF ToSet, n
<1>10. QED BY <1>3, <1>5, <1>8, <1>9 DEF r, n, Last

LEMMA PushedDeque ==
  ASSUME NEW S, NEW q \in Seq(S), IsInjective(q), NEW t \in S, t \notin ToSet(q)
  PROVE  /\ <<t>> \o q \in Seq(S) /\ IsInjective(<<t>> \o q)
         /\ ToSet(<<t>> \o q) = ToSet(q) \cup {t}
<1> DEFINE r == <<t>> \o q
           n == Len(q)
<1>1. n \in Nat /\ DOMAIN q = 1..n /\ <<t>> \in Seq(S) /\ Len(<<t>>) = 1 /\ <<t>>[1] = t
  BY LenProperties
<1>2. /\ r \in Seq(S) /\ Len(r) = 1 + n
      /\ \A i \in 1..1+n : r[i] = IF i <= 1 THEN <<t>>[i] ELSE q[i - 1]
  BY <1>1, ConcatProperties
<1>3. DOMAIN r = 1..1+n
  BY <1>2, LenProperties
<1> HIDE DEF r, n
<1>4. r[1] = t /\ 1 \in 1..1+n
  BY <1>1, <1>2
<1>5. \A i \in 1..1+n : i = 1 \/ (i - 1 \in 1..n /\ r[i] = q[i-1])
  BY <1>1, <1>2
<1>6. \A i \in 1..n : i + 1 \in 1..1+n /\ r[i+1] = q[i]
  BY <1>1, <1>2
<1>7. ToSet(r) = ToSet(q) \cup {t}
  <2>1. ASSUME NEW i \in 1..1+n PROVE r[i] \in ToSet(q) \cup {t}
    BY <1>1, <1>4, <1>5 DEF ToSet
  <2>2. ASSUME NEW i \in 1..n PROVE q[i] \in ToSet(r)
    BY <1>3, <1>6 DEF ToSet
  <2>3. t \in ToSet(r)
    BY <1>3, <1>4 DEF ToSet
  <2>4. QED BY <1>1, <1>3, <2>1, <2>2, <2>3 DEF ToSet
<1>8. ASSUME NEW i \in DOMAIN r, NEW j \in DOMAIN r, r[i] = r[j] PROVE i = j
  <2>1. \A k \in 1..n : q[k] # t
    BY <1>1 DEF ToSet
  <2>2. CASE i = 1 \/ j = 1
    BY <1>3, <1>4, <1>5, <1>8, <2>1, <2>2
  <2>3. CASE i # 1 /\ j # 1
    <3>1. i - 1 \in DOMAIN q /\ j - 1 \in DOMAIN q /\ q[i-1] = q[j-1]
      BY <1>1, <1>3, <1>5, <1>8, <2>3
    <3>2. i - 1 = j - 1 /\ i \in Int /\ j \in Int
      BY <1>1, <1>3, <3>1 DEF IsInjective
    <3>3. QED BY <3>2
  <2>4. QED BY <2>2, <2>3
<1>9. QED BY <1>2, <1>7, <1>8 DEF r, IsInjective

\* The queued tasks when one deque loses or gains a task.
LEMMA DequeLoses ==
  ASSUME TypeOK, DequesApart, NEW v \in Worker, NEW t \in ToSet(queue[v]),
         NEW q, IsInjective(q), ToSet(q) = ToSet(queue[v]) \ {t},
         queue' = [queue EXCEPT ![v] = q]
  PROVE  DequesApart' /\ Queued' = Queued \ {t} /\ t \in Queued
<1>1. \A w \in Worker : queue'[w] = IF w = v THEN q ELSE queue[w]
  BY DEF TypeOK
<1>2. \A w \in Worker : ToSet(queue[w])' = ToSet(queue[w]) \ {t}
  BY <1>1 DEF DequesApart, ToSet
<1>3. DequesApart'
  BY <1>1, <1>2 DEF DequesApart, IsInjective
<1>4. QED BY <1>2, <1>3 DEF Queued

LEMMA DequeGains ==
  ASSUME TypeOK, DequesApart, NEW v \in Worker, NEW t, t \notin Queued,
         NEW q, IsInjective(q), ToSet(q) = ToSet(queue[v]) \cup {t},
         queue' = [queue EXCEPT ![v] = q]
  PROVE  DequesApart' /\ Queued' = Queued \cup {t}
<1>1. \A w \in Worker : queue'[w] = IF w = v THEN q ELSE queue[w]
  BY DEF TypeOK
<1>2. \A w \in Worker : /\ t \notin ToSet(queue[w])
                        /\ ToSet(queue[w])' = IF w = v THEN ToSet(queue[w]) \cup {t}
                                              ELSE ToSet(queue[w])
  BY <1>1 DEF Queued, ToSet
<1>3. DequesApart'
  BY <1>1, <1>2 DEF DequesApart, IsInjective
<1>4. QED BY <1>2, <1>3 DEF Queued

LEMMA SameDeques ==
  ASSUME UNCHANGED queue
  PROVE  Queued' = Queued /\ (DequesApart => DequesApart')
  BY DEF Queued, DequesApart, IsInjective, ToSet
------------------------------------------------------------------------------
(***************************************************************************)
(* Type correctness.                                                       *)
(***************************************************************************)
LEMMA WorkerFacts ==
  /\ Threads \in Nat \ {0} /\ IsFiniteSet(Worker)
  /\ \A w \in Worker : w \in Nat /\ w < Threads
  /\ \A n \in Nat : n < Threads => n \in Worker
  BY PoolAssumption, FS_Interval DEF Worker

LEMMA CountFacts ==
  /\ CountMod \in Nat \ {0} /\ 0 \in Count
  /\ Cardinality(Tasks) \in Nat /\ Cardinality(Tasks) < CountMod
  /\ \A n \in Int : n % CountMod \in Count
<1>1. Cardinality(Tasks) \in Nat
  BY PoolAssumption, FS_CardinalityType
<1>2. CountMod \in Nat \ {0} /\ Cardinality(Tasks) < CountMod
  BY <1>1, PoolAssumption
<1>3. QED BY <1>1, <1>2, ModRange DEF Count

LEMMA InitType == Init => TypeOK /\ Phases
<1> SUFFICES ASSUME Init PROVE TypeOK /\ Phases
  OBVIOUS
<1>1. 1 \in 1..Threads /\ 0 \in 0..Threads /\ 0 \in Worker /\ 0 \in Count
  BY WorkerFacts, CountFacts DEF Worker
<1>2. TypeOK
  BY <1>1 DEF Init, TypeOK
<1>3. Phases
  BY PoolAssumption DEF Init, Phases, Destroying
<1>4. QED BY <1>2, <1>3

LEMMA StartWorkerType == ASSUME TypeOK, Phases, StartWorker PROVE TypeOK' /\ Phases'
<1>1. built < Threads /\ built \in Worker /\ built' = built + 1 /\ built' \in 0..Threads
  BY WorkerFacts DEF StartWorker, TypeOK, Phases
<1>2. TypeOK'
  BY <1>1 DEF StartWorker, TypeOK
<1>3. \A w \in Worker : w >= built' => pc'[w] = "unborn"
  BY <1>1, WorkerFacts DEF StartWorker, TypeOK, Phases
<1>4. CASE built' = Threads
  <2>1. callerPc' = [c \in Callers |-> "ready"]
    BY <1>4 DEF StartWorker
  <2>2. callerPc'[Main] = "ready"
    BY <2>1, PoolAssumption
  <2>3. QED BY <1>2, <1>3, <2>2 DEF Phases, Destroying
<1>5. CASE built' # Threads
  BY <1>1, <1>2, <1>3, <1>5, PoolAssumption DEF StartWorker, Phases, Destroying, TypeOK
<1>6. QED BY <1>2, <1>4, <1>5

\* The victim of a thief that still looks for one is a worker.
LEMMA VictimType ==
  ASSUME TypeOK, NEW w \in Worker, MoreVictims(w)
  PROVE  Victim(w) \in Worker /\ offset[w] + 1 \in 1..Threads
<1>1. /\ w \in Nat /\ offset[w] \in 1..Threads /\ size[w] \in 0..Threads /\ Threads \in Nat
      /\ offset[w] < size[w]
  BY WorkerFacts DEF TypeOK, MoreVictims
<1>2. (w + offset[w]) % size[w] \in 0..size[w]-1
  <2>1. size[w] \in Nat \ {0} /\ w + offset[w] \in Int
    BY <1>1
  <2>2. QED BY <2>1, ModRange
<1>3. QED BY <1>1, <1>2 DEF Victim, Worker

\* Where a worker that has been born goes changes nothing of the phases.
LEMMA WorkerMoves ==
  ASSUME Phases, TypeOK, NEW w \in Worker, pc[w] # "unborn", NEW where,
         pc' = [pc EXCEPT ![w] = where], UNCHANGED <<built, callerPc>>
  PROVE  Phases'
  BY DEF Phases, TypeOK

LEMMA PopLocalType ==
  ASSUME TypeOK, Phases, NEW w \in Worker, PopLocal(w) PROVE TypeOK' /\ Phases'
<1>1. pc[w] = "pop"
  BY DEF PopLocal
<1>2. CASE queue[w] # <<>>
  <2>1. Head(queue[w]) \in Tasks /\ Tail(queue[w]) \in Seq(Tasks)
    BY <1>2, HeadTailProperties DEF TypeOK
  <2>2. /\ queue' = [queue EXCEPT ![w] = Tail(queue[w])]
        /\ task' = [task EXCEPT ![w] = Head(queue[w])]
        /\ pc' = [pc EXCEPT ![w] = "run"]
        /\ UNCHANGED <<built, pending, rr, stop, offset, size, callerVars, done>>
    BY <1>2 DEF PopLocal, Holds
  <2>3. TypeOK'
    BY <2>1, <2>2 DEF TypeOK, callerVars
  <2>4. Phases'
    BY <1>1, <2>2, WorkerMoves DEF callerVars
  <2>5. QED BY <2>3, <2>4
<1>3. CASE queue[w] = <<>>
  <2>1. PICK n \in (w + 1)..built : size' = [size EXCEPT ![w] = n]
    BY <1>3 DEF PopLocal
  <2>2. n \in 0..Threads /\ 1 \in 1..Threads
    BY WorkerFacts DEF TypeOK
  <2>3. TypeOK'
    BY <1>3, <2>1, <2>2 DEF PopLocal, TypeOK, callerVars
  <2>4. Phases'
    BY <1>1, <1>3, WorkerMoves DEF PopLocal, callerVars
  <2>5. QED BY <2>3, <2>4
<1>4. QED BY <1>2, <1>3

LEMMA StealTaskType ==
  ASSUME TypeOK, Phases, NEW w \in Worker, StealTask(w) PROVE TypeOK' /\ Phases'
<1> DEFINE v == Victim(w)
<1>1. v \in Worker /\ queue[v] \in Seq(Tasks) /\ queue[v] # <<>>
  BY VictimType DEF StealTask, TypeOK
<1>2. Last(queue[v]) \in Tasks /\ Robbed(queue[v]) \in Seq(Tasks)
  <2>1. Len(queue[v]) \in Nat \ {0}
    BY <1>1, EmptySeq
  <2>2. \A i \in 1..Len(queue[v]) : queue[v][i] \in Tasks
    BY <1>1, ElementOfSeq
  <2>3. QED BY <2>1, <2>2, SubSeqProperties DEF Last, Robbed, Front
<1> HIDE DEF v
<1>3. /\ queue' = [queue EXCEPT ![v] = Robbed(queue[v])]
      /\ task' = [task EXCEPT ![w] = Last(queue[v])]
      /\ pc' = [pc EXCEPT ![w] = "run"] /\ pc[w] = "steal"
      /\ UNCHANGED <<built, pending, rr, stop, offset, size, callerVars, done>>
  BY DEF StealTask, Holds, v
<1>4. TypeOK'
  BY <1>1, <1>2, <1>3 DEF TypeOK, callerVars
<1>5. Phases'
  BY <1>3, WorkerMoves DEF callerVars
<1>6. QED BY <1>4, <1>5

LEMMA OtherWorkerType ==
  ASSUME TypeOK, Phases, NEW w \in Worker,
         CheckStop(w) \/ SkipVictim(w) \/ GiveUpStealing(w) \/ RunTask(w) \/ CountOff(w)
           \/ EvaluateWait(w) \/ Block(w) \/ SpuriousWake(w),
         task[w] = NoTask <=> pc[w] # "run"
  PROVE  TypeOK' /\ Phases'
<1>1. CASE CheckStop(w)
  BY <1>1 DEF CheckStop, TypeOK, callerVars, Phases
<1>2. CASE SkipVictim(w)
  BY <1>2, VictimType DEF SkipVictim, TypeOK, callerVars, Phases
<1>3. CASE GiveUpStealing(w)
  BY <1>3 DEF GiveUpStealing, TypeOK, callerVars, Phases
<1>4. CASE RunTask(w)
  BY <1>4 DEF RunTask, TypeOK, callerVars, Phases
<1>5. CASE CountOff(w)
  <2>1. Decremented(pending) \in Count
    <3>1. pending - 1 \in Int
      BY CountFacts DEF TypeOK, Count
    <3>2. QED BY <3>1, CountFacts DEF Decremented
  <2>2. QED BY <1>5, <2>1 DEF CountOff, TypeOK, callerVars, Phases
<1>6. CASE EvaluateWait(w)
  BY <1>6 DEF EvaluateWait, TypeOK, callerVars, Phases
<1>7. CASE Block(w)
  BY <1>7 DEF Block, TypeOK, callerVars, Phases
<1>8. CASE SpuriousWake(w)
  BY <1>8 DEF SpuriousWake, TypeOK, callerVars, Phases
<1>9. QED BY <1>1, <1>2, <1>3, <1>4, <1>5, <1>6, <1>7, <1>8

LEMMA NotifyIdleType ==
  ASSUME TypeOK, Phases, NEW w \in Worker, NotifyIdle(w) PROVE TypeOK' /\ Phases'
<1>1. /\ pc[w] = "notifyIdle" /\ pc' = [pc EXCEPT ![w] = "check"]
      /\ UNCHANGED <<built, queue, pending, rr, stop, task, offset, size, submitting, mine, done>>
  BY DEF NotifyIdle
<1>2. ASSUME NEW c \in Callers
      PROVE  callerPc'[c] = IF callerPc[c] = "idleBlocked" THEN "idleWait"
                            ELSE IF callerPc[c] = "destroyBlocked" THEN "destroyWait"
                            ELSE callerPc[c]
  BY DEF NotifyIdle, IdleWaiters, IdleWakened
<1>3. callerPc' = [c \in Callers |-> callerPc'[c]]
  BY DEF NotifyIdle
<1>4. TypeOK'
  BY <1>1, <1>2, <1>3 DEF TypeOK
<1>5. Phases'
  BY <1>1, <1>2, PoolAssumption DEF Phases, TypeOK, Destroying
<1>6. QED BY <1>4, <1>5

LEMMA SubmitType ==
  ASSUME TypeOK, Phases, NEW c \in Callers,
         (\E t \in Tasks : ChooseDeque(c, t)) \/ PushTask(c) \/ CountIn(c) \/ NotifyOne(c),
         callerPc[c] = "push" => submitting[c].task \in Tasks
  PROVE  TypeOK' /\ Phases'
<1>1. CASE \E t \in Tasks : ChooseDeque(c, t)
  <2>1. PICK t \in Tasks : ChooseDeque(c, t)
    BY <1>1
  <2>2. rr % Threads \in Worker /\ rr + 1 \in Nat
    <3>1. rr \in Int /\ rr + 1 \in Nat
      BY DEF TypeOK
    <3>2. QED BY <3>1, WorkerFacts, ModRange DEF Worker
  <2>3. TypeOK'
    BY <2>1, <2>2 DEF ChooseDeque, CallerTo, TypeOK, workerVars
  <2>4. Phases'
    BY <2>1, PoolAssumption DEF ChooseDeque, CallerTo, TypeOK, workerVars, Phases, Destroying
  <2>5. QED BY <2>3, <2>4
<1>2. CASE PushTask(c)
  <2> DEFINE i == submitting[c].idx
             t == submitting[c].task
  <2>1. i \in Worker /\ t \in Tasks /\ queue[i] \in Seq(Tasks)
    BY <1>2 DEF PushTask, TypeOK
  <2>2. <<t>> \o queue[i] \in Seq(Tasks)
    BY <2>1, ConcatProperties
  <2>3. TypeOK'
    BY <1>2, <2>1, <2>2 DEF PushTask, CallerTo, TypeOK, workerVars
  <2>4. Phases'
    BY <1>2, PoolAssumption DEF PushTask, CallerTo, TypeOK, workerVars, Phases, Destroying
  <2>5. QED BY <2>3, <2>4
<1>3. CASE CountIn(c)
  <2>1. (pending + 1) % CountMod \in Count
    <3>1. pending + 1 \in Int
      BY CountFacts DEF TypeOK, Count
    <3>2. QED BY <3>1, CountFacts
  <2>2. TypeOK'
    BY <1>3, <2>1 DEF CountIn, CallerTo, TypeOK, workerVars
  <2>3. Phases'
    BY <1>3, PoolAssumption DEF CountIn, CallerTo, TypeOK, workerVars, Phases, Destroying
  <2>4. QED BY <2>2, <2>3
<1>4. CASE NotifyOne(c)
  <2>1. \/ UNCHANGED pc
        \/ \E w \in Worker : pc[w] = "asleep" /\ pc' = [pc EXCEPT ![w] = "wait"]
    BY <1>4 DEF NotifyOne, Asleep
  <2>2. TypeOK'
    BY <1>4, <2>1 DEF NotifyOne, CallerTo, TypeOK
  <2>3. Phases'
    BY <1>4, <2>1, PoolAssumption DEF NotifyOne, CallerTo, TypeOK, Phases, Destroying
  <2>4. QED BY <2>2, <2>3
<1>5. QED BY <1>1, <1>2, <1>3, <1>4

LEMMA IdleType ==
  ASSUME TypeOK, Phases, NEW c \in Callers,
         EvaluateIdle(c) \/ WaitIdle(c) \/ Leave(c) \/ SpuriousIdleWake(c)
  PROVE  TypeOK' /\ Phases'
<1>1. /\ UNCHANGED <<built, queue, pending, rr, stop, pc, task, offset, size, submitting,
                     mine, done>>
      /\ \/ /\ callerPc[c] \in {"ready", "idleWait", "idleBlocked"}
            /\ \E where \in {"ready", "idleWait", "idleBlocked", "left"} :
                 /\ where = "left" => c # Main
                 /\ callerPc' = [callerPc EXCEPT ![c] = where]
         \/ /\ callerPc[c] \in {"destroyWait", "destroyBlocked"}
            /\ \E where \in {"destroyWait", "destroyBlocked", "setStop"} :
                 callerPc' = [callerPc EXCEPT ![c] = where]
  BY DEF EvaluateIdle, WaitIdle, Leave, SpuriousIdleWake, CallerTo, workerVars, IdleWaiters,
         IdleWakened
<1>2. TypeOK'
  <2>1. PICK where \in {"ready", "idleWait", "idleBlocked", "left", "destroyWait",
                        "destroyBlocked", "setStop"} :
          callerPc' = [callerPc EXCEPT ![c] = where]
    BY ONLY <1>1
  <2>2. QED BY ONLY TypeOK, <1>1, <2>1 DEF TypeOK
<1>3. Phases'
  BY <1>1, PoolAssumption DEF TypeOK, Phases, Destroying
<1>4. QED BY <1>2, <1>3

LEMMA DestructorType ==
  ASSUME TypeOK, Phases, Destroy \/ DestructorStep PROVE TypeOK' /\ Phases'
<1>1. CASE Destroy
  BY <1>1, PoolAssumption DEF Destroy, CallerTo, workerVars, TypeOK, Phases, Destroying
<1>2. CASE SetStop
  BY <1>2, PoolAssumption DEF SetStop, CallerTo, workerVars, TypeOK, Phases, Destroying
<1>3. CASE NotifyAll
  <2>1. ASSUME NEW w \in Worker
        PROVE  pc'[w] = IF pc[w] = "asleep" THEN "wait" ELSE pc[w]
    BY <1>3 DEF NotifyAll, Asleep
  <2>2. pc' = [w \in Worker |-> pc'[w]]
    BY <1>3 DEF NotifyAll
  <2>3. TypeOK'
    BY <1>3, <2>1, <2>2, PoolAssumption DEF NotifyAll, CallerTo, TypeOK
  <2>4. Phases'
    BY <1>3, <2>1, PoolAssumption DEF NotifyAll, CallerTo, TypeOK, Phases, Destroying
  <2>5. QED BY <2>3, <2>4
<1>4. CASE JoinAll
  BY <1>4, PoolAssumption DEF JoinAll, CallerTo, workerVars, TypeOK, Phases, Destroying
<1>5. QED BY <1>1, <1>2, <1>3, <1>4 DEF DestructorStep
------------------------------------------------------------------------------
(***************************************************************************)
(* The stages of the tasks and the threads in between, over the actions.   *)
(***************************************************************************)
stages == <<Submitted, InPush, Queued, Held, done>>
threads == <<Pushing, Counting, Hands>>

LEMMA SameSubmitters ==
  ASSUME UNCHANGED <<submitting, mine>>, Pushing' = Pushing
  PROVE  /\ Submitted' = Submitted /\ InPush' = InPush
         /\ SubmittersApart => SubmittersApart'
  BY DEF Submitted, InPush, SubmittersApart

\* What a step does when it leaves deques and submitters alone.
LEMMA SameCallers ==
  ASSUME UNCHANGED callerVars
  PROVE  /\ Submitted' = Submitted /\ InPush' = InPush
         /\ Pushing' = Pushing /\ Counting' = Counting
         /\ SubmittersApart => SubmittersApart'
  BY SameSubmitters DEF callerVars, Pushing, Counting

LEMMA SameWorkers ==
  ASSUME UNCHANGED workerVars
  PROVE  /\ Held' = Held /\ Hands' = Hands
         /\ HoldersApart => HoldersApart'
  BY DEF workerVars, Held, Hands, HoldersApart

\* submit begins: a new task, at the first stage.
LEMMA ChooseDequeMoves ==
  ASSUME TypeOK, OneStage, NEW c \in Callers, NEW t \in Tasks, ChooseDeque(c, t)
  PROVE  /\ t \notin Submitted /\ Submitted' = Submitted \cup {t}
         /\ InPush' = InPush \cup {t}
         /\ c \notin Pushing /\ Pushing' = Pushing \cup {c}
         /\ UNCHANGED <<Queued, Held, done, Counting, Hands, pending>>
         /\ OneStage'
<1>1. /\ callerPc[c] = "ready" /\ t \notin Submitted
      /\ mine' = [mine EXCEPT ![c] = mine[c] \cup {t}]
      /\ submitting' = [submitting EXCEPT ![c] = [task |-> t, idx |-> rr % Threads]]
      /\ callerPc' = [callerPc EXCEPT ![c] = "push"]
      /\ UNCHANGED <<queue, pending, workerVars, done>>
  BY DEF ChooseDeque, CallerTo
<1>2. c \notin Pushing /\ Pushing' = Pushing \cup {c} /\ Counting' = Counting
  BY <1>1 DEF Pushing, Counting, TypeOK
<1>3. Submitted' = Submitted \cup {t}
  <2>1. \A d \in Callers : mine'[d] = IF d = c THEN mine[d] \cup {t} ELSE mine[d]
    BY <1>1 DEF TypeOK
  <2>2. QED BY <2>1 DEF Submitted
<1>4. /\ \A d \in Pushing : submitting'[d].task = submitting[d].task
      /\ submitting'[c].task = t
  BY <1>1, <1>2 DEF TypeOK, Pushing
<1>5. InPush' = InPush \cup {t}
  BY <1>2, <1>4 DEF InPush
<1>6. SubmittersApart'
  <2>1. \A d \in Callers : t \notin mine[d]
    BY <1>1 DEF Submitted
  <2>2. \A d \in Callers : mine'[d] = IF d = c THEN mine[d] \cup {t} ELSE mine[d]
    BY <1>1 DEF TypeOK
  <2>3. ASSUME NEW d \in Pushing' PROVE submitting'[d].task \in mine'[d]
    <3>1. CASE d = c
      BY <1>4, <2>2, <3>1
    <3>2. CASE d # c
      <4>1. d \in Pushing /\ d \in Callers
        BY <1>2, <3>2 DEF Pushing
      <4>2. submitting[d].task \in mine[d]
        BY <4>1 DEF OneStage, SubmittersApart
      <4>3. QED BY <1>4, <2>2, <3>2, <4>1, <4>2
    <3>3. QED BY <3>1, <3>2
  <2>4. \A d, e \in Callers : d # e => mine'[d] \cap mine'[e] = {}
    <3>1. \A d, e \in Callers : d # e => mine[d] \cap mine[e] = {}
      BY DEF OneStage, SubmittersApart
    <3>2. ASSUME NEW d \in Callers, NEW e \in Callers, d # e, NEW x \in mine'[d], x \in mine'[e]
          PROVE  FALSE
      <4>1. (x \in mine[d] \/ (d = c /\ x = t)) /\ (x \in mine[e] \/ (e = c /\ x = t))
        BY ONLY <2>2, <3>2
      <4>2. x \in mine[d] /\ x \in mine[e]
        BY ONLY <2>1, <3>2, <4>1
      <4>3. QED BY ONLY <3>1, <3>2, <4>2
    <3>3. QED BY <3>2
  <2>5. QED BY <2>3, <2>4 DEF SubmittersApart
<1>7. Queued' = Queued /\ DequesApart' /\ Held' = Held /\ Hands' = Hands /\ HoldersApart'
  BY <1>1, SameDeques, SameWorkers DEF OneStage
<1>8. StagesApart'
  BY <1>1, <1>3, <1>5, <1>7 DEF OneStage, StagesApart
<1>9. QED BY <1>1, <1>2, <1>3, <1>5, <1>6, <1>7, <1>8 DEF OneStage

\* submit pushes its task to the front of the deque it has chosen.
LEMMA PushTaskMoves ==
  ASSUME TypeOK, OneStage, NEW c \in Callers, PushTask(c)
  PROVE  LET t == submitting[c].task
         IN /\ t \in InPush /\ t \in Tasks /\ InPush' = InPush \ {t}
            /\ t \notin Queued /\ Queued' = Queued \cup {t}
            /\ c \in Pushing /\ Pushing' = Pushing \ {c}
            /\ c \notin Counting /\ Counting' = Counting \cup {c}
            /\ UNCHANGED <<Submitted, Held, done, Hands, pending>>
            /\ OneStage'
<1> DEFINE t == submitting[c].task
           i == submitting[c].idx
<1>1. /\ callerPc[c] = "push"
      /\ queue' = [queue EXCEPT ![i] = <<t>> \o queue[i]]
      /\ callerPc' = [callerPc EXCEPT ![c] = "count"]
      /\ UNCHANGED <<pending, workerVars, submitting, mine, done>>
  BY DEF PushTask, CallerTo
<1>2. /\ c \in Pushing /\ Pushing' = Pushing \ {c}
      /\ c \notin Counting /\ Counting' = Counting \cup {c}
  BY <1>1 DEF Pushing, Counting, TypeOK
<1>3. t \in InPush /\ t \in mine[c] /\ t \in Tasks /\ i \in Worker
  BY <1>2 DEF InPush, OneStage, SubmittersApart, TypeOK
<1>4. t \notin Queued /\ t \notin ToSet(queue[i]) /\ queue[i] \in Seq(Tasks) /\ IsInjective(queue[i])
  BY <1>3 DEF OneStage, StagesApart, DequesApart, Queued, TypeOK
<1>5. IsInjective(<<t>> \o queue[i]) /\ ToSet(<<t>> \o queue[i]) = ToSet(queue[i]) \cup {t}
  BY <1>3, <1>4, PushedDeque
<1>6. DequesApart' /\ Queued' = Queued \cup {t}
  BY <1>1, <1>3, <1>4, <1>5, DequeGains DEF OneStage
<1>7. Submitted' = Submitted
  BY <1>1 DEF Submitted
<1>8. InPush' = InPush \ {t}
  <2>1. \A d \in Pushing : d # c => submitting[d].task # t
    BY <1>3 DEF OneStage, SubmittersApart, Pushing
  <2>2. QED BY <1>1, <1>2, <2>1 DEF InPush
<1>9. SubmittersApart'
  BY <1>1, <1>2 DEF OneStage, SubmittersApart
<1>10. Held' = Held /\ Hands' = Hands /\ HoldersApart'
  BY <1>1, SameWorkers DEF OneStage
<1>11. StagesApart'
  BY <1>1, <1>3, <1>6, <1>7, <1>8, <1>10 DEF OneStage, StagesApart
<1>12. QED BY <1>1, <1>2, <1>3, <1>4, <1>6, <1>7, <1>8, <1>9, <1>10, <1>11 DEF OneStage

\* A worker takes task t out of deque v, of which q is left.
LEMMA TakeMoves ==
  ASSUME TypeOK, OneStage, NEW w \in Worker, pc[w] \in {"pop", "steal"},
         NEW v \in Worker, NEW t \in Tasks, t \in ToSet(queue[v]),
         NEW q, IsInjective(q), ToSet(q) = ToSet(queue[v]) \ {t},
         queue' = [queue EXCEPT ![v] = q], Holds(w, t),
         UNCHANGED <<pending, callerVars, done>>
  PROVE  /\ t \in Queued /\ Queued' = Queued \ {t} /\ Held' = Held \cup {t}
         /\ w \notin Hands /\ Hands' = Hands \cup {w}
         /\ UNCHANGED <<Submitted, InPush, done, Pushing, Counting, pending>>
         /\ OneStage'
<1>1. t \in Queued /\ Queued' = Queued \ {t} /\ DequesApart'
  BY DequeLoses DEF OneStage
<1>2. task' = [task EXCEPT ![w] = t] /\ pc' = [pc EXCEPT ![w] = "run"]
  BY DEF Holds
<1>3. w \notin Hands /\ Hands' = Hands \cup {w}
  BY <1>2 DEF Hands, TypeOK
<1>4. task[w] = NoTask /\ t # NoTask /\ \A x \in Worker : task[x] # t
  BY <1>1, PoolAssumption DEF OneStage, HoldersApart, StagesApart, Held
<1>5. \A x \in Worker : task'[x] = IF x = w THEN t ELSE task[x]
  BY <1>2 DEF TypeOK
<1>6. Held' = Held \cup {t}
  BY <1>4, <1>5 DEF Held
<1>7. HoldersApart'
  BY <1>2, <1>4, <1>5 DEF OneStage, HoldersApart, TypeOK
<1>8. /\ UNCHANGED <<Submitted, InPush, Pushing, Counting>>
      /\ SubmittersApart'
  BY SameCallers DEF OneStage
<1>9. StagesApart'
  BY <1>1, <1>6, <1>8 DEF OneStage, StagesApart
<1>10. QED BY <1>1, <1>3, <1>6, <1>7, <1>8, <1>9 DEF OneStage

\* A worker runs the task it holds.
LEMMA RunTaskMoves ==
  ASSUME TypeOK, OneStage, NEW w \in Worker, RunTask(w)
  PROVE  LET t == task[w]
         IN /\ t \in Held /\ t \in Tasks /\ Held' = Held \ {t} /\ done' = done \cup {t}
            /\ UNCHANGED <<Submitted, InPush, Queued, Pushing, Counting, Hands, pending>>
            /\ OneStage'
<1> DEFINE t == task[w]
<1>1. /\ pc[w] = "run" /\ done' = done \cup {t}
      /\ task' = [task EXCEPT ![w] = NoTask]
      /\ pc' = [pc EXCEPT ![w] = "count"]
      /\ UNCHANGED <<queue, pending, callerVars>>
  BY DEF RunTask
<1>2. t # NoTask /\ t \in Held /\ t \in Tasks
  BY <1>1 DEF OneStage, HoldersApart, Held, TypeOK
<1>3. \A x \in Worker : task'[x] = IF x = w THEN NoTask ELSE task[x]
  BY <1>1 DEF TypeOK
<1>4. Held' = Held \ {t}
  BY <1>2, <1>3 DEF Held, OneStage, HoldersApart
<1>5. HoldersApart'
  BY <1>1, <1>3 DEF OneStage, HoldersApart, TypeOK
<1>6. Hands' = Hands
  BY <1>1 DEF Hands, TypeOK
<1>7. /\ UNCHANGED <<Submitted, InPush, Pushing, Counting>>
      /\ SubmittersApart'
  BY <1>1, SameCallers DEF OneStage
<1>8. Queued' = Queued /\ DequesApart'
  BY <1>1, SameDeques DEF OneStage
<1>9. StagesApart'
  BY <1>1, <1>2, <1>4, <1>7, <1>8 DEF OneStage, StagesApart
<1>10. QED BY <1>1, <1>2, <1>4, <1>5, <1>6, <1>7, <1>8, <1>9 DEF OneStage

\* A worker counts a task off; a submitter counts one in.
LEMMA CountOffMoves ==
  ASSUME TypeOK, OneStage, NEW w \in Worker, CountOff(w)
  PROVE  /\ w \in Hands /\ Hands' = Hands \ {w} /\ pending' = (pending - 1) % CountMod
         /\ UNCHANGED <<stages, Pushing, Counting>>
         /\ OneStage'
<1>1. /\ pc[w] = "count" /\ pending' = (pending - 1) % CountMod
      /\ pc' = [pc EXCEPT ![w] = IF ReachesZero(pending) THEN "notifyIdle" ELSE "check"]
      /\ UNCHANGED <<queue, task, callerVars, done>>
  BY DEF CountOff, Decremented
<1>2. w \in Hands /\ Hands' = Hands \ {w} /\ Held' = Held
  BY <1>1 DEF Hands, TypeOK, Held
<1>3. HoldersApart'
  BY <1>1 DEF OneStage, HoldersApart, TypeOK
<1>4. /\ UNCHANGED <<Submitted, InPush, Pushing, Counting>>
      /\ SubmittersApart'
  BY <1>1, SameCallers DEF OneStage
<1>5. Queued' = Queued /\ DequesApart'
  BY <1>1, SameDeques DEF OneStage
<1>6. StagesApart'
  BY <1>1, <1>2, <1>4, <1>5 DEF OneStage, StagesApart
<1>7. QED BY <1>1, <1>2, <1>3, <1>4, <1>5, <1>6 DEF OneStage, stages

LEMMA CountInMoves ==
  ASSUME TypeOK, OneStage, NEW c \in Callers, CountIn(c)
  PROVE  /\ c \in Counting /\ Counting' = Counting \ {c} /\ pending' = (pending + 1) % CountMod
         /\ UNCHANGED <<stages, Pushing, Hands>>
         /\ OneStage'
<1>1. /\ callerPc[c] = "count" /\ pending' = (pending + 1) % CountMod
      /\ callerPc' = [callerPc EXCEPT ![c] = "notify"]
      /\ UNCHANGED <<queue, workerVars, submitting, mine, done>>
  BY DEF CountIn, CallerTo
<1>2. c \in Counting /\ Counting' = Counting \ {c} /\ Pushing' = Pushing
  BY <1>1 DEF Counting, Pushing, TypeOK
<1>3. Submitted' = Submitted /\ InPush' = InPush /\ SubmittersApart'
  BY <1>1, <1>2, SameSubmitters DEF OneStage
<1>4. Queued' = Queued /\ DequesApart' /\ Held' = Held /\ Hands' = Hands /\ HoldersApart'
  BY <1>1, SameDeques, SameWorkers DEF OneStage
<1>5. StagesApart'
  BY <1>1, <1>3, <1>4 DEF OneStage, StagesApart
<1>6. QED BY <1>1, <1>2, <1>3, <1>4, <1>5 DEF OneStage, stages
\* Every other step leaves tasks and counter alone, and moves only threads
\* that have nothing to push, run or count.
Quiet ==
  /\ UNCHANGED <<queue, task, submitting, mine, done, pending>>
  /\ \A w \in Worker : pc'[w] = pc[w] \/ {pc[w], pc'[w]} \cap {"run", "count"} = {}
  /\ \A c \in Callers :
       callerPc'[c] = callerPc[c] \/ {callerPc[c], callerPc'[c]} \cap {"push", "count"} = {}

LEMMA QuietMoves ==
  ASSUME OneStage, Quiet
  PROVE  UNCHANGED <<stages, threads, pending>> /\ OneStage'
<1>1. Pushing' = Pushing /\ Counting' = Counting /\ Hands' = Hands
  BY DEF Quiet, Pushing, Counting, Hands
<1>2. Submitted' = Submitted /\ InPush' = InPush /\ SubmittersApart'
  BY <1>1, SameSubmitters DEF Quiet, OneStage
<1>3. Queued' = Queued /\ DequesApart'
  BY SameDeques DEF Quiet, OneStage
<1>4. Held' = Held /\ HoldersApart'
  BY DEF Quiet, Held, OneStage, HoldersApart
<1>5. StagesApart'
  BY <1>2, <1>3, <1>4 DEF Quiet, OneStage, StagesApart
<1>6. QED BY <1>1, <1>2, <1>3, <1>4, <1>5 DEF Quiet, OneStage, stages, threads

LEMMA QuietWorkerSteps ==
  ASSUME TypeOK, NEW w \in Worker,
         CheckStop(w) \/ (PopLocal(w) /\ queue[w] = <<>>) \/ SkipVictim(w) \/ GiveUpStealing(w)
           \/ NotifyIdle(w) \/ EvaluateWait(w) \/ Block(w) \/ SpuriousWake(w)
  PROVE  Quiet
<1>1. CASE CheckStop(w)
  BY <1>1 DEF CheckStop, Quiet, callerVars, TypeOK
<1>2. CASE PopLocal(w) /\ queue[w] = <<>>
  BY <1>2 DEF PopLocal, Quiet, callerVars, TypeOK
<1>3. CASE SkipVictim(w)
  BY <1>3 DEF SkipVictim, Quiet, callerVars, TypeOK
<1>4. CASE GiveUpStealing(w)
  BY <1>4 DEF GiveUpStealing, Quiet, callerVars, TypeOK
<1>5. CASE NotifyIdle(w)
  <2>1. \A c \in Callers :
          \/ callerPc'[c] = callerPc[c]
          \/ /\ callerPc[c] \in {"idleBlocked", "destroyBlocked"}
             /\ callerPc'[c] \in {"idleWait", "destroyWait"}
    BY <1>5 DEF NotifyIdle, IdleWaiters, IdleWakened
  <2>2. QED BY <1>5, <2>1 DEF NotifyIdle, Quiet, TypeOK
<1>6. CASE EvaluateWait(w)
  BY <1>6 DEF EvaluateWait, Quiet, callerVars, TypeOK
<1>7. CASE Block(w)
  BY <1>7 DEF Block, Quiet, callerVars, TypeOK
<1>8. CASE SpuriousWake(w)
  BY <1>8 DEF SpuriousWake, Quiet, callerVars, TypeOK
<1>9. QED BY <1>1, <1>2, <1>3, <1>4, <1>5, <1>6, <1>7, <1>8

LEMMA QuietCallerSteps ==
  ASSUME TypeOK, NEW c \in Callers,
         NotifyOne(c) \/ WaitIdle(c) \/ Leave(c) \/ EvaluateIdle(c) \/ SpuriousIdleWake(c)
  PROVE  Quiet
<1>1. CASE NotifyOne(c)
  <2>1. \A w \in Worker : pc'[w] = pc[w] \/ (pc[w] = "asleep" /\ pc'[w] = "wait")
    BY <1>1 DEF NotifyOne, Asleep, TypeOK
  <2>2. QED BY <1>1, <2>1 DEF NotifyOne, CallerTo, Quiet, TypeOK
<1>2. CASE WaitIdle(c)
  BY <1>2 DEF WaitIdle, CallerTo, Quiet, workerVars, TypeOK
<1>3. CASE Leave(c)
  BY <1>3 DEF Leave, CallerTo, Quiet, workerVars, TypeOK
<1>4. CASE EvaluateIdle(c)
  BY <1>4 DEF EvaluateIdle, CallerTo, Quiet, workerVars, TypeOK
<1>5. CASE SpuriousIdleWake(c)
  BY <1>5 DEF SpuriousIdleWake, IdleWaiters, IdleWakened, CallerTo, Quiet, workerVars, TypeOK
<1>6. QED BY <1>1, <1>2, <1>3, <1>4, <1>5

LEMMA QuietOwnerSteps ==
  ASSUME TypeOK, Phases, StartWorker \/ Destroy \/ DestructorStep \/ UNCHANGED vars
  PROVE  Quiet
<1>1. CASE StartWorker
  <2>1. built \in Worker /\ pc[built] = "unborn"
    BY <1>1, WorkerFacts DEF StartWorker, Phases, TypeOK
  <2>2. \A c \in Callers : callerPc[c] \in {"constructing", "absent"}
    BY <1>1 DEF StartWorker, Phases
  <2>3. \A c \in Callers : callerPc'[c] = callerPc[c] \/ callerPc'[c] = "ready"
    BY <1>1 DEF StartWorker
  <2>4. QED BY <1>1, <2>1, <2>2, <2>3 DEF StartWorker, Quiet, TypeOK
<1>2. CASE Destroy
  BY <1>2, PoolAssumption DEF Destroy, CallerTo, Quiet, workerVars, TypeOK
<1>3. CASE SetStop
  BY <1>3, PoolAssumption DEF SetStop, CallerTo, Quiet, workerVars, TypeOK
<1>4. CASE NotifyAll
  <2>1. \A w \in Worker : pc'[w] = pc[w] \/ (pc[w] = "asleep" /\ pc'[w] = "wait")
    BY <1>4 DEF NotifyAll, Asleep
  <2>2. QED BY <1>4, <2>1, PoolAssumption DEF NotifyAll, CallerTo, Quiet, TypeOK
<1>5. CASE JoinAll
  BY <1>5, PoolAssumption DEF JoinAll, CallerTo, Quiet, workerVars, TypeOK
<1>6. CASE UNCHANGED vars
  BY <1>6 DEF vars, workerVars, callerVars, Quiet
<1>7. QED BY <1>1, <1>2, <1>3, <1>4, <1>5, <1>6 DEF DestructorStep
------------------------------------------------------------------------------
(***************************************************************************)
(* Counting.                                                               *)
(***************************************************************************)
LEMMA OneMore ==
  ASSUME NEW S, IsFiniteSet(S), NEW x, x \notin S
  PROVE  Cardinality(S \cup {x}) = Cardinality(S) + 1
  BY FS_AddElement

LEMMA OneLess ==
  ASSUME NEW S, IsFiniteSet(S), NEW x, x \in S
  PROVE  Cardinality(S \ {x}) = Cardinality(S) - 1
  BY FS_RemoveElement

LEMMA FiniteStages ==
  ASSUME TypeOK
  PROVE  /\ IsFiniteSet(Queued) /\ Cardinality(Queued) \in Nat
         /\ IsFiniteSet(Hands) /\ Cardinality(Hands) \in Nat
         /\ IsFiniteSet(Pushing) /\ Cardinality(Pushing) \in Nat
         /\ IsFiniteSet(Counting) /\ Cardinality(Counting) \in Nat
         /\ IsFiniteSet(Submitted) /\ Cardinality(Submitted) \in Nat
         /\ Cardinality(Submitted) <= Cardinality(Tasks)
<1>1. Queued \subseteq Tasks
  <2>1. ASSUME NEW w \in Worker PROVE ToSet(queue[w]) \subseteq Tasks
    <3>1. queue[w] \in Seq(Tasks) /\ DOMAIN queue[w] = 1..Len(queue[w])
      BY LenProperties DEF TypeOK
    <3>2. QED BY <3>1, ElementOfSeq DEF ToSet
  <2>2. QED BY <2>1 DEF Queued
<1>2. Submitted \subseteq Tasks
  BY DEF Submitted, TypeOK
<1>3. IsFiniteSet(Tasks) /\ IsFiniteSet(Worker) /\ IsFiniteSet(Callers)
  BY PoolAssumption, WorkerFacts
<1>4. Hands \subseteq Worker /\ Pushing \subseteq Callers /\ Counting \subseteq Callers
  BY DEF Hands, Pushing, Counting
<1>5. /\ IsFiniteSet(Queued) /\ IsFiniteSet(Hands) /\ IsFiniteSet(Pushing)
      /\ IsFiniteSet(Counting) /\ IsFiniteSet(Submitted)
      /\ Cardinality(Submitted) <= Cardinality(Tasks)
  BY <1>1, <1>2, <1>3, <1>4, FS_Subset
<1>6. QED BY <1>5, FS_CardinalityType

\* PendingCounts by the names used here.
LEMMA PendingIs ==
  /\ PendingCounts <=>
       pending = ((Cardinality(Queued) + Cardinality(Hands)) - Cardinality(Counting)) % CountMod
  /\ PendingCounts' <=>
       pending' = ((Cardinality(Queued') + Cardinality(Hands')) - Cardinality(Counting')) % CountMod
  BY Zenon DEF PendingCounts, Hands, Counting

Tallies == PendingCounts /\ Bounded

LEMMA ChooseDequeTallies ==
  ASSUME TypeOK, OneStage, Tallies, NEW c \in Callers, NEW t \in Tasks, ChooseDeque(c, t)
  PROVE  Tallies'
<1>1. /\ Cardinality(Submitted') = Cardinality(Submitted) + 1
      /\ Cardinality(Pushing') = Cardinality(Pushing) + 1
  BY ChooseDequeMoves, FiniteStages, OneMore
<1>2. UNCHANGED <<Queued, Counting, Hands, pending>>
  BY ChooseDequeMoves
<1>3. PendingCounts'
  BY <1>2, PendingIs DEF Tallies
<1>4. Bounded'
  BY <1>1, <1>2, FiniteStages DEF Tallies, Bounded
<1>5. QED BY <1>3, <1>4 DEF Tallies

LEMMA PushTaskTallies ==
  ASSUME TypeOK, OneStage, Tallies, NEW c \in Callers, PushTask(c)
  PROVE  Tallies'
<1>1. /\ Cardinality(Queued') = Cardinality(Queued) + 1
      /\ Cardinality(Counting') = Cardinality(Counting) + 1
      /\ Cardinality(Pushing') = Cardinality(Pushing) - 1
  BY PushTaskMoves, FiniteStages, OneMore, OneLess
<1>2. UNCHANGED <<Submitted, Hands, pending>>
  BY PushTaskMoves
<1>3. (Cardinality(Queued') + Cardinality(Hands')) - Cardinality(Counting')
        = (Cardinality(Queued) + Cardinality(Hands)) - Cardinality(Counting)
  BY <1>1, <1>2, FiniteStages
<1>4. PendingCounts'
  BY <1>2, <1>3, PendingIs DEF Tallies
<1>5. Bounded'
  BY <1>1, <1>2, FiniteStages DEF Tallies, Bounded
<1>6. QED BY <1>4, <1>5 DEF Tallies

\* A task that is popped or stolen moves from the queued to those in hand.
LEMMA TakeTallies ==
  ASSUME TypeOK, Tallies, NEW t, NEW w,
         t \in Queued, Queued' = Queued \ {t}, w \notin Hands, Hands' = Hands \cup {w},
         UNCHANGED <<Submitted, Pushing, Counting, pending>>
  PROVE  Tallies'
<1>1. /\ Cardinality(Queued') = Cardinality(Queued) - 1
      /\ Cardinality(Hands') = Cardinality(Hands) + 1
  BY FiniteStages, OneMore, OneLess
<1>2. (Cardinality(Queued') + Cardinality(Hands')) - Cardinality(Counting')
        = (Cardinality(Queued) + Cardinality(Hands)) - Cardinality(Counting)
  BY <1>1, FiniteStages
<1>3. PendingCounts'
  BY <1>2, PendingIs DEF Tallies
<1>4. Bounded'
  BY <1>1, FiniteStages DEF Tallies, Bounded
<1>5. QED BY <1>3, <1>4 DEF Tallies

LEMMA CountOffTallies ==
  ASSUME TypeOK, OneStage, Tallies, NEW w \in Worker, CountOff(w)
  PROVE  Tallies'
<1> DEFINE n == (Cardinality(Queued) + Cardinality(Hands)) - Cardinality(Counting)
<1>1. Cardinality(Hands') = Cardinality(Hands) - 1
  BY CountOffMoves, FiniteStages, OneLess
<1>2. UNCHANGED <<Queued, Submitted, Pushing, Counting>> /\ pending' = (pending - 1) % CountMod
  BY CountOffMoves DEF stages
<1>3. /\ n \in Int
      /\ (Cardinality(Queued') + Cardinality(Hands')) - Cardinality(Counting') = n - 1
  BY <1>1, <1>2, FiniteStages
<1> HIDE DEF n
<1>4. pending = n % CountMod
  BY PendingIs DEF Tallies, n
<1>5. pending' = (n - 1) % CountMod
  BY <1>2, <1>3, <1>4, CountFacts, ModSub, 1 \in Int
<1>6. PendingCounts'
  BY <1>3, <1>5, PendingIs
<1>7. Bounded'
  BY <1>1, <1>2, FiniteStages DEF Tallies, Bounded
<1>8. QED BY <1>6, <1>7 DEF Tallies

LEMMA CountInTallies ==
  ASSUME TypeOK, OneStage, Tallies, NEW c \in Callers, CountIn(c)
  PROVE  Tallies'
<1> DEFINE n == (Cardinality(Queued) + Cardinality(Hands)) - Cardinality(Counting)
<1>1. Cardinality(Counting') = Cardinality(Counting) - 1
  BY CountInMoves, FiniteStages, OneLess
<1>2. UNCHANGED <<Queued, Submitted, Pushing, Hands>> /\ pending' = (pending + 1) % CountMod
  BY CountInMoves DEF stages
<1>3. /\ n \in Int
      /\ (Cardinality(Queued') + Cardinality(Hands')) - Cardinality(Counting') = n + 1
  BY <1>1, <1>2, FiniteStages
<1> HIDE DEF n
<1>4. pending = n % CountMod
  BY PendingIs DEF Tallies, n
<1>5. pending' = (n + 1) % CountMod
  BY <1>2, <1>3, <1>4, CountFacts, ModAdd, 1 \in Int
<1>6. PendingCounts'
  BY <1>3, <1>5, PendingIs
<1>7. Bounded'
  BY <1>1, <1>2, FiniteStages DEF Tallies, Bounded
<1>8. QED BY <1>6, <1>7 DEF Tallies

LEMMA SameTallies ==
  ASSUME Tallies, UNCHANGED <<Queued, Hands, Counting, Pushing, Submitted, pending>>
  PROVE  Tallies'
<1>1. PendingCounts'
  BY PendingIs DEF Tallies
<1>2. Bounded'
  BY DEF Tallies, Bounded
<1>3. QED BY <1>1, <1>2 DEF Tallies

\* A zero that nobody has still to count in means that nothing is unfinished.
LEMMA ZeroMeansNothing ==
  ASSUME TypeOK, Tallies, pending = 0, Counting = {}
  PROVE  Queued = {} /\ Hands = {}
<1> DEFINE n == Cardinality(Queued) + Cardinality(Hands)
<1>1. Cardinality(Counting) = 0
  BY FS_EmptySet
<1>2. n \in 0..CountMod-1 /\ n - Cardinality(Counting) = n
  <2>1. n + Cardinality(Pushing) <= Cardinality(Submitted)
    BY DEF Tallies, Bounded
  <2>2. /\ Cardinality(Submitted) < CountMod /\ CountMod \in Nat
        /\ Cardinality(Submitted) \in Nat
    BY FiniteStages, CountFacts
  <2>3. n \in Nat /\ Cardinality(Pushing) \in Nat
    BY FiniteStages
  <2> HIDE DEF n
  <2>4. QED BY <1>1, <2>1, <2>2, <2>3
<1>3. 0 = (n - Cardinality(Counting)) % CountMod
  BY PendingIs DEF Tallies
<1>4. n % CountMod = n
  BY <1>2, CountFacts, ModSmall
<1>5. Cardinality(Queued) = 0 /\ Cardinality(Hands) = 0
  BY <1>2, <1>3, <1>4, FiniteStages
<1>6. QED BY <1>5, FiniteStages, FS_EmptySet
------------------------------------------------------------------------------
(***************************************************************************)
(* The inductive invariant.                                                *)
(***************************************************************************)
\* Worker w moves task t from a deque into its hands.
Takes(w, t) ==
  /\ t \in Queued /\ Queued' = Queued \ {t} /\ Held' = Held \cup {t}
  /\ w \notin Hands /\ Hands' = Hands \cup {w}
  /\ UNCHANGED <<Submitted, InPush, done, Pushing, Counting, pending, callerPc>>

LEMMA PopLocalTakes ==
  ASSUME TypeOK, OneStage, NEW w \in Worker, PopLocal(w), queue[w] # <<>>
  PROVE  OneStage' /\ \E t \in Tasks : Takes(w, t)
<1> DEFINE t == Head(queue[w])
           q == Tail(queue[w])
<1>1. /\ pc[w] = "pop" /\ Holds(w, t) /\ queue' = [queue EXCEPT ![w] = q]
      /\ UNCHANGED <<pending, callerVars, done>>
  BY DEF PopLocal
<1>2. queue[w] \in Seq(Tasks) /\ IsInjective(queue[w])
  BY DEF TypeOK, OneStage, DequesApart
<1>3. /\ IsInjective(q) /\ t \in Tasks /\ t \in ToSet(queue[w])
      /\ ToSet(q) = ToSet(queue[w]) \ {t}
  BY <1>2, PoppedDeque
<1> HIDE DEF t, q
<1>4. QED BY <1>1, <1>3, TakeMoves DEF Takes, callerVars

LEMMA StealTaskTakes ==
  ASSUME TypeOK, OneStage, NEW w \in Worker, StealTask(w)
  PROVE  OneStage' /\ \E t \in Tasks : Takes(w, t)
<1> DEFINE v == Victim(w)
           t == Last(queue[v])
           q == Front(queue[v])
<1>1. /\ pc[w] = "steal" /\ Holds(w, t) /\ queue' = [queue EXCEPT ![v] = q]
      /\ queue[v] # <<>> /\ UNCHANGED <<pending, callerVars, done>>
  BY DEF StealTask, Robbed
<1>2. v \in Worker /\ queue[v] \in Seq(Tasks) /\ IsInjective(queue[v])
  BY VictimType DEF StealTask, TypeOK, OneStage, DequesApart
<1>3. /\ IsInjective(q) /\ t \in Tasks /\ t \in ToSet(queue[v])
      /\ ToSet(q) = ToSet(queue[v]) \ {t}
  BY <1>1, <1>2, RobbedDeque
<1> HIDE DEF t, q, v
<1>4. QED BY <1>1, <1>2, <1>3, TakeMoves DEF Takes, callerVars

\* What a step can be, as far as tasks and the counter are concerned.
LEMMA StepKinds ==
  ASSUME TypeOK, Phases, OneStage, [Next]_vars
  PROVE  \/ \E c \in Callers, t \in Tasks : ChooseDeque(c, t)
         \/ \E c \in Callers : PushTask(c)
         \/ OneStage' /\ \E w \in Worker, t \in Tasks : Takes(w, t)
         \/ \E w \in Worker : RunTask(w)
         \/ \E w \in Worker : CountOff(w)
         \/ \E c \in Callers : CountIn(c)
         \/ Quiet
<1>1. CASE \E w \in Worker : WorkerStep(w) \/ SpuriousWake(w)
  <2>1. PICK w \in Worker : WorkerStep(w) \/ SpuriousWake(w)
    BY <1>1
  <2>2. CASE PopLocal(w) /\ queue[w] # <<>>
    BY <2>2, PopLocalTakes
  <2>3. CASE StealTask(w)
    BY <2>3, StealTaskTakes
  <2>4. CASE RunTask(w) \/ CountOff(w)
    BY <2>4
  <2>5. QED BY <2>1, <2>2, <2>3, <2>4, QuietWorkerSteps DEF WorkerStep
<1>2. CASE \E c \in Callers : CallerStep(c) \/ WaitIdle(c) \/ Leave(c) \/ SpuriousIdleWake(c)
  BY <1>2, QuietCallerSteps DEF CallerStep
<1>3. CASE StartWorker \/ Destroy \/ DestructorStep \/ UNCHANGED vars
  BY <1>3, QuietOwnerSteps
<1>4. QED BY <1>1, <1>2, <1>3 DEF Next, Gone

LEMMA NextType ==
  ASSUME TypeOK, Phases, OneStage, [Next]_vars
  PROVE  TypeOK' /\ Phases'
<1>1. \A w \in Worker : task[w] = NoTask <=> pc[w] # "run"
  BY DEF OneStage, HoldersApart
<1>2. \A c \in Callers : callerPc[c] = "push" => submitting[c].task \in Tasks
  BY DEF OneStage, SubmittersApart, Pushing, TypeOK
<1>3. CASE \E w \in Worker : WorkerStep(w) \/ SpuriousWake(w)
  BY <1>1, <1>3, PopLocalType, StealTaskType, OtherWorkerType, NotifyIdleType DEF WorkerStep
<1>4. CASE (\E c \in Callers, t \in Tasks : ChooseDeque(c, t)) \/ (\E c \in Callers : CallerStep(c))
  <2>1. PICK c \in Callers : (\E t \in Tasks : ChooseDeque(c, t)) \/ CallerStep(c)
    BY <1>4
  <2>2. CASE EvaluateIdle(c)
    BY <2>2, IdleType
  <2>3. QED BY <1>2, <2>1, <2>2, SubmitType DEF CallerStep
<1>5. CASE \E c \in Callers : WaitIdle(c) \/ Leave(c) \/ SpuriousIdleWake(c)
  BY <1>5, IdleType
<1>6. CASE StartWorker
  BY <1>6, StartWorkerType
<1>7. CASE Destroy \/ DestructorStep
  BY <1>7, DestructorType
<1>8. CASE UNCHANGED vars
  <2>1. TypeOK'
    BY <1>8 DEF vars, workerVars, callerVars, TypeOK
  <2>2. Phases'
    BY <1>8 DEF vars, workerVars, callerVars, Phases
  <2>3. QED BY <2>1, <2>2
<1>9. QED BY <1>3, <1>4, <1>5, <1>6, <1>7, <1>8 DEF Next, Gone

LEMMA NextStages ==
  ASSUME TypeOK, Phases, OneStage, Tallies, [Next]_vars
  PROVE  OneStage' /\ Tallies'
<1>1. CASE \E c \in Callers, t \in Tasks : ChooseDeque(c, t)
  BY <1>1, ChooseDequeMoves, ChooseDequeTallies
<1>2. CASE \E c \in Callers : PushTask(c)
  BY <1>2, PushTaskMoves, PushTaskTallies
<1>3. CASE OneStage' /\ \E w \in Worker, t \in Tasks : Takes(w, t)
  BY <1>3, TakeTallies DEF Takes
<1>4. CASE \E w \in Worker : RunTask(w)
  BY <1>4, RunTaskMoves, SameTallies
<1>5. CASE \E w \in Worker : CountOff(w)
  BY <1>5, CountOffMoves, CountOffTallies
<1>6. CASE \E c \in Callers : CountIn(c)
  BY <1>6, CountInMoves, CountInTallies
<1>7. CASE Quiet
  BY <1>7, QuietMoves, SameTallies DEF stages, threads
<1>8. QED BY <1>1, <1>2, <1>3, <1>4, <1>5, <1>6, <1>7, StepKinds

\* The destructor goes on to stop the workers only from its own wait_idle,
\* and only when it reads zero.
LEMMA StoppingBegins ==
  ASSUME TypeOK, Phases, [Next]_vars, callerPc'[Main] \in Stopping, callerPc[Main] \notin Stopping
  PROVE  callerPc[Main] = "destroyWait" /\ pending = 0 /\ Quiet
<1> USE PoolAssumption
<1>1. CASE StartWorker
  BY <1>1 DEF StartWorker, Stopping, TypeOK
<1>2. CASE \E w \in Worker : WorkerStep(w) \/ SpuriousWake(w)
  <2>1. PICK w \in Worker : WorkerStep(w) \/ SpuriousWake(w)
    BY <1>2
  <2>2. CASE NotifyIdle(w)
    BY <2>2 DEF NotifyIdle, IdleWaiters, IdleWakened, Stopping
  <2>3. CASE ~NotifyIdle(w)
    BY <2>1, <2>3 DEF WorkerStep, CheckStop, PopLocal, StealTask, SkipVictim, GiveUpStealing,
       RunTask, CountOff, EvaluateWait, Block, SpuriousWake, callerVars
  <2>4. QED BY <2>2, <2>3
<1>3. CASE \E c \in Callers, t \in Tasks : ChooseDeque(c, t)
  BY <1>3 DEF ChooseDeque, CallerTo, TypeOK, Stopping
<1>4. CASE \E c \in Callers : CallerStep(c) \/ WaitIdle(c) \/ Leave(c) \/ SpuriousIdleWake(c)
  <2>1. PICK c \in Callers : CallerStep(c) \/ WaitIdle(c) \/ Leave(c) \/ SpuriousIdleWake(c)
    BY <1>4
  <2>2. CASE EvaluateIdle(c)
    <3>1. Quiet
      BY <2>2, QuietCallerSteps
    <3>2. callerPc[Main] = "destroyWait" /\ pending = 0
      BY <2>2 DEF EvaluateIdle, CallerTo, TypeOK, Stopping
    <3>3. QED BY <3>1, <3>2
  <2>3. CASE PushTask(c) \/ CountIn(c) \/ NotifyOne(c)
    BY <2>3 DEF PushTask, CountIn, NotifyOne, CallerTo, TypeOK, Stopping
  <2>4. CASE WaitIdle(c) \/ Leave(c) \/ SpuriousIdleWake(c)
    BY <2>4 DEF WaitIdle, Leave, SpuriousIdleWake, IdleWaiters, IdleWakened, CallerTo, TypeOK,
       Stopping
  <2>5. QED BY <2>1, <2>2, <2>3, <2>4 DEF CallerStep
<1>5. CASE Destroy
  BY <1>5 DEF Destroy, CallerTo, TypeOK, Stopping
<1>6. CASE DestructorStep
  BY <1>6 DEF DestructorStep, SetStop, NotifyAll, JoinAll, Stopping
<1>7. CASE UNCHANGED vars
  BY <1>7 DEF vars, callerVars
<1>8. QED BY <1>1, <1>2, <1>3, <1>4, <1>5, <1>6, <1>7 DEF Next, Gone

\* While the workers are being stopped, nobody has anything to do.
LEMMA StoppingStill ==
  ASSUME TypeOK, Phases, NothingLeft, OneStage, [Next]_vars, callerPc[Main] \in Stopping
  PROVE  Queued' = {} /\ Hands' = {}
<1>1. \A c \in Callers : callerPc[c] \in Stopping \cup {"left"}
  BY DEF Phases, Destroying, Stopping
<1>2. Queued = {} /\ Hands = {} /\ Pushing = {} /\ Counting = {}
  BY <1>1 DEF NothingLeft, Pushing, Counting, Stopping
<1>3. ~\E c \in Callers, t \in Tasks : ChooseDeque(c, t)
  BY <1>1 DEF ChooseDeque, Stopping
<1>4. ~\E c \in Callers : PushTask(c) \/ CountIn(c)
  BY <1>2 DEF PushTask, CountIn, Pushing, Counting
<1>5. ~\E w \in Worker : RunTask(w) \/ CountOff(w)
  BY <1>2 DEF RunTask, CountOff, Hands
<1>6. ~\E w \in Worker, t \in Tasks : Takes(w, t)
  BY <1>2 DEF Takes
<1>7. Quiet
  BY <1>3, <1>4, <1>5, <1>6, StepKinds
<1>8. QED BY <1>2, <1>7, QuietMoves DEF stages, threads

LEMMA NextNothingLeft ==
  ASSUME TypeOK, Phases, OneStage, Tallies, NothingLeft, [Next]_vars
  PROVE  NothingLeft'
<1> SUFFICES ASSUME callerPc'[Main] \in Stopping PROVE Queued' = {} /\ Hands' = {}
  BY DEF NothingLeft
<1>1. CASE callerPc[Main] \in Stopping
  BY <1>1, StoppingStill
<1>2. CASE callerPc[Main] \notin Stopping
  <2>1. callerPc[Main] = "destroyWait" /\ pending = 0 /\ Quiet
    BY <1>2, StoppingBegins
  <2>2. Counting = {}
    BY <2>1 DEF Phases, Destroying, Counting
  <2>3. Queued = {} /\ Hands = {}
    BY <2>1, <2>2, ZeroMeansNothing
  <2>4. QED BY <2>1, <2>3, QuietMoves DEF stages, threads
<1>3. QED BY <1>1, <1>2

LEMMA InitInv == Init => IInv
<1> SUFFICES ASSUME Init PROVE IInv
  OBVIOUS
<1>1. TypeOK /\ Phases
  BY InitType
<1>2. /\ \A w \in Worker : queue[w] = <<>> /\ pc[w] = "unborn" /\ task[w] = NoTask
      /\ \A c \in Callers : mine[c] = {} /\ callerPc[c] \in {"constructing", "absent"}
      /\ done = {} /\ pending = 0
  BY DEF Init
<1>3. \A w \in Worker : ToSet(queue[w]) = {} /\ IsInjective(queue[w])
  BY <1>2 DEF ToSet, IsInjective
<1>4. /\ Queued = {} /\ Hands = {} /\ Held = {} /\ Submitted = {}
      /\ Pushing = {} /\ Counting = {} /\ InPush = {}
  BY <1>2, <1>3 DEF Queued, Hands, Held, Submitted, Pushing, Counting, InPush
<1>5. OneStage
  BY <1>2, <1>3, <1>4 DEF OneStage, DequesApart, HoldersApart, SubmittersApart, StagesApart
<1>6. Cardinality(Queued) = 0 /\ Cardinality(Hands) = 0 /\ Cardinality(Counting) = 0
      /\ Cardinality(Pushing) = 0 /\ Cardinality(Submitted) = 0
  BY <1>4, FS_EmptySet
<1>7. 0 % CountMod = 0
  BY CountFacts, ModSmall DEF Count
<1>8. PendingCounts
  BY <1>2, <1>6, <1>7, PendingIs
<1>9. Bounded /\ NothingLeft
  BY <1>4, <1>6 DEF Bounded, NothingLeft
<1>10. QED BY <1>1, <1>5, <1>8, <1>9 DEF IInv

LEMMA Inductive == Spec => []IInv
<1>1. Init => IInv
  BY InitInv
<1>2. IInv /\ [Next]_vars => IInv'
  <2> SUFFICES ASSUME IInv, [Next]_vars PROVE IInv'
    OBVIOUS
  <2>1. TypeOK' /\ Phases'
    BY NextType DEF IInv
  <2>2. OneStage' /\ Tallies'
    BY NextStages DEF IInv, Tallies
  <2>3. NothingLeft'
    BY NextNothingLeft DEF IInv, Tallies
  <2>4. QED BY <2>1, <2>2, <2>3 DEF IInv, Tallies
<1>3. QED BY <1>1, <1>2, PTL DEF Spec

\* Every index, counter and place of every thread keeps its type; a thief
\* never looks beyond the workers there are.
THEOREM TypeCorrect == Spec => []TypeOK
<1>1. IInv => TypeOK
  BY DEF IInv
<1>2. QED BY <1>1, Inductive, PTL

\* pending_ differs from the number of unfinished tasks by exactly the pushes
\* that are not counted yet.
THEOREM CounterCounts == Spec => []PendingCounts
<1>1. IInv => PendingCounts
  BY DEF IInv
<1>2. QED BY <1>1, Inductive, PTL
------------------------------------------------------------------------------
(***************************************************************************)
(* wait_idle.                                                              *)
(***************************************************************************)
\* When wait_idle returns while no submit is between its push and its count,
\* the tasks that its caller had submitted have run.
WaitIdleWhenCounted ==
  [][\A c \in Callers :
       callerPc[c] \in {"idleWait", "idleBlocked"} /\ callerPc'[c] = "ready" /\ Counting = {}
         => mine[c] \subseteq done]_vars

\* Only a wait_idle that reads zero returns.
LEMMA WaitIdleReadsZero ==
  ASSUME TypeOK, Phases, [Next]_vars, NEW c \in Callers,
         callerPc[c] \in {"idleWait", "idleBlocked"}, callerPc'[c] = "ready"
  PROVE  pending = 0
<1> USE PoolAssumption
<1>1. CASE StartWorker
  BY <1>1 DEF StartWorker, Phases
<1>2. CASE \E w \in Worker : WorkerStep(w) \/ SpuriousWake(w)
  <2>1. PICK w \in Worker : WorkerStep(w) \/ SpuriousWake(w)
    BY <1>2
  <2>2. CASE NotifyIdle(w)
    BY <2>2 DEF NotifyIdle, IdleWaiters, IdleWakened
  <2>3. CASE ~NotifyIdle(w)
    BY <2>1, <2>3 DEF WorkerStep, CheckStop, PopLocal, StealTask, SkipVictim, GiveUpStealing,
       RunTask, CountOff, EvaluateWait, Block, SpuriousWake, callerVars
  <2>4. QED BY <2>2, <2>3
<1>3. CASE \E d \in Callers, t \in Tasks : ChooseDeque(d, t)
  BY <1>3 DEF ChooseDeque, CallerTo, TypeOK
<1>4. CASE \E d \in Callers : CallerStep(d) \/ WaitIdle(d) \/ Leave(d) \/ SpuriousIdleWake(d)
  <2>1. PICK d \in Callers : CallerStep(d) \/ WaitIdle(d) \/ Leave(d) \/ SpuriousIdleWake(d)
    BY <1>4
  <2>2. CASE EvaluateIdle(d)
    BY <2>2 DEF EvaluateIdle, CallerTo, TypeOK
  <2>3. CASE PushTask(d) \/ CountIn(d) \/ NotifyOne(d)
    BY <2>3 DEF PushTask, CountIn, NotifyOne, CallerTo, TypeOK
  <2>4. CASE WaitIdle(d) \/ Leave(d) \/ SpuriousIdleWake(d)
    BY <2>4 DEF WaitIdle, Leave, SpuriousIdleWake, IdleWaiters, IdleWakened, CallerTo, TypeOK
  <2>5. QED BY <2>1, <2>2, <2>3, <2>4 DEF CallerStep
<1>5. CASE Destroy
  BY <1>5 DEF Destroy, CallerTo, TypeOK
<1>6. CASE DestructorStep
  BY <1>6 DEF DestructorStep, SetStop, NotifyAll, JoinAll, CallerTo, TypeOK
<1>7. CASE UNCHANGED vars
  BY <1>7 DEF vars, callerVars
<1>8. QED BY <1>1, <1>2, <1>3, <1>4, <1>5, <1>6, <1>7 DEF Next, Gone

LEMMA WaitIdleStep ==
  ASSUME IInv, [Next]_vars, NEW c \in Callers,
         callerPc[c] \in {"idleWait", "idleBlocked"}, callerPc'[c] = "ready", Counting = {}
  PROVE  mine[c] \subseteq done
<1>1. Queued = {} /\ Hands = {}
  BY WaitIdleReadsZero, ZeroMeansNothing DEF IInv, Tallies
<1>2. Held = {}
  BY <1>1 DEF IInv, OneStage, HoldersApart, Held, Hands
<1>3. mine[c] \subseteq InPush \cup done
  BY <1>1, <1>2 DEF IInv, OneStage, StagesApart, Submitted
<1>4. mine[c] \cap InPush = {}
  <2>1. ASSUME NEW d \in Pushing PROVE submitting[d].task \notin mine[c]
    <3>1. d \in Callers /\ d # c /\ submitting[d].task \in mine[d]
      BY DEF Pushing, IInv, OneStage, SubmittersApart
    <3>2. QED BY <3>1 DEF IInv, OneStage, SubmittersApart
  <2>2. QED BY <2>1 DEF InPush
<1>5. QED BY <1>3, <1>4

\* wait_idle keeps its promise whenever it overlaps no other submit.
THEOREM WaitIdleSound == Spec => WaitIdleWhenCounted
<1>1. IInv /\ [Next]_vars =>
        [\A c \in Callers :
           callerPc[c] \in {"idleWait", "idleBlocked"} /\ callerPc'[c] = "ready" /\ Counting = {}
             => mine[c] \subseteq done]_vars
  BY WaitIdleStep
<1>2. QED BY <1>1, Inductive, PTL DEF Spec, WaitIdleWhenCounted

\* A pool with a single user keeps the promise always.
THEOREM WaitIdleSingleCaller ==
  ASSUME Callers = {Main}
  PROVE  Spec => WaitIdleMeansDone
<1>1. IInv /\ [Next]_vars =>
        [\A c \in Callers :
           callerPc[c] \in {"idleWait", "idleBlocked"} /\ callerPc'[c] = "ready"
             => mine[c] \subseteq done]_vars
  <2> SUFFICES ASSUME IInv, [Next]_vars, NEW c \in Callers,
                      callerPc[c] \in {"idleWait", "idleBlocked"}, callerPc'[c] = "ready"
               PROVE  mine[c] \subseteq done
    OBVIOUS
  <2>1. Counting = {}
    BY DEF Counting
  <2>2. QED BY <2>1, WaitIdleStep
<1>2. QED BY <1>1, Inductive, PTL DEF Spec, WaitIdleMeansDone
------------------------------------------------------------------------------
(***************************************************************************)
(* The pool implements TaskPool.                                           *)
(***************************************************************************)
statuses == [t \in Tasks |-> Status(t)]
opened == callerPc[Main] # "gone"

\* The status of a task by the stages.
StageOf(t, d, h, q) ==
  IF t \in d THEN "done" ELSE IF t \in h THEN "running" ELSE IF t \in q THEN "queued" ELSE "new"

LEMMA StatusIs ==
  /\ \A t \in Tasks : statuses[t] = StageOf(t, done, Held, Queued)
  /\ \A t \in Tasks : statuses'[t] = StageOf(t, done', Held', Queued')
  /\ DOMAIN statuses = Tasks /\ DOMAIN statuses' = Tasks
<1>1. \A t \in Tasks : (\E w \in Worker : task[w] = t) <=> t \in Held
  BY PoolAssumption DEF Held
<1>2. \A t \in Tasks : (\E w \in Worker : task'[w] = t) <=> t \in Held'
  BY PoolAssumption DEF Held
<1>3. QED BY <1>1, <1>2 DEF statuses, Status, StageOf

LEMMA SameStatuses ==
  ASSUME \A t \in Tasks : StageOf(t, done', Held', Queued') = StageOf(t, done, Held, Queued)
  PROVE  statuses' = statuses
<1>1. \A t \in Tasks : statuses'[t] = statuses[t]
  BY StatusIs
<1>2. statuses = [t \in Tasks |-> statuses[t]] /\ statuses' = [t \in Tasks |-> statuses'[t]]
  BY DEF statuses
<1>3. QED BY <1>1, <1>2

LEMMA OneStatus ==
  ASSUME NEW t \in Tasks, NEW s, StageOf(t, done', Held', Queued') = s,
         \A u \in Tasks : u # t =>
           StageOf(u, done', Held', Queued') = StageOf(u, done, Held, Queued)
  PROVE  statuses' = [statuses EXCEPT ![t] = s]
<1>1. \A u \in Tasks : statuses'[u] = IF u = t THEN s ELSE statuses[u]
  BY StatusIs
<1>2. statuses = [u \in Tasks |-> statuses[u]] /\ statuses' = [u \in Tasks |-> statuses'[u]]
  BY DEF statuses
<1>3. QED BY <1>1, <1>2

\* The destructor's last step closes the pool; no other step does.
LEMMA OpenKept ==
  ASSUME TypeOK, Phases, [Next]_vars, ~JoinAll
  PROVE  UNCHANGED opened
<1> USE PoolAssumption
<1>1. CASE callerPc[Main] = "gone"
  <2>1. callerPc'[Main] = "gone"
    <3>1. \A c \in Callers : callerPc[c] \in {"gone", "left"}
      BY <1>1 DEF Phases, Destroying
    <3>2. CASE \E w \in Worker : NotifyIdle(w)
      BY <1>1, <3>2 DEF NotifyIdle, IdleWaiters, IdleWakened
    <3>3. CASE \E w \in Worker : (WorkerStep(w) /\ ~NotifyIdle(w)) \/ SpuriousWake(w)
      BY <1>1, <3>3 DEF WorkerStep, CheckStop, PopLocal, StealTask, SkipVictim, GiveUpStealing,
         RunTask, CountOff, EvaluateWait, Block, SpuriousWake, callerVars
    <3>4. CASE UNCHANGED vars
      BY <1>1, <3>4 DEF vars, callerVars
    <3>5. QED
      BY <1>1, <3>1, <3>2, <3>3, <3>4 DEF Next, StartWorker, ChooseDeque, CallerStep, PushTask,
         CountIn, NotifyOne, EvaluateIdle, WaitIdle, Leave, SpuriousIdleWake, IdleWaiters,
         Destroy, DestructorStep, SetStop, NotifyAll, Gone
  <2>2. QED BY <1>1, <2>1 DEF opened
<1>2. CASE callerPc[Main] # "gone"
  <2>1. callerPc'[Main] # "gone"
    <3>1. CASE StartWorker
      BY <1>2, <3>1 DEF StartWorker
    <3>2. CASE \E w \in Worker : NotifyIdle(w)
      BY <1>2, <3>2 DEF NotifyIdle, IdleWaiters, IdleWakened
    <3>3. CASE \E w \in Worker : (WorkerStep(w) /\ ~NotifyIdle(w)) \/ SpuriousWake(w)
      BY <1>2, <3>3 DEF WorkerStep, CheckStop, PopLocal, StealTask, SkipVictim, GiveUpStealing,
         RunTask, CountOff, EvaluateWait, Block, SpuriousWake, callerVars
    <3>4. CASE \E c \in Callers, t \in Tasks : ChooseDeque(c, t)
      BY <1>2, <3>4 DEF ChooseDeque, CallerTo, TypeOK
    <3>5. CASE \E c \in Callers : CallerStep(c)
      BY <1>2, <3>5 DEF CallerStep, PushTask, CountIn, NotifyOne, EvaluateIdle, CallerTo, TypeOK
    <3>6. CASE \E c \in Callers : WaitIdle(c) \/ Leave(c) \/ SpuriousIdleWake(c)
      BY <1>2, <3>6 DEF WaitIdle, Leave, SpuriousIdleWake, IdleWaiters, IdleWakened, CallerTo,
         TypeOK
    <3>7. CASE Destroy \/ SetStop \/ NotifyAll
      BY <1>2, <3>7 DEF Destroy, SetStop, NotifyAll, CallerTo, TypeOK
    <3>8. CASE UNCHANGED vars
      BY <1>2, <3>8 DEF vars, callerVars
    <3>9. QED BY <3>1, <3>2, <3>3, <3>4, <3>5, <3>6, <3>7, <3>8 DEF Next, DestructorStep, Gone
  <2>2. QED BY <1>2, <2>1 DEF opened
<1>3. QED BY <1>1, <1>2

LEMMA PushTaskRefines ==
  ASSUME IInv, [Next]_vars, NEW c \in Callers, PushTask(c)
  PROVE  \E t \in Tasks : /\ opened /\ UNCHANGED opened
                          /\ statuses[t] = "new" /\ statuses' = [statuses EXCEPT ![t] = "queued"]
<1> DEFINE t == submitting[c].task
<1>1. /\ t \in Tasks /\ t \in InPush /\ Queued' = Queued \cup {t}
      /\ Held' = Held /\ done' = done
  BY PushTaskMoves DEF IInv
<1> HIDE DEF t
<1>2. t \notin Queued \cup Held \cup done
  BY <1>1 DEF IInv, OneStage, StagesApart
<1>3. statuses[t] = "new"
  BY <1>1, <1>2, StatusIs DEF StageOf
<1>4. statuses' = [statuses EXCEPT ![t] = "queued"]
  BY <1>1, <1>2, OneStatus DEF StageOf
<1>5. opened /\ UNCHANGED opened
  <2>1. callerPc[Main] \notin Stopping /\ callerPc[c] = "push"
    BY PoolAssumption DEF PushTask, IInv, Phases, Destroying, Stopping
  <2>2. ~JoinAll
    BY <2>1 DEF JoinAll, Stopping
  <2>3. UNCHANGED opened
    BY <2>2, OpenKept DEF IInv
  <2>4. QED BY <2>1, <2>3 DEF opened, Stopping
<1>6. QED BY <1>1, <1>3, <1>4, <1>5

LEMMA TakesRefines ==
  ASSUME IInv, NEW w \in Worker, NEW t \in Tasks, Takes(w, t)
  PROVE  statuses[t] = "queued" /\ statuses' = [statuses EXCEPT ![t] = "running"]
<1>1. t \in Queued /\ t \notin Held \cup done
  BY DEF Takes, IInv, OneStage, StagesApart
<1>2. statuses[t] = "queued"
  BY <1>1, StatusIs DEF StageOf
<1>3. statuses' = [statuses EXCEPT ![t] = "running"]
  BY <1>1, OneStatus DEF StageOf, Takes
<1>4. QED BY <1>2, <1>3

LEMMA RunTaskRefines ==
  ASSUME IInv, NEW w \in Worker, RunTask(w)
  PROVE  \E t \in Tasks : statuses[t] = "running" /\ statuses' = [statuses EXCEPT ![t] = "done"]
<1> DEFINE t == task[w]
<1>1. /\ t \in Tasks /\ t \in Held /\ Held' = Held \ {t} /\ done' = done \cup {t}
      /\ Queued' = Queued
  BY RunTaskMoves DEF IInv
<1> HIDE DEF t
<1>2. t \notin done
  BY <1>1 DEF IInv, OneStage, StagesApart
<1>3. statuses[t] = "running"
  BY <1>1, <1>2, StatusIs DEF StageOf
<1>4. statuses' = [statuses EXCEPT ![t] = "done"]
  BY <1>1, OneStatus DEF StageOf
<1>5. QED BY <1>1, <1>3, <1>4

\* Close needs that nothing is left: what the destructor read was true.
LEMMA JoinAllRefines ==
  ASSUME IInv, JoinAll
  PROVE  /\ opened /\ ~opened'
         /\ \A t \in Tasks : statuses[t] \in {"new", "done"}
<1>1. callerPc[Main] = "join" /\ callerPc'[Main] = "gone"
  BY PoolAssumption DEF JoinAll, CallerTo, IInv, TypeOK
<1>2. Queued = {} /\ Hands = {}
  BY <1>1 DEF IInv, NothingLeft, Stopping
<1>3. Held = {}
  BY <1>2 DEF IInv, OneStage, HoldersApart, Held, Hands
<1>4. QED BY <1>1, <1>2, <1>3, StatusIs DEF opened, StageOf

\* The other steps change no status.
LEMMA OtherStatuses ==
  ASSUME IInv,
         \/ \E c \in Callers, t \in Tasks : ChooseDeque(c, t)
         \/ \E w \in Worker : CountOff(w)
         \/ \E c \in Callers : CountIn(c)
         \/ Quiet
  PROVE  UNCHANGED statuses
<1>1. done' = done /\ Held' = Held /\ Queued' = Queued
  BY ChooseDequeMoves, CountOffMoves, CountInMoves, QuietMoves DEF IInv, stages
<1>2. QED BY <1>1, SameStatuses

LEMMA NextRefines ==
  ASSUME IInv, [Next]_vars PROVE [Promise!Next]_(Promise!vars)
<1> USE DEF Promise!Next, Promise!vars, Promise!Submit, Promise!Start, Promise!Finish,
            Promise!Close, Promise!Become
<1>1. /\ statuses = [t \in Tasks |-> Status(t)] /\ opened = (callerPc[Main] # "gone")
      /\ statuses' = [t \in Tasks |-> Status(t)]' /\ opened' = (callerPc[Main] # "gone")'
  BY DEF statuses, opened
<1>2. CASE JoinAll
  <2>1. UNCHANGED statuses
    BY <1>2, QuietOwnerSteps, OtherStatuses DEF DestructorStep, IInv
  <2>2. QED BY <1>1, <1>2, <2>1, JoinAllRefines
<1>3. CASE ~JoinAll
  <2>1. UNCHANGED opened
    BY <1>3, OpenKept DEF IInv
  <2>2. CASE \E c \in Callers : PushTask(c)
    BY <1>1, <2>2, PushTaskRefines
  <2>3. CASE \E w \in Worker, t \in Tasks : Takes(w, t)
    BY <1>1, <2>1, <2>3, TakesRefines
  <2>4. CASE \E w \in Worker : RunTask(w)
    BY <1>1, <2>1, <2>4, RunTaskRefines
  <2>5. CASE UNCHANGED statuses
    BY <1>1, <2>1, <2>5
  <2>6. QED BY <2>2, <2>3, <2>4, <2>5, OtherStatuses, StepKinds DEF IInv
<1>4. QED BY <1>2, <1>3

\* Every task that is submitted is started at most once, by one worker,
\* whether it is popped or stolen, and the destructor returns only when none
\* is left behind.
THEOREM Refinement == Spec => ImplementsTaskPool
<1>1. Init => Promise!Init
  <2> SUFFICES ASSUME Init PROVE Promise!Init
    OBVIOUS
  <2>1. /\ \A w \in Worker : queue[w] = <<>> /\ task[w] = NoTask
        /\ done = {} /\ callerPc[Main] = "constructing"
    BY PoolAssumption DEF Init
  <2>2. \A w \in Worker : ToSet(queue[w]) = {}
    BY <2>1 DEF ToSet
  <2>3. Queued = {}
    BY <2>2 DEF Queued
  <2>4. \A t \in Tasks : Status(t) = "new"
    BY <2>1, <2>3, PoolAssumption DEF Status
  <2>5. QED BY <2>1, <2>4 DEF Promise!Init
<1>2. IInv /\ [Next]_vars => [Promise!Next]_(Promise!vars)
  BY NextRefines
<1>3. QED BY <1>1, <1>2, Inductive, PTL DEF Spec, ImplementsTaskPool, Promise!Spec
=============================================================================
