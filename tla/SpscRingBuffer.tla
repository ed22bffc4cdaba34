---------------------------- MODULE SpscRingBuffer ----------------------------
(***************************************************************************)
(* The lock-free ring of include/spsc_ringbuffer.hpp under the release and *)
(* acquire ordering it asks for, driven as its harness drives it: the      *)
(* producer pushes 0..N-1 and retries a push that fails, the consumer pops *)
(* until it has N values.                                                  *)
(*                                                                         *)
(* An atomic index is the history of the values stored into it.  Its       *)
(* writer reads the newest; the other thread may read any value that is    *)
(* not older than the one it read before.  What a thread did before a      *)
(* release store is known to the thread whose acquire load reads it: the   *)
(* consumer knows the slot writes of the first knownPushes pushes, the     *)
(* producer knows the slot reads of the first knownPops pops.  A slot is   *)
(* plain memory, so an access that does not know the other thread's last   *)
(* access to that slot is a data race.                                     *)
(***************************************************************************)
EXTENDS Naturals, Sequences, FiniteSets

CONSTANTS Capacity, N

\* The power of two is what makes "& kMask" a remainder.
ASSUME CapacityAssumption ==
  /\ Capacity \in Nat /\ Capacity >= 2
  /\ N \in Nat

Slot == 0..Capacity-1
None == N    \* a slot that was never written, or no value yet
Wrap(i) == i % Capacity

\* Seeded fault: the index is advanced without the mask.
NextIndex_Unmasked(i) == i + 1

NextIndex(i) == Wrap(i + 1)
Newest(history) == history[Len(history)]

VARIABLES
  headStores, tailStores,  \* values stored into head_ and tail_, oldest first
  seenHead, seenTail,      \* the entry the other thread's last load has read
  knownPops, knownPushes,  \* what has been acquired with them
  buffer,                  \* the slots
  lastWrite, lastRead,     \* per slot: the push and the pop that last used it
  producer, consumer,      \* where each thread is, and its locals
  roomKnown, valueKnown,   \* full() and empty() said no, and nothing was pushed
                           \* or popped by the thread that asked since then
  received                 \* what the pops that returned true gave

ringVars == <<headStores, tailStores, seenHead, seenTail, knownPops, knownPushes,
              buffer, lastWrite, lastRead>>
known == <<roomKnown, valueKnown>>
vars == <<ringVars, producer, consumer, known, received>>

Pushes == Len(tailStores) - 1    \* pushes and pops that returned true
Pops == Len(headStores) - 1
------------------------------------------------------------------------------
Init ==
  /\ headStores = <<0>> /\ tailStores = <<0>>
  /\ seenHead = 1 /\ seenTail = 1
  /\ knownPops = 0 /\ knownPushes = 0
  /\ buffer = [s \in Slot |-> None]
  /\ lastWrite = [s \in Slot |-> 0] /\ lastRead = [s \in Slot |-> 0]
  /\ producer = "idle"
  /\ consumer = [pc |-> "idle", out |-> None]
  /\ roomKnown = FALSE /\ valueKnown = FALSE
  /\ received = <<>>

IsFull(t, h) == NextIndex(t) = h

\* Seeded fault: the producer keeps the head it read first.
LoadHead_Cached(k) == k = seenHead /\ UNCHANGED <<seenHead, knownPops>>

\* Seeded fault: head_ is loaded relaxed.
LoadHead_Relaxed(k) ==
  /\ k \in seenHead..Len(headStores)
  /\ seenHead' = k
  /\ UNCHANGED knownPops

\* head_.load(acquire) by the producer reads entry k.
LoadHead(k) ==
  /\ k \in seenHead..Len(headStores)
  /\ seenHead' = k
  /\ knownPops' = k - 1

\* push(): own index, acquire the other one, fail when full.  The harness
\* calls again after a failure.
PushLoad(k) ==
  /\ producer = "idle"
  /\ Pushes < N
  /\ LoadHead(k)
  /\ producer' = IF IsFull(Newest(tailStores), headStores[k]) THEN "idle" ELSE "write"
  /\ UNCHANGED <<headStores, tailStores, seenTail, knownPushes, buffer,
                 lastWrite, lastRead, consumer, known, received>>

\* Seeded fault: full() compares the indices as empty() does.
SaysFull_SameIndex(t, h) == t = h

SaysFull(t, h) == IsFull(t, h)

\* full(), called by the producer between two pushes.
CheckFull(k) ==
  /\ producer = "idle"
  /\ LoadHead(k)
  /\ roomKnown' = ~SaysFull(Newest(tailStores), headStores[k])
  /\ UNCHANGED <<headStores, tailStores, seenTail, knownPushes, buffer,
                 lastWrite, lastRead, producer, consumer, valueKnown, received>>

\* Seeded fault: the value goes to the slot that tail_ will name next.
WriteIndex_Next(t) == NextIndex(t)

WriteIndex(t) == t

WriteSlot ==
  /\ producer = "write"
  /\ LET t == WriteIndex(Newest(tailStores))
     IN /\ buffer' = [buffer EXCEPT ![t] = Pushes]
        /\ lastWrite' = [lastWrite EXCEPT ![t] = Pushes + 1]
  /\ producer' = "store"
  /\ UNCHANGED <<headStores, tailStores, seenHead, seenTail, knownPops, knownPushes,
                 lastRead, consumer, known, received>>

StoreTail ==
  /\ producer = "store"
  /\ tailStores' = Append(tailStores, NextIndex(Newest(tailStores)))
  /\ producer' = "idle"
  /\ roomKnown' = FALSE
  /\ UNCHANGED <<headStores, seenHead, seenTail, knownPops, knownPushes, buffer,
                 lastWrite, lastRead, consumer, valueKnown, received>>

\* Seeded fault: emptiness is judged by the slot after the one to read.
IsEmpty_OffByOne(h, t) == NextIndex(h) = t

IsEmpty(h, t) == h = t

\* tail_.load(acquire) by the consumer reads entry k.
LoadTail(k) ==
  /\ k \in seenTail..Len(tailStores)
  /\ seenTail' = k
  /\ knownPushes' = k - 1

PopLoad(k) ==
  /\ consumer.pc = "idle"
  /\ Len(received) < N
  /\ LoadTail(k)
  /\ consumer' = [consumer EXCEPT !.pc =
                    IF IsEmpty(Newest(headStores), tailStores[k]) THEN "idle" ELSE "read"]
  /\ UNCHANGED <<headStores, tailStores, seenHead, knownPops, buffer,
                 lastWrite, lastRead, producer, known, received>>

\* empty(), called by the consumer between two pops.
CheckEmpty(k) ==
  /\ consumer.pc = "idle"
  /\ LoadTail(k)
  /\ valueKnown' = ~IsEmpty(Newest(headStores), tailStores[k])
  /\ UNCHANGED <<headStores, tailStores, seenHead, knownPops, buffer,
                 lastWrite, lastRead, producer, consumer, roomKnown, received>>

ReadSlot ==
  /\ consumer.pc = "read"
  /\ LET h == Newest(headStores)
     IN /\ consumer' = [pc |-> "store", out |-> buffer[h]]
        /\ lastRead' = [lastRead EXCEPT ![h] = Pops + 1]
  /\ UNCHANGED <<headStores, tailStores, seenHead, seenTail, knownPops, knownPushes,
                 buffer, lastWrite, producer, known, received>>

StoreHead ==
  /\ consumer.pc = "store"
  /\ headStores' = Append(headStores, NextIndex(Newest(headStores)))
  /\ received' = Append(received, consumer.out)
  /\ consumer' = [consumer EXCEPT !.pc = "idle"]
  /\ valueKnown' = FALSE
  /\ UNCHANGED <<tailStores, seenHead, seenTail, knownPops, knownPushes, buffer,
                 lastWrite, lastRead, producer, roomKnown>>

\* The harness: both threads have left their loops and were joined.
Finished ==
  /\ Pushes = N /\ producer = "idle"
  /\ Len(received) = N /\ consumer.pc = "idle"
  /\ UNCHANGED vars

Next ==
  \/ \E k \in DOMAIN headStores : PushLoad(k) \/ CheckFull(k)
  \/ WriteSlot
  \/ StoreTail
  \/ \E k \in DOMAIN tailStores : PopLoad(k) \/ CheckEmpty(k)
  \/ ReadSlot
  \/ StoreHead
  \/ Finished

Spec == Init /\ [][Next]_vars

\* The threads run, and a store becomes visible to the other thread in finite
\* time: a thread that keeps loading reads the newest value at some point.
FairSpec ==
  /\ Spec
  /\ WF_vars(WriteSlot) /\ WF_vars(StoreTail) /\ WF_vars(ReadSlot) /\ WF_vars(StoreHead)
  /\ WF_vars(PushLoad(Len(headStores))) /\ WF_vars(PopLoad(Len(tailStores)))
------------------------------------------------------------------------------
(***************************************************************************)
(* Properties.                                                             *)
(***************************************************************************)
IndexTypes ==
  /\ headStores \in Seq(Slot) /\ tailStores \in Seq(Slot)
  /\ seenHead \in 1..Len(headStores) /\ seenTail \in 1..Len(tailStores)
  /\ knownPops \in Nat /\ knownPushes \in Nat
SlotTypes ==
  /\ buffer \in [Slot -> 0..N]
  /\ lastWrite \in [Slot -> Nat] /\ lastRead \in [Slot -> Nat]
ThreadTypes ==
  /\ producer \in {"idle", "write", "store"}
  /\ consumer \in [pc : {"idle", "read", "store"}, out : 0..N]
  /\ roomKnown \in BOOLEAN /\ valueKnown \in BOOLEAN
  /\ received \in Seq(0..N)

\* Every index stored is a slot, and every local keeps its type.
TypeOK == IndexTypes /\ SlotTypes /\ ThreadTypes

\* The producer overwrites a slot only after it acquired the pop that read it
\* last, and the consumer reads a slot only after it acquired the push that
\* wrote it last: the plain slots are free of data races.
RaceFree ==
  /\ producer = "write" => lastRead[Newest(tailStores)] <= knownPops
  /\ consumer.pc = "read" => lastWrite[Newest(headStores)] <= knownPushes

\* The harness aborts with "CORRUPTION" unless the pops give 0, 1, 2, ...
InOrder == \A k \in DOMAIN received : received[k] = k - 1

\* What full() and empty() tell their own thread lasts: after full() said no
\* the producer's next push finds room, and after empty() said no the
\* consumer's next pop finds a value, whatever the other thread did meanwhile
\* and however old the index that the next call reads.
AnswersLast ==
  /\ roomKnown /\ producer = "idle" =>
       \A k \in seenHead..Len(headStores) : ~IsFull(Newest(tailStores), headStores[k])
  /\ valueKnown /\ consumer.pc = "idle" =>
       \A k \in seenTail..Len(tailStores) : ~IsEmpty(Newest(headStores), tailStores[k])

\* The ring is a FIFO with room for Capacity - 1 values, whatever stale index
\* either thread reads: a push takes effect at its store of tail_, a pop at its
\* store of head_.
Waiting == [k \in 1..(Pushes - Pops) |-> buffer[Wrap(Newest(headStores) + (k - 1))]]
Fifo == INSTANCE BoundedFifo WITH Room <- Capacity - 1, queue <- Waiting, sent <- Pushes
ImplementsFifo == Fifo!Spec

\* The harness ends: every value sent is received, through any number of
\* failed pushes and pops.
AllDelivered == <>(Len(received) = N)
=============================================================================
