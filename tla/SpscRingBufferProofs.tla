------------------------- MODULE SpscRingBufferProofs -------------------------
(***************************************************************************)
(* Proofs about the ring for every capacity and every number of values:    *)
(* the plain slots are race-free under release/acquire, and the consumer   *)
(* receives what was sent, in order.                                       *)
(***************************************************************************)
EXTENDS SpscRingBuffer, Integers, TLAPS

(***************************************************************************)
(* Arithmetic of the masked indices.                                       *)
(***************************************************************************)
LEMMA WrapType ==
  ASSUME NEW a \in Nat
  PROVE  Wrap(a) \in Slot
  BY CapacityAssumption DEF Wrap, Slot

\* Division with remainder.
LEMMA Division ==
  ASSUME NEW a \in Nat
  PROVE  \E q \in Int : a = Capacity * q + Wrap(a) /\ Wrap(a) \in Slot
<1>1. a = Capacity * (a \div Capacity) + (a % Capacity)
  BY CapacityAssumption
<1>2. a \div Capacity \in Int /\ a % Capacity \in 0..Capacity-1
  BY CapacityAssumption
<1>3. QED BY <1>1, <1>2 DEF Wrap, Slot

\* The remainder is unique.
LEMMA WrapUnique ==
  ASSUME NEW a \in Nat, NEW q \in Int, NEW r \in Slot, a = Capacity * q + r
  PROVE  Wrap(a) = r
  BY CapacityAssumption DEF Wrap, Slot

LEMMA Mult ==
  ASSUME NEW x \in Int, NEW y \in Int, x < y
  PROVE  Capacity * x + Capacity <= Capacity * y
  BY CapacityAssumption

LEMMA WrapLap ==
  ASSUME NEW a \in Nat
  PROVE  Wrap(a + Capacity) = Wrap(a)
<1>1. PICK q \in Int : a = Capacity * q + Wrap(a) /\ Wrap(a) \in Slot
  BY Division
<1>2. Capacity * (q + 1) = Capacity * q + Capacity
  BY CapacityAssumption
<1>3. a + Capacity = Capacity * (q + 1) + Wrap(a) /\ a + Capacity \in Nat
  BY <1>1, <1>2, CapacityAssumption DEF Slot
<1>4. QED BY <1>1, <1>3, WrapUnique

\* Two pushes share a slot only when at least a lap lies between them.
LEMMA WrapDistinct ==
  ASSUME NEW a \in Nat, NEW b \in Nat, a < b, b < a + Capacity
  PROVE  Wrap(a) # Wrap(b)
<1> SUFFICES ASSUME Wrap(a) = Wrap(b) PROVE FALSE
  OBVIOUS
<1>1. PICK q \in Int : a = Capacity * q + Wrap(a) /\ Wrap(a) \in Slot
  BY Division
<1>2. PICK p \in Int : b = Capacity * p + Wrap(b)
  BY Division
<1>3. CASE q < p
  BY <1>1, <1>2, <1>3, Mult, CapacityAssumption DEF Slot
<1>4. CASE p < q
  BY <1>1, <1>2, <1>4, Mult, CapacityAssumption DEF Slot
<1>5. CASE p = q
  BY <1>1, <1>2, <1>5
<1>6. QED BY <1>3, <1>4, <1>5

LEMMA WrapMultiple ==
  ASSUME NEW a \in Nat, NEW q \in Int, a = Capacity * q
  PROVE  Wrap(a) = 0
  BY CapacityAssumption DEF Wrap

LEMMA WrapNext ==
  ASSUME NEW a \in Nat
  PROVE  Wrap(Wrap(a) + 1) = Wrap(a + 1)
<1> DEFINE r == Wrap(a)
<1>1. PICK q \in Int : a = Capacity * q + r /\ r \in Slot
  BY Division
<1>2. r \in Nat /\ r <= Capacity - 1
  BY <1>1, CapacityAssumption DEF Slot
<1> HIDE DEF r
<1>3. CASE r + 1 < Capacity
  <2>1. r + 1 \in Slot /\ a + 1 \in Nat /\ a + 1 = Capacity * q + (r + 1)
    BY <1>1, <1>2, <1>3, CapacityAssumption DEF Slot
  <2>2. Wrap(a + 1) = r + 1
    BY <2>1, WrapUnique
  <2>3. Wrap(r + 1) = r + 1
    BY <1>2, <1>3, CapacityAssumption DEF Wrap
  <2>4. QED BY <2>2, <2>3 DEF r
<1>4. CASE r + 1 = Capacity
  <2>1. Wrap(r + 1) = 0
    BY <1>4, CapacityAssumption DEF Wrap
  <2>2. Capacity * (q + 1) = Capacity * q + Capacity
    BY CapacityAssumption
  <2>3. a + 1 \in Nat /\ q + 1 \in Int /\ a + 1 = Capacity * (q + 1)
    BY <1>1, <1>2, <1>4, <2>2, CapacityAssumption
  <2>4. Wrap(a + 1) = 0
    BY <2>3, WrapMultiple
  <2>5. QED BY <2>1, <2>4 DEF r
<1>5. QED BY <1>2, <1>3, <1>4, CapacityAssumption
------------------------------------------------------------------------------
(***************************************************************************)
(* The inductive invariant.  Pushes and Pops count what the indices name   *)
(* only modulo Capacity; what each thread has acquired brackets them.      *)
(***************************************************************************)
\* The k-th value stored into an index is k-1, masked.
IndexHistory ==
  /\ \A k \in DOMAIN headStores : headStores[k] = Wrap(k - 1)
  /\ \A k \in DOMAIN tailStores : tailStores[k] = Wrap(k - 1)

\* A load acquires all that came before the store it reads.
Acquired == knownPops = seenHead - 1 /\ knownPushes = seenTail - 1

\* The consumer never passes the pushes it knows, nor the producer the lap
\* that the pops it knows allow.
Bracket ==
  /\ Pops <= knownPushes
  /\ Pushes <= knownPops + (Capacity - 1)
  /\ Pushes <= N
  /\ producer # "idle" => Pushes < knownPops + (Capacity - 1) /\ Pushes < N
  /\ consumer.pc # "idle" => Pops < knownPushes

\* The slots between head and tail hold the values waiting.
Written(i) == buffer[Wrap(i)] = i /\ lastWrite[Wrap(i)] = i + 1
SlotsHold ==
  /\ \A i \in Nat : Pops <= i /\ i < Pushes => Written(i)
  /\ producer = "store" => Written(Pushes)
  /\ consumer.pc = "store" => consumer.out = Pops

\* A thread that was told that there is room, or a value, knows so.
Told ==
  /\ roomKnown => Pushes < knownPops + (Capacity - 1)
  /\ valueKnown => Pops < knownPushes

\* A slot was last read by a pop that belongs to it.
Reads == Pops + IF consumer.pc = "store" THEN 1 ELSE 0
ReadHistory ==
  \A s \in Slot : \/ lastRead[s] = 0
                  \/ \E j \in Nat : j < Reads /\ s = Wrap(j) /\ lastRead[s] = j + 1

\* What was received is 0, 1, 2, ...
Delivered == Len(received) = Pops /\ \A k \in DOMAIN received : received[k] = k - 1

IInv ==
  /\ TypeOK /\ IndexHistory /\ Acquired /\ Bracket /\ Told
  /\ SlotsHold /\ ReadHistory /\ Delivered

\* Readable consequences of the invariant used in every step.
LEMMA Counters ==
  ASSUME IInv
  PROVE  /\ Pushes \in Nat /\ Pops \in Nat
         /\ Newest(tailStores) = Wrap(Pushes) /\ Newest(headStores) = Wrap(Pops)
         /\ Newest(tailStores) \in Slot /\ Newest(headStores) \in Slot
         /\ knownPops \in Nat /\ knownPops <= Pops
         /\ knownPushes \in Nat /\ knownPushes <= Pushes
         /\ Pops <= Pushes
         /\ Len(tailStores) = Pushes + 1 /\ Len(headStores) = Pops + 1
<1>1. /\ Len(tailStores) \in Nat /\ Len(headStores) \in Nat
      /\ DOMAIN tailStores = 1..Len(tailStores) /\ DOMAIN headStores = 1..Len(headStores)
      /\ seenHead \in 1..Len(headStores) /\ seenTail \in 1..Len(tailStores)
  BY DEF IInv, TypeOK, IndexTypes
<1>2. Pushes \in Nat /\ Pops \in Nat /\ Len(tailStores) = Pushes + 1 /\ Len(headStores) = Pops + 1
  BY <1>1 DEF Pushes, Pops
<1>3. Newest(tailStores) = Wrap(Pushes) /\ Newest(headStores) = Wrap(Pops)
  BY <1>1, <1>2 DEF IInv, IndexHistory, Newest, Pushes, Pops
<1>4. knownPops <= Pops /\ knownPushes <= Pushes /\ Pops <= knownPushes
      /\ knownPops \in Nat /\ knownPushes \in Nat
  BY <1>1, <1>2 DEF IInv, Acquired, Bracket, TypeOK, IndexTypes
<1>5. Pops <= Pushes
  BY <1>2, <1>4
<1>6. QED BY <1>2, <1>3, <1>4, <1>5, WrapType
\* An entry of head_ that does not look full leaves room, and when there is
\* room no entry that can still be read looks full.
LEMMA RoomSeen ==
  ASSUME IInv, NEW k \in seenHead..Len(headStores)
  PROVE  ~IsFull(Newest(tailStores), headStores[k]) <=> Pushes < (k - 1) + (Capacity - 1)
<1>1. /\ k \in Nat /\ k >= 1 /\ k <= Pops + 1 /\ knownPops <= k - 1 /\ k - 1 \in Nat
      /\ Pushes \in Nat /\ Pops \in Nat /\ Capacity \in Nat /\ Capacity >= 2
      /\ Pops <= Pushes /\ knownPops \in Nat
  BY Counters, CapacityAssumption DEF IInv, Acquired, TypeOK, IndexTypes
<1>2. IsFull(Newest(tailStores), headStores[k]) <=> Wrap(Pushes + 1) = Wrap(k - 1)
  <2>1. headStores[k] = Wrap(k - 1) /\ Newest(tailStores) = Wrap(Pushes)
    BY <1>1, Counters DEF IInv, IndexHistory
  <2>2. QED BY <1>1, <2>1, WrapNext DEF IsFull, NextIndex
<1>3. Pushes <= (k - 1) + (Capacity - 1)
  BY <1>1 DEF IInv, Bracket
<1>4. CASE Pushes = (k - 1) + (Capacity - 1)
  <2>1. Pushes + 1 = (k - 1) + Capacity
    BY <1>1, <1>4
  <2>2. Wrap(Pushes + 1) = Wrap(k - 1)
    BY <1>1, <2>1, WrapLap
  <2>3. QED BY <1>1, <1>2, <1>4, <2>2
<1>5. CASE Pushes < (k - 1) + (Capacity - 1)
  <2>1. k - 1 < Pushes + 1 /\ Pushes + 1 < (k - 1) + Capacity /\ Pushes + 1 \in Nat
    BY <1>1, <1>5
  <2>2. Wrap(k - 1) # Wrap(Pushes + 1)
    BY <1>1, <2>1, WrapDistinct
  <2>3. QED BY <1>2, <1>5, <2>2
<1>6. QED BY <1>1, <1>3, <1>4, <1>5

LEMMA ValueSeen ==
  ASSUME IInv, NEW k \in seenTail..Len(tailStores)
  PROVE  ~IsEmpty(Newest(headStores), tailStores[k]) <=> Pops < k - 1
<1>1. /\ k \in Nat /\ k >= 1 /\ k <= Pushes + 1 /\ knownPushes <= k - 1 /\ k - 1 \in Nat
      /\ Pushes \in Nat /\ Pops \in Nat /\ Capacity \in Nat /\ Capacity >= 2
      /\ knownPops <= Pops /\ knownPops \in Nat /\ knownPushes \in Nat
  BY Counters, CapacityAssumption DEF IInv, Acquired, TypeOK, IndexTypes
<1>2. IsEmpty(Newest(headStores), tailStores[k]) <=> Wrap(Pops) = Wrap(k - 1)
  BY <1>1, Counters DEF IInv, IndexHistory, IsEmpty
<1>3. Pops <= k - 1 /\ k - 1 < Pops + Capacity
  BY <1>1 DEF IInv, Bracket
<1>4. CASE Pops = k - 1
  BY <1>1, <1>2, <1>4
<1>5. CASE Pops < k - 1
  BY <1>1, <1>2, <1>3, <1>5, WrapDistinct
<1>6. QED BY <1>1, <1>3, <1>4, <1>5
------------------------------------------------------------------------------
LEMMA InitInv == Init => IInv
<1> SUFFICES ASSUME Init PROVE IInv
  OBVIOUS
<1>1. 0 \in Slot /\ N \in Nat /\ Wrap(0) = 0
  BY CapacityAssumption DEF Slot, Wrap
<1>2. /\ Len(headStores) = 1 /\ Len(tailStores) = 1 /\ Pushes = 0 /\ Pops = 0
      /\ headStores[1] = 0 /\ tailStores[1] = 0
      /\ DOMAIN headStores = 1..1 /\ DOMAIN tailStores = 1..1
  BY DEF Init, Pushes, Pops
<1>3. TypeOK
  <2>1. IndexTypes
    BY <1>1, <1>2 DEF Init, TypeOK, IndexTypes
  <2>2. SlotTypes
    BY <1>1, <1>2 DEF Init, None, TypeOK, SlotTypes
  <2>3. ThreadTypes
    BY <1>1, <1>2 DEF Init, None, TypeOK, ThreadTypes
  <2>4. QED BY <2>1, <2>2, <2>3 DEF TypeOK
<1>4. IndexHistory /\ Acquired
  BY <1>1, <1>2 DEF Init, IndexHistory, Acquired
<1>5. Bracket /\ Told /\ SlotsHold
  BY <1>1, <1>2, CapacityAssumption DEF Init, Bracket, Told, SlotsHold
<1>6. ReadHistory /\ Delivered
  BY <1>2 DEF Init, ReadHistory, Delivered
<1>7. QED BY <1>3, <1>4, <1>5, <1>6 DEF IInv

LEMMA PushLoadInv ==
  ASSUME IInv, NEW k \in DOMAIN headStores, PushLoad(k)
  PROVE  IInv'
<1> USE DEF IInv
<1>1. /\ UNCHANGED <<headStores, tailStores, seenTail, knownPushes, buffer,
                     lastWrite, lastRead, consumer, known, received>>
      /\ producer = "idle" /\ Pushes < N
      /\ k \in seenHead..Len(headStores) /\ seenHead' = k /\ knownPops' = k - 1
      /\ producer' = IF IsFull(Newest(tailStores), headStores[k]) THEN "idle" ELSE "write"
  BY DEF PushLoad, LoadHead
<1>2. /\ k \in Nat /\ k >= 1 /\ k <= Pops + 1 /\ seenHead \in Nat /\ knownPops = seenHead - 1
      /\ k >= seenHead
      /\ Pushes \in Nat /\ Pops \in Nat /\ Capacity \in Nat /\ N \in Nat
  BY <1>1, Counters, CapacityAssumption DEF Acquired, TypeOK, IndexTypes
<1>3. Pushes' = Pushes /\ Pops' = Pops /\ Reads' = Reads
  BY <1>1 DEF Pushes, Pops, Reads
<1>4. TypeOK'
  <2>1. IndexTypes'
    BY <1>1, <1>2 DEF TypeOK, IndexTypes
  <2>2. SlotTypes'
    BY <1>1, <1>2 DEF TypeOK, SlotTypes
  <2>3. ThreadTypes'
    BY <1>1, <1>2 DEF TypeOK, ThreadTypes, known
  <2>4. QED BY <2>1, <2>2, <2>3 DEF TypeOK
<1>5. producer' = "write" => Pushes < (k - 1) + (Capacity - 1)
  BY <1>1, RoomSeen
<1>6. Bracket'
  <2>1. Pushes <= (k - 1) + (Capacity - 1)
    BY <1>2, CapacityAssumption DEF Bracket
  <2>2. producer' \in {"idle", "write"}
    BY <1>1
  <2>3. QED BY <1>1, <1>3, <1>5, <2>1, <2>2 DEF Bracket
<1>7. IndexHistory' /\ Acquired'
  BY <1>1 DEF IndexHistory, Acquired
<1>8. SlotsHold' /\ ReadHistory' /\ Delivered'
  BY <1>1, <1>3 DEF SlotsHold, ReadHistory, Delivered, Written
<1>9. Told'
  BY <1>1, <1>2, <1>3 DEF Told, known
<1>10. QED BY <1>4, <1>6, <1>7, <1>8, <1>9

\* The slot that the producer writes holds none of the values waiting.
LEMMA WriteSlotInv == ASSUME IInv, WriteSlot PROVE IInv'
<1> USE DEF IInv
<1>1. /\ UNCHANGED <<headStores, tailStores, seenHead, seenTail, knownPops, knownPushes,
                     lastRead, consumer, known, received>>
      /\ producer = "write" /\ producer' = "store"
      /\ buffer' = [buffer EXCEPT ![Wrap(Pushes)] = Pushes]
      /\ lastWrite' = [lastWrite EXCEPT ![Wrap(Pushes)] = Pushes + 1]
  BY Counters DEF WriteSlot, WriteIndex
<1>2. /\ Pushes \in Nat /\ Pops \in Nat /\ Capacity \in Nat /\ N \in Nat
      /\ Pushes < N /\ Pushes < Pops + Capacity
      /\ Wrap(Pushes) \in Slot
  BY <1>1, Counters, CapacityAssumption, WrapType DEF Bracket
<1>3. Pushes' = Pushes /\ Pops' = Pops /\ Reads' = Reads
  BY <1>1 DEF Pushes, Pops, Reads
<1>4. TypeOK'
  <2>1. IndexTypes'
    BY <1>1, <1>2 DEF TypeOK, IndexTypes
  <2>2. SlotTypes'
    BY <1>1, <1>2 DEF TypeOK, SlotTypes
  <2>3. ThreadTypes'
    BY <1>1, <1>2 DEF TypeOK, ThreadTypes, known
  <2>4. QED BY <2>1, <2>2, <2>3 DEF TypeOK
<1>5. ASSUME NEW i \in Nat, Pops <= i, i < Pushes PROVE Written(i)'
  <2>1. Wrap(i) # Wrap(Pushes) /\ Wrap(i) \in Slot
    BY <1>2, <1>5, WrapDistinct, WrapType
  <2>2. Written(i)
    BY <1>5 DEF SlotsHold
  <2>3. QED BY <1>1, <2>1, <2>2 DEF Written, TypeOK, SlotTypes
<1>6. Written(Pushes)'
  BY <1>1, <1>2, <1>3 DEF Written, TypeOK, SlotTypes
<1>7. SlotsHold'
  BY <1>1, <1>3, <1>5, <1>6 DEF SlotsHold
<1>8. Bracket' /\ IndexHistory' /\ Acquired' /\ ReadHistory' /\ Delivered'
  BY <1>1, <1>3 DEF Bracket, IndexHistory, Acquired, ReadHistory, Delivered
<1>9. Told'
  BY <1>1, <1>3 DEF Told, known
<1>10. QED BY <1>4, <1>7, <1>8, <1>9

LEMMA StoreTailInv == ASSUME IInv, StoreTail PROVE IInv'
<1> USE DEF IInv
<1>1. /\ UNCHANGED <<headStores, seenHead, seenTail, knownPops, knownPushes, buffer,
                     lastWrite, lastRead, consumer, valueKnown, received>>
      /\ producer = "store" /\ producer' = "idle" /\ roomKnown' = FALSE
      /\ tailStores' = Append(tailStores, Wrap(Pushes + 1))
  BY Counters, WrapNext DEF StoreTail, NextIndex
<1>2. /\ Pushes \in Nat /\ Pops \in Nat /\ Capacity \in Nat /\ N \in Nat
      /\ Pushes < N /\ Pushes < knownPops + (Capacity - 1) /\ knownPops \in Nat
      /\ Wrap(Pushes + 1) \in Slot /\ Len(tailStores) = Pushes + 1
  BY <1>1, Counters, CapacityAssumption, WrapType DEF Bracket
<1>3. /\ tailStores' \in Seq(Slot) /\ Len(tailStores') = Pushes + 2
      /\ DOMAIN tailStores' = 1..Pushes + 2 /\ DOMAIN tailStores = 1..Pushes + 1
      /\ \A k \in 1..Pushes + 1 : tailStores'[k] = tailStores[k]
      /\ tailStores'[Pushes + 2] = Wrap(Pushes + 1)
  BY <1>1, <1>2 DEF TypeOK, IndexTypes
<1>4. Pushes' = Pushes + 1 /\ Pops' = Pops /\ Reads' = Reads
  BY <1>1, <1>2, <1>3 DEF Pushes, Pops, Reads
<1>5. TypeOK'
  <2>1. IndexTypes'
    BY <1>1, <1>2, <1>3 DEF TypeOK, IndexTypes
  <2>2. SlotTypes'
    BY <1>1, <1>2, <1>3 DEF TypeOK, SlotTypes
  <2>3. ThreadTypes'
    BY <1>1, <1>2, <1>3 DEF TypeOK, ThreadTypes, known
  <2>4. QED BY <2>1, <2>2, <2>3 DEF TypeOK
<1>6. IndexHistory'
  <2>1. ASSUME NEW k \in 1..Pushes + 2 PROVE tailStores'[k] = Wrap(k - 1)
    <3>1. CASE k = Pushes + 2
      BY <1>2, <1>3, <3>1
    <3>2. CASE k # Pushes + 2
      <4>1. k \in 1..Pushes + 1
        BY <1>2, <3>2
      <4>2. QED BY <1>3, <4>1 DEF IndexHistory
    <3>3. QED BY <3>1, <3>2
  <2>2. QED BY <1>1, <1>3, <2>1 DEF IndexHistory
<1>7. Bracket'
  BY <1>1, <1>2, <1>4 DEF Bracket
<1>8. SlotsHold'
  <2>1. ASSUME NEW i \in Nat, Pops <= i, i < Pushes + 1 PROVE Written(i)
    BY <1>1, <1>2, <2>1 DEF SlotsHold
  <2>2. QED BY <1>1, <1>4, <2>1 DEF SlotsHold, Written
<1>9. Acquired' /\ ReadHistory' /\ Delivered'
  BY <1>1, <1>4 DEF Acquired, ReadHistory, Delivered
<1>10. Told'
  BY <1>1, <1>4 DEF Told
<1>11. QED BY <1>5, <1>6, <1>7, <1>8, <1>9, <1>10

LEMMA PopLoadInv ==
  ASSUME IInv, NEW k \in DOMAIN tailStores, PopLoad(k)
  PROVE  IInv'
<1> USE DEF IInv
<1>1. /\ UNCHANGED <<headStores, tailStores, seenHead, knownPops, buffer,
                     lastWrite, lastRead, producer, known, received>>
      /\ consumer.pc = "idle"
      /\ k \in seenTail..Len(tailStores) /\ seenTail' = k /\ knownPushes' = k - 1
      /\ consumer' = [consumer EXCEPT !.pc =
                        IF IsEmpty(Newest(headStores), tailStores[k]) THEN "idle" ELSE "read"]
  BY DEF PopLoad, LoadTail
<1>2. /\ k \in Nat /\ k >= 1 /\ k <= Pushes + 1 /\ seenTail \in Nat /\ knownPushes = seenTail - 1
      /\ k >= seenTail
      /\ Pushes \in Nat /\ Pops \in Nat
  BY <1>1, Counters DEF Acquired, TypeOK, IndexTypes
<1>3. /\ consumer'.pc \in {"idle", "read"} /\ consumer'.out = consumer.out
      /\ consumer' \in [pc : {"idle", "read", "store"}, out : 0..N]
  BY <1>1 DEF TypeOK, ThreadTypes
<1>4. Pushes' = Pushes /\ Pops' = Pops /\ Reads' = Reads
  BY <1>1, <1>3 DEF Pushes, Pops, Reads
<1>5. TypeOK'
  <2>1. IndexTypes'
    BY <1>1, <1>2, <1>3 DEF TypeOK, IndexTypes
  <2>2. SlotTypes'
    BY <1>1, <1>2, <1>3 DEF TypeOK, SlotTypes
  <2>3. ThreadTypes'
    BY <1>1, <1>2, <1>3 DEF TypeOK, ThreadTypes, known
  <2>4. QED BY <2>1, <2>2, <2>3 DEF TypeOK
<1>6. consumer'.pc = "read" => Pops < k - 1
  <2>1. consumer'.pc = "read" => ~IsEmpty(Newest(headStores), tailStores[k])
    BY <1>1 DEF TypeOK, ThreadTypes
  <2>2. QED BY <1>1, <2>1, ValueSeen
<1>7. Bracket'
  <2>1. Pops <= k - 1
    BY <1>2 DEF Bracket
  <2>2. QED BY <1>1, <1>3, <1>4, <1>6, <2>1 DEF Bracket
<1>8. IndexHistory' /\ Acquired'
  BY <1>1 DEF IndexHistory, Acquired
<1>9. SlotsHold' /\ ReadHistory' /\ Delivered'
  BY <1>1, <1>3, <1>4 DEF SlotsHold, ReadHistory, Delivered, Written
<1>10. Told'
  BY <1>1, <1>2, <1>4 DEF Told, known
<1>11. QED BY <1>5, <1>7, <1>8, <1>9, <1>10

LEMMA ReadSlotInv == ASSUME IInv, ReadSlot PROVE IInv'
<1> USE DEF IInv
<1>1. /\ UNCHANGED <<headStores, tailStores, seenHead, seenTail, knownPops, knownPushes,
                     buffer, lastWrite, producer, known, received>>
      /\ consumer.pc = "read" /\ consumer' = [pc |-> "store", out |-> buffer[Wrap(Pops)]]
      /\ lastRead' = [lastRead EXCEPT ![Wrap(Pops)] = Pops + 1]
  BY Counters DEF ReadSlot
<1>2. /\ Pushes \in Nat /\ Pops \in Nat /\ Pops < Pushes
      /\ Pops < knownPushes /\ Wrap(Pops) \in Slot
  BY <1>1, Counters, WrapType DEF Bracket
<1>3. Pushes' = Pushes /\ Pops' = Pops /\ Reads = Pops /\ Reads' = Pops + 1
  BY <1>1, <1>2 DEF Pushes, Pops, Reads
<1>4. buffer[Wrap(Pops)] = Pops
  BY <1>2 DEF SlotsHold, Written
<1>5. TypeOK'
  <2>1. IndexTypes'
    BY <1>1, <1>2 DEF TypeOK, IndexTypes
  <2>2. SlotTypes'
    BY <1>1, <1>2 DEF TypeOK, SlotTypes
  <2>3. ThreadTypes'
    <3>1. buffer[Wrap(Pops)] \in 0..N
      BY <1>2 DEF TypeOK, SlotTypes
    <3>2. QED BY <1>1, <3>1 DEF TypeOK, ThreadTypes, known, known
  <2>4. QED BY <2>1, <2>2, <2>3 DEF TypeOK
<1>6. SlotsHold'
  BY <1>1, <1>3, <1>4 DEF SlotsHold, Written
<1>7. ReadHistory'
  <2> SUFFICES ASSUME NEW s \in Slot
               PROVE  \/ lastRead'[s] = 0
                      \/ \E j \in Nat : j < Pops + 1 /\ s = Wrap(j) /\ lastRead'[s] = j + 1
    BY <1>3 DEF ReadHistory
  <2>1. CASE s = Wrap(Pops)
    <3>1. lastRead'[s] = Pops + 1
      BY <1>1, <2>1 DEF TypeOK, SlotTypes
    <3>2. QED BY <1>2, <2>1, <3>1
  <2>2. CASE s # Wrap(Pops)
    <3>1. lastRead'[s] = lastRead[s]
      BY <1>1, <2>2 DEF TypeOK, SlotTypes
    <3>2. CASE lastRead[s] = 0
      BY <3>1, <3>2
    <3>3. CASE lastRead[s] # 0
      <4>1. PICK j \in Nat : j < Pops /\ s = Wrap(j) /\ lastRead[s] = j + 1
        BY <1>3, <3>3 DEF ReadHistory
      <4>2. QED BY <1>2, <3>1, <4>1
    <3>4. QED BY <3>2, <3>3
  <2>3. QED BY <2>1, <2>2
<1>8. Bracket' /\ IndexHistory' /\ Acquired' /\ Delivered'
  BY <1>1, <1>2, <1>3 DEF Bracket, IndexHistory, Acquired, Delivered
<1>9. Told'
  BY <1>1, <1>3 DEF Told, known
<1>10. QED BY <1>5, <1>6, <1>7, <1>8, <1>9

LEMMA StoreHeadInv == ASSUME IInv, StoreHead PROVE IInv'
<1> USE DEF IInv
<1>1. /\ UNCHANGED <<tailStores, seenHead, seenTail, knownPops, knownPushes, buffer,
                     lastWrite, lastRead, producer, roomKnown>>
      /\ valueKnown' = FALSE
      /\ consumer.pc = "store" /\ consumer' = [consumer EXCEPT !.pc = "idle"]
      /\ headStores' = Append(headStores, Wrap(Pops + 1))
      /\ received' = Append(received, consumer.out)
  BY Counters, WrapNext DEF StoreHead, NextIndex
<1>2. /\ Pushes \in Nat /\ Pops \in Nat /\ knownPushes \in Nat /\ Pops < knownPushes
      /\ Wrap(Pops + 1) \in Slot /\ Len(headStores) = Pops + 1
      /\ consumer.out = Pops /\ consumer.out \in 0..N
      /\ Len(received) = Pops /\ received \in Seq(0..N)
  BY <1>1, Counters, WrapType DEF Bracket, SlotsHold, Delivered, TypeOK, ThreadTypes
<1>3. /\ headStores' \in Seq(Slot) /\ Len(headStores') = Pops + 2
      /\ DOMAIN headStores' = 1..Pops + 2 /\ DOMAIN headStores = 1..Pops + 1
      /\ \A k \in 1..Pops + 1 : headStores'[k] = headStores[k]
      /\ headStores'[Pops + 2] = Wrap(Pops + 1)
  BY <1>1, <1>2 DEF TypeOK, IndexTypes
<1>4. /\ received' \in Seq(0..N) /\ Len(received') = Pops + 1
      /\ DOMAIN received' = 1..Pops + 1 /\ DOMAIN received = 1..Pops
      /\ \A k \in 1..Pops : received'[k] = received[k]
      /\ received'[Pops + 1] = Pops
  BY <1>1, <1>2
<1>5. /\ consumer'.pc = "idle" /\ consumer' \in [pc : {"idle", "read", "store"}, out : 0..N]
  BY <1>1 DEF TypeOK, ThreadTypes
<1>6. Pushes' = Pushes /\ Pops' = Pops + 1 /\ Reads = Pops + 1 /\ Reads' = Pops + 1
  BY <1>1, <1>2, <1>3, <1>5 DEF Pushes, Pops, Reads
<1>7. TypeOK'
  <2>1. IndexTypes'
    BY <1>1, <1>2, <1>3, <1>4, <1>5 DEF TypeOK, IndexTypes
  <2>2. SlotTypes'
    BY <1>1, <1>2, <1>3, <1>4, <1>5 DEF TypeOK, SlotTypes
  <2>3. ThreadTypes'
    BY <1>1, <1>2, <1>3, <1>4, <1>5 DEF TypeOK, ThreadTypes, known
  <2>4. QED BY <2>1, <2>2, <2>3 DEF TypeOK
<1>8. IndexHistory'
  <2>1. ASSUME NEW k \in 1..Pops + 2 PROVE headStores'[k] = Wrap(k - 1)
    <3>1. CASE k = Pops + 2
      BY <1>2, <1>3, <3>1
    <3>2. CASE k # Pops + 2
      <4>1. k \in 1..Pops + 1
        BY <1>2, <3>2
      <4>2. QED BY <1>3, <4>1 DEF IndexHistory
    <3>3. QED BY <3>1, <3>2
  <2>2. QED BY <1>1, <1>3, <2>1 DEF IndexHistory
<1>9. Delivered'
  <2>1. ASSUME NEW k \in 1..Pops + 1 PROVE received'[k] = k - 1
    <3>1. CASE k = Pops + 1
      BY <1>2, <1>4, <3>1
    <3>2. CASE k # Pops + 1
      <4>1. k \in 1..Pops
        BY <1>2, <3>2
      <4>2. QED BY <1>4, <4>1 DEF Delivered
    <3>3. QED BY <3>1, <3>2
  <2>2. QED BY <1>4, <1>6, <2>1 DEF Delivered
<1>10. Bracket'
  BY <1>1, <1>2, <1>5, <1>6 DEF Bracket
<1>11. SlotsHold'
  BY <1>1, <1>2, <1>5, <1>6 DEF SlotsHold, Written
<1>12. Acquired' /\ ReadHistory'
  BY <1>1, <1>6 DEF Acquired, ReadHistory
<1>13. Told'
  BY <1>1, <1>6 DEF Told
<1>14. QED BY <1>7, <1>8, <1>9, <1>10, <1>11, <1>12, <1>13

\* The observers change only what their thread knows.
LEMMA CheckFullInv ==
  ASSUME IInv, NEW k \in DOMAIN headStores, CheckFull(k)
  PROVE  IInv'
<1> USE DEF IInv
<1>1. /\ UNCHANGED <<headStores, tailStores, seenTail, knownPushes, buffer,
                     lastWrite, lastRead, producer, consumer, valueKnown, received>>
      /\ k \in seenHead..Len(headStores) /\ seenHead' = k /\ knownPops' = k - 1
      /\ roomKnown' = ~IsFull(Newest(tailStores), headStores[k])
      /\ producer = "idle"
  BY DEF CheckFull, LoadHead, SaysFull
<1>2. /\ k \in Nat /\ k >= 1 /\ seenHead \in Nat /\ knownPops = seenHead - 1
      /\ k >= seenHead /\ Pushes \in Nat /\ Capacity \in Nat
  BY <1>1, Counters, CapacityAssumption DEF Acquired, TypeOK, IndexTypes
<1>3. Pushes' = Pushes /\ Pops' = Pops /\ Reads' = Reads
  BY <1>1 DEF Pushes, Pops, Reads
<1>4. TypeOK'
  <2>1. IndexTypes'
    BY <1>1, <1>2 DEF TypeOK, IndexTypes
  <2>2. SlotTypes' /\ ThreadTypes'
    BY <1>1 DEF TypeOK, SlotTypes, ThreadTypes
  <2>3. QED BY <2>1, <2>2 DEF TypeOK
<1>5. Told'
  <2>1. roomKnown' => Pushes < (k - 1) + (Capacity - 1)
    BY <1>1, RoomSeen
  <2>2. QED BY <1>1, <1>3, <2>1 DEF Told
<1>6. Bracket'
  BY <1>1, <1>2, <1>3 DEF Bracket
<1>7. IndexHistory' /\ Acquired' /\ SlotsHold' /\ ReadHistory' /\ Delivered'
  BY <1>1, <1>3 DEF IndexHistory, Acquired, SlotsHold, ReadHistory, Delivered, Written
<1>8. QED BY <1>4, <1>5, <1>6, <1>7

LEMMA CheckEmptyInv ==
  ASSUME IInv, NEW k \in DOMAIN tailStores, CheckEmpty(k)
  PROVE  IInv'
<1> USE DEF IInv
<1>1. /\ UNCHANGED <<headStores, tailStores, seenHead, knownPops, buffer,
                     lastWrite, lastRead, producer, consumer, roomKnown, received>>
      /\ k \in seenTail..Len(tailStores) /\ seenTail' = k /\ knownPushes' = k - 1
      /\ valueKnown' = ~IsEmpty(Newest(headStores), tailStores[k])
      /\ consumer.pc = "idle"
  BY DEF CheckEmpty, LoadTail
<1>2. /\ k \in Nat /\ k >= 1 /\ seenTail \in Nat /\ knownPushes = seenTail - 1
      /\ k >= seenTail /\ Pops \in Nat
  BY <1>1, Counters DEF Acquired, TypeOK, IndexTypes
<1>3. Pushes' = Pushes /\ Pops' = Pops /\ Reads' = Reads
  BY <1>1 DEF Pushes, Pops, Reads
<1>4. TypeOK'
  <2>1. IndexTypes'
    BY <1>1, <1>2 DEF TypeOK, IndexTypes
  <2>2. SlotTypes' /\ ThreadTypes'
    BY <1>1 DEF TypeOK, SlotTypes, ThreadTypes
  <2>3. QED BY <2>1, <2>2 DEF TypeOK
<1>5. Told'
  <2>1. valueKnown' => Pops < k - 1
    BY <1>1, ValueSeen
  <2>2. QED BY <1>1, <1>3, <2>1 DEF Told
<1>6. Bracket'
  BY <1>1, <1>2, <1>3 DEF Bracket
<1>7. IndexHistory' /\ Acquired' /\ SlotsHold' /\ ReadHistory' /\ Delivered'
  BY <1>1, <1>3 DEF IndexHistory, Acquired, SlotsHold, ReadHistory, Delivered, Written
<1>8. QED BY <1>4, <1>5, <1>6, <1>7

LEMMA StutterInv == ASSUME IInv, UNCHANGED vars PROVE IInv'
<1>1. /\ UNCHANGED <<headStores, tailStores, seenHead, seenTail, knownPops, knownPushes,
                     buffer, lastWrite, lastRead>>
      /\ UNCHANGED <<producer, consumer, roomKnown, valueKnown, received>>
  BY DEF vars, ringVars, known
<1>2. Pushes' = Pushes /\ Pops' = Pops /\ Reads' = Reads
  BY <1>1 DEF Pushes, Pops, Reads
<1>3. QED BY <1>1, <1>2 DEF IInv, TypeOK, IndexTypes, SlotTypes, ThreadTypes,
                             IndexHistory, Acquired, Bracket, Told, SlotsHold,
                             ReadHistory, Delivered, Written

LEMMA Inductive == Spec => []IInv
<1>1. IInv /\ [Next]_vars => IInv'
  <2> SUFFICES ASSUME IInv, [Next]_vars PROVE IInv'
    OBVIOUS
  <2>1. ASSUME NEW k \in DOMAIN headStores, PushLoad(k) PROVE IInv'
    BY <2>1, PushLoadInv
  <2>2. CASE WriteSlot
    BY <2>2, WriteSlotInv
  <2>3. CASE StoreTail
    BY <2>3, StoreTailInv
  <2>4. ASSUME NEW k \in DOMAIN tailStores, PopLoad(k) PROVE IInv'
    BY <2>4, PopLoadInv
  <2>5. CASE ReadSlot
    BY <2>5, ReadSlotInv
  <2>6. CASE StoreHead
    BY <2>6, StoreHeadInv
  <2>7. CASE Finished \/ UNCHANGED vars
    BY <2>7, StutterInv DEF Finished
  <2>8. ASSUME NEW k \in DOMAIN headStores, CheckFull(k) PROVE IInv'
    BY <2>8, CheckFullInv
  <2>9. ASSUME NEW k \in DOMAIN tailStores, CheckEmpty(k) PROVE IInv'
    BY <2>9, CheckEmptyInv
  <2>10. QED BY <2>1, <2>2, <2>3, <2>4, <2>5, <2>6, <2>7, <2>8, <2>9 DEF Next
<1>2. QED BY <1>1, InitInv, PTL DEF Spec
------------------------------------------------------------------------------
\* Every index stays inside the ring and every local keeps its type.
THEOREM TypeCorrect == Spec => []TypeOK
<1>1. IInv => TypeOK
  BY DEF IInv
<1>2. QED BY <1>1, Inductive, PTL

\* push() and pop() never touch a slot without having acquired the other
\* thread's last access to it.
THEOREM NoDataRace == Spec => []RaceFree
<1>1. ASSUME IInv PROVE RaceFree
  <2>1. ASSUME producer = "write" PROVE lastRead[Newest(tailStores)] <= knownPops
    <3> DEFINE s == Wrap(Pushes)
    <3>1. s \in Slot /\ Newest(tailStores) = s
      BY <1>1, Counters
    <3>2. CASE lastRead[s] = 0
      BY <1>1, <3>1, <3>2, Counters
    <3>3. CASE lastRead[s] # 0
      <4>1. PICK j \in Nat : j < Reads /\ s = Wrap(j) /\ lastRead[s] = j + 1
        BY <1>1, <3>1, <3>3 DEF IInv, ReadHistory
      <4>2. Reads <= Pushes
        <5>1. CASE consumer.pc = "store"
          BY <1>1, <5>1, Counters DEF IInv, Bracket, Reads
        <5>2. CASE consumer.pc # "store"
          BY <1>1, <5>2, Counters DEF Reads
        <5>3. QED BY <5>1, <5>2
      <4>3. Reads \in Nat /\ Pushes \in Nat /\ knownPops \in Nat /\ Capacity \in Nat
        BY <1>1, Counters, CapacityAssumption DEF Reads
      <4>4. j < Pushes
        BY <4>1, <4>2, <4>3
      <4>5. ~(Pushes < j + Capacity)
        BY <4>1, <4>3, <4>4, WrapDistinct
      <4>6. Pushes < knownPops + (Capacity - 1)
        BY <1>1, <2>1 DEF IInv, Bracket
      <4>7. QED BY <3>1, <4>1, <4>3, <4>5, <4>6
    <3>4. QED BY <3>2, <3>3
  <2>2. ASSUME consumer.pc = "read" PROVE lastWrite[Newest(headStores)] <= knownPushes
    <3>1. Pops < knownPushes /\ Pops < Pushes /\ Pops \in Nat /\ knownPushes \in Nat
      BY <1>1, <2>2, Counters DEF IInv, Bracket
    <3>2. lastWrite[Wrap(Pops)] = Pops + 1 /\ Newest(headStores) = Wrap(Pops)
      BY <1>1, <3>1, Counters DEF IInv, SlotsHold, Written
    <3>3. QED BY <3>1, <3>2
  <2>3. QED BY <2>1, <2>2 DEF RaceFree
<1>2. QED BY <1>1, Inductive, PTL

\* The check of the harness never fails: the pops give 0, 1, 2, ... in order.
THEOREM Correctness == Spec => []InOrder
<1>1. IInv => InOrder
  BY DEF IInv, Delivered, InOrder
<1>2. QED BY <1>1, Inductive, PTL

\* What full() and empty() tell their own thread lasts until it acts on it.
THEOREM ObserversTrusted == Spec => []AnswersLast
<1>1. ASSUME IInv PROVE AnswersLast
  <2>1. ASSUME roomKnown, NEW k \in seenHead..Len(headStores)
        PROVE  ~IsFull(Newest(tailStores), headStores[k])
    <3>1. /\ Pushes < knownPops + (Capacity - 1) /\ knownPops <= k - 1 /\ k \in Nat
          /\ knownPops \in Nat /\ Pushes \in Nat /\ Capacity \in Nat
      BY <1>1, <2>1, Counters, CapacityAssumption
         DEF IInv, Told, Acquired, TypeOK, IndexTypes
    <3>2. Pushes < (k - 1) + (Capacity - 1)
      BY <3>1
    <3>3. QED BY <1>1, <3>2, RoomSeen
  <2>2. ASSUME valueKnown, NEW k \in seenTail..Len(tailStores)
        PROVE  ~IsEmpty(Newest(headStores), tailStores[k])
    <3>1. /\ Pops < knownPushes /\ knownPushes <= k - 1 /\ k \in Nat
          /\ knownPushes \in Nat /\ Pops \in Nat
      BY <1>1, <2>2, Counters DEF IInv, Told, Acquired, TypeOK, IndexTypes
    <3>2. Pops < k - 1
      BY <3>1
    <3>3. QED BY <1>1, <3>2, ValueSeen
  <2>3. QED BY <2>1, <2>2 DEF AnswersLast
<1>2. QED BY <1>1, Inductive, PTL
------------------------------------------------------------------------------
(***************************************************************************)
(* The ring implements the bounded FIFO.                                   *)
(***************************************************************************)
LEMMA WrapAdd ==
  ASSUME NEW a \in Nat, NEW b \in Nat
  PROVE  Wrap(Wrap(a) + b) = Wrap(a + b)
<1>1. PICK q \in Int : a = Capacity * q + Wrap(a) /\ Wrap(a) \in Slot
  BY Division
<1>2. Wrap(a) + b \in Nat /\ Wrap(a) \in Nat
  BY <1>1 DEF Slot
<1>3. PICK p \in Int : /\ Wrap(a) + b = Capacity * p + Wrap(Wrap(a) + b)
                       /\ Wrap(Wrap(a) + b) \in Slot
  BY <1>2, Division
<1>4. Capacity * (q + p) = Capacity * q + Capacity * p
      /\ Capacity * q \in Int /\ Capacity * p \in Int
  BY CapacityAssumption
<1>5. a + b = Capacity * (q + p) + Wrap(Wrap(a) + b)
  BY <1>1, <1>2, <1>3, <1>4 DEF Slot
<1>6. QED BY <1>3, <1>5, WrapUnique

\* The values that wait are the consecutive ones from Pops on.
Consecutive(from, n) == [k \in 1..n |-> from + (k - 1)]

LEMMA WaitingIs == IInv => Waiting = Consecutive(Pops, Pushes - Pops)
<1> SUFFICES ASSUME IInv PROVE Waiting = Consecutive(Pops, Pushes - Pops)
  OBVIOUS
<1>1. Pushes \in Nat /\ Pops \in Nat /\ Pops <= Pushes /\ Newest(headStores) = Wrap(Pops)
  BY Counters
<1>2. ASSUME NEW k \in 1..(Pushes - Pops)
      PROVE  buffer[Wrap(Newest(headStores) + (k - 1))] = Pops + (k - 1)
  <2>1. k - 1 \in Nat /\ Pops + (k - 1) \in Nat /\ Pops + (k - 1) < Pushes
    BY <1>1
  <2>2. Wrap(Wrap(Pops) + (k - 1)) = Wrap(Pops + (k - 1))
    BY <1>1, <2>1, WrapAdd
  <2>3. Written(Pops + (k - 1))
    BY <1>1, <2>1 DEF IInv, SlotsHold
  <2>4. QED BY <1>1, <2>2, <2>3 DEF Written
<1>3. QED BY <1>2 DEF Waiting, Consecutive

LEMMA WaitingNext == IInv' => (Waiting = Consecutive(Pops, Pushes - Pops))'
  BY WaitingIs, PTL

LEMMA GrowAtBack ==
  ASSUME NEW from \in Nat, NEW n \in Nat
  PROVE  Consecutive(from, n + 1) = Append(Consecutive(from, n), from + n)
<1>1. Consecutive(from, n) \in Seq(Nat) /\ Len(Consecutive(from, n)) = n
  BY DEF Consecutive
<1> DEFINE s == Consecutive(from, n)
           t == Append(s, from + n)
<1>2. /\ t \in Seq(Nat) /\ Len(t) = n + 1 /\ t[n + 1] = from + n
      /\ \A k \in 1..n : t[k] = s[k]
  BY <1>1
<1>3. t = [k \in 1..n + 1 |-> t[k]]
  BY <1>2
<1>4. ASSUME NEW k \in 1..n + 1 PROVE t[k] = from + (k - 1)
  <2>1. CASE k = n + 1
    BY <1>2, <2>1
  <2>2. CASE k # n + 1
    <3>1. k \in 1..n
      BY <2>2
    <3>2. QED BY <1>2, <3>1 DEF Consecutive
  <2>3. QED BY <2>1, <2>2
<1>5. QED BY <1>3, <1>4 DEF Consecutive

LEMMA ShrinkAtFront ==
  ASSUME NEW from \in Nat, NEW n \in Nat
  PROVE  /\ Consecutive(from, n + 1) # << >>
         /\ Head(Consecutive(from, n + 1)) = from
         /\ Tail(Consecutive(from, n + 1)) = Consecutive(from + 1, n)
<1> DEFINE s == Consecutive(from, n + 1)
           t == Consecutive(from + 1, n)
<1>1. s \in Seq(Nat) /\ Len(s) = n + 1 /\ \A k \in 1..n + 1 : s[k] = from + (k - 1)
  BY DEF Consecutive
<1>2. s # << >> /\ Head(s) = from
  BY <1>1
<1>3. /\ Tail(s) \in Seq(Nat) /\ Len(Tail(s)) = n
      /\ \A k \in 1..n : Tail(s)[k] = s[k + 1]
  BY <1>1
<1>4. Tail(s) = [k \in 1..n |-> Tail(s)[k]]
  BY <1>3
<1>5. \A k \in 1..n : Tail(s)[k] = (from + 1) + (k - 1)
  BY <1>1, <1>3
<1>6. Tail(s) = t
  BY <1>4, <1>5 DEF Consecutive
<1>7. QED BY <1>2, <1>6

LEMMA InitRefines == Init => Fifo!Init
<1> SUFFICES ASSUME Init PROVE Fifo!Init
  OBVIOUS
<1>1. IInv
  BY InitInv
<1>2. Pushes = 0 /\ Pops = 0
  BY DEF Init, Pushes, Pops
<1>3. Waiting = << >>
  BY <1>1, <1>2, WaitingIs DEF Consecutive
<1>4. QED BY <1>2, <1>3 DEF Init, Fifo!Init

LEMMA StoreTailRefines == ASSUME IInv, IInv', StoreTail PROVE Fifo!Put
<1>1. /\ tailStores' = Append(tailStores, Wrap(Pushes + 1)) /\ UNCHANGED headStores
      /\ UNCHANGED received
  BY Counters, WrapNext DEF StoreTail, NextIndex
<1>2. /\ Pushes \in Nat /\ Pops \in Nat /\ Pops <= Pushes /\ Len(tailStores) = Pushes + 1
      /\ Pushes < N /\ Pushes < knownPops + (Capacity - 1) /\ knownPops <= Pops
      /\ knownPops \in Nat /\ Capacity \in Nat
  BY Counters, CapacityAssumption DEF StoreTail, IInv, Bracket
<1>3. Len(tailStores') = Pushes + 2
  BY <1>1, <1>2 DEF IInv, TypeOK, IndexTypes
<1>4. Pushes' = Pushes + 1 /\ Pops' = Pops
  BY <1>1, <1>2, <1>3 DEF Pushes, Pops
<1>5. /\ Waiting = Consecutive(Pops, Pushes - Pops)
      /\ Waiting' = Consecutive(Pops, (Pushes - Pops) + 1)
  <2>1. Waiting' = Consecutive(Pops', Pushes' - Pops')
    BY WaitingNext DEF Consecutive
  <2>2. Pushes' - Pops' = (Pushes - Pops) + 1
    BY <1>2, <1>4
  <2>3. QED BY <1>4, <2>1, <2>2, WaitingIs
<1>6. Pushes - Pops \in Nat /\ Pops + (Pushes - Pops) = Pushes
      /\ Pushes - Pops < Capacity - 1
  BY <1>2
<1>7. Waiting' = Append(Waiting, Pushes)
  BY <1>2, <1>5, <1>6, GrowAtBack
<1>8. Len(Waiting) = Pushes - Pops
  BY <1>5, <1>6 DEF Consecutive
<1>9. QED BY <1>1, <1>2, <1>4, <1>6, <1>7, <1>8 DEF Fifo!Put

LEMMA StoreHeadRefines == ASSUME IInv, IInv', StoreHead PROVE Fifo!Take
<1>1. /\ headStores' = Append(headStores, Wrap(Pops + 1)) /\ UNCHANGED tailStores
      /\ received' = Append(received, Pops)
  BY Counters, WrapNext DEF StoreHead, NextIndex, IInv, SlotsHold
<1>2. /\ Pushes \in Nat /\ Pops \in Nat /\ Len(headStores) = Pops + 1
      /\ Pops < knownPushes /\ knownPushes <= Pushes /\ knownPushes \in Nat
  BY Counters DEF StoreHead, IInv, Bracket
<1>3. Len(headStores') = Pops + 2
  BY <1>1, <1>2 DEF IInv, TypeOK, IndexTypes
<1>4. Pushes' = Pushes /\ Pops' = Pops + 1
  BY <1>1, <1>2, <1>3 DEF Pushes, Pops
<1> DEFINE n == (Pushes - Pops) - 1
<1>5. n \in Nat /\ Pushes - Pops = n + 1 /\ Pushes' - Pops' = n
  BY <1>2, <1>4
<1> HIDE DEF n
<1>6. /\ Waiting = Consecutive(Pops, n + 1)
      /\ Waiting' = Consecutive(Pops + 1, n)
  <2>1. Waiting' = Consecutive(Pops', Pushes' - Pops')
    BY WaitingNext DEF Consecutive
  <2>2. QED BY <1>4, <1>5, <2>1, WaitingIs
<1>7. Waiting # << >> /\ Head(Waiting) = Pops /\ Waiting' = Tail(Waiting)
  BY <1>2, <1>5, <1>6, ShrinkAtFront
<1>8. QED BY <1>1, <1>4, <1>7 DEF Fifo!Take

LEMMA OtherStepRefines ==
  ASSUME IInv, IInv', UNCHANGED <<headStores, tailStores, received>>
  PROVE  UNCHANGED Fifo!vars
<1>1. Pushes' = Pushes /\ Pops' = Pops
  BY DEF Pushes, Pops
<1>2. Waiting' = Consecutive(Pops', Pushes' - Pops')
  BY WaitingNext DEF Consecutive
<1>3. Waiting' = Waiting
  BY <1>1, <1>2, WaitingIs
<1>4. QED BY <1>1, <1>3 DEF Fifo!vars

\* Whatever stale index either thread reads, the ring behaves as a FIFO with
\* room for Capacity - 1 values: push() puts at its store of tail_, pop() takes
\* at its store of head_, and nothing else is visible.
THEOREM Refinement == Spec => ImplementsFifo
<1>1. IInv /\ IInv' /\ [Next]_vars => [Fifo!Next]_(Fifo!vars)
  <2> SUFFICES ASSUME IInv, IInv', [Next]_vars PROVE [Fifo!Next]_(Fifo!vars)
    OBVIOUS
  <2>1. CASE StoreTail
    BY <2>1, StoreTailRefines DEF Fifo!Next
  <2>2. CASE StoreHead
    BY <2>2, StoreHeadRefines DEF Fifo!Next
  <2>3. CASE UNCHANGED <<headStores, tailStores, received>>
    BY <2>3, OtherStepRefines
  <2>4. QED BY <2>1, <2>2, <2>3
          DEF Next, PushLoad, CheckFull, WriteSlot, PopLoad, CheckEmpty, ReadSlot, Finished,
              vars, ringVars
<1>2. QED BY <1>1, InitRefines, Inductive, PTL DEF Spec, ImplementsFifo, Fifo!Spec
=============================================================================
