---------------------------- MODULE LimitOrderBook ----------------------------
(***************************************************************************)
(* The matching engine of include/limit_order_book.hpp: one symbol, one    *)
(* thread, fixed arrays.  Every array of the class is a function here.     *)
(* Resting orders are nodes of a pool, linked into one doubly linked FIFO  *)
(* per side and price level; free nodes form a singly linked free list; a  *)
(* bitset of occupied levels per side, in words of WordBits bits, and a    *)
(* cached best level find the next maker.  A word is the set of its bits.  *)
(*                                                                         *)
(* process_order is split at its loop: ProcessOrder enters it, every       *)
(* MatchStep is one iteration, RestRemainder is what follows the loop.     *)
(* No other call can begin while one runs.                                 *)
(***************************************************************************)
EXTENDS Integers, FiniteSets, Sequences, FiniteSetsExt

CONSTANTS
  PriceMin, PriceMax,  \* template parameters: the price range
  MaxOrders,           \* template parameter: nodes of the pool, and ids
  QtyMod,              \* 2^w for the unsigned quantity type QtyT of w bits
  WordBits,            \* bits of a word of the occupancy bitset
  Prices, Qtys, Ids    \* the arguments that callers pass

ASSUME EngineAssumption ==
  /\ PriceMin \in Int /\ PriceMax \in Int /\ PriceMin < PriceMax
  /\ MaxOrders \in Nat \ {0}
  /\ QtyMod \in Nat \ {0}
  /\ WordBits \in Nat \ {0}
  /\ Prices \subseteq Int
  /\ Qtys \subseteq 0..QtyMod-1
  /\ Ids \subseteq Int

kNil == -1
kNoSide == "none"      \* order_side_ of a node never used
Buy == "Buy"
Sell == "Sell"
Side == {Buy, Sell}
Opposite(side) == IF side = Buy THEN Sell ELSE Buy

kLevels == PriceMax - PriceMin + 1
Level == 0..kLevels-1
Bit == 0..WordBits-1
Word == 0..((kLevels + WordBits - 1) \div WordBits) - 1
Node == 0..MaxOrders-1
NodeOrNil == Node \cup {kNil}
Qty == 0..QtyMod-1

PriceToLevel(price) == price - PriceMin
LevelToPrice(level) == level + PriceMin
InRange(price) == price >= PriceMin /\ price <= PriceMax
ValidId(id) == id >= 0 /\ id < MaxOrders

VARIABLES
  head, tail,    \* per side and level: first and last node of its FIFO
  levelQty,      \* per side and level: total resting quantity, modulo QtyMod
  occ,           \* per side and word: the bits that are set
  best,          \* per side: best_bid_ and best_ask_
  next, prev, orderId, orderPrice, orderQty, orderSide,   \* per node
  freeHead, nextFree,   \* the free list
  idToIdx,       \* per id: its node, or kNil
  call,          \* the locals of the process_order that runs
  ok,            \* what the last call returned
  executions     \* the vector the caller passes to process_order

levelVars == <<head, tail, levelQty, occ, best>>
nodeVars == <<next, prev, orderId, orderPrice, orderQty, orderSide>>
poolVars == <<freeHead, nextFree, idToIdx>>
engineVars == <<levelVars, nodeVars, poolVars, call, ok, executions>>

NoCall == [running |-> FALSE, side |-> Buy, price |-> PriceMin, remaining |-> 0, id |-> 0]
Return(result) == call' = NoCall /\ ok' = result
------------------------------------------------------------------------------
WordIndex(level) == level \div WordBits
BitMask(level) == level % WordBits
IsOccupied(words, level) == BitMask(level) \in words[WordIndex(level)]
SetOccupied(words, level) == [words EXCEPT ![WordIndex(level)] = @ \cup {BitMask(level)}]
ClearOccupied(words, level) == [words EXCEPT ![WordIndex(level)] = @ \ {BitMask(level)}]

\* The end of a set that a side prefers.
Foremost(side, S) == IF side = Buy THEN Max(S) ELSE Min(S)

\* Seeded fault: the scan of the ask side, copied to the bid side.
Scanned_SameBothSides(side, S) == Min(S)

\* The word or the bit that a scan meets first.
Scanned(side, S) == Foremost(side, S)

\* find_best_bid and find_best_ask: word by word, from the last one down for
\* bids and from the first one up for asks; the highest or the lowest bit of the
\* first word that has one, if it is a level at all.
FindBest(side, words) ==
  LET hit(w) == w * WordBits + Scanned(side, words[w])
      hits == {w \in Word : words[w] # {} /\ hit(w) < kLevels}
  IN IF hits = {} THEN kNil ELSE hit(Scanned(side, hits))

\* Seeded fault: the comparison of the bid branch, copied to the ask branch.
Better_SameBothSides(side, l, m) == l > m

Better(side, l, m) == IF side = Buy THEN l > m ELSE l < m

\* The loop condition of process_order: there is a best maker and the limit
\* of the running call reaches it.
Crossing ==
  LET m == best[Opposite(call.side)]
  IN /\ m # kNil
     /\ IF call.side = Buy THEN LevelToPrice(m) <= call.price
                           ELSE LevelToPrice(m) >= call.price

\* alloc_order finds no node for this id.
AllocFails(id) == idToIdx[id] # kNil \/ freeHead = kNil

\* Seeded fault: the next free node taken to be the adjacent one.
NextFree_Adjacent(i) == i + 1

NextFree(i) == nextFree[i]

AllocOrder(id) ==
  /\ freeHead' = NextFree(freeHead)
  /\ idToIdx' = [idToIdx EXCEPT ![id] = freeHead]
  /\ UNCHANGED nextFree

\* Seeded fault: the freed node is not chained to the rest of the free list.
ChainedFree_Not(i) == nextFree

ChainedFree(i) == [nextFree EXCEPT ![i] = freeHead]

FreeOrder(id) ==
  /\ idToIdx' = [idToIdx EXCEPT ![id] = kNil]
  /\ nextFree' = ChainedFree(idToIdx[id])
  /\ freeHead' = idToIdx[id]

\* The new node i, with quantity qty, goes to the back of its level.
LinkNewOrder(side, level, i, qty) ==
  LET t == tail[side][level]
  IN /\ tail' = [tail EXCEPT ![side][level] = i]
     /\ head' = IF t = kNil THEN [head EXCEPT ![side][level] = i] ELSE head
     /\ next' = IF t = kNil THEN [next EXCEPT ![i] = kNil]
                            ELSE [next EXCEPT ![t] = i, ![i] = kNil]
     /\ prev' = [prev EXCEPT ![i] = t]
     /\ levelQty' = [levelQty EXCEPT ![side][level] = (@ + qty) % QtyMod]
     /\ occ' = [occ EXCEPT ![side] = SetOccupied(@, level)]
     /\ best' = IF best[side] = kNil \/ Better(side, level, best[side])
                THEN [best EXCEPT ![side] = level] ELSE best

\* The best level once a level's bit is cleared, which leaves these words.
BestWithout(side, level, words) ==
  IF best[side] = level THEN FindBest(side, words) ELSE best[side]

VacateLevel(side, level) ==
  LET words == ClearOccupied(occ[side], level)
  IN /\ occ' = [occ EXCEPT ![side] = words]
     /\ best' = [best EXCEPT ![side] = BestWithout(side, level, words)]

\* Seeded fault: the successor's back link is left as it was.
BackLinked_Not(n, p) == prev

BackLinked(n, p) == IF n # kNil THEN [prev EXCEPT ![n] = p] ELSE prev

\* The links around node i skip it.
Splice(side, level, i) ==
  LET p == prev[i]
      n == next[i]
  IN /\ next' = IF p # kNil THEN [next EXCEPT ![p] = n] ELSE next
     /\ head' = IF p = kNil THEN [head EXCEPT ![side][level] = n] ELSE head
     /\ prev' = BackLinked(n, p)
     /\ tail' = IF n = kNil THEN [tail EXCEPT ![side][level] = p] ELSE tail

\* Node i leaves its level with all the quantity it still has there.  In the
\* matching loop the code subtracts that quantity just before it unlinks.
UnlinkOrder(side, level, i) ==
  LET left == (levelQty[side][level] - orderQty[i]) % QtyMod
  IN /\ Splice(side, level, i)
     /\ levelQty' = [levelQty EXCEPT ![side][level] = left]
     /\ orderQty' = [orderQty EXCEPT ![i] = 0]
     /\ IF left = 0 THEN VacateLevel(side, level) ELSE UNCHANGED <<occ, best>>
------------------------------------------------------------------------------
AllNil == [s \in Side |-> [l \in Level |-> kNil]]
AllClear == [s \in Side |-> [w \in Word |-> {}]]

\* The constructor calls reset() on zero-initialised arrays.
Init ==
  /\ head = AllNil /\ tail = AllNil
  /\ levelQty = [s \in Side |-> [l \in Level |-> 0]]
  /\ occ = AllClear
  /\ best = [s \in Side |-> kNil]
  /\ next = [i \in Node |-> kNil] /\ prev = [i \in Node |-> kNil]
  /\ orderQty = [i \in Node |-> 0]
  /\ orderId = [i \in Node |-> 0] /\ orderPrice = [i \in Node |-> 0]
  /\ orderSide = [i \in Node |-> kNoSide]
  /\ freeHead = 0
  /\ nextFree = [i \in Node |-> IF i + 1 < MaxOrders THEN i + 1 ELSE kNil]
  /\ idToIdx = [id \in Node |-> kNil]
  /\ call = NoCall /\ ok = FALSE /\ executions = <<>>

\* reset() leaves the id, price and side of the nodes as they are.
Reset ==
  /\ ~call.running
  /\ head' = AllNil /\ tail' = AllNil
  /\ levelQty' = [s \in Side |-> [l \in Level |-> 0]]
  /\ occ' = AllClear
  /\ best' = [s \in Side |-> kNil]
  /\ next' = [i \in Node |-> kNil] /\ prev' = [i \in Node |-> kNil]
  /\ orderQty' = [i \in Node |-> 0]
  /\ freeHead' = 0
  /\ nextFree' = [i \in Node |-> IF i + 1 < MaxOrders THEN i + 1 ELSE kNil]
  /\ idToIdx' = [id \in Node |-> kNil]
  /\ UNCHANGED <<orderId, orderPrice, orderSide, call, ok, executions>>

Acceptable(price, qty, id) == qty > 0 /\ InRange(price) /\ ValidId(id)

\* process_order up to its loop.  The caller passes an empty vector.
ProcessOrder(side, price, qty, id) ==
  /\ ~call.running
  /\ Acceptable(price, qty, id)
  /\ call' = [running |-> TRUE, side |-> side, price |-> price,
              remaining |-> qty, id |-> id]
  /\ ok' = FALSE
  /\ executions' = <<>>
  /\ UNCHANGED <<levelVars, nodeVars, poolVars>>

RefuseOrder(price, qty, id) ==
  /\ ~call.running
  /\ ~Acceptable(price, qty, id)
  /\ Return(FALSE)
  /\ executions' = <<>>
  /\ UNCHANGED <<levelVars, nodeVars, poolVars>>

\* The trade of one iteration: the oldest maker i of the best level.
TradeWith(side, level, i) ==
  LET traded == Min({call.remaining, orderQty[i]})
  IN /\ executions' = Append(executions, [maker |-> orderId[i],
                                          price |-> LevelToPrice(level),
                                          qty |-> traded])
     /\ IF traded = call.remaining
        THEN Return(TRUE)
        ELSE call' = [call EXCEPT !.remaining = @ - traded] /\ UNCHANGED ok
     /\ IF traded = orderQty[i]
        THEN UnlinkOrder(side, level, i) /\ FreeOrder(orderId[i])
        ELSE /\ orderQty' = [orderQty EXCEPT ![i] = @ - traded]
             /\ levelQty' = [levelQty EXCEPT ![side][level] = (@ - traded) % QtyMod]
             /\ UNCHANGED <<head, tail, occ, best, next, prev, poolVars>>
     /\ UNCHANGED <<orderId, orderPrice, orderSide>>

\* Seeded fault: the newest order of a level is served first.
NextMaker_Newest(side, level) == tail[side][level]

NextMaker(side, level) == head[side][level]

MatchStep ==
  /\ call.running
  /\ Crossing
  /\ LET side == Opposite(call.side)
         level == best[side]
         i == NextMaker(side, level)
     IN IF i = kNil
        THEN /\ VacateLevel(side, level)
             /\ UNCHANGED <<head, tail, levelQty, nodeVars, poolVars, call, ok, executions>>
        ELSE TradeWith(side, level, i)

\* After the loop: what is left rests, or the call fails for want of a node.
RestRemainder ==
  /\ call.running
  /\ ~Crossing
  /\ IF AllocFails(call.id)
     THEN Return(FALSE) /\ UNCHANGED <<levelVars, nodeVars, poolVars>>
     ELSE /\ AllocOrder(call.id)
          /\ orderId' = [orderId EXCEPT ![freeHead] = call.id]
          /\ orderSide' = [orderSide EXCEPT ![freeHead] = call.side]
          /\ orderPrice' = [orderPrice EXCEPT ![freeHead] = call.price]
          /\ orderQty' = [orderQty EXCEPT ![freeHead] = call.remaining]
          /\ LinkNewOrder(call.side, PriceToLevel(call.price), freeHead, call.remaining)
          /\ Return(TRUE)
  /\ UNCHANGED executions

Cancel(id) ==
  /\ ~call.running
  /\ IF ValidId(id) /\ idToIdx[id] # kNil
     THEN LET i == idToIdx[id]
          IN /\ UnlinkOrder(orderSide[i], PriceToLevel(orderPrice[i]), i)
             /\ FreeOrder(id)
             /\ Return(TRUE)
     ELSE Return(FALSE) /\ UNCHANGED <<levelVars, next, prev, orderQty, poolVars>>
  /\ UNCHANGED <<orderId, orderPrice, orderSide, executions>>

Next ==
  \/ Reset
  \/ \E side \in Side, price \in Prices, qty \in Qtys, id \in Ids :
       ProcessOrder(side, price, qty, id)
  \/ \E price \in Prices, qty \in Qtys, id \in Ids : RefuseOrder(price, qty, id)
  \/ MatchStep
  \/ RestRemainder
  \/ \E id \in Ids : Cancel(id)

Spec == Init /\ [][Next]_engineVars
------------------------------------------------------------------------------
(***************************************************************************)
(* Properties.                                                             *)
(***************************************************************************)
LiveNodes == {idToIdx[id] : id \in Node} \ {kNil}
NodesAt(side, level) ==
  {i \in LiveNodes : orderSide[i] = side /\ orderPrice[i] = LevelToPrice(level)}
QtyAt(side, level) == SumFunctionOnSet(orderQty, NodesAt(side, level))

\* The nodes met from node first by following link, at most MaxOrders of them:
\* Hops is kNil from the end of the list on.
Hops(first, link) ==
  LET hop[k \in 1..MaxOrders] ==
        IF k = 1 THEN first ELSE IF hop[k-1] = kNil THEN kNil ELSE link[hop[k-1]]
  IN hop
Chain(first, link) ==
  LET hop == Hops(first, link)
  IN [k \in 1..Cardinality({j \in 1..MaxOrders : hop[j] # kNil}) |-> hop[k]]

Fifo(side, level) == Chain(head[side][level], next)
FreeList == Chain(freeHead, nextFree)

\* Arithmetic of quantities stays inside the w bits of QtyT.
QtyFits == \A q \in Qtys : q * MaxOrders < QtyMod

\* The bitsets whose bits are levels, and the levels that a bitset marks.
Bitset == {words \in [Word -> SUBSET Bit] :
             \A w \in Word : \A b \in words[w] : w * WordBits + b < kLevels}
MarkedIn(words) == {l \in Level : IsOccupied(words, l)}
Marked(side) == MarkedIn(occ[side])

\* Every field keeps its type; a quantity never leaves its unsigned range, a
\* link never leaves the pool, and no bit beyond the last level is ever set.
TypeOK ==
  /\ head \in [Side -> [Level -> NodeOrNil]]
  /\ tail \in [Side -> [Level -> NodeOrNil]]
  /\ levelQty \in [Side -> [Level -> Qty]]
  /\ occ \in [Side -> Bitset]
  /\ best \in [Side -> Level \cup {kNil}]
  /\ next \in [Node -> NodeOrNil] /\ prev \in [Node -> NodeOrNil]
  /\ orderId \in [Node -> Node]
  /\ orderPrice \in [Node -> Int]
  /\ orderQty \in [Node -> Qty]
  /\ orderSide \in [Node -> Side \cup {kNoSide}]
  /\ freeHead \in NodeOrNil
  /\ nextFree \in [Node -> NodeOrNil]
  /\ idToIdx \in [Node -> NodeOrNil]
  /\ call \in [running : BOOLEAN, side : Side, price : PriceMin..PriceMax,
               remaining : Qty, id : Node]
  /\ ok \in BOOLEAN

\* The FIFO of a level, read through next from head, ends at tail, agrees
\* with prev in every link, and holds exactly the live orders of that side
\* and price, each once: no order is lost, duplicated or left on the wrong
\* level by link_new_order, unlink_order and the matching loop.
ListsWellFormed ==
  \A s \in Side, l \in Level :
    LET q == Fifo(s, l)
    IN /\ {q[k] : k \in DOMAIN q} = NodesAt(s, l)
       /\ Len(q) = Cardinality(NodesAt(s, l))
       /\ tail[s][l] = IF q = <<>> THEN kNil ELSE q[Len(q)]
       /\ \A k \in DOMAIN q : prev[q[k]] = IF k = 1 THEN kNil ELSE q[k-1]

\* The free list holds every node that no id maps to, once, and no other:
\* fills and cancels neither leak a node of the pool nor free one twice.
FreeListIsComplement ==
  LET free == FreeList
  IN /\ {free[k] : k \in DOMAIN free} = Node \ LiveNodes
     /\ Len(free) = Cardinality(Node \ LiveNodes)

\* The per-level totals, the occupancy bits and the cached best levels are
\* what the resting orders say they should be, at every loop iteration.
LevelTotals ==
  \A s \in Side, l \in Level : levelQty[s][l] = QtyAt(s, l)
OccupiedIffOrders ==
  \A s \in Side : Marked(s) = {l \in Level : NodesAt(s, l) # {}}
BestIsBest ==
  \A s \in Side : best[s] = IF Marked(s) = {} THEN kNil ELSE Foremost(s, Marked(s))
LevelsTrackOrders == LevelTotals /\ OccupiedIffOrders /\ BestIsBest

\* Between calls the best bid is below the best ask: no two resting orders
\* could still trade, whatever was submitted, filled or cancelled before.
BookUncrossed ==
  ~call.running /\ best[Buy] # kNil /\ best[Sell] # kNil => best[Buy] < best[Sell]

\* Every iteration of the matching loop that does not end it trades a
\* positive quantity or drops an occupied level, so the loop cannot spin.
MatchProgress ==
  [][call.running /\ call'.running =>
       \/ call'.remaining < call.remaining
       \/ \E s \in Side : Marked(s)' # Marked(s) /\ Marked(s)' \subseteq Marked(s)]_engineVars

\* The engine implements the price-time priority book: its trades, its
\* resting queues and its return values are those of PriceTimeBook.
BookOf ==
  [s \in Side |-> [p \in PriceMin..PriceMax |->
     LET q == Fifo(s, PriceToLevel(p))
     IN [k \in DOMAIN q |-> [id |-> orderId[q[k]], qty |-> orderQty[q[k]]]]]]
Abstract == INSTANCE PriceTimeBook WITH book <- BookOf, taker <- call
ImplementsPriceTime == Abstract!Spec
=============================================================================
