------------------------ MODULE LimitOrderBookProofs ------------------------
(***************************************************************************)
(* Proofs about the matching engine, for every price range, pool size and  *)
(* quantity width: its types, its index of occupied prices, its linked     *)
(* lists (the FIFO of every level and the free list), the quantities of    *)
(* the levels and the progress of the matching loop, the price-time        *)
(* priority book that it implements, and the queries.                      *)
(***************************************************************************)
EXTENDS MarketData, ArithmeticLemmas, SequenceTheorems, TLAPS

\* The smaller of two integers, as std::min computes it.
LEMMA MinOfTwo ==
  ASSUME NEW a \in Int, NEW b \in Int
  PROVE  /\ Min({a, b}) \in {a, b}
         /\ Min({a, b}) <= a /\ Min({a, b}) <= b
<1>1. \E x \in {a, b} : \A y \in {a, b} : x =< y
  <2>1. CASE a =< b  BY <2>1
  <2>2. CASE ~(a =< b)  BY <2>2
  <2>3. QED BY <2>1, <2>2
<1>2. Min({a, b}) \in {a, b} /\ \A y \in {a, b} : Min({a, b}) =< y
  BY <1>1 DEF Min
<1>3. QED BY <1>2

\* A nonempty bounded set of naturals has a greatest element.
LEMMA GreatestBelow ==
  ASSUME NEW n \in Int, NEW S \in SUBSET (0..n), S # {}
  PROVE  \E x \in S : \A y \in S : x >= y
<1> DEFINE T == {n - x : x \in S}
<1>1. T \in SUBSET Nat /\ T # {}
  <2>1. ASSUME NEW x \in S PROVE n - x \in Nat
    <3>1. x \in 0..n
      OBVIOUS
    <3>2. QED BY <3>1
  <2>2. QED BY <2>1
<1>2. PICK t \in T : \A u \in T : t =< u
  BY <1>1, LeastNatural
<1>3. PICK x \in S : t = n - x
  BY <1>2
<1>4. \A y \in S : n - x =< n - y
  BY <1>2, <1>3
<1>5. QED BY <1>3, <1>4

\* The foremost of some levels, bits or words is one of them, and none of
\* them beats it.
LEMMA ForemostOf ==
  ASSUME NEW side \in Side, NEW n \in Int, NEW S \in SUBSET (0..n), S # {}
  PROVE  /\ Foremost(side, S) \in S
         /\ \A y \in S : ~Better(side, y, Foremost(side, S))
<1>1. S \subseteq Nat
  OBVIOUS
<1>2. CASE side = Buy
  <2>1. Max(S) \in S /\ \A y \in S : Max(S) >= y
    BY GreatestBelow DEF Max
  <2>2. ASSUME NEW y \in S PROVE ~(y > Max(S))
    <3>1. y \in Nat /\ Max(S) \in Nat /\ Max(S) >= y
      BY <1>1, <2>1
    <3>2. QED BY <3>1
  <2>3. QED BY <1>2, <2>1, <2>2 DEF Foremost, Better
<1>3. CASE side # Buy
  <2>1. Min(S) \in S /\ \A y \in S : Min(S) =< y
    BY <1>1, LeastNatural DEF Min
  <2>2. ASSUME NEW y \in S PROVE ~(y < Min(S))
    <3>1. y \in Nat /\ Min(S) \in Nat /\ Min(S) =< y
      BY <1>1, <2>1
    <3>2. QED BY <3>1
  <2>3. QED BY <1>3, <2>1, <2>2 DEF Foremost, Better
<1>4. QED BY <1>2, <1>3
------------------------------------------------------------------------------
(***************************************************************************)
(* The occupancy bitset: words and bits against levels.                    *)
(***************************************************************************)
kWords == (kLevels + WordBits - 1) \div WordBits

\* Levels and kNil are integers, and kNil is no level.
LEMMA LevelFacts ==
  /\ kLevels \in Nat /\ kNil \notin Level
  /\ \A l \in Level : l \in Nat /\ l \in Int
  BY EngineAssumption DEF Level, kNil, kLevels

\* There are words enough for every level.
LEMMA WordsReach ==
  kWords \in Int /\ kLevels <= kWords * WordBits
<1>1. kLevels \in Nat /\ WordBits \in Nat \ {0}
  BY LevelFacts, EngineAssumption
<1> DEFINE a == kLevels + WordBits - 1
<1>2. a \in Nat
  BY <1>1
<1> HIDE DEF a
<1>3. /\ a \div WordBits \in Int /\ a % WordBits \in 0..WordBits-1
      /\ a = WordBits * (a \div WordBits) + (a % WordBits)
  BY <1>1, <1>2
<1>4. a - (WordBits - 1) <= WordBits * (a \div WordBits)
  BY <1>1, <1>2, <1>3
<1>5. kLevels = a - (WordBits - 1)
  BY <1>1 DEF a
<1>6. kWords = a \div WordBits
  BY DEF kWords, a
<1>7. WordBits * kWords = kWords * WordBits
  BY <1>1, <1>3, <1>6
<1>8. QED BY <1>3, <1>4, <1>5, <1>6, <1>7

\* Words are apart by at least WordBits.
LEMMA WordsApart ==
  ASSUME NEW v \in Int, NEW w \in Int, v < w
  PROVE  v * WordBits + WordBits <= w * WordBits
<1>1. WordBits \in Nat
  BY EngineAssumption
<1>2. QED BY <1>1

\* word_index and bit_mask take a level apart ...
LEMMA LevelToBit ==
  ASSUME NEW l \in Level
  PROVE  /\ WordIndex(l) \in Word /\ BitMask(l) \in Bit
         /\ l = WordIndex(l) * WordBits + BitMask(l)
<1> DEFINE w == WordIndex(l)
           b == BitMask(l)
<1>1. l \in Nat /\ l < kLevels /\ kLevels \in Nat /\ WordBits \in Nat \ {0}
  BY LevelFacts, EngineAssumption DEF Level
<1>2. /\ w \in Int /\ w >= 0 /\ b \in 0..WordBits-1
      /\ l = w * WordBits + b
  BY <1>1 DEF WordIndex, BitMask
<1> HIDE DEF w, b
<1>3. w < kWords
  <2>1. CASE kWords <= w
    <3>1. kWords * WordBits <= w * WordBits
      <4>1. CASE kWords = w
        BY <4>1, <1>2, <1>1
      <4>2. CASE kWords < w
        BY <4>2, <1>1, <1>2, WordsReach, WordsApart
      <4>3. QED BY <2>1, <4>1, <4>2, <1>2, WordsReach
    <3>2. w * WordBits <= l
      BY <1>1, <1>2
    <3>3. w * WordBits \in Int /\ kWords * WordBits \in Int
      BY <1>1, <1>2, WordsReach
    <3>4. QED BY <1>1, <3>1, <3>2, <3>3, WordsReach
  <2>2. QED BY <2>1, <1>2, WordsReach
<1>4. w \in Word
  <2>1. Word = 0..kWords-1
    BY DEF Word, kWords
  <2>2. QED BY <2>1, <1>2, <1>3, WordsReach
<1>5. QED BY <1>2, <1>4 DEF Bit, w, b

\* ... and there is one way to put it together.
LEMMA BitUnique ==
  ASSUME NEW v \in Word, NEW w \in Word, NEW b \in Bit, NEW c \in Bit,
         v * WordBits + b = w * WordBits + c
  PROVE  v = w /\ b = c
<1>1. WordBits \in Nat \ {0} /\ v \in Int /\ w \in Int
  BY EngineAssumption DEF Word
<1>2. /\ b \in Int /\ c \in Int /\ 0 <= b /\ b < WordBits /\ 0 <= c /\ c < WordBits
      /\ v * WordBits \in Int /\ w * WordBits \in Int
  BY <1>1 DEF Bit
<1>3. CASE v < w
  <2>1. v * WordBits + WordBits <= w * WordBits
    BY <1>1, <1>3, WordsApart
  <2>2. QED BY <1>1, <1>2, <2>1
<1>4. CASE w < v
  <2>1. w * WordBits + WordBits <= v * WordBits
    BY <1>1, <1>4, WordsApart
  <2>2. QED BY <1>1, <1>2, <2>1
<1>5. CASE v = w
  BY <1>2, <1>5
<1>6. QED BY <1>1, <1>3, <1>4, <1>5

\* A bit that is set is a marked level.
LEMMA BitToLevel ==
  ASSUME NEW words \in Bitset, NEW w \in Word, NEW b \in words[w]
  PROVE  /\ b \in Bit
         /\ w * WordBits + b \in MarkedIn(words)
<1> DEFINE l == w * WordBits + b
<1>1. b \in Bit /\ l < kLevels
  BY DEF Bitset
<1>2. l \in Level
  <2>1. w \in Nat /\ b \in Nat /\ WordBits \in Nat
    BY <1>1, EngineAssumption DEF Word, Bit
  <2>2. l \in Nat
    BY <2>1
  <2>3. QED BY <1>1, <2>2, LevelFacts DEF Level
<1>3. WordIndex(l) = w /\ BitMask(l) = b
  <2>1. WordIndex(l) \in Word /\ BitMask(l) \in Bit /\ l = WordIndex(l) * WordBits + BitMask(l)
    BY <1>2, LevelToBit
  <2>2. QED BY <1>1, <2>1, BitUnique
<1>4. QED BY <1>1, <1>2, <1>3 DEF MarkedIn, IsOccupied

LEMMA SetOccupiedMarks ==
  ASSUME NEW words \in Bitset, NEW level \in Level
  PROVE  /\ SetOccupied(words, level) \in Bitset
         /\ MarkedIn(SetOccupied(words, level)) = MarkedIn(words) \cup {level}
<1> DEFINE new == SetOccupied(words, level)
<1>1. /\ WordIndex(level) \in Word /\ BitMask(level) \in Bit
      /\ level = WordIndex(level) * WordBits + BitMask(level)
      /\ level < kLevels
  BY LevelToBit, LevelFacts DEF Level
<1>2. words \in [Word -> SUBSET Bit]
  BY DEF Bitset
<1>3. new \in [Word -> SUBSET Bit]
  BY <1>1, <1>2 DEF SetOccupied
<1>4. ASSUME NEW w \in Word
      PROVE  new[w] = IF w = WordIndex(level) THEN words[w] \cup {BitMask(level)} ELSE words[w]
  BY <1>2 DEF SetOccupied
<1>5. ASSUME NEW w \in Word, NEW b \in new[w] PROVE w * WordBits + b < kLevels
  <2>1. CASE b \in words[w]
    BY <2>1 DEF Bitset
  <2>2. CASE b \notin words[w]
    BY <1>1, <1>4, <1>5, <2>2
  <2>3. QED BY <2>1, <2>2
<1>6. ASSUME NEW l \in Level PROVE IsOccupied(new, l) <=> IsOccupied(words, l) \/ l = level
  <2>1. WordIndex(l) \in Word /\ l = WordIndex(l) * WordBits + BitMask(l)
    BY LevelToBit
  <2>2. QED BY <1>1, <1>4, <2>1 DEF IsOccupied
<1>7. QED BY <1>3, <1>5, <1>6 DEF Bitset, MarkedIn

LEMMA ClearOccupiedUnmarks ==
  ASSUME NEW words \in Bitset, NEW level
  PROVE  /\ ClearOccupied(words, level) \in Bitset
         /\ level \in Level => MarkedIn(ClearOccupied(words, level)) = MarkedIn(words) \ {level}
<1> DEFINE new == ClearOccupied(words, level)
<1>1. words \in [Word -> SUBSET Bit]
  BY DEF Bitset
<1>2. new \in [Word -> SUBSET Bit]
  BY <1>1 DEF ClearOccupied
<1>3. ASSUME NEW w \in Word
      PROVE  new[w] = IF w = WordIndex(level) THEN words[w] \ {BitMask(level)} ELSE words[w]
  BY <1>1 DEF ClearOccupied
<1>4. ASSUME NEW w \in Word, NEW b \in new[w] PROVE w * WordBits + b < kLevels
  BY <1>3, <1>4 DEF Bitset
<1>5. ASSUME level \in Level, NEW l \in Level
      PROVE  IsOccupied(new, l) <=> IsOccupied(words, l) /\ l # level
  <2>1. WordIndex(l) \in Word /\ l = WordIndex(l) * WordBits + BitMask(l)
    BY LevelToBit
  <2>2. level = WordIndex(level) * WordBits + BitMask(level)
    BY <1>5, LevelToBit
  <2>3. QED BY <1>3, <2>1, <2>2 DEF IsOccupied
<1>6. QED BY <1>2, <1>4, <1>5 DEF Bitset, MarkedIn

\* b is the best of some levels, or kNil when there are none.
BestOfSide(side, b, levels) ==
  /\ levels = {} => b = kNil
  /\ levels # {} => b \in levels /\ \A l \in levels : ~Better(side, l, b)

\* find_best_bid and find_best_ask, scanning word by word, return the best
\* level whose bit is set, and kNil only when there is none.
LEMMA FindBestMarked ==
  ASSUME NEW side \in Side, NEW words \in Bitset
  PROVE  BestOfSide(side, FindBest(side, words), MarkedIn(words))
<1> DEFINE hit(w) == w * WordBits + Foremost(side, words[w])
           hits == {w \in Word : words[w] # {} /\ hit(w) < kLevels}
           m == Scanned(side, hits)
<1>1. ASSUME NEW w \in Word, words[w] # {}
      PROVE  /\ Foremost(side, words[w]) \in words[w]
             /\ \A b \in words[w] : ~Better(side, b, Foremost(side, words[w]))
             /\ hit(w) \in MarkedIn(words) /\ w \in hits
  <2>1. words[w] \in SUBSET (0..WordBits-1) /\ WordBits - 1 \in Int
    BY EngineAssumption DEF Bitset, Bit
  <2>2. /\ Foremost(side, words[w]) \in words[w]
        /\ \A b \in words[w] : ~Better(side, b, Foremost(side, words[w]))
    BY <1>1, <2>1, ForemostOf
  <2>3. hit(w) \in MarkedIn(words) /\ hit(w) < kLevels
    BY <2>2, BitToLevel DEF Bitset
  <2>4. QED BY <1>1, <2>2, <2>3
<1>2. ASSUME NEW l \in MarkedIn(words)
      PROVE  /\ l \in Level /\ WordIndex(l) \in hits /\ BitMask(l) \in words[WordIndex(l)]
             /\ l = WordIndex(l) * WordBits + BitMask(l)
  <2>1. l \in Level /\ BitMask(l) \in words[WordIndex(l)]
    BY DEF MarkedIn, IsOccupied
  <2>2. WordIndex(l) \in Word /\ l = WordIndex(l) * WordBits + BitMask(l)
    BY <2>1, LevelToBit
  <2>3. QED BY <1>1, <2>1, <2>2
<1>3. CASE hits = {}
  <2>1. MarkedIn(words) = {}
    BY <1>2, <1>3
  <2>2. FindBest(side, words) = kNil
    BY <1>3 DEF FindBest, Scanned
  <2>3. QED BY <2>1, <2>2 DEF BestOfSide
<1>4. CASE hits # {}
  <2>1. hits \in SUBSET (0..kWords-1) /\ kWords - 1 \in Int
    BY WordsReach DEF Word, kWords
  <2>2. m \in hits /\ \A v \in hits : ~Better(side, v, m)
    BY <1>4, <2>1, ForemostOf DEF Scanned
  <2>3. FindBest(side, words) = hit(m)
    BY <1>4 DEF FindBest, Scanned
  <2>4. m \in Word /\ words[m] # {} /\ hit(m) \in MarkedIn(words)
    BY <1>1, <2>2
  <2>5. ASSUME NEW l \in MarkedIn(words) PROVE ~Better(side, l, hit(m))
    <3> DEFINE v == WordIndex(l)
               b == BitMask(l)
               f == Foremost(side, words[m])
    <3>1. v \in hits /\ v \in Word /\ b \in words[v] /\ l = v * WordBits + b /\ l \in Int
      BY <1>2, LevelFacts
    <3>2. f \in words[m] /\ \A c \in words[m] : ~Better(side, c, f)
      BY <1>1, <2>4
    <3>3. b \in Bit /\ f \in Bit
      BY <2>4, <3>1, <3>2 DEF Bitset
    <3>4. /\ WordBits \in Nat /\ v \in Int /\ m \in Int /\ b \in Int /\ f \in Int
          /\ 0 <= b /\ b < WordBits /\ 0 <= f /\ f < WordBits
      BY <2>4, <3>1, <3>3, EngineAssumption DEF Word, Bit
    <3>5. ~Better(side, v, m) /\ hit(m) = m * WordBits + f
      BY <2>2, <3>1
    <3> HIDE DEF v, b, f, m, hit
    <3>6. CASE v = m
      <4>1. ~Better(side, b, f)
        BY <3>1, <3>2, <3>6
      <4>2. v * WordBits \in Int
        BY <3>4
      <4>3. QED BY <3>1, <3>4, <3>5, <3>6, <4>1, <4>2 DEF Better
    <3>7. CASE v < m
      <4>1. v * WordBits + WordBits <= m * WordBits /\ side = Buy
        BY <3>4, <3>5, <3>7, WordsApart DEF Better
      <4>2. v * WordBits \in Int /\ m * WordBits \in Int
        BY <3>4
      <4>3. QED BY <3>1, <3>4, <3>5, <4>1, <4>2 DEF Better
    <3>8. CASE m < v
      <4>1. m * WordBits + WordBits <= v * WordBits /\ side # Buy
        BY <3>4, <3>5, <3>8, WordsApart DEF Better
      <4>2. v * WordBits \in Int /\ m * WordBits \in Int
        BY <3>4
      <4>3. QED BY <3>1, <3>4, <3>5, <4>1, <4>2 DEF Better
    <3>9. QED BY <3>4, <3>6, <3>7, <3>8
  <2>6. QED BY <2>3, <2>4, <2>5 DEF BestOfSide
<1>5. QED BY <1>3, <1>4

LEMMA FindBestType ==
  ASSUME NEW side \in Side, NEW words \in Bitset
  PROVE  FindBest(side, words) \in Level \cup {kNil}
<1>1. MarkedIn(words) \subseteq Level
  BY DEF MarkedIn
<1>2. QED BY <1>1, FindBestMarked DEF BestOfSide

LEMMA AllClearBits ==
  /\ AllClear \in [Side -> Bitset]
  /\ \A s \in Side : MarkedIn(AllClear[s]) = {}
<1>1. ASSUME NEW s \in Side
      PROVE  AllClear[s] \in Bitset /\ \A l \in Level : ~IsOccupied(AllClear[s], l)
  <2>1. AllClear[s] = [w \in Word |-> {}]
    BY DEF AllClear
  <2>2. ASSUME NEW l \in Level PROVE ~IsOccupied(AllClear[s], l)
    BY <2>1, LevelToBit DEF IsOccupied
  <2>3. QED BY <2>1, <2>2 DEF Bitset
<1>2. AllClear \in [Side -> Bitset]
  BY <1>1 DEF AllClear
<1>3. QED BY <1>1, <1>2 DEF MarkedIn
------------------------------------------------------------------------------
(***************************************************************************)
(* Type correctness.                                                       *)
(***************************************************************************)
LEMMA VacateLevelType ==
  ASSUME TypeOK, NEW side, NEW level, VacateLevel(side, level)
  PROVE  /\ occ' \in [Side -> Bitset]
         /\ best' \in [Side -> Level \cup {kNil}]
<1> DEFINE words == ClearOccupied(occ[side], level)
<1>1. occ' = [occ EXCEPT ![side] = words]
      /\ best' = [best EXCEPT ![side] = BestWithout(side, level, words)]
  BY DEF VacateLevel
<1> HIDE DEF words
<1>2. CASE side \in Side
  <2>1. words \in Bitset
    BY <1>2, ClearOccupiedUnmarks DEF TypeOK, words
  <2>2. BestWithout(side, level, words) \in Level \cup {kNil}
    BY <1>2, <2>1, FindBestType DEF BestWithout, TypeOK
  <2>3. QED BY <1>1, <1>2, <2>1, <2>2 DEF TypeOK
<1>3. CASE side \notin Side
  BY <1>1, <1>3 DEF TypeOK
<1>4. QED BY <1>2, <1>3

LEMMA UnlinkOrderType ==
  ASSUME TypeOK, NEW side, NEW level, NEW i \in Node, UnlinkOrder(side, level, i)
  PROVE  /\ head' \in [Side -> [Level -> NodeOrNil]]
         /\ tail' \in [Side -> [Level -> NodeOrNil]]
         /\ levelQty' \in [Side -> [Level -> Qty]]
         /\ occ' \in [Side -> Bitset]
         /\ best' \in [Side -> Level \cup {kNil}]
         /\ next' \in [Node -> NodeOrNil] /\ prev' \in [Node -> NodeOrNil]
         /\ orderQty' \in [Node -> Qty]
<1> DEFINE left == (levelQty[side][level] - orderQty[i]) % QtyMod
<1>1. /\ next[i] \in NodeOrNil /\ prev[i] \in NodeOrNil
      /\ orderQty[i] \in Int
  BY EngineAssumption DEF TypeOK, Qty
<1>2. /\ head' \in [Side -> [Level -> NodeOrNil]]
      /\ tail' \in [Side -> [Level -> NodeOrNil]]
      /\ next' \in [Node -> NodeOrNil] /\ prev' \in [Node -> NodeOrNil]
  BY <1>1 DEF UnlinkOrder, Splice, BackLinked, TypeOK
<1>3. orderQty' \in [Node -> Qty]
  BY EngineAssumption DEF UnlinkOrder, TypeOK, Qty
<1>4. levelQty' \in [Side -> [Level -> Qty]]
  <2>1. CASE side \in Side /\ level \in Level
    <3>1. levelQty[side][level] \in Int
      BY <2>1, EngineAssumption DEF TypeOK, Qty
    <3>2. left \in Qty
      BY <1>1, <3>1, EngineAssumption DEF Qty
    <3>3. QED BY <3>2 DEF UnlinkOrder, TypeOK
  <2>2. CASE ~(side \in Side /\ level \in Level)
    BY <2>2, Zenon DEF UnlinkOrder, TypeOK
  <2>3. QED BY <2>1, <2>2
<1>5. occ' \in [Side -> Bitset] /\ best' \in [Side -> Level \cup {kNil}]
  <2>1. CASE VacateLevel(side, level)
    BY <2>1, VacateLevelType
  <2>2. CASE UNCHANGED <<occ, best>>
    BY <2>2 DEF TypeOK
  <2>3. QED BY <2>1, <2>2 DEF UnlinkOrder
<1>6. QED BY <1>2, <1>3, <1>4, <1>5

LEMMA FreeOrderType ==
  ASSUME TypeOK, NEW id \in Node, FreeOrder(id)
  PROVE  /\ freeHead' \in NodeOrNil
         /\ nextFree' \in [Node -> NodeOrNil]
         /\ idToIdx' \in [Node -> NodeOrNil]
  BY DEF FreeOrder, ChainedFree, TypeOK, NodeOrNil

LEMMA AllocOrderType ==
  ASSUME TypeOK, NEW id \in Node, ~AllocFails(id), AllocOrder(id)
  PROVE  /\ freeHead \in Node
         /\ freeHead' \in NodeOrNil
         /\ nextFree' \in [Node -> NodeOrNil]
         /\ idToIdx' \in [Node -> NodeOrNil]
  BY DEF AllocFails, AllocOrder, NextFree, TypeOK, NodeOrNil

LEMMA LinkNewOrderType ==
  ASSUME TypeOK, NEW side \in Side, NEW level \in Level, NEW i \in Node,
         NEW qty \in Qty, LinkNewOrder(side, level, i, qty)
  PROVE  /\ head' \in [Side -> [Level -> NodeOrNil]]
         /\ tail' \in [Side -> [Level -> NodeOrNil]]
         /\ levelQty' \in [Side -> [Level -> Qty]]
         /\ occ' \in [Side -> Bitset]
         /\ best' \in [Side -> Level \cup {kNil}]
         /\ next' \in [Node -> NodeOrNil] /\ prev' \in [Node -> NodeOrNil]
<1>1. tail[side][level] \in NodeOrNil /\ i \in NodeOrNil /\ kNil \in NodeOrNil
  BY DEF TypeOK, NodeOrNil
<1>2. /\ head' \in [Side -> [Level -> NodeOrNil]]
      /\ tail' \in [Side -> [Level -> NodeOrNil]]
      /\ next' \in [Node -> NodeOrNil] /\ prev' \in [Node -> NodeOrNil]
  BY <1>1 DEF LinkNewOrder, TypeOK
<1>3. levelQty' \in [Side -> [Level -> Qty]]
  <2>1. (levelQty[side][level] + qty) % QtyMod \in Qty
    BY EngineAssumption DEF TypeOK, Qty
  <2>2. QED BY <2>1 DEF LinkNewOrder, TypeOK
<1>4. occ' \in [Side -> Bitset] /\ best' \in [Side -> Level \cup {kNil}]
  <2>1. SetOccupied(occ[side], level) \in Bitset
    BY SetOccupiedMarks DEF TypeOK
  <2>2. QED BY <2>1 DEF LinkNewOrder, TypeOK
<1>5. QED BY <1>2, <1>3, <1>4

\* One trade moves whole quantities: neither the taker, with a left, nor the
\* maker, with b left, can be charged more than it has.
LEMMA TradedQty ==
  ASSUME NEW a \in Qty, NEW b \in Qty
  PROVE  /\ Min({a, b}) \in Qty
         /\ a - Min({a, b}) \in Qty
         /\ b - Min({a, b}) \in Qty
<1>1. a \in Int /\ b \in Int
  BY EngineAssumption DEF Qty
<1>2. Min({a, b}) \in {a, b} /\ Min({a, b}) <= a /\ Min({a, b}) <= b
  BY <1>1, MinOfTwo
<1>3. ASSUME NEW x \in Qty, NEW m \in Qty, m <= x PROVE x - m \in Qty
  BY <1>3, EngineAssumption DEF Qty
<1>4. QED BY <1>2, <1>3

LEMMA TradeWithType ==
  ASSUME TypeOK, call.running, NEW side \in Side, NEW level \in Level, NEW i \in Node,
         TradeWith(side, level, i)
  PROVE  TypeOK'
<1> DEFINE traded == Min({call.remaining, orderQty[i]})
<1>1. /\ traded \in Qty
      /\ call.remaining - traded \in Qty
      /\ orderQty[i] - traded \in Qty
  <2>1. call.remaining \in Qty /\ orderQty[i] \in Qty
    BY DEF TypeOK
  <2>2. QED BY <2>1, TradedQty
<1>2. call' \in [running : BOOLEAN, side : Side, price : PriceMin..PriceMax,
                remaining : Qty, id : Node] /\ ok' \in BOOLEAN
  <2>1. CASE traded = call.remaining
    <3>1. NoCall \in [running : BOOLEAN, side : Side, price : PriceMin..PriceMax,
                      remaining : Qty, id : Node]
      BY EngineAssumption DEF NoCall, Side, Qty, Node
    <3>2. QED BY <2>1, <3>1 DEF TradeWith, Return
  <2>2. CASE traded # call.remaining
    BY <1>1, <2>2 DEF TradeWith, TypeOK
  <2>3. QED BY <2>1, <2>2
<1>3. UNCHANGED <<orderId, orderPrice, orderSide>>
  BY DEF TradeWith
<1>4. CASE traded = orderQty[i]
  <2>1. UnlinkOrder(side, level, i) /\ FreeOrder(orderId[i])
    BY <1>4 DEF TradeWith
  <2>2. orderId[i] \in Node
    BY DEF TypeOK
  <2>3. /\ head' \in [Side -> [Level -> NodeOrNil]]
        /\ tail' \in [Side -> [Level -> NodeOrNil]]
        /\ levelQty' \in [Side -> [Level -> Qty]]
        /\ occ' \in [Side -> Bitset]
        /\ best' \in [Side -> Level \cup {kNil}]
        /\ next' \in [Node -> NodeOrNil] /\ prev' \in [Node -> NodeOrNil]
        /\ orderQty' \in [Node -> Qty]
    BY <2>1, UnlinkOrderType
  <2>4. /\ freeHead' \in NodeOrNil
        /\ nextFree' \in [Node -> NodeOrNil]
        /\ idToIdx' \in [Node -> NodeOrNil]
    BY <2>1, <2>2, FreeOrderType
  <2>5. QED BY <1>2, <1>3, <2>3, <2>4 DEF TypeOK
<1>5. CASE traded # orderQty[i]
  <2>1. /\ orderQty' = [orderQty EXCEPT ![i] = @ - traded]
        /\ levelQty' = [levelQty EXCEPT ![side][level] = (@ - traded) % QtyMod]
        /\ UNCHANGED <<head, tail, occ, best, next, prev, poolVars>>
    BY <1>5 DEF TradeWith
  <2>2. orderQty' \in [Node -> Qty]
    BY <1>1, <2>1 DEF TypeOK
  <2>3. (levelQty[side][level] - traded) % QtyMod \in Qty
    BY <1>1, EngineAssumption DEF TypeOK, Qty
  <2>4. levelQty' \in [Side -> [Level -> Qty]]
    BY <2>1, <2>3 DEF TypeOK
  <2>5. QED BY <1>2, <1>3, <2>1, <2>2, <2>4 DEF TypeOK, poolVars
<1>6. QED BY <1>4, <1>5

\* The empty tables that reset() and the constructor leave.
LEMMA EmptyTablesType ==
  /\ AllNil \in [Side -> [Level -> NodeOrNil]]
  /\ [s \in Side |-> [l \in Level |-> 0]] \in [Side -> [Level -> Qty]]
  /\ AllClear \in [Side -> Bitset]
  /\ [s \in Side |-> kNil] \in [Side -> Level \cup {kNil}]
  /\ [i \in Node |-> kNil] \in [Node -> NodeOrNil]
  /\ [i \in Node |-> 0] \in [Node -> Qty]
  /\ 0 \in NodeOrNil
  /\ [i \in Node |-> IF i + 1 < MaxOrders THEN i + 1 ELSE kNil] \in [Node -> NodeOrNil]
<1>1. 0 \in Qty /\ 0 \in Node
  BY EngineAssumption DEF Qty, Node
<1>2. ASSUME NEW i \in Node
      PROVE  (IF i + 1 < MaxOrders THEN i + 1 ELSE kNil) \in NodeOrNil
  BY EngineAssumption DEF Node, NodeOrNil
<1>3. QED BY <1>1, <1>2, AllClearBits DEF AllNil, NodeOrNil

LEMMA CallType ==
  NoCall \in [running : BOOLEAN, side : Side, price : PriceMin..PriceMax,
              remaining : Qty, id : Node]
  BY EngineAssumption DEF NoCall, Side, Qty, Node

LEMMA InitType == Init => TypeOK
<1> SUFFICES ASSUME Init PROVE TypeOK
  OBVIOUS
<1>1. /\ [i \in Node |-> 0] \in [Node -> Node]
      /\ [i \in Node |-> 0] \in [Node -> Int]
      /\ [i \in Node |-> kNoSide] \in [Node -> Side \cup {kNoSide}]
  BY EngineAssumption DEF Node
<1>2. QED BY <1>1, EmptyTablesType, CallType DEF Init, TypeOK

LEMMA ResetType == ASSUME TypeOK, Reset PROVE TypeOK'
  BY EmptyTablesType DEF Reset, TypeOK

LEMMA ProcessOrderType ==
  ASSUME TypeOK, NEW side \in Side, NEW price \in Prices, NEW qty \in Qtys, NEW id \in Ids,
         ProcessOrder(side, price, qty, id)
  PROVE  TypeOK'
<1>1. price \in PriceMin..PriceMax /\ qty \in Qty /\ id \in Node
  BY EngineAssumption DEF ProcessOrder, Acceptable, InRange, ValidId, Qty, Node
<1>2. QED BY <1>1 DEF ProcessOrder, TypeOK, levelVars, nodeVars, poolVars

LEMMA RefuseOrderType ==
  ASSUME TypeOK, NEW price, NEW qty, NEW id, RefuseOrder(price, qty, id)
  PROVE  TypeOK'
  BY CallType DEF RefuseOrder, Return, TypeOK, levelVars, nodeVars, poolVars

LEMMA MatchStepType == ASSUME TypeOK, MatchStep PROVE TypeOK'
<1> DEFINE side == Opposite(call.side)
           level == best[side]
           i == NextMaker(side, level)
<1>1. side \in Side /\ level \in Level
  BY DEF MatchStep, Crossing, Opposite, TypeOK, Side
<1>2. i \in NodeOrNil
  BY <1>1 DEF NextMaker, TypeOK
<1>3. CASE i = kNil
  <2>1. /\ VacateLevel(side, level)
        /\ UNCHANGED <<head, tail, levelQty, nodeVars, poolVars, call, ok, executions>>
    BY <1>3 DEF MatchStep
  <2>2. occ' \in [Side -> Bitset] /\ best' \in [Side -> Level \cup {kNil}]
    BY <2>1, VacateLevelType
  <2>3. QED BY <2>1, <2>2 DEF TypeOK, nodeVars, poolVars
<1>4. CASE i # kNil
  <2>1. i \in Node /\ TradeWith(side, level, i) /\ call.running
    BY <1>2, <1>4 DEF MatchStep, NodeOrNil
  <2>2. QED BY <1>1, <2>1, TradeWithType
<1>5. QED BY <1>3, <1>4

LEMMA RestRemainderType == ASSUME TypeOK, RestRemainder PROVE TypeOK'
<1>1. call' = NoCall /\ ok' \in BOOLEAN
  BY DEF RestRemainder, Return
<1>2. CASE AllocFails(call.id)
  BY <1>1, <1>2, CallType DEF RestRemainder, TypeOK, levelVars, nodeVars, poolVars
<1>3. CASE ~AllocFails(call.id)
  <2> DEFINE level == PriceToLevel(call.price)
  <2>1. call.id \in Node /\ call.side \in Side /\ call.remaining \in Qty /\ call.price \in Int
    BY EngineAssumption DEF TypeOK
  <2>2. level \in Level
    BY EngineAssumption DEF TypeOK, PriceToLevel, Level, kLevels
  <2>3. /\ AllocOrder(call.id)
        /\ orderId' = [orderId EXCEPT ![freeHead] = call.id]
        /\ orderSide' = [orderSide EXCEPT ![freeHead] = call.side]
        /\ orderPrice' = [orderPrice EXCEPT ![freeHead] = call.price]
        /\ orderQty' = [orderQty EXCEPT ![freeHead] = call.remaining]
        /\ LinkNewOrder(call.side, level, freeHead, call.remaining)
    BY <1>3 DEF RestRemainder
  <2>4. /\ freeHead \in Node
        /\ freeHead' \in NodeOrNil
        /\ nextFree' \in [Node -> NodeOrNil]
        /\ idToIdx' \in [Node -> NodeOrNil]
    BY <1>3, <2>1, <2>3, AllocOrderType
  <2>5. /\ head' \in [Side -> [Level -> NodeOrNil]]
        /\ tail' \in [Side -> [Level -> NodeOrNil]]
        /\ levelQty' \in [Side -> [Level -> Qty]]
        /\ occ' \in [Side -> Bitset]
        /\ best' \in [Side -> Level \cup {kNil}]
        /\ next' \in [Node -> NodeOrNil] /\ prev' \in [Node -> NodeOrNil]
    BY <2>1, <2>2, <2>3, <2>4, LinkNewOrderType
  <2>6. /\ orderId' \in [Node -> Node]
        /\ orderPrice' \in [Node -> Int]
        /\ orderQty' \in [Node -> Qty]
        /\ orderSide' \in [Node -> Side \cup {kNoSide}]
    BY <2>1, <2>3 DEF TypeOK
  <2>7. QED BY <1>1, <2>4, <2>5, <2>6, CallType DEF TypeOK
<1>4. QED BY <1>2, <1>3

LEMMA CancelType == ASSUME TypeOK, NEW id \in Ids, Cancel(id) PROVE TypeOK'
<1> DEFINE i == idToIdx[id]
<1>1. UNCHANGED <<orderId, orderPrice, orderSide>> /\ call' = NoCall /\ ok' \in BOOLEAN
  BY DEF Cancel, Return
<1>2. CASE ValidId(id) /\ i # kNil
  <2>1. id \in Node
    BY <1>2, EngineAssumption DEF ValidId, Node
  <2>2. i \in Node
    BY <1>2, <2>1 DEF TypeOK, NodeOrNil
  <2>3. UnlinkOrder(orderSide[i], PriceToLevel(orderPrice[i]), i) /\ FreeOrder(id)
    BY <1>2 DEF Cancel
  <2>4. /\ head' \in [Side -> [Level -> NodeOrNil]]
        /\ tail' \in [Side -> [Level -> NodeOrNil]]
        /\ levelQty' \in [Side -> [Level -> Qty]]
        /\ occ' \in [Side -> Bitset]
        /\ best' \in [Side -> Level \cup {kNil}]
        /\ next' \in [Node -> NodeOrNil] /\ prev' \in [Node -> NodeOrNil]
        /\ orderQty' \in [Node -> Qty]
    BY <2>2, <2>3, UnlinkOrderType
  <2>5. /\ freeHead' \in NodeOrNil
        /\ nextFree' \in [Node -> NodeOrNil]
        /\ idToIdx' \in [Node -> NodeOrNil]
    BY <2>1, <2>3, FreeOrderType
  <2>6. QED BY <1>1, <2>4, <2>5, CallType DEF TypeOK
<1>3. CASE ~(ValidId(id) /\ i # kNil)
  BY <1>1, <1>3, CallType DEF Cancel, TypeOK, levelVars, poolVars
<1>4. QED BY <1>2, <1>3

\* No call, accepted or refused, and no iteration of the matching loop takes
\* a field of the engine out of its type: unsigned quantities stay in their w
\* bits, array indices inside the pool and the price range.
THEOREM TypeCorrect == Spec => []TypeOK
<1>1. Init => TypeOK
  BY InitType
<1>2. TypeOK /\ [Next]_engineVars => TypeOK'
  <2> SUFFICES ASSUME TypeOK, [Next]_engineVars PROVE TypeOK'
    OBVIOUS
  <2>1. CASE Reset
    BY <2>1, ResetType
  <2>2. ASSUME NEW side \in Side, NEW price \in Prices, NEW qty \in Qtys, NEW id \in Ids,
               ProcessOrder(side, price, qty, id)
        PROVE  TypeOK'
    BY <2>2, ProcessOrderType
  <2>3. ASSUME NEW price \in Prices, NEW qty \in Qtys, NEW id \in Ids,
               RefuseOrder(price, qty, id)
        PROVE  TypeOK'
    BY <2>3, RefuseOrderType
  <2>4. CASE MatchStep
    BY <2>4, MatchStepType
  <2>5. CASE RestRemainder
    BY <2>5, RestRemainderType
  <2>6. ASSUME NEW id \in Ids, Cancel(id) PROVE TypeOK'
    BY <2>6, CancelType
  <2>7. CASE UNCHANGED engineVars
    BY <2>7 DEF engineVars, levelVars, nodeVars, poolVars, TypeOK
  <2>8. QED BY <2>1, <2>2, <2>3, <2>4, <2>5, <2>6, <2>7 DEF Next
<1>3. QED BY <1>1, <1>2, PTL DEF Spec
------------------------------------------------------------------------------
(***************************************************************************)
(* The cached best levels and the uncrossed book.  BookUncrossed alone is  *)
(* not inductive: it says nothing while a call runs, nor of the levels     *)
(* behind the best ones, which become best when a level empties.           *)
(***************************************************************************)
BestMarked == \A s \in Side : BestOfSide(s, best[s], Marked(s))
BidsBelowAsks == \A b \in Marked(Buy), a \in Marked(Sell) : b < a
Separated == BestMarked /\ BidsBelowAsks

\* "The best" is unique.
LEMMA BestUnique ==
  ASSUME NEW side \in Side, NEW S \in SUBSET Level, NEW b, BestOfSide(side, b, S)
  PROVE  b = IF S = {} THEN kNil ELSE Foremost(side, S)
<1>1. CASE S = {}
  BY <1>1 DEF BestOfSide
<1>2. CASE S # {}
  <2> DEFINE f == Foremost(side, S)
  <2>1. S \in SUBSET (0..kLevels-1) /\ kLevels - 1 \in Int
    BY LevelFacts DEF Level
  <2>2. f \in S /\ b \in S /\ ~Better(side, f, b) /\ ~Better(side, b, f)
    BY <1>2, <2>1, ForemostOf DEF BestOfSide
  <2>3. f \in Int /\ b \in Int
    BY <2>2, LevelFacts
  <2> HIDE DEF f
  <2>4. f = b
    BY <2>2, <2>3 DEF Better
  <2>5. QED BY <1>2, <2>4 DEF f
<1>3. QED BY <1>1, <1>2

LEMMA MarkedLevels == ASSUME TypeOK, NEW s \in Side PROVE Marked(s) \in SUBSET Level
  BY DEF Marked, MarkedIn

\* Clearing a level's bit keeps the cache right and adds no level.
LEMMA VacateLevelSeparated ==
  ASSUME TypeOK, Separated, NEW side \in Side, NEW level \in Level, VacateLevel(side, level)
  PROVE  Separated'
<1> DEFINE words == ClearOccupied(occ[side], level)
<1>1. /\ words \in Bitset /\ MarkedIn(words) = Marked(side) \ {level}
      /\ \A s \in Side : occ'[s] = IF s = side THEN words ELSE occ[s]
      /\ \A s \in Side : best'[s] = IF s = side THEN BestWithout(side, level, words) ELSE best[s]
  BY ClearOccupiedUnmarks DEF VacateLevel, TypeOK, Marked
<1> HIDE DEF words
<1>2. ASSUME NEW s \in Side PROVE Marked(s)' = IF s = side THEN Marked(s) \ {level} ELSE Marked(s)
  BY <1>1 DEF Marked, MarkedIn
<1>3. BidsBelowAsks'
  BY <1>2 DEF Separated, BidsBelowAsks, Side
<1>4. ASSUME NEW s \in Side PROVE BestOfSide(s, best[s], Marked(s))'
  <2>1. BestOfSide(s, best[s], Marked(s))
    BY DEF Separated, BestMarked
  <2>2. CASE s = side /\ best[s] = level
    <3>1. best'[s] = FindBest(s, words) /\ Marked(s)' = MarkedIn(words)
      BY <1>1, <1>2, <2>2 DEF BestWithout
    <3>2. BestOfSide(s, FindBest(s, words), MarkedIn(words))
      BY <1>1, FindBestMarked
    <3>3. QED BY <3>1, <3>2 DEF BestOfSide
  <2>3. CASE ~(s = side /\ best[s] = level)
    <3>1. best'[s] = best[s]
      BY <1>1, <2>3 DEF BestWithout
    <3>2. Marked(s)' \subseteq Marked(s) /\ (best[s] \in Marked(s) => best[s] \in Marked(s)')
      BY <1>2, <2>3
    <3>3. QED BY <2>1, <3>1, <3>2 DEF BestOfSide
  <2>4. QED BY <2>2, <2>3
<1>5. QED BY <1>3, <1>4 DEF Separated, BestMarked

LEMMA SameLevelsSeparated ==
  ASSUME Separated, UNCHANGED <<occ, best>>
  PROVE  Separated'
  BY DEF Separated, BestMarked, BestOfSide, BidsBelowAsks, Marked, MarkedIn

LEMMA UnlinkOrderSeparated ==
  ASSUME TypeOK, Separated, NEW side \in Side, NEW level \in Level, NEW i,
         UnlinkOrder(side, level, i)
  PROVE  Separated'
<1>1. VacateLevel(side, level) \/ UNCHANGED <<occ, best>>
  BY DEF UnlinkOrder
<1>2. QED BY <1>1, VacateLevelSeparated, SameLevelsSeparated

LEMMA MatchStepSeparated == ASSUME TypeOK, Separated, MatchStep PROVE Separated'
<1> DEFINE side == Opposite(call.side)
           level == best[side]
           i == NextMaker(side, level)
<1>1. side \in Side /\ level \in Level
  BY DEF MatchStep, Crossing, Opposite, TypeOK, Side
<1>2. CASE i = kNil
  <2>1. VacateLevel(side, level)
    BY <1>2 DEF MatchStep
  <2>2. QED BY <1>1, <2>1, VacateLevelSeparated
<1>3. CASE i # kNil
  <2>1. TradeWith(side, level, i)
    BY <1>3 DEF MatchStep
  <2>2. UnlinkOrder(side, level, i) \/ UNCHANGED <<occ, best>>
    BY <2>1 DEF TradeWith
  <2>3. QED BY <1>1, <2>2, UnlinkOrderSeparated, SameLevelsSeparated
<1>4. QED BY <1>2, <1>3

\* The limit of the remainder that rests is beyond every maker the loop left,
\* because the loop stops only when the best of them does not cross.
LEMMA RestLevelBeyond ==
  ASSUME TypeOK, Separated, ~Crossing
  PROVE  LET level == PriceToLevel(call.price)
         IN /\ call.side = Buy => \A a \in Marked(Sell) : level < a
            /\ call.side = Sell => \A b \in Marked(Buy) : b < level
<1> DEFINE level == PriceToLevel(call.price)
           other == Opposite(call.side)
           m == best[other]
<1>1. /\ call.price \in Int /\ PriceMin \in Int
      /\ level = call.price - PriceMin
      /\ other \in Side /\ Marked(other) \in SUBSET Level
  BY EngineAssumption, MarkedLevels DEF TypeOK, PriceToLevel, Opposite, Side
<1>2. ASSUME NEW l \in Marked(other)
      PROVE  IF call.side = Buy THEN level < l ELSE l < level
  <2>1. m \in Marked(other) /\ ~Better(other, l, m)
    BY <1>1 DEF Separated, BestMarked, BestOfSide
  <2>2. m \in Int /\ l \in Int /\ m # kNil
    BY <1>1, <2>1, LevelFacts
  <2>3. IF call.side = Buy THEN ~(m + PriceMin <= call.price)
                           ELSE ~(m + PriceMin >= call.price)
    BY <2>2 DEF Crossing, LevelToPrice
  <2>4. CASE call.side = Buy
    <3>1. other = Sell /\ Sell # Buy
      BY <2>4 DEF Opposite, Buy, Sell
    <3>2. ~(l < m)
      BY <2>1, <3>1 DEF Better
    <3> HIDE DEF level, m
    <3>3. QED BY <1>1, <2>2, <2>3, <2>4, <3>2
  <2>5. CASE call.side # Buy
    <3>1. other = Buy
      BY <2>5 DEF Opposite
    <3>2. ~(l > m)
      BY <2>1, <3>1 DEF Better
    <3> HIDE DEF level, m
    <3>3. QED BY <1>1, <2>2, <2>3, <2>5, <3>2
  <2>6. QED BY <2>4, <2>5
<1>3. QED BY <1>2 DEF Opposite, Buy, Sell

LEMMA LinkNewOrderSeparated ==
  ASSUME TypeOK, Separated, NEW side \in Side, NEW level \in Level, NEW i, NEW qty,
         side = Buy => \A a \in Marked(Sell) : level < a,
         side = Sell => \A b \in Marked(Buy) : b < level,
         LinkNewOrder(side, level, i, qty)
  PROVE  Separated'
<1>1. ASSUME NEW s \in Side
      PROVE  Marked(s)' = IF s = side THEN Marked(s) \cup {level} ELSE Marked(s)
  <2>1. occ'[s] = IF s = side THEN SetOccupied(occ[s], level) ELSE occ[s]
    BY DEF LinkNewOrder, TypeOK
  <2>2. occ[s] \in Bitset
    BY DEF TypeOK
  <2>3. MarkedIn(SetOccupied(occ[s], level)) = MarkedIn(occ[s]) \cup {level}
    BY <2>2, SetOccupiedMarks
  <2>4. QED BY <2>1, <2>3 DEF Marked, MarkedIn
<1>2. BidsBelowAsks'
  BY <1>1 DEF Separated, BidsBelowAsks, Side, Buy, Sell
<1>3. ASSUME NEW s \in Side PROVE BestOfSide(s, best[s], Marked(s))'
  <2>1. BestOfSide(s, best[s], Marked(s))
    BY DEF Separated, BestMarked
  <2>2. best'[s] = IF s = side /\ (best[s] = kNil \/ Better(s, level, best[s]))
                   THEN level ELSE best[s]
    BY DEF LinkNewOrder, TypeOK
  <2>3. CASE s # side
    BY <1>1, <2>1, <2>2, <2>3
  <2>4. CASE s = side
    <3>1. Marked(s) \in SUBSET Level /\ Marked(s)' = Marked(s) \cup {level}
      BY <1>1, <2>4, MarkedLevels
    <3>2. ~Better(s, level, level)
      BY LevelFacts DEF Better
    <3>3. CASE best[s] = kNil
      <4>1. Marked(s) = {}
        BY <2>1, <3>1, <3>3, LevelFacts DEF BestOfSide
      <4>2. QED BY <2>2, <2>4, <3>1, <3>2, <3>3, <4>1 DEF BestOfSide
    <3>4. CASE best[s] # kNil
      <4>1. best[s] \in Marked(s) /\ \A l \in Marked(s) : ~Better(s, l, best[s])
        BY <2>1, <3>4 DEF BestOfSide
      <4>2. CASE Better(s, level, best[s])
        <5>1. ASSUME NEW l \in Marked(s) PROVE ~Better(s, l, level)
          <6>1. l \in Int /\ level \in Int /\ best[s] \in Int
            BY <3>1, <4>1, LevelFacts
          <6>2. QED BY <4>1, <4>2, <6>1 DEF Better
        <5>2. QED BY <2>2, <2>4, <3>1, <3>2, <4>2, <5>1 DEF BestOfSide
      <4>3. CASE ~Better(s, level, best[s])
        BY <2>2, <3>1, <3>4, <4>1, <4>3 DEF BestOfSide
      <4>4. QED BY <4>2, <4>3
    <3>5. QED BY <3>3, <3>4
  <2>5. QED BY <2>3, <2>4
<1>4. QED BY <1>2, <1>3 DEF Separated, BestMarked

LEMMA RestRemainderSeparated == ASSUME TypeOK, Separated, RestRemainder PROVE Separated'
<1> DEFINE level == PriceToLevel(call.price)
<1>1. CASE AllocFails(call.id)
  BY <1>1, SameLevelsSeparated DEF RestRemainder, levelVars
<1>2. CASE ~AllocFails(call.id)
  <2>1. call.side \in Side /\ level \in Level
    BY EngineAssumption DEF TypeOK, PriceToLevel, Level, kLevels
  <2>2. /\ call.side = Buy => \A a \in Marked(Sell) : level < a
        /\ call.side = Sell => \A b \in Marked(Buy) : b < level
    BY RestLevelBeyond DEF RestRemainder
  <2>3. LinkNewOrder(call.side, level, freeHead, call.remaining)
    BY <1>2 DEF RestRemainder
  <2>4. QED BY <2>1, <2>2, <2>3, LinkNewOrderSeparated
<1>3. QED BY <1>1, <1>2

\* Every resting order keeps a side and a price of the range: cancel indexes
\* the level arrays with what the node says.
RestingPlaced ==
  \A id \in Node : idToIdx[id] # kNil =>
    /\ orderSide[idToIdx[id]] \in Side
    /\ orderPrice[idToIdx[id]] \in PriceMin..PriceMax

LEMMA RestRemainderPlaced ==
  ASSUME TypeOK, RestingPlaced, RestRemainder PROVE RestingPlaced'
<1>1. CASE AllocFails(call.id)
  BY <1>1 DEF RestRemainder, RestingPlaced, nodeVars, poolVars
<1>2. CASE ~AllocFails(call.id)
  <2>1. /\ AllocOrder(call.id)
        /\ orderSide' = [orderSide EXCEPT ![freeHead] = call.side]
        /\ orderPrice' = [orderPrice EXCEPT ![freeHead] = call.price]
    BY <1>2 DEF RestRemainder
  <2>2. /\ freeHead \in Node
        /\ idToIdx' \in [Node -> NodeOrNil]
        /\ call.id \in Node /\ call.side \in Side /\ call.price \in PriceMin..PriceMax
    BY <1>2, <2>1, AllocOrderType DEF TypeOK
  <2>3. SUFFICES ASSUME NEW id \in Node, idToIdx'[id] # kNil
                 PROVE  /\ orderSide'[idToIdx'[id]] \in Side
                        /\ orderPrice'[idToIdx'[id]] \in PriceMin..PriceMax
    BY DEF RestingPlaced
  <2>4. idToIdx'[id] \in Node /\ (idToIdx'[id] = freeHead \/ idToIdx'[id] = idToIdx[id])
    BY <2>1, <2>2, <2>3 DEF AllocOrder, TypeOK, NodeOrNil
  <2>5. CASE idToIdx'[id] = freeHead
    BY <2>1, <2>2, <2>5 DEF TypeOK
  <2>6. CASE idToIdx'[id] # freeHead
    <3>1. /\ orderSide'[idToIdx[id]] = orderSide[idToIdx[id]]
          /\ orderPrice'[idToIdx[id]] = orderPrice[idToIdx[id]]
      BY <2>1, <2>4, <2>6 DEF TypeOK
    <3>2. QED BY <2>3, <2>4, <2>6, <3>1 DEF RestingPlaced
  <2>7. QED BY <2>5, <2>6
<1>3. QED BY <1>1, <1>2

\* Freeing nodes, and leaving them alone, keeps the others placed.
LEMMA FewerPlaced ==
  ASSUME TypeOK, RestingPlaced, UNCHANGED <<orderSide, orderPrice>>,
         \/ UNCHANGED idToIdx
         \/ \E id \in Node : idToIdx' = [idToIdx EXCEPT ![id] = kNil]
         \/ idToIdx' = [id \in Node |-> kNil]
  PROVE  RestingPlaced'
<1> SUFFICES ASSUME NEW n \in Node, idToIdx'[n] # kNil PROVE idToIdx'[n] = idToIdx[n]
  BY DEF RestingPlaced
<1>1. QED BY DEF TypeOK

LEMMA PlacedAlways == Spec => []RestingPlaced
<1>1. Init => RestingPlaced
  BY DEF Init, RestingPlaced
<1>2. TypeOK /\ RestingPlaced /\ [Next]_engineVars => RestingPlaced'
  <2> SUFFICES ASSUME TypeOK, RestingPlaced, [Next]_engineVars PROVE RestingPlaced'
    OBVIOUS
  <2>1. CASE Reset
    BY <2>1, FewerPlaced DEF Reset
  <2>2. CASE \E side \in Side, price \in Prices, qty \in Qtys, id \in Ids :
               ProcessOrder(side, price, qty, id)
    BY <2>2, FewerPlaced DEF ProcessOrder, nodeVars, poolVars
  <2>3. CASE \E price \in Prices, qty \in Qtys, id \in Ids : RefuseOrder(price, qty, id)
    BY <2>3, FewerPlaced DEF RefuseOrder, nodeVars, poolVars
  <2>4. CASE MatchStep
    <3> DEFINE side == Opposite(call.side)
               i == NextMaker(side, best[side])
    <3>1. CASE i = kNil
      BY <2>4, <3>1, FewerPlaced DEF MatchStep, nodeVars, poolVars
    <3>2. CASE i # kNil
      <4>1. TradeWith(side, best[side], i)
        BY <2>4, <3>2 DEF MatchStep
      <4>2. side \in Side /\ best[side] \in Level
        BY <2>4 DEF MatchStep, Crossing, Opposite, TypeOK, Side
      <4>3. i \in Node /\ orderId[i] \in Node
        BY <3>2, <4>2 DEF NextMaker, TypeOK, NodeOrNil
      <4>4. UNCHANGED idToIdx \/ idToIdx' = [idToIdx EXCEPT ![orderId[i]] = kNil]
        BY <4>1 DEF TradeWith, FreeOrder, poolVars
      <4>5. UNCHANGED <<orderSide, orderPrice>>
        BY <4>1 DEF TradeWith
      <4>6. QED BY <4>3, <4>4, <4>5, FewerPlaced
    <3>3. QED BY <3>1, <3>2
  <2>5. CASE RestRemainder
    BY <2>5, RestRemainderPlaced
  <2>6. CASE \E id \in Ids : Cancel(id)
    <3>1. PICK id \in Ids : Cancel(id)
      BY <2>6
    <3>2. UNCHANGED idToIdx \/ (id \in Node /\ idToIdx' = [idToIdx EXCEPT ![id] = kNil])
      <4>1. CASE ValidId(id) /\ idToIdx[id] # kNil
        <5>1. id \in Node
          BY <4>1, EngineAssumption DEF ValidId, Node
        <5>2. QED BY <3>1, <4>1, <5>1 DEF Cancel, FreeOrder
      <4>2. CASE ~(ValidId(id) /\ idToIdx[id] # kNil)
        BY <3>1, <4>2 DEF Cancel, poolVars
      <4>3. QED BY <4>1, <4>2
    <3>3. QED BY <3>1, <3>2, FewerPlaced DEF Cancel
  <2>7. CASE UNCHANGED engineVars
    BY <2>7, FewerPlaced DEF engineVars, nodeVars, poolVars
  <2>8. QED BY <2>1, <2>2, <2>3, <2>4, <2>5, <2>6, <2>7 DEF Next
<1>3. QED BY <1>1, <1>2, TypeCorrect, PTL DEF Spec

LEMMA CancelSeparated ==
  ASSUME TypeOK, RestingPlaced, Separated, NEW id \in Ids, Cancel(id)
  PROVE  Separated'
<1> DEFINE i == idToIdx[id]
<1>1. CASE ValidId(id) /\ i # kNil
  <2>1. id \in Node
    BY <1>1, EngineAssumption DEF ValidId, Node
  <2>2. orderSide[i] \in Side /\ PriceToLevel(orderPrice[i]) \in Level
    BY <1>1, <2>1, EngineAssumption DEF RestingPlaced, PriceToLevel, Level, kLevels
  <2>3. UnlinkOrder(orderSide[i], PriceToLevel(orderPrice[i]), i)
    BY <1>1 DEF Cancel
  <2>4. QED BY <2>2, <2>3, UnlinkOrderSeparated
<1>2. CASE ~(ValidId(id) /\ i # kNil)
  BY <1>2, SameLevelsSeparated DEF Cancel, levelVars
<1>3. QED BY <1>1, <1>2

LEMMA EmptyBookSeparated ==
  ASSUME occ = AllClear, best = [s \in Side |-> kNil]
  PROVE  Separated
<1>1. \A s \in Side : Marked(s) = {} /\ best[s] = kNil
  BY AllClearBits DEF Marked
<1>2. QED BY <1>1 DEF Separated, BestMarked, BestOfSide, BidsBelowAsks, Side

\* Separated is inductive next to the types.
LEMMA SeparatedAlways == Spec => [](TypeOK /\ Separated)
<1>1. Init => TypeOK /\ Separated
  BY InitType, EmptyBookSeparated DEF Init
<1>2. TypeOK /\ RestingPlaced /\ Separated /\ [Next]_engineVars => Separated'
  <2> SUFFICES ASSUME TypeOK, RestingPlaced, Separated, [Next]_engineVars PROVE Separated'
    OBVIOUS
  <2>1. CASE Reset
    <3>1. occ' = AllClear /\ best' = [s \in Side |-> kNil]
      BY <2>1 DEF Reset
    <3>2. \A s \in Side : Marked(s)' = {} /\ best'[s] = kNil
      BY <3>1, AllClearBits DEF Marked, MarkedIn
    <3>3. QED BY <3>2 DEF Separated, BestMarked, BestOfSide, BidsBelowAsks, Side
  <2>2. CASE \E side \in Side, price \in Prices, qty \in Qtys, id \in Ids :
               ProcessOrder(side, price, qty, id)
    BY <2>2, SameLevelsSeparated DEF ProcessOrder, levelVars
  <2>3. CASE \E price \in Prices, qty \in Qtys, id \in Ids : RefuseOrder(price, qty, id)
    BY <2>3, SameLevelsSeparated DEF RefuseOrder, levelVars
  <2>4. CASE MatchStep
    BY <2>4, MatchStepSeparated
  <2>5. CASE RestRemainder
    BY <2>5, RestRemainderSeparated
  <2>6. CASE \E id \in Ids : Cancel(id)
    BY <2>6, CancelSeparated
  <2>7. CASE UNCHANGED engineVars
    BY <2>7, SameLevelsSeparated DEF engineVars, levelVars
  <2>8. QED BY <2>1, <2>2, <2>3, <2>4, <2>5, <2>6, <2>7 DEF Next
<1>3. QED BY <1>1, <1>2, TypeCorrect, PlacedAlways, PTL DEF Spec

\* best_bid_ and best_ask_ always name the foremost level whose occupancy bit
\* is set, in the middle of a matching loop too.
THEOREM BestCached == Spec => []BestIsBest
<1>1. TypeOK /\ Separated => BestIsBest
  <2> SUFFICES ASSUME TypeOK, Separated, NEW s \in Side
               PROVE  best[s] = IF Marked(s) = {} THEN kNil ELSE Foremost(s, Marked(s))
    BY DEF BestIsBest
  <2>1. Marked(s) \in SUBSET Level /\ BestOfSide(s, best[s], Marked(s))
    BY MarkedLevels DEF Separated, BestMarked
  <2>2. QED BY <2>1, BestUnique
<1>2. QED BY <1>1, SeparatedAlways, PTL

\* Whatever is submitted, filled or cancelled, no resting bid reaches a
\* resting ask once process_order returns.
THEOREM Uncrossed == Spec => []BookUncrossed
<1>1. TypeOK /\ Separated => BookUncrossed
  <2> SUFFICES ASSUME TypeOK, Separated, best[Buy] # kNil, best[Sell] # kNil
               PROVE  best[Buy] < best[Sell]
    BY DEF BookUncrossed
  <2>1. best[Buy] \in Marked(Buy) /\ best[Sell] \in Marked(Sell)
    BY DEF Separated, BestMarked, BestOfSide, Side
  <2>2. QED BY <2>1 DEF Separated, BidsBelowAsks
<1>2. QED BY <1>1, SeparatedAlways, PTL
------------------------------------------------------------------------------
(***************************************************************************)
(* The linked lists: the FIFO of every level, the free list, and the map   *)
(* from ids to nodes that both must agree with.  A list is described by    *)
(* the sequence q of its n nodes, and every operation of the engine by     *)
(* what it does to that sequence.  Nothing is assumed of the quantities.   *)
(***************************************************************************)
\* Function q runs through the n nodes of set S, each once, from first along
\* link; the last of them links to kNil.
Reads(q, n, S, first, link) ==
  /\ n \in Nat
  /\ q \in [1..n -> Node]
  /\ \A j, k \in 1..n : q[j] = q[k] => j = k
  /\ S = {q[k] : k \in 1..n}
  /\ first = IF n = 0 THEN kNil ELSE q[1]
  /\ \A k \in 1..n : link[q[k]] = IF k = n THEN kNil ELSE q[k + 1]

\* The same, and the way back: last and back are the tail and the prev links.
Threads(q, n, S, first, last, link, back) ==
  /\ Reads(q, n, S, first, link)
  /\ last = IF n = 0 THEN kNil ELSE q[n]
  /\ \A k \in 1..n : back[q[k]] = IF k = 1 THEN kNil ELSE q[k - 1]

\* The sequence q of n nodes with i behind it, with i in front of it, without
\* its first node and without its m-th.
Followed(q, n, i) == [k \in 1..n+1 |-> IF k <= n THEN q[k] ELSE i]
Preceded(q, n, i) == [k \in 1..n+1 |-> IF k = 1 THEN i ELSE q[k - 1]]
Shortened(q, n) == [k \in 1..n-1 |-> q[k + 1]]
Without(q, n, m) == [k \in 1..n-1 |-> IF k < m THEN q[k] ELSE q[k + 1]]

\* The links, with that of node p, if it is one, set to x.
Relinked(link, p, x) == IF p # kNil THEN [link EXCEPT ![p] = x] ELSE link

\* The end of a list where x takes the place of an end that has no neighbour p.
NewEnd(end, p, x) == IF p = kNil THEN x ELSE end

\* The links once node i follows the last one.
Appended(link, last, i) ==
  IF last = kNil THEN [link EXCEPT ![i] = kNil] ELSE [link EXCEPT ![last] = i, ![i] = kNil]

LEMMA NodeFacts ==
  /\ MaxOrders \in Nat \ {0} /\ kNil \notin Node
  /\ IsFiniteSet(Node) /\ Cardinality(Node) = MaxOrders
<1>1. MaxOrders \in Nat \ {0}
  BY EngineAssumption
<1>2. IsFiniteSet(Node) /\ Cardinality(Node) = MaxOrders
  <2>1. 0 \in Int /\ MaxOrders - 1 \in Int /\ 0 <= MaxOrders - 1
    BY <1>1
  <2>2. IsFiniteSet(0..MaxOrders-1) /\ Cardinality(0..MaxOrders-1) = (MaxOrders - 1) - 0 + 1
    BY <2>1, FS_Interval
  <2>3. QED BY <1>1, <2>2 DEF Node
<1>3. QED BY <1>1, <1>2 DEF kNil, Node

\* A sequence without repetition has as many elements as its range, and no
\* more than there are nodes.
LEMMA ReadsLength ==
  ASSUME NEW q, NEW n, NEW S, NEW first, NEW link, Reads(q, n, S, first, link)
  PROVE  IsFiniteSet(S) /\ Cardinality(S) = n /\ n <= MaxOrders /\ S \subseteq Node
<1>1. n \in Nat /\ q \in [1..n -> Node] /\ S = {q[k] : k \in 1..n} /\ S \subseteq Node
  BY DEF Reads
<1>2. q \in Bijection(1..n, S)
  <2>1. q \in [1..n -> S]
    BY <1>1
  <2>2. \A j, k \in 1..n : q[j] = q[k] => j = k
    BY DEF Reads
  <2>3. \A s \in S : \E k \in 1..n : q[k] = s
    BY <1>1
  <2>4. QED BY <2>1, <2>2, <2>3 DEF Bijection, Injection, Surjection, IsInjective
<1>3. ExistsBijection(1..n, S)
  BY <1>2 DEF ExistsBijection
<1>4. IsFiniteSet(S) /\ Cardinality(S) = n
  BY <1>1, <1>3, FS_CountingElements, FS_NatBijection
<1>5. Cardinality(S) <= Cardinality(Node)
  BY <1>1, NodeFacts, FS_Subset
<1>6. QED BY <1>1, <1>4, <1>5, NodeFacts

LEMMA ReadsFacts ==
  ASSUME NEW q, NEW n, NEW S, NEW first, NEW link, Reads(q, n, S, first, link)
  PROVE  /\ n \in Nat /\ n <= MaxOrders /\ MaxOrders \in Nat \ {0}
         /\ \A k \in 1..n : q[k] \in Node /\ q[k] # kNil
         /\ first = IF n = 0 THEN kNil ELSE q[1]
         /\ \A k \in 1..n : link[q[k]] = IF k = n THEN kNil ELSE q[k + 1]
<1>1. n \in Nat /\ n <= MaxOrders /\ MaxOrders \in Nat \ {0}
  <2>1. n <= MaxOrders
    BY ReadsLength
  <2>2. n \in Nat
    BY DEF Reads
  <2>3. QED BY <2>1, <2>2, EngineAssumption
<1>2. ASSUME NEW k \in 1..n PROVE q[k] \in Node /\ q[k] # kNil
  <2>1. q[k] \in Node
    BY DEF Reads
  <2>2. QED BY <2>1, NodeFacts
<1>3. QED BY <1>1, <1>2 DEF Reads

\* Following the links from the first node meets the nodes of the list, in
\* order, and nothing else.
LEMMA HopsRead ==
  ASSUME NEW q, NEW n, NEW S, NEW first, NEW link, Reads(q, n, S, first, link)
  PROVE  /\ Hops(first, link) = [k \in 1..MaxOrders |-> IF k <= n THEN q[k] ELSE kNil]
<1> DEFINE Step(h) ==
             [k \in 1..MaxOrders |->
                IF k = 1 THEN first ELSE IF h[k-1] = kNil THEN kNil ELSE link[h[k-1]]]
           f == [k \in 1..MaxOrders |-> IF k <= n THEN q[k] ELSE kNil]
           hop == CHOOSE h : h = Step(h)
<1>1. /\ n \in Nat /\ n <= MaxOrders /\ MaxOrders \in Nat \ {0}
      /\ \A k \in 1..n : q[k] \in Node /\ q[k] # kNil
      /\ first = IF n = 0 THEN kNil ELSE q[1]
      /\ \A k \in 1..n : link[q[k]] = IF k = n THEN kNil ELSE q[k + 1]
  BY ReadsFacts
<1>2. f = Step(f)
  <2>1. ASSUME NEW k \in 1..MaxOrders, k # 1
        PROVE  f[k] = IF f[k-1] = kNil THEN kNil ELSE link[f[k-1]]
    <3>1. k - 1 \in 1..MaxOrders /\ (k - 1) + 1 = k
      BY <1>1, <2>1
    <3>2. f[k] = (IF k <= n THEN q[k] ELSE kNil) /\ f[k-1] = (IF k - 1 <= n THEN q[k-1] ELSE kNil)
      BY <3>1
    <3>3. CASE k <= n
      <4>1. k - 1 \in 1..n /\ k - 1 # n
        BY <3>1, <3>3, <1>1
      <4>2. QED BY <3>1, <3>2, <3>3, <4>1, <1>1
    <3>4. CASE k - 1 = n
      <4>1. k - 1 \in 1..n /\ ~(k <= n)
        BY <3>1, <3>4, <1>1
      <4>2. QED BY <3>2, <3>4, <4>1, <1>1
    <3>5. CASE k - 1 > n
      BY <3>2, <3>5, <1>1
    <3>6. QED BY <3>3, <3>4, <3>5, <1>1
  <2>2. 1 \in 1..MaxOrders /\ f[1] = first
    BY <1>1
  <2> HIDE DEF f
  <2>3. \A k \in 1..MaxOrders : f[k] = Step(f)[k]
    BY <2>1, <2>2
  <2>4. f = [k \in 1..MaxOrders |-> f[k]]
    BY DEF f
  <2>5. QED BY <2>3, <2>4
<1> HIDE DEF f, Step
<1>3. hop = Step(hop)
  BY <1>2
<1>4. hop = f
  <2> DEFINE D == {k \in 1..MaxOrders : hop[k] # f[k]}
  <2>1. D \in SUBSET Nat
    OBVIOUS
  <2>2. CASE D # {}
    <3>1. PICK k \in D : \A j \in D : k =< j
      BY <2>1, <2>2, LeastNatural
    <3>2. k \in 1..MaxOrders /\ hop[k] # f[k]
      OBVIOUS
    <3>3. hop[k] = Step(hop)[k] /\ f[k] = Step(f)[k]
      BY <1>2, <1>3
    <3>4. CASE k = 1
      BY <3>2, <3>3, <3>4 DEF Step
    <3>5. CASE k # 1
      <4>1. k - 1 \in 1..MaxOrders /\ ~(k =< k - 1)
        BY <3>2, <3>5, <1>1
      <4>2. hop[k-1] = f[k-1]
        BY <3>1, <4>1
      <4>3. QED BY <3>2, <3>3, <3>5, <4>2 DEF Step
    <3>6. QED BY <3>4, <3>5
  <2>3. CASE D = {}
    <3>1. \A k \in 1..MaxOrders : hop[k] = f[k]
      BY <2>3
    <3>2. hop = [k \in 1..MaxOrders |-> hop[k]] /\ f = [k \in 1..MaxOrders |-> f[k]]
      <4>1. ASSUME NEW h PROVE Step(h) = [k \in 1..MaxOrders |-> Step(h)[k]]
        BY DEF Step
      <4> HIDE DEF hop
      <4>2. QED BY <4>1, <1>2, <1>3
    <3> HIDE DEF hop
    <3>3. QED BY <3>1, <3>2
  <2>4. QED BY <2>2, <2>3
<1>5. Hops(first, link) = hop
  BY DEF Hops, Step
<1>6. QED BY <1>4, <1>5 DEF f

LEMMA ChainReads ==
  ASSUME NEW q, NEW n, NEW S, NEW first, NEW link, Reads(q, n, S, first, link)
  PROVE  Chain(first, link) = q
<1> DEFINE hop == Hops(first, link)
<1>1. hop = [k \in 1..MaxOrders |-> IF k <= n THEN q[k] ELSE kNil]
  BY HopsRead
<1>2. n \in Nat /\ n <= MaxOrders /\ MaxOrders \in Nat /\ \A k \in 1..n : q[k] # kNil
  BY ReadsFacts
<1> HIDE DEF hop
<1>3. {j \in 1..MaxOrders : hop[j] # kNil} = 1..n
  BY <1>1, <1>2
<1>4. Cardinality(1..n) = n
  <2>1. Cardinality(1..n) = IF 1 > n THEN 0 ELSE n - 1 + 1
    BY <1>2, FS_Interval
  <2>2. QED BY <1>2, <2>1
<1>5. Chain(first, link) = [k \in 1..n |-> hop[k]]
  BY <1>3, <1>4 DEF Chain, hop
<1>6. q = [k \in 1..n |-> q[k]]
  BY DEF Reads
<1>7. \A k \in 1..n : hop[k] = q[k]
  BY <1>1, <1>2
<1>8. QED BY <1>5, <1>6, <1>7
------------------------------------------------------------------------------
(***************************************************************************)
(* What the operations on links do to the sequence of a list.              *)
(***************************************************************************)
LEMMA ThreadsFacts ==
  ASSUME NEW q, NEW n, NEW S, NEW first, NEW last, NEW link, NEW back,
         Threads(q, n, S, first, last, link, back)
  PROVE  /\ n \in Nat /\ \A k \in 1..n : q[k] \in Node /\ q[k] # kNil /\ q[k] \in S
         /\ first = IF n = 0 THEN kNil ELSE q[1]
         /\ last = IF n = 0 THEN kNil ELSE q[n]
         /\ \A k \in 1..n : link[q[k]] = IF k = n THEN kNil ELSE q[k + 1]
         /\ \A k \in 1..n : back[q[k]] = IF k = 1 THEN kNil ELSE q[k - 1]
         /\ \A j, k \in 1..n : q[j] = q[k] => j = k
         /\ S = {q[k] : k \in 1..n}
<1>1. Reads(q, n, S, first, link)
  BY DEF Threads
<1>2. n \in Nat /\ \A k \in 1..n : q[k] \in Node /\ q[k] # kNil
  BY <1>1, ReadsFacts
<1>3. QED BY <1>1, <1>2 DEF Threads, Reads

\* A list whose own links are left alone stays as it was.
LEMMA ThreadsKept ==
  ASSUME NEW q, NEW n, NEW S, NEW first, NEW last, NEW link, NEW back, NEW link2, NEW back2,
         Threads(q, n, S, first, last, link, back),
         \A i \in S : link2[i] = link[i] /\ back2[i] = back[i]
  PROVE  Threads(q, n, S, first, last, link2, back2)
<1>1. \A k \in 1..n : link2[q[k]] = link[q[k]] /\ back2[q[k]] = back[q[k]]
  BY DEF Threads, Reads
<1>2. QED BY <1>1 DEF Threads, Reads

\* A new node goes to the back.
LEMMA ThreadsAppended ==
  ASSUME NEW q, NEW n, NEW S, NEW first, NEW last, NEW link, NEW back,
         Threads(q, n, S, first, last, link, back),
         NEW i \in Node \ S,
         link \in [Node -> NodeOrNil], back \in [Node -> NodeOrNil]
  PROVE  Threads(Followed(q, n, i), n + 1, S \cup {i}, NewEnd(first, last, i), i,
                 Appended(link, last, i), [back EXCEPT ![i] = last])
<1> DEFINE first2 == NewEnd(first, last, i)
           link2 == Appended(link, last, i)
           back2 == [back EXCEPT ![i] = last]
<1> DEFINE r == Followed(q, n, i)
<1> USE DEF Followed, NewEnd, Appended
<1>1. /\ n \in Nat /\ \A k \in 1..n : q[k] \in Node /\ q[k] # kNil /\ q[k] \in S
      /\ first = IF n = 0 THEN kNil ELSE q[1]
      /\ last = IF n = 0 THEN kNil ELSE q[n]
      /\ \A k \in 1..n : link[q[k]] = IF k = n THEN kNil ELSE q[k + 1]
      /\ \A k \in 1..n : back[q[k]] = IF k = 1 THEN kNil ELSE q[k - 1]
      /\ \A j, k \in 1..n : q[j] = q[k] => j = k
      /\ S = {q[k] : k \in 1..n}
  BY ThreadsFacts
<1>2. /\ \A k \in 1..n : k \in 1..n+1 /\ r[k] = q[k]
      /\ n + 1 \in 1..n+1 /\ r[n+1] = i
      /\ \A k \in 1..n+1 : k \in 1..n \/ k = n + 1
  BY <1>1
<1>3. r \in [1..n+1 -> Node]
  BY <1>1
<1> HIDE DEF r, Followed
<1>4. ASSUME NEW j \in 1..n+1, NEW k \in 1..n+1, r[j] = r[k] PROVE j = k
  <2>1. CASE j = n + 1 \/ k = n + 1
    BY <2>1, <1>1, <1>2, <1>4
  <2>2. CASE j \in 1..n /\ k \in 1..n
    <3>1. q[j] = q[k]
      BY <2>2, <1>2, <1>4
    <3>2. QED BY <2>2, <3>1, <1>1
  <2>3. QED BY <2>1, <2>2, <1>2
<1>5. S \cup {i} = {r[k] : k \in 1..n+1}
  BY <1>1, <1>2
<1>6. (last = kNil) <=> (n = 0)
  BY <1>1
<1>7. first2 = r[1]
  <2>1. CASE n = 0
    BY <2>1, <1>2, <1>6
  <2>2. CASE n # 0
    <3>1. 1 \in 1..n
      BY <2>2, <1>1
    <3>2. QED BY <2>2, <3>1, <1>1, <1>2, <1>6
  <2>3. QED BY <2>1, <2>2
<1>8. link2[i] = kNil /\ back2[i] = last
  BY <1>6
<1>9. ASSUME NEW k \in 1..n+1 PROVE link2[r[k]] = IF k = n + 1 THEN kNil ELSE r[k+1]
  <2>1. CASE k = n + 1
    BY <2>1, <1>2, <1>8
  <2>2. CASE k = n
    <3>1. n \in 1..n /\ n # 0 /\ last = q[n] /\ last # kNil /\ last # i /\ last \in Node
      BY <2>2, <1>1
    <3>2. link2[last] = i
      BY <3>1
    <3>3. QED BY <2>2, <3>1, <3>2, <1>1, <1>2
  <2>3. CASE k # n /\ k # n + 1
    <3>1. k \in 1..n /\ k + 1 \in 1..n /\ n \in 1..n /\ n # 0
      BY <2>3, <1>1
    <3>2. last = q[n] /\ q[k] # last /\ q[k] # i /\ q[k] \in Node
      BY <2>3, <3>1, <1>1
    <3>3. link2[q[k]] = link[q[k]]
      BY <3>2
    <3>4. QED BY <2>3, <3>1, <3>3, <1>1, <1>2
  <2>4. QED BY <2>1, <2>2, <2>3
<1>10. ASSUME NEW k \in 1..n+1 PROVE back2[r[k]] = IF k = 1 THEN kNil ELSE r[k-1]
  <2>1. CASE k = n + 1
    <3>1. CASE n = 0
      BY <2>1, <3>1, <1>1, <1>2, <1>8
    <3>2. CASE n # 0
      <4>1. n \in 1..n /\ k - 1 = n /\ k # 1
        BY <2>1, <3>2, <1>1
      <4>2. QED BY <2>1, <3>2, <4>1, <1>1, <1>2, <1>8
    <3>3. QED BY <3>1, <3>2
  <2>2. CASE k # n + 1
    <3>1. k \in 1..n /\ (k = 1 \/ k - 1 \in 1..n)
      BY <2>2, <1>1
    <3>2. back2[q[k]] = back[q[k]]
      BY <3>1, <1>1
    <3>3. QED BY <3>1, <3>2, <1>1, <1>2
  <2>3. QED BY <2>1, <2>2
<1>11. n + 1 \in Nat /\ n + 1 # 0
  BY <1>1
<1>12. Reads(r, n + 1, S \cup {i}, r[1], link2)
  BY <1>3, <1>4, <1>5, <1>9, <1>11 DEF Reads
<1>13. Threads(r, n + 1, S \cup {i}, r[1], i, link2, back2)
  BY <1>2, <1>10, <1>11, <1>12 DEF Threads
<1>14. QED BY <1>7, <1>13 DEF r

\* A node in the middle leaves: its neighbours are linked to each other.
LEMMA ThreadsSpliced ==
  ASSUME NEW q, NEW n, NEW S, NEW first, NEW last, NEW link, NEW back,
         Threads(q, n, S, first, last, link, back),
         link \in [Node -> NodeOrNil], back \in [Node -> NodeOrNil],
         NEW m \in 1..n
  PROVE  LET i == q[m]
             p == back[i]
             x == link[i]
         IN Threads(Without(q, n, m), n - 1, S \ {i}, NewEnd(first, p, x), NewEnd(last, x, p),
                    Relinked(link, p, x), Relinked(back, x, p))
<1> DEFINE i == q[m]
           p == back[i]
           x == link[i]
           first2 == NewEnd(first, p, x)
           last2 == NewEnd(last, x, p)
           link2 == Relinked(link, p, x)
           back2 == Relinked(back, x, p)
<1> DEFINE r == Without(q, n, m)
<1> USE DEF Without, Relinked, NewEnd
<1>1. /\ m \in Nat
      /\ n \in Nat /\ \A k \in 1..n : q[k] \in Node /\ q[k] # kNil
      /\ first = IF n = 0 THEN kNil ELSE q[1]
      /\ last = IF n = 0 THEN kNil ELSE q[n]
      /\ \A k \in 1..n : link[q[k]] = IF k = n THEN kNil ELSE q[k + 1]
      /\ \A k \in 1..n : back[q[k]] = IF k = 1 THEN kNil ELSE q[k - 1]
      /\ \A j, k \in 1..n : q[j] = q[k] => j = k
      /\ S = {q[k] : k \in 1..n}
  BY ThreadsFacts
<1>2. /\ \A k \in 1..n-1 : k < m => k \in 1..n /\ r[k] = q[k]
      /\ \A k \in 1..n-1 : ~(k < m) => k + 1 \in 1..n /\ r[k] = q[k + 1]
  BY <1>1
<1>3. r \in [1..n-1 -> Node]
  BY <1>1
<1> HIDE DEF r, Without
<1>4. \A j, k \in 1..n-1 : r[j] = r[k] => j = k
  <2> SUFFICES ASSUME NEW j \in 1..n-1, NEW k \in 1..n-1, r[j] = r[k] PROVE j = k
    OBVIOUS
  <2>1. CASE j < m /\ k < m
    BY <2>1, <1>1, <1>2
  <2>2. CASE j < m /\ ~(k < m)
    <3>1. j = k + 1
      BY <2>2, <1>1, <1>2
    <3>2. QED BY <2>2, <3>1, <1>1
  <2>3. CASE ~(j < m) /\ k < m
    <3>1. j + 1 = k
      BY <2>3, <1>1, <1>2
    <3>2. QED BY <2>3, <3>1, <1>1
  <2>4. CASE ~(j < m) /\ ~(k < m)
    <3>1. j + 1 = k + 1
      BY <2>4, <1>1, <1>2
    <3>2. QED BY <3>1
  <2>5. QED BY <2>1, <2>2, <2>3, <2>4
<1>5. S \ {i} = {r[k] : k \in 1..n-1}
  <2>1. ASSUME NEW y \in S \ {i} PROVE \E k \in 1..n-1 : y = r[k]
    <3>1. PICK j \in 1..n : y = q[j]
      BY <1>1
    <3>2. j # m
      BY <3>1
    <3>3. CASE j < m
      <4>1. j \in 1..n-1
        BY <3>3, <1>1
      <4>2. QED BY <3>1, <3>3, <4>1, <1>2
    <3>4. CASE j > m
      <4>1. j - 1 \in 1..n-1 /\ ~(j - 1 < m) /\ (j - 1) + 1 = j
        BY <3>4, <1>1
      <4>2. QED BY <3>1, <4>1, <1>2
    <3>5. QED BY <3>2, <3>3, <3>4, <1>1
  <2>2. ASSUME NEW k \in 1..n-1 PROVE r[k] \in S \ {i}
    <3>1. CASE k < m
      <4>1. r[k] = q[k] /\ k \in 1..n /\ k # m
        BY <3>1, <1>1, <1>2
      <4>2. QED BY <4>1, <1>1
    <3>2. CASE ~(k < m)
      <4>1. r[k] = q[k + 1] /\ k + 1 \in 1..n /\ k + 1 # m
        BY <3>2, <1>1, <1>2
      <4>2. QED BY <4>1, <1>1
    <3>3. QED BY <3>1, <3>2
  <2>3. QED BY <2>1, <2>2
<1>6. /\ p = IF m = 1 THEN kNil ELSE q[m - 1]
      /\ x = IF m = n THEN kNil ELSE q[m + 1]
      /\ m # 1 => m - 1 \in 1..n
      /\ m # n => m + 1 \in 1..n
      /\ 1 \in 1..n /\ n \in 1..n /\ n # 0
  BY <1>1
<1>7. ((p = kNil) <=> (m = 1)) /\ ((x = kNil) <=> (m = n))
  BY <1>1, <1>6
<1>8. first2 = IF n - 1 = 0 THEN kNil ELSE r[1]
  <2>1. CASE n = 1
    BY <2>1, <1>1, <1>6, <1>7
  <2>2. CASE n # 1
    <3>1. 1 \in 1..n-1 /\ n - 1 # 0
      BY <2>2, <1>1, <1>6
    <3>2. CASE m = 1
      <4>1. ~(1 < m) /\ 1 + 1 = m + 1
        BY <3>2
      <4>2. QED BY <2>2, <3>1, <3>2, <4>1, <1>2, <1>6, <1>7
    <3>3. CASE m # 1
      <4>1. 1 < m
        BY <3>3, <1>1
      <4>2. QED BY <3>1, <3>3, <4>1, <1>1, <1>2, <1>6, <1>7
    <3>4. QED BY <3>2, <3>3
  <2>3. QED BY <2>1, <2>2
<1>9. last2 = IF n - 1 = 0 THEN kNil ELSE r[n-1]
  <2>1. CASE n = 1
    BY <2>1, <1>1, <1>6, <1>7
  <2>2. CASE n # 1
    <3>1. n - 1 \in 1..n-1 /\ n - 1 # 0 /\ (n - 1) + 1 = n
      BY <2>2, <1>1, <1>6
    <3>2. CASE m = n
      <4>1. n - 1 < m /\ m # 1
        BY <2>2, <3>2, <1>1
      <4>2. QED BY <3>1, <3>2, <4>1, <1>2, <1>6, <1>7
    <3>3. CASE m # n
      <4>1. ~(n - 1 < m)
        BY <3>3, <1>1
      <4>2. QED BY <3>1, <3>3, <4>1, <1>1, <1>2, <1>6, <1>7
    <3>4. QED BY <3>2, <3>3
  <2>3. QED BY <2>1, <2>2
<1>10. ASSUME NEW k \in 1..n-1 PROVE link2[r[k]] = IF k = n - 1 THEN kNil ELSE r[k + 1]
  <2>1. CASE k = m - 1
    <3>1. m # 1 /\ p = q[k] /\ r[k] = p /\ p \in Node /\ p # kNil
      BY <2>1, <1>1, <1>2, <1>6
    <3>2. link2[p] = x
      BY <3>1
    <3>3. CASE k = n - 1
      BY <2>1, <3>1, <3>2, <3>3, <1>1, <1>6
    <3>4. CASE k # n - 1
      <4>1. k + 1 \in 1..n-1 /\ ~(k + 1 < m) /\ (k + 1) + 1 = m + 1 /\ m # n
        BY <2>1, <3>4, <1>1
      <4>2. r[k + 1] = q[m + 1]
        BY <4>1, <1>2
      <4>3. QED BY <3>1, <3>2, <3>4, <4>1, <4>2, <1>6
    <3>5. QED BY <3>3, <3>4
  <2>2. CASE k # m - 1
    <3>1. ASSUME NEW j \in 1..n, j # m - 1 PROVE link2[q[j]] = link[q[j]]
      <4>1. p # kNil => q[j] # p
        BY <3>1, <1>1, <1>6, <1>7
      <4>2. QED BY <4>1, <1>1
    <3>2. CASE k < m
      <4>1. /\ r[k] = q[k] /\ k \in 1..n /\ k + 1 < m /\ k # n /\ k # n - 1
            /\ k + 1 \in 1..n-1
        BY <2>2, <3>2, <1>1, <1>2
      <4>2. r[k + 1] = q[k + 1]
        BY <4>1, <1>2
      <4>3. link2[q[k]] = q[k + 1]
        BY <2>2, <3>1, <4>1, <1>1
      <4>4. QED BY <4>1, <4>2, <4>3
    <3>3. CASE ~(k < m)
      <4>1. r[k] = q[k + 1] /\ k + 1 \in 1..n /\ k + 1 # m - 1
        BY <3>3, <1>1, <1>2
      <4>2. link2[r[k]] = IF k + 1 = n THEN kNil ELSE q[(k + 1) + 1]
        BY <3>1, <4>1, <1>1
      <4>3. CASE k = n - 1
        BY <4>2, <4>3, <1>1
      <4>4. CASE k # n - 1
        <5>1. k + 1 \in 1..n-1 /\ ~(k + 1 < m) /\ k + 1 # n
          BY <3>3, <4>4, <1>1
        <5>2. QED BY <4>2, <4>4, <5>1, <1>2
      <4>5. QED BY <4>3, <4>4
    <3>4. QED BY <3>2, <3>3
  <2>3. QED BY <2>1, <2>2
<1>11. ASSUME NEW k \in 1..n-1 PROVE back2[r[k]] = IF k = 1 THEN kNil ELSE r[k - 1]
  <2>1. CASE k = m
    <3>1. m # n /\ x = q[m + 1] /\ r[k] = x /\ x \in Node /\ x # kNil
      BY <2>1, <1>1, <1>2, <1>6
    <3>2. back2[x] = p
      BY <3>1
    <3>3. CASE k = 1
      BY <2>1, <3>1, <3>2, <3>3, <1>6
    <3>4. CASE k # 1
      <4>1. k - 1 \in 1..n-1 /\ k - 1 < m
        BY <2>1, <3>4, <1>1
      <4>2. r[k - 1] = q[m - 1]
        BY <2>1, <4>1, <1>2
      <4>3. QED BY <2>1, <3>1, <3>2, <3>4, <4>2, <1>6
    <3>5. QED BY <3>3, <3>4
  <2>2. CASE k # m
    <3>1. ASSUME NEW j \in 1..n, j # m + 1 PROVE back2[q[j]] = back[q[j]]
      <4>1. x # kNil => q[j] # x
        BY <3>1, <1>1, <1>6, <1>7
      <4>2. QED BY <4>1, <1>1
    <3>2. CASE k < m
      <4>1. /\ r[k] = q[k] /\ k \in 1..n /\ k # m + 1
            /\ k # 1 => k - 1 \in 1..n-1 /\ k - 1 < m
        BY <2>2, <3>2, <1>1, <1>2
      <4>2. k # 1 => r[k - 1] = q[k - 1]
        BY <4>1, <1>2
      <4>3. QED BY <3>1, <4>1, <4>2, <1>1
    <3>3. CASE k > m
      <4>1. /\ r[k] = q[k + 1] /\ k + 1 \in 1..n /\ k + 1 # m + 1 /\ k + 1 # 1 /\ k # 1
            /\ k - 1 \in 1..n-1 /\ ~(k - 1 < m) /\ (k - 1) + 1 = k /\ (k + 1) - 1 = k
        BY <3>3, <1>1, <1>2
      <4>2. back2[r[k]] = q[k]
        BY <3>1, <4>1, <1>1
      <4>3. r[k - 1] = q[k]
        BY <4>1, <1>2
      <4>4. QED BY <4>1, <4>2, <4>3
    <3>4. QED BY <2>2, <3>2, <3>3, <1>1
  <2>3. QED BY <2>1, <2>2
<1>12. n - 1 \in Nat
  BY <1>1, <1>6
<1>13. Reads(r, n - 1, S \ {i}, first2, link2)
  BY <1>3, <1>4, <1>5, <1>8, <1>10, <1>12 DEF Reads
<1>14. Threads(r, n - 1, S \ {i}, first2, last2, link2, back2)
  BY <1>9, <1>11, <1>13 DEF Threads
<1>15. QED BY <1>14 DEF r

\* The free list gives its first node away ...
LEMMA ReadsPopped ==
  ASSUME NEW q, NEW n, NEW S, NEW first, NEW link,
         Reads(q, n, S, first, link), first # kNil
  PROVE  /\ first \in S
         /\ Reads(Shortened(q, n), n - 1, S \ {first}, link[first], link)
<1> DEFINE r == Shortened(q, n)
<1> USE DEF Shortened
<1>1. /\ n \in Nat /\ n # 0 /\ 1 \in 1..n /\ n - 1 \in Nat /\ first = q[1]
      /\ \A k \in 1..n : q[k] \in Node
      /\ \A k \in 1..n : link[q[k]] = IF k = n THEN kNil ELSE q[k + 1]
      /\ \A j, k \in 1..n : q[j] = q[k] => j = k
      /\ S = {q[k] : k \in 1..n}
  <2>1. n \in Nat /\ first = IF n = 0 THEN kNil ELSE q[1]
    BY DEF Reads
  <2>2. n # 0 /\ 1 \in 1..n /\ n - 1 \in Nat /\ first = q[1]
    BY <2>1
  <2>3. QED BY <2>1, <2>2 DEF Reads
<1>2. \A k \in 1..n-1 : k + 1 \in 1..n /\ r[k] = q[k + 1] /\ k + 1 # 1
  BY <1>1
<1>3. r \in [1..n-1 -> Node]
  BY <1>1
<1> HIDE DEF r, Shortened
<1>4. ASSUME NEW j \in 1..n-1, NEW k \in 1..n-1, r[j] = r[k] PROVE j = k
  <2>1. j + 1 = k + 1
    BY <1>1, <1>2, <1>4
  <2>2. QED BY <2>1
<1>5. S \ {first} = {r[k] : k \in 1..n-1}
  <2>1. ASSUME NEW y \in S \ {first} PROVE \E k \in 1..n-1 : y = r[k]
    <3>1. PICK j \in 1..n : y = q[j]
      BY <1>1
    <3>2. j # 1
      BY <3>1, <1>1
    <3>3. j - 1 \in 1..n-1 /\ (j - 1) + 1 = j
      BY <3>2, <1>1
    <3>4. QED BY <3>1, <3>3, <1>2
  <2>2. ASSUME NEW k \in 1..n-1 PROVE r[k] \in S \ {first}
    BY <1>1, <1>2
  <2>3. QED BY <2>1, <2>2
<1>6. link[first] = IF n - 1 = 0 THEN kNil ELSE r[1]
  <2>1. CASE n = 1
    BY <2>1, <1>1
  <2>2. CASE n # 1
    <3>1. 1 \in 1..n-1 /\ n - 1 # 0
      BY <2>2, <1>1
    <3>2. QED BY <2>2, <3>1, <1>1, <1>2
  <2>3. QED BY <2>1, <2>2
<1>7. ASSUME NEW k \in 1..n-1 PROVE link[r[k]] = IF k = n - 1 THEN kNil ELSE r[k + 1]
  <2>1. link[r[k]] = IF k + 1 = n THEN kNil ELSE q[(k + 1) + 1]
    BY <1>1, <1>2
  <2>2. CASE k = n - 1
    BY <2>1, <2>2, <1>1
  <2>3. CASE k # n - 1
    <3>1. k + 1 \in 1..n-1 /\ k + 1 # n
      BY <2>3, <1>1
    <3>2. QED BY <2>1, <2>3, <3>1, <1>2
  <2>4. QED BY <2>2, <2>3
<1>8. Reads(r, n - 1, S \ {first}, link[first], link)
  BY <1>1, <1>3, <1>4, <1>5, <1>6, <1>7 DEF Reads
<1>9. first \in S
  BY <1>1
<1>10. QED BY <1>8, <1>9 DEF r

\* ... and takes a freed node in front.
LEMMA ReadsPushed ==
  ASSUME NEW q, NEW n, NEW S, NEW first, NEW link,
         Reads(q, n, S, first, link), NEW i \in Node \ S, link \in [Node -> NodeOrNil]
  PROVE  Reads(Preceded(q, n, i), n + 1, S \cup {i},
               i, [link EXCEPT ![i] = first])
<1> DEFINE r == Preceded(q, n, i)
           link2 == [link EXCEPT ![i] = first]
<1> USE DEF Preceded
<1>1. /\ n \in Nat /\ n + 1 \in Nat /\ n + 1 # 0 /\ 1 \in 1..n+1
      /\ first = IF n = 0 THEN kNil ELSE q[1]
      /\ \A k \in 1..n : q[k] \in Node
      /\ \A k \in 1..n : link[q[k]] = IF k = n THEN kNil ELSE q[k + 1]
      /\ \A j, k \in 1..n : q[j] = q[k] => j = k
      /\ S = {q[k] : k \in 1..n}
  <2>1. n \in Nat
    BY DEF Reads
  <2>2. QED BY <2>1 DEF Reads
<1>2. /\ r[1] = i
      /\ \A k \in 1..n+1 : k # 1 => k - 1 \in 1..n /\ r[k] = q[k - 1]
      /\ \A k \in 1..n : k + 1 \in 1..n+1 /\ r[k + 1] = q[k]
  <2>1. ASSUME NEW k \in 1..n PROVE k + 1 \in 1..n+1 /\ r[k + 1] = q[k]
    <3>1. k + 1 \in 1..n+1 /\ k + 1 # 1 /\ (k + 1) - 1 = k
      BY <1>1
    <3>2. r[k + 1] = q[(k + 1) - 1]
      BY <3>1
    <3>3. QED BY <3>1, <3>2
  <2>2. ASSUME NEW k \in 1..n+1, k # 1 PROVE k - 1 \in 1..n /\ r[k] = q[k - 1]
    BY <2>2, <1>1
  <2>3. QED BY <2>1, <2>2, <1>1
<1>3. r \in [1..n+1 -> Node]
  BY <1>1, <1>2
<1> HIDE DEF r, Preceded
<1>4. ASSUME NEW j \in 1..n+1, NEW k \in 1..n+1, r[j] = r[k] PROVE j = k
  <2>1. CASE j = 1 \/ k = 1
    BY <2>1, <1>1, <1>2, <1>4
  <2>2. CASE j # 1 /\ k # 1
    <3>1. j - 1 = k - 1
      BY <2>2, <1>1, <1>2, <1>4
    <3>2. QED BY <3>1
  <2>3. QED BY <2>1, <2>2
<1>5. S \cup {i} = {r[k] : k \in 1..n+1}
  BY <1>1, <1>2
<1>6. ASSUME NEW k \in 1..n+1 PROVE link2[r[k]] = IF k = n + 1 THEN kNil ELSE r[k + 1]
  <2>1. CASE k = 1
    <3>1. link2[r[k]] = first
      BY <2>1, <1>2
    <3>2. CASE n = 0
      BY <2>1, <3>1, <3>2, <1>1
    <3>3. CASE n # 0
      <4>1. 1 \in 1..n /\ k # n + 1
        BY <2>1, <3>3, <1>1
      <4>2. QED BY <2>1, <3>1, <3>3, <4>1, <1>1, <1>2
    <3>4. QED BY <3>2, <3>3
  <2>2. CASE k # 1
    <3>1. k - 1 \in 1..n /\ r[k] = q[k - 1] /\ (k - 1) + 1 = k
      BY <2>2, <1>1, <1>2
    <3>2. link2[r[k]] = link[q[k - 1]]
      BY <3>1, <1>1
    <3>3. link2[r[k]] = IF k - 1 = n THEN kNil ELSE q[k]
      BY <3>1, <3>2, <1>1
    <3>4. CASE k = n + 1
      BY <3>3, <3>4, <1>1
    <3>5. CASE k # n + 1
      <4>1. k \in 1..n /\ k - 1 # n
        BY <3>5, <1>1
      <4>2. QED BY <3>3, <3>5, <4>1, <1>2
    <3>6. QED BY <3>4, <3>5
  <2>3. QED BY <2>1, <2>2
<1> HIDE DEF link2
<1>7. Reads(r, n + 1, S \cup {i}, i, link2)
  BY <1>1, <1>2, <1>3, <1>4, <1>5, <1>6 DEF Reads
<1>8. QED BY <1>7 DEF r, link2

\* The free list as reset() builds it: every node, linked to the next.
LEMMA AllFree ==
  Reads([k \in 1..MaxOrders |-> k - 1], MaxOrders, Node, 0,
        [i \in Node |-> IF i + 1 < MaxOrders THEN i + 1 ELSE kNil])
<1> DEFINE q == [k \in 1..MaxOrders |-> k - 1]
           link == [i \in Node |-> IF i + 1 < MaxOrders THEN i + 1 ELSE kNil]
<1>1. MaxOrders \in Nat \ {0} /\ Node = 0..MaxOrders-1
  BY EngineAssumption DEF Node
<1>2. \A k \in 1..MaxOrders : q[k] = k - 1 /\ k - 1 \in Node
  BY <1>1
<1>3. q \in [1..MaxOrders -> Node]
  BY <1>1
<1>4. ASSUME NEW k \in 1..MaxOrders
      PROVE  link[q[k]] = IF k = MaxOrders THEN kNil ELSE q[k + 1]
  <2>1. link[q[k]] = IF k < MaxOrders THEN k ELSE kNil
    BY <1>1, <1>2
  <2>2. CASE k = MaxOrders
    BY <2>1, <2>2, <1>1
  <2>3. CASE k # MaxOrders
    <3>1. k + 1 \in 1..MaxOrders /\ k < MaxOrders
      BY <2>3, <1>1
    <3>2. q[k + 1] = k
      BY <3>1, <1>2
    <3>3. QED BY <2>1, <2>3, <3>1, <3>2
  <2>4. QED BY <2>2, <2>3
<1>5. ASSUME NEW j \in 1..MaxOrders, NEW k \in 1..MaxOrders, q[j] = q[k] PROVE j = k
  BY <1>2, <1>5
<1>6. Node = {q[k] : k \in 1..MaxOrders}
  <2>1. ASSUME NEW i \in Node PROVE \E k \in 1..MaxOrders : i = q[k]
    <3>1. i + 1 \in 1..MaxOrders /\ (i + 1) - 1 = i
      BY <1>1
    <3>2. QED BY <3>1, <1>2
  <2>2. QED BY <2>1, <1>2
<1>7. 0 = q[1]
  BY <1>1, <1>2
<1> HIDE DEF q, link
<1>8. Reads(q, MaxOrders, Node, 0, link)
  BY <1>1, <1>3, <1>4, <1>5, <1>6, <1>7 DEF Reads
<1>9. QED BY <1>8 DEF q, link
------------------------------------------------------------------------------
(***************************************************************************)
(* The lists of the engine.                                                *)
(***************************************************************************)
\* No node serves two ids: a resting node carries the id that maps to it.
IdsMatch == \A id \in Node : idToIdx[id] # kNil => orderId[idToIdx[id]] = id

\* Every level's FIFO is a doubly linked list of exactly its resting orders.
Linked ==
  \A s \in Side, l \in Level :
    Threads(Fifo(s, l), Len(Fifo(s, l)), NodesAt(s, l), head[s][l], tail[s][l], next, prev)

\* The free list runs through exactly the nodes that no id maps to.
FreeLinked == Reads(FreeList, Len(FreeList), Node \ LiveNodes, freeHead, nextFree)

ListInv == IdsMatch /\ RestingPlaced /\ Linked /\ FreeLinked

\* The sequence of a list is the one that following its links finds.
LEMMA ChainThreads ==
  ASSUME NEW q, NEW n, NEW S, NEW first, NEW last, NEW link, NEW back,
         Threads(q, n, S, first, last, link, back)
  PROVE  LET c == Chain(first, link) IN Threads(c, Len(c), S, first, last, link, back)
<1>1. Chain(first, link) = q
  BY ChainReads DEF Threads
<1>2. n \in Nat /\ q \in [1..n -> Node]
  BY DEF Threads, Reads
<1>3. Len(q) = n
  BY <1>2
<1>4. QED BY <1>1, <1>3

LEMMA ChainIsRead ==
  ASSUME NEW q, NEW n, NEW S, NEW first, NEW link, Reads(q, n, S, first, link)
  PROVE  LET c == Chain(first, link) IN Reads(c, Len(c), S, first, link)
<1>1. Chain(first, link) = q
  BY ChainReads
<1>2. n \in Nat /\ q \in [1..n -> Node]
  BY DEF Reads
<1>3. Len(q) = n
  BY <1>2
<1>4. QED BY <1>1, <1>3

LEMMA LevelPrices ==
  /\ \A l \in Level : LevelToPrice(l) \in PriceMin..PriceMax /\ PriceToLevel(LevelToPrice(l)) = l
  /\ \A p \in PriceMin..PriceMax : PriceToLevel(p) \in Level /\ LevelToPrice(PriceToLevel(p)) = p
  BY EngineAssumption DEF Level, kLevels, LevelToPrice, PriceToLevel

\* Resting nodes are nodes, and each is on one level only.
LEMMA LiveFacts ==
  ASSUME TypeOK
  PROVE  /\ LiveNodes \subseteq Node
         /\ \A s \in Side, l \in Level : NodesAt(s, l) \subseteq LiveNodes
         /\ \A s, t \in Side, l, m \in Level :
              NodesAt(s, l) \cap NodesAt(t, m) # {} => s = t /\ l = m
<1>1. LiveNodes \subseteq Node
  BY DEF LiveNodes, TypeOK, NodeOrNil
<1>2. ASSUME NEW s \in Side, NEW t \in Side, NEW l \in Level, NEW m \in Level,
             NodesAt(s, l) \cap NodesAt(t, m) # {}
      PROVE  s = t /\ l = m
  <2>1. s = t /\ LevelToPrice(l) = LevelToPrice(m)
    BY <1>2 DEF NodesAt
  <2>2. l \in Int /\ m \in Int
    BY LevelFacts
  <2>3. QED BY <2>1, <2>2, LevelPrices
<1>3. QED BY <1>1, <1>2 DEF NodesAt

\* A resting order is on the level that its node names, under the id that
\* its node names.
LEMMA LivePlaced ==
  ASSUME TypeOK, IdsMatch, RestingPlaced, NEW i \in LiveNodes
  PROVE  /\ i \in Node /\ orderId[i] \in Node /\ idToIdx[orderId[i]] = i
         /\ orderSide[i] \in Side /\ PriceToLevel(orderPrice[i]) \in Level
         /\ i \in NodesAt(orderSide[i], PriceToLevel(orderPrice[i]))
<1>1. PICK id \in Node : i = idToIdx[id] /\ i # kNil
  BY DEF LiveNodes
<1>2. orderId[i] = id
  BY <1>1 DEF IdsMatch
<1>3. orderSide[i] \in Side /\ orderPrice[i] \in PriceMin..PriceMax
  BY <1>1 DEF RestingPlaced
<1>4. QED BY <1>1, <1>2, <1>3, LevelPrices, LiveFacts DEF NodesAt

\* Nothing that a list is made of changes.
LEMMA SameLists ==
  ASSUME ListInv, UNCHANGED <<head, tail, next, prev, freeHead, nextFree, idToIdx,
                              orderId, orderSide, orderPrice>>
  PROVE  ListInv'
<1>1. UNCHANGED LiveNodes
  BY DEF LiveNodes
<1>2. \A s \in Side, l \in Level : UNCHANGED <<NodesAt(s, l), Fifo(s, l)>>
  BY <1>1 DEF NodesAt, Fifo
<1>3. UNCHANGED FreeList
  BY DEF FreeList
<1>4. Linked'
  BY <1>2 DEF ListInv, Linked
<1>5. FreeLinked'
  BY <1>1, <1>3 DEF ListInv, FreeLinked
<1>6. IdsMatch' /\ RestingPlaced'
  BY DEF ListInv, IdsMatch, RestingPlaced
<1>7. QED BY <1>4, <1>5, <1>6 DEF ListInv

\* The lists that reset() leaves.
LEMMA EmptyList ==
  ASSUME NEW link, NEW back
  PROVE  LET c == Chain(kNil, link) IN Threads(c, Len(c), {}, kNil, kNil, link, back)
<1> DEFINE q == [k \in 1..0 |-> 0]
<1>1. 1..0 = {} /\ q \in [1..0 -> Node]
  OBVIOUS
<1>2. {q[k] : k \in 1..0} = {}
  BY <1>1
<1> HIDE DEF q
<1>3. Reads(q, 0, {}, kNil, link)
  BY <1>1, <1>2 DEF Reads
<1>4. Threads(q, 0, {}, kNil, kNil, link, back)
  BY <1>1, <1>3 DEF Threads
<1>5. QED BY <1>4, ChainThreads

LEMMA FreshFreeList ==
  LET f == [i \in Node |-> IF i + 1 < MaxOrders THEN i + 1 ELSE kNil]
      c == Chain(0, f)
  IN Reads(c, Len(c), Node, 0, f)
  BY AllFree, ChainIsRead

LEMMA InitLists == ASSUME Init PROVE ListInv
<1>1. LiveNodes = {}
  BY DEF Init, LiveNodes
<1>2. \A s \in Side, l \in Level : NodesAt(s, l) = {}
  BY <1>1 DEF NodesAt
<1>3. \A s \in Side, l \in Level : head[s][l] = kNil /\ tail[s][l] = kNil
  BY DEF Init, AllNil
<1>4. Linked
  BY <1>2, <1>3, EmptyList DEF Linked, Fifo
<1>5. FreeLinked
  BY <1>1, FreshFreeList DEF Init, FreeLinked, FreeList
<1>6. IdsMatch /\ RestingPlaced
  BY DEF Init, IdsMatch, RestingPlaced
<1>7. QED BY <1>4, <1>5, <1>6 DEF ListInv

LEMMA ResetLists == ASSUME Reset PROVE ListInv'
<1>1. LiveNodes' = {}
  BY DEF Reset, LiveNodes
<1>2. \A s \in Side, l \in Level : NodesAt(s, l)' = {}
  BY <1>1 DEF NodesAt
<1>3. \A s \in Side, l \in Level : head'[s][l] = kNil /\ tail'[s][l] = kNil
  BY DEF Reset, AllNil
<1>4. Linked'
  BY <1>2, <1>3, EmptyList DEF Linked, Fifo
<1>5. FreeLinked'
  BY <1>1, FreshFreeList DEF Reset, FreeLinked, FreeList
<1>6. IdsMatch' /\ RestingPlaced'
  BY DEF Reset, IdsMatch, RestingPlaced
<1>7. QED BY <1>4, <1>5, <1>6 DEF ListInv

\* unlink_order followed by free_order takes one node from one level to the
\* front of the free list, and touches no other level.
LEMMA LeavingNodes ==
  ASSUME TypeOK, IdsMatch, RestingPlaced, NEW side \in Side, NEW level \in Level,
         NEW i \in NodesAt(side, level), FreeOrder(orderId[i]),
         UNCHANGED <<orderId, orderSide, orderPrice>>
  PROVE  /\ LiveNodes' = LiveNodes \ {i}
         /\ \A s \in Side, l \in Level :
              NodesAt(s, l)' = IF s = side /\ l = level THEN NodesAt(s, l) \ {i} ELSE NodesAt(s, l)
<1>1. i \in LiveNodes /\ i \in Node /\ orderId[i] \in Node /\ idToIdx[orderId[i]] = i
  BY LivePlaced, LiveFacts
<1>2. idToIdx' = [idToIdx EXCEPT ![orderId[i]] = kNil] /\ idToIdx \in [Node -> NodeOrNil]
  BY DEF FreeOrder, TypeOK
<1>3. \A id \in Node : idToIdx'[id] = IF id = orderId[i] THEN kNil ELSE idToIdx[id]
  BY <1>2
<1>4. \A id \in Node : idToIdx[id] = i => id = orderId[i]
  BY <1>1, NodeFacts DEF IdsMatch
<1>5. LiveNodes' = LiveNodes \ {i}
  BY <1>1, <1>3, <1>4 DEF LiveNodes
<1>6. ASSUME NEW s \in Side, NEW l \in Level
      PROVE  NodesAt(s, l)' = IF s = side /\ l = level THEN NodesAt(s, l) \ {i} ELSE NodesAt(s, l)
  <2>1. NodesAt(s, l)' = NodesAt(s, l) \ {i}
    BY <1>5 DEF NodesAt
  <2>2. ~(s = side /\ l = level) => i \notin NodesAt(s, l)
    BY LiveFacts
  <2>3. QED BY <2>1, <2>2
<1>7. QED BY <1>5, <1>6

\* ThreadsSpliced with the node and its neighbours as given names.
LEMMA NodeSpliced ==
  \A q, n, S, first, last, link, back, i, p, x : \A m \in 1..n :
    /\ Threads(q, n, S, first, last, link, back)
    /\ link \in [Node -> NodeOrNil] /\ back \in [Node -> NodeOrNil]
    /\ i = q[m] /\ p = back[i] /\ x = link[i]
    => Threads(Without(q, n, m), n - 1, S \ {i}, NewEnd(first, p, x), NewEnd(last, x, p),
               Relinked(link, p, x), Relinked(back, x, p))
<1> TAKE q, n, S, first, last, link, back, i, p, x
<1> TAKE m \in 1..n
<1> HAVE /\ Threads(q, n, S, first, last, link, back)
         /\ link \in [Node -> NodeOrNil] /\ back \in [Node -> NodeOrNil]
         /\ i = q[m] /\ p = back[i] /\ x = link[i]
<1>1. LET j == q[m]
          y == back[j]
          z == link[j]
      IN Threads(Without(q, n, m), n - 1, S \ {j}, NewEnd(first, y, z), NewEnd(last, z, y),
                 Relinked(link, y, z), Relinked(back, z, y))
  BY ThreadsSpliced
<1>2. QED BY <1>1

\* What Splice makes of the list that it is for ...
LEMMA SplicedHere ==
  ASSUME TypeOK, Linked, NEW side \in Side, NEW level \in Level,
         NEW i \in NodesAt(side, level), Splice(side, level, i),
         NEW q, NEW n, q = Fifo(side, level), n = Len(q),
         NEW m \in 1..n, q[m] = i
  PROVE  Threads(Without(q, n, m), n - 1,
                 NodesAt(side, level) \ {i},
                 head'[side][level], tail'[side][level], next', prev')
<1> DEFINE S == NodesAt(side, level)
           p == prev[i]
           x == next[i]
<1>1. Threads(q, n, S, head[side][level], tail[side][level], next, prev)
  BY DEF Linked
<1>2. /\ next \in [Node -> NodeOrNil] /\ prev \in [Node -> NodeOrNil]
      /\ next' = Relinked(next, p, x) /\ prev' = Relinked(prev, x, p)
  BY DEF Splice, BackLinked, Relinked, TypeOK
<1>3. /\ head'[side][level] = NewEnd(head[side][level], p, x)
      /\ tail'[side][level] = NewEnd(tail[side][level], x, p)
  BY DEF Splice, NewEnd, TypeOK
<1>4. i = q[m] /\ p = prev[i] /\ x = next[i]
  OBVIOUS
<1> HIDE DEF S, p, x
<1>5. Threads(Without(q, n, m), n - 1, S \ {i},
              NewEnd(head[side][level], p, x), NewEnd(tail[side][level], x, p),
              Relinked(next, p, x), Relinked(prev, x, p))
  BY <1>1, <1>2, <1>4, NodeSpliced
<1>6. QED BY <1>2, <1>3, <1>5 DEF S

\* ... and of the others: nothing.
LEMMA SplicedElsewhere ==
  ASSUME TypeOK, Linked, NEW side \in Side, NEW level \in Level,
         NEW i \in NodesAt(side, level), Splice(side, level, i),
         NEW s \in Side, NEW l \in Level, ~(s = side /\ l = level)
  PROVE  Threads(Fifo(s, l), Len(Fifo(s, l)), NodesAt(s, l),
                 head'[s][l], tail'[s][l], next', prev')
<1> DEFINE p == prev[i]
           x == next[i]
           r == Fifo(side, level)
<1>1. /\ Threads(Fifo(s, l), Len(Fifo(s, l)), NodesAt(s, l), head[s][l], tail[s][l], next, prev)
      /\ Threads(r, Len(r), NodesAt(side, level), head[side][level], tail[side][level], next, prev)
  BY DEF Linked
<1>2. head'[s][l] = head[s][l] /\ tail'[s][l] = tail[s][l]
  BY DEF Splice, TypeOK
<1>3. (p # kNil => p \in NodesAt(side, level)) /\ (x # kNil => x \in NodesAt(side, level))
  <2> HIDE DEF r
  <2>1. /\ Len(r) \in Nat /\ NodesAt(side, level) = {r[k] : k \in 1..Len(r)}
        /\ \A k \in 1..Len(r) : next[r[k]] = IF k = Len(r) THEN kNil ELSE r[k + 1]
        /\ \A k \in 1..Len(r) : prev[r[k]] = IF k = 1 THEN kNil ELSE r[k - 1]
    BY <1>1, ThreadsFacts
  <2>2. PICK k \in 1..Len(r) : i = r[k]
    BY <2>1
  <2>3. p = (IF k = 1 THEN kNil ELSE r[k - 1]) /\ x = IF k = Len(r) THEN kNil ELSE r[k + 1]
    BY <2>1, <2>2
  <2>4. (k # 1 => k - 1 \in 1..Len(r)) /\ (k # Len(r) => k + 1 \in 1..Len(r))
    BY <2>1
  <2>5. QED BY <2>1, <2>3, <2>4
<1>4. \A j \in NodesAt(s, l) : j \in Node /\ j \notin NodesAt(side, level)
  BY LiveFacts
<1>5. /\ next \in [Node -> NodeOrNil] /\ prev \in [Node -> NodeOrNil]
      /\ next' = IF p # kNil THEN [next EXCEPT ![p] = x] ELSE next
      /\ prev' = IF x # kNil THEN [prev EXCEPT ![x] = p] ELSE prev
  BY DEF Splice, BackLinked, TypeOK
<1> HIDE DEF p, x
<1>6. \A j \in NodesAt(s, l) : next'[j] = next[j] /\ prev'[j] = prev[j]
  BY <1>3, <1>4, <1>5
<1>7. QED BY <1>1, <1>2, <1>6, ThreadsKept

LEMMA LeavingLists ==
  ASSUME TypeOK, ListInv, NEW side \in Side, NEW level \in Level,
         NEW i \in NodesAt(side, level), Splice(side, level, i), FreeOrder(orderId[i]),
         UNCHANGED <<orderId, orderSide, orderPrice>>
  PROVE  ListInv'
<1>1. IdsMatch /\ RestingPlaced /\ Linked /\ FreeLinked
  BY DEF ListInv
<1>2. /\ i \in LiveNodes /\ i \in Node /\ orderId[i] \in Node /\ idToIdx[orderId[i]] = i
      /\ i \notin Node \ LiveNodes /\ LiveNodes \subseteq Node
  BY <1>1, LivePlaced, LiveFacts
<1>3. /\ LiveNodes' = LiveNodes \ {i}
      /\ \A s \in Side, l \in Level :
           NodesAt(s, l)' = IF s = side /\ l = level THEN NodesAt(s, l) \ {i} ELSE NodesAt(s, l)
  BY <1>1, LeavingNodes
<1>4. ASSUME NEW s \in Side, NEW l \in Level
      PROVE  Threads(Fifo(s, l), Len(Fifo(s, l)), NodesAt(s, l), head[s][l], tail[s][l], next, prev)'
  <2> DEFINE q == Fifo(s, l)
             n == Len(q)
             S == NodesAt(s, l)
  <2>1. CASE s = side /\ l = level
    <3>1. Threads(q, n, S, head[s][l], tail[s][l], next, prev)
      BY <1>1 DEF Linked
    <3>2. S = {q[k] : k \in 1..n}
      BY <3>1, ThreadsFacts
    <3>3. PICK m \in 1..n : q[m] = i
      BY <2>1, <3>2
    <3> DEFINE r == Without(q, n, m)
    <3>4. Threads(r, n - 1, S \ {i}, head'[s][l], tail'[s][l], next', prev')
      BY <1>1, <2>1, <3>3, SplicedHere
    <3>5. NodesAt(s, l)' = S \ {i}
      BY <1>3, <2>1
    <3> HIDE DEF q, n, S, r
    <3>6. QED BY <3>4, <3>5, ChainThreads DEF Fifo
  <2>2. CASE ~(s = side /\ l = level)
    <3>1. Threads(q, n, S, head'[s][l], tail'[s][l], next', prev')
      BY <1>1, <2>2, SplicedElsewhere
    <3>2. NodesAt(s, l)' = S
      BY <1>3, <2>2
    <3> HIDE DEF q, n, S
    <3>3. QED BY <3>1, <3>2, ChainThreads DEF Fifo
  <2>3. QED BY <2>1, <2>2
<1>5. Linked'
  BY <1>4 DEF Linked
<1>6. FreeLinked'
  <2> DEFINE q == FreeList
  <2>1. Reads(q, Len(q), Node \ LiveNodes, freeHead, nextFree)
    BY <1>1 DEF FreeLinked
  <2>2. nextFree' = [nextFree EXCEPT ![i] = freeHead] /\ freeHead' = i
    BY <1>2 DEF FreeOrder, ChainedFree
  <2>3. (Node \ LiveNodes)' = (Node \ LiveNodes) \cup {i}
    BY <1>2, <1>3
  <2>4. nextFree \in [Node -> NodeOrNil] /\ i \in Node \ (Node \ LiveNodes)
    BY <1>2 DEF TypeOK
  <2> HIDE DEF q
  <2>5. Reads(Preceded(q, Len(q), i), Len(q) + 1,
              (Node \ LiveNodes) \cup {i}, i, [nextFree EXCEPT ![i] = freeHead])
    BY <2>1, <2>4, ReadsPushed
  <2>6. Reads(FreeList', Len(FreeList'), (Node \ LiveNodes)', freeHead', nextFree')
    BY <2>2, <2>3, <2>5, ChainIsRead DEF FreeList
  <2>7. QED BY <2>6 DEF FreeLinked
<1>7. \A id \in Node : idToIdx'[id] # kNil => idToIdx'[id] = idToIdx[id]
  BY <1>2 DEF FreeOrder, TypeOK
<1>8. IdsMatch' /\ RestingPlaced'
  BY <1>1, <1>7 DEF IdsMatch, RestingPlaced
<1>9. QED BY <1>5, <1>6, <1>8 DEF ListInv

\* A resting remainder takes the first free node to the back of its level.
LEMMA RestingNodes ==
  ASSUME TypeOK, FreeLinked, NEW side \in Side, NEW price \in PriceMin..PriceMax,
         NEW id \in Node, ~AllocFails(id), AllocOrder(id),
         orderSide' = [orderSide EXCEPT ![freeHead] = side],
         orderPrice' = [orderPrice EXCEPT ![freeHead] = price]
  PROVE  /\ freeHead \in Node /\ freeHead \notin LiveNodes
         /\ LiveNodes' = LiveNodes \cup {freeHead}
         /\ \A s \in Side, l \in Level :
              NodesAt(s, l)' = IF s = side /\ l = PriceToLevel(price)
                               THEN NodesAt(s, l) \cup {freeHead} ELSE NodesAt(s, l)
<1> DEFINE i == freeHead
<1>1. i \in Node /\ i # kNil /\ i \notin LiveNodes
  <2>1. i # kNil
    BY DEF AllocFails
  <2>2. i \in Node \ LiveNodes
    BY <2>1, ReadsPopped DEF FreeLinked
  <2>3. QED BY <2>1, <2>2
<1>2. /\ idToIdx \in [Node -> NodeOrNil] /\ idToIdx[id] = kNil
      /\ idToIdx' = [idToIdx EXCEPT ![id] = i]
  BY DEF TypeOK, AllocFails, AllocOrder
<1> HIDE DEF i
<1>3. LiveNodes' = LiveNodes \cup {i}
  <2>1. \A d \in Node : idToIdx'[d] = IF d = id THEN i ELSE idToIdx[d]
    BY <1>2
  <2>2. QED BY <1>1, <1>2, <2>1 DEF LiveNodes
<1>4. /\ orderSide \in [Node -> Side \cup {kNoSide}] /\ orderPrice \in [Node -> Int]
      /\ orderSide'[i] = side /\ orderPrice'[i] = price
      /\ \A j \in LiveNodes : orderSide'[j] = orderSide[j] /\ orderPrice'[j] = orderPrice[j]
  BY <1>1, LiveFacts DEF TypeOK, i
<1>5. ASSUME NEW s \in Side, NEW l \in Level
      PROVE  NodesAt(s, l)' = IF s = side /\ l = PriceToLevel(price)
                              THEN NodesAt(s, l) \cup {i} ELSE NodesAt(s, l)
  <2>1. (price = LevelToPrice(l)) <=> (l = PriceToLevel(price))
    BY LevelPrices
  <2>2. i \in NodesAt(s, l)' <=> s = side /\ l = PriceToLevel(price)
    BY <1>3, <1>4, <2>1 DEF NodesAt
  <2>3. \A j \in LiveNodes : j \in NodesAt(s, l)' <=> j \in NodesAt(s, l)
    BY <1>3, <1>4 DEF NodesAt
  <2>4. NodesAt(s, l)' \subseteq LiveNodes \cup {i} /\ NodesAt(s, l) \subseteq LiveNodes
    BY <1>3 DEF NodesAt
  <2>5. QED BY <1>1, <2>2, <2>3, <2>4
<1>6. QED BY <1>1, <1>3, <1>5 DEF i

\* The list that a remainder joins, and the others, which stay as they are.
LEMMA RestedLists ==
  ASSUME TypeOK, ListInv, NEW side \in Side, NEW price \in PriceMin..PriceMax,
         NEW id \in Node, NEW qty, ~AllocFails(id), AllocOrder(id),
         orderSide' = [orderSide EXCEPT ![freeHead] = side],
         orderPrice' = [orderPrice EXCEPT ![freeHead] = price],
         LinkNewOrder(side, PriceToLevel(price), freeHead, qty),
         NEW s \in Side, NEW l \in Level,
         NEW q, NEW n, q = Fifo(s, l), n = Len(q)
  PROVE  LET here == s = side /\ l = PriceToLevel(price)
         IN Threads(IF here THEN Followed(q, n, freeHead) ELSE q, IF here THEN n + 1 ELSE n,
                    NodesAt(s, l)', head'[s][l], tail'[s][l], next', prev')
<1> DEFINE i == freeHead
           level == PriceToLevel(price)
           t == tail[side][level]
           S == NodesAt(s, l)
<1>1. /\ i \in Node /\ i \notin LiveNodes
      /\ S' = IF s = side /\ l = level THEN S \cup {i} ELSE S
  BY RestingNodes DEF ListInv
<1>2. level \in Level
  BY LevelPrices
<1>3. Threads(q, n, S, head[s][l], tail[s][l], next, prev)
  BY DEF ListInv, Linked
<1>4. /\ next \in [Node -> NodeOrNil] /\ prev \in [Node -> NodeOrNil]
      /\ next' = Appended(next, t, i) /\ prev' = [prev EXCEPT ![i] = t]
  BY DEF LinkNewOrder, Appended, TypeOK
<1>5. CASE s = side /\ l = level
  <2>1. head'[s][l] = NewEnd(head[s][l], t, i) /\ tail'[s][l] = i /\ tail[s][l] = t
    BY <1>2, <1>5 DEF LinkNewOrder, NewEnd, TypeOK
  <2>2. i \in Node \ S
    BY <1>1, LiveFacts
  <2>3. S' = S \cup {i}
    BY <1>1, <1>5
  <2> HIDE DEF i, level, t, S
  <2>4. Threads(Followed(q, n, i), n + 1, S \cup {i}, NewEnd(head[s][l], tail[s][l], i), i,
                Appended(next, tail[s][l], i), [prev EXCEPT ![i] = tail[s][l]])
    BY <1>3, <1>4, <2>2, ThreadsAppended
  <2>5. QED BY <1>4, <1>5, <2>1, <2>3, <2>4 DEF i, level, S
<1>6. CASE ~(s = side /\ l = level)
  <2>1. head'[s][l] = head[s][l] /\ tail'[s][l] = tail[s][l]
    BY <1>6 DEF LinkNewOrder, TypeOK
  <2>2. S \subseteq LiveNodes /\ S \subseteq Node /\ i \notin S
    BY <1>1, LiveFacts
  <2>3. t # kNil => t \in NodesAt(side, level)
    <3>1. Threads(Fifo(side, level), Len(Fifo(side, level)), NodesAt(side, level),
                  head[side][level], t, next, prev)
      BY <1>2 DEF ListInv, Linked
    <3> HIDE DEF t
    <3> DEFINE r == Fifo(side, level)
    <3> HIDE DEF r
    <3>2. /\ t = IF Len(r) = 0 THEN kNil ELSE r[Len(r)]
          /\ Len(r) \in Nat /\ NodesAt(side, level) = {r[k] : k \in 1..Len(r)}
      BY <3>1, ThreadsFacts DEF r
    <3>3. QED BY <3>2
  <2>4. \A j \in S : j \notin NodesAt(side, level)
    BY <1>2, <1>6, LiveFacts
  <2>5. S' = S
    BY <1>1, <1>6
  <2> HIDE DEF i, level, t, S
  <2>6. \A j \in S : next'[j] = next[j] /\ prev'[j] = prev[j]
    BY <1>4, <2>2, <2>3, <2>4 DEF Appended
  <2>7. Threads(q, n, S, head'[s][l], tail'[s][l], next', prev')
    BY <1>3, <2>1, <2>6, ThreadsKept
  <2>8. QED BY <1>6, <2>5, <2>7 DEF i, level, S
<1>7. QED BY <1>5, <1>6

LEMMA RestRemainderLists == ASSUME TypeOK, ListInv, RestRemainder PROVE ListInv'
<1>1. CASE AllocFails(call.id)
  BY <1>1, SameLists DEF RestRemainder, levelVars, nodeVars, poolVars
<1>2. CASE ~AllocFails(call.id)
  <2> DEFINE i == freeHead
             side == call.side
             price == call.price
             id == call.id
  <2>1. side \in Side /\ price \in PriceMin..PriceMax /\ id \in Node
    BY DEF TypeOK
  <2>2. /\ AllocOrder(id)
        /\ orderSide' = [orderSide EXCEPT ![i] = side]
        /\ orderPrice' = [orderPrice EXCEPT ![i] = price]
        /\ orderId' = [orderId EXCEPT ![i] = id]
        /\ LinkNewOrder(side, PriceToLevel(price), i, call.remaining)
    BY <1>2 DEF RestRemainder
  <2>3. i \in Node /\ i \notin LiveNodes /\ LiveNodes' = LiveNodes \cup {i}
    BY <1>2, <2>1, <2>2, RestingNodes DEF ListInv
  <2>4. ASSUME NEW s \in Side, NEW l \in Level
        PROVE  Threads(Fifo(s, l), Len(Fifo(s, l)), NodesAt(s, l), head[s][l], tail[s][l], next, prev)'
    <3> DEFINE here == s = side /\ l = PriceToLevel(price)
               q == Fifo(s, l)
    <3>1. Threads(IF here THEN Followed(q, Len(q), i) ELSE q,
                  IF here THEN Len(q) + 1 ELSE Len(q),
                  NodesAt(s, l)', head'[s][l], tail'[s][l], next', prev')
      BY <1>2, <2>1, <2>2, RestedLists
    <3> HIDE DEF here, q
    <3>2. QED BY <3>1, ChainThreads DEF Fifo
  <2>5. FreeLinked'
    <3>1. Reads(FreeList, Len(FreeList), Node \ LiveNodes, i, nextFree) /\ i # kNil
      BY <1>2 DEF ListInv, FreeLinked, AllocFails
    <3>2. Reads(Shortened(FreeList, Len(FreeList)), Len(FreeList) - 1, (Node \ LiveNodes) \ {i},
                nextFree[i], nextFree)
      BY <3>1, ReadsPopped
    <3>3. (Node \ LiveNodes)' = (Node \ LiveNodes) \ {i}
      BY <2>3
    <3>4. freeHead' = nextFree[i] /\ nextFree' = nextFree
      BY <2>2 DEF AllocOrder, NextFree
    <3>5. QED BY <3>2, <3>3, <3>4, ChainIsRead DEF FreeLinked, FreeList
  <2>6. IdsMatch'
    <3>1. idToIdx' = [idToIdx EXCEPT ![id] = i] /\ idToIdx \in [Node -> NodeOrNil]
          /\ orderId \in [Node -> Node]
      BY <2>2 DEF AllocOrder, TypeOK
    <3>2. ASSUME NEW d \in Node, idToIdx'[d] # kNil PROVE orderId'[idToIdx'[d]] = d
      <4>1. CASE d = id
        BY <2>1, <2>2, <2>3, <3>1, <4>1
      <4>2. CASE d # id
        <5>1. idToIdx'[d] = idToIdx[d] /\ idToIdx[d] \in LiveNodes /\ idToIdx[d] # i
          BY <2>3, <3>1, <3>2, <4>2 DEF LiveNodes
        <5>2. QED BY <2>2, <3>1, <3>2, <4>2, <5>1 DEF ListInv, IdsMatch, TypeOK
      <4>3. QED BY <4>1, <4>2
    <3>3. QED BY <3>2 DEF IdsMatch
  <2>7. RestingPlaced'
    BY RestRemainderPlaced DEF ListInv
  <2>8. QED BY <2>4, <2>5, <2>6, <2>7 DEF ListInv, Linked
<1>3. QED BY <1>1, <1>2

\* The maker that the matching loop trades with rests at the best level.
LEMMA MakerRests ==
  ASSUME TypeOK, ListInv, NEW side \in Side, NEW level \in Level,
         NEW i, i = NextMaker(side, level), i # kNil
  PROVE  i \in NodesAt(side, level) /\ i \in LiveNodes /\ i \in Node
<1> DEFINE q == Fifo(side, level)
<1>1. Threads(q, Len(q), NodesAt(side, level), i, tail[side][level], next, prev)
  BY DEF ListInv, Linked, NextMaker
<1> HIDE DEF q
<1>2. /\ Len(q) \in Nat /\ i = IF Len(q) = 0 THEN kNil ELSE q[1]
      /\ \A k \in 1..Len(q) : q[k] \in NodesAt(side, level)
  BY <1>1, ThreadsFacts
<1>3. i \in NodesAt(side, level)
  BY <1>2
<1>4. QED BY <1>3, LiveFacts

LEMMA MatchStepLists == ASSUME TypeOK, ListInv, MatchStep PROVE ListInv'
<1> DEFINE side == Opposite(call.side)
           level == best[side]
           i == NextMaker(side, level)
<1>1. side \in Side /\ level \in Level
  BY DEF MatchStep, Crossing, Opposite, TypeOK, Side
<1>2. CASE i = kNil
  BY <1>2, SameLists DEF MatchStep, nodeVars, poolVars
<1>3. CASE i # kNil
  <2>1. TradeWith(side, level, i)
    BY <1>3 DEF MatchStep
  <2>2. UNCHANGED <<orderId, orderSide, orderPrice>>
    BY <2>1 DEF TradeWith
  <2>3. CASE UnlinkOrder(side, level, i) /\ FreeOrder(orderId[i])
    <3>1. Splice(side, level, i)
      BY <2>3 DEF UnlinkOrder
    <3>2. i \in NodesAt(side, level)
      BY <1>1, <1>3, MakerRests
    <3> HIDE DEF i, level, side
    <3>3. QED BY <1>1, <2>2, <2>3, <3>1, <3>2, LeavingLists
  <2>4. CASE UNCHANGED <<head, tail, occ, best, next, prev, poolVars>>
    BY <2>2, <2>4, SameLists DEF poolVars
  <2>5. QED BY <2>1, <2>3, <2>4 DEF TradeWith
<1>4. QED BY <1>2, <1>3

LEMMA CancelLists == ASSUME TypeOK, ListInv, NEW id \in Ids, Cancel(id) PROVE ListInv'
<1> DEFINE i == idToIdx[id]
<1>1. CASE ValidId(id) /\ i # kNil
  <2>1. id \in Node /\ i \in LiveNodes
    BY <1>1, EngineAssumption DEF ValidId, Node, LiveNodes
  <2>2. orderId[i] = id
    BY <1>1, <2>1 DEF ListInv, IdsMatch
  <2>3. /\ orderSide[i] \in Side /\ PriceToLevel(orderPrice[i]) \in Level
        /\ i \in NodesAt(orderSide[i], PriceToLevel(orderPrice[i]))
    BY <2>1, LivePlaced DEF ListInv
  <2>4. /\ Splice(orderSide[i], PriceToLevel(orderPrice[i]), i) /\ FreeOrder(orderId[i])
        /\ UNCHANGED <<orderId, orderPrice, orderSide>>
    BY <1>1, <2>2 DEF Cancel, UnlinkOrder
  <2> HIDE DEF i
  <2>5. QED BY <2>3, <2>4, LeavingLists
<1>2. CASE ~(ValidId(id) /\ i # kNil)
  BY <1>2, SameLists DEF Cancel, levelVars, poolVars
<1>3. QED BY <1>1, <1>2

\* ListInv is inductive next to the types.
LEMMA ListsAlways == Spec => [](TypeOK /\ ListInv)
<1>1. Init => TypeOK /\ ListInv
  BY InitType, InitLists
<1>2. TypeOK /\ ListInv /\ [Next]_engineVars => ListInv'
  <2> SUFFICES ASSUME TypeOK, ListInv, [Next]_engineVars PROVE ListInv'
    OBVIOUS
  <2>1. CASE Reset
    BY <2>1, ResetLists
  <2>2. CASE \E side \in Side, price \in Prices, qty \in Qtys, id \in Ids :
               ProcessOrder(side, price, qty, id)
    BY <2>2, SameLists DEF ProcessOrder, levelVars, nodeVars, poolVars
  <2>3. CASE \E price \in Prices, qty \in Qtys, id \in Ids : RefuseOrder(price, qty, id)
    BY <2>3, SameLists DEF RefuseOrder, levelVars, nodeVars, poolVars
  <2>4. CASE MatchStep
    BY <2>4, MatchStepLists
  <2>5. CASE RestRemainder
    BY <2>5, RestRemainderLists
  <2>6. CASE \E id \in Ids : Cancel(id)
    BY <2>6, CancelLists
  <2>7. CASE UNCHANGED engineVars
    BY <2>7, SameLists DEF engineVars, levelVars, nodeVars, poolVars
  <2>8. QED BY <2>1, <2>2, <2>3, <2>4, <2>5, <2>6, <2>7 DEF Next
<1>3. QED BY <1>1, <1>2, TypeCorrect, PTL DEF Spec

\* The FIFO of every level, read from head through next, ends at tail, agrees
\* with prev, and holds exactly the resting orders of that level, each once.
THEOREM ListsCorrect == Spec => []ListsWellFormed
<1>1. TypeOK /\ ListInv => ListsWellFormed
  <2> SUFFICES ASSUME TypeOK, ListInv, NEW s \in Side, NEW l \in Level
               PROVE  LET q == Fifo(s, l)
                      IN /\ {q[k] : k \in DOMAIN q} = NodesAt(s, l)
                         /\ Len(q) = Cardinality(NodesAt(s, l))
                         /\ tail[s][l] = IF q = <<>> THEN kNil ELSE q[Len(q)]
                         /\ \A k \in DOMAIN q : prev[q[k]] = IF k = 1 THEN kNil ELSE q[k-1]
    BY DEF ListsWellFormed
  <2> DEFINE q == Fifo(s, l)
             n == Len(q)
  <2>1. Threads(q, n, NodesAt(s, l), head[s][l], tail[s][l], next, prev)
    BY DEF ListInv, Linked
  <2> HIDE DEF q
  <2>2. q \in [1..n -> Node] /\ n \in Nat /\ DOMAIN q = 1..n
    BY <2>1 DEF Threads, Reads
  <2>3. Cardinality(NodesAt(s, l)) = n
    BY <2>1, ReadsLength DEF Threads
  <2>4. (q = <<>>) <=> (n = 0)
    <3>1. q \in Seq(Node)
      BY <2>2
    <3>2. QED BY <3>1
  <2>5. QED BY <2>1, <2>2, <2>3, <2>4, ThreadsFacts DEF q
<1>2. QED BY <1>1, ListsAlways, PTL

\* The free list holds every node that no id maps to, once, and no other:
\* no sequence of fills, cancels and resets leaks a node or frees one twice.
THEOREM FreeListCorrect == Spec => []FreeListIsComplement
<1>1. TypeOK /\ ListInv => FreeListIsComplement
  <2> SUFFICES ASSUME TypeOK, ListInv PROVE FreeListIsComplement
    OBVIOUS
  <2> DEFINE q == FreeList
             n == Len(q)
  <2>1. Reads(q, n, Node \ LiveNodes, freeHead, nextFree)
    BY DEF ListInv, FreeLinked
  <2> HIDE DEF q
  <2>2. q \in [1..n -> Node] /\ DOMAIN q = 1..n /\ Node \ LiveNodes = {q[k] : k \in 1..n}
    BY <2>1 DEF Reads
  <2>3. Cardinality(Node \ LiveNodes) = n
    BY <2>1, ReadsLength
  <2>4. QED BY <2>2, <2>3 DEF FreeListIsComplement, q
<1>2. QED BY <1>1, ListsAlways, PTL
------------------------------------------------------------------------------
(***************************************************************************)
(* Quantities: the totals of the levels and the bits that mark them, and   *)
(* the progress of the matching loop.                                      *)
(***************************************************************************)
\* Nothing rests, and nothing is matched, with no quantity.
Positive ==
  /\ \A i \in LiveNodes : orderQty[i] > 0
  /\ call.running => call.remaining > 0

\* A level's total is the sum of its orders, as far as QtyT can tell.
TotalsModulo == \A s \in Side, l \in Level : levelQty[s][l] = QtyAt(s, l) % QtyMod

QtyInv == Positive /\ TotalsModulo

LEMMA QtyFacts ==
  ASSUME TypeOK
  PROVE  /\ QtyMod \in Nat \ {0} /\ QtyMod - 1 \in Nat
         /\ \A i \in Node : orderQty[i] \in 0..QtyMod-1 /\ orderQty[i] \in Int
         /\ \A s \in Side, l \in Level :
              /\ IsFiniteSet(NodesAt(s, l)) /\ NodesAt(s, l) \subseteq Node
              /\ \A i \in NodesAt(s, l) : orderQty[i] \in Int
              /\ QtyAt(s, l) \in Int
              /\ levelQty[s][l] \in Int
<1>1. QtyMod \in Nat \ {0} /\ QtyMod - 1 \in Nat
  BY EngineAssumption
<1>2. \A i \in Node : orderQty[i] \in 0..QtyMod-1 /\ orderQty[i] \in Int
  BY <1>1 DEF TypeOK, Qty
<1>3. ASSUME NEW s \in Side, NEW l \in Level
      PROVE  /\ IsFiniteSet(NodesAt(s, l)) /\ NodesAt(s, l) \subseteq Node
             /\ \A i \in NodesAt(s, l) : orderQty[i] \in Int
             /\ QtyAt(s, l) \in Int
             /\ levelQty[s][l] \in Int
  <2>1. NodesAt(s, l) \subseteq Node
    BY LiveFacts
  <2>2. IsFiniteSet(NodesAt(s, l))
    BY <2>1, NodeFacts, FS_Subset
  <2>3. \A i \in NodesAt(s, l) : orderQty[i] \in Int
    BY <1>2, <2>1
  <2>4. QtyAt(s, l) \in Int
    BY <2>2, <2>3, SumTake DEF QtyAt
  <2>5. levelQty[s][l] \in Int
    BY <1>1 DEF TypeOK, Qty
  <2>6. QED BY <2>1, <2>2, <2>3, <2>4, <2>5
<1>4. QED BY <1>1, <1>2, <1>3

LEMMA TradedBoth ==
  ASSUME NEW a \in Qty, NEW b \in Qty, a > 0, b > 0
  PROVE  LET m == Min({a, b}) IN m \in Qty /\ m \in Int /\ m > 0 /\ m <= a /\ m <= b
<1>1. a \in Int /\ b \in Int
  BY EngineAssumption DEF Qty
<1>2. Min({a, b}) \in {a, b} /\ Min({a, b}) <= a /\ Min({a, b}) <= b
  BY <1>1, MinOfTwo
<1>3. QED BY <1>1, <1>2
------------------------------------------------------------------------------
(***************************************************************************)
(* One node leaves, shrinks or joins: what becomes of the totals.          *)
(***************************************************************************)
LEMMA LeavingTotals ==
  ASSUME TypeOK, IdsMatch, RestingPlaced, TotalsModulo,
         NEW side \in Side, NEW level \in Level, NEW i \in NodesAt(side, level),
         UnlinkOrder(side, level, i), FreeOrder(orderId[i]),
         UNCHANGED <<orderId, orderSide, orderPrice>>
  PROVE  /\ TotalsModulo'
         /\ \A j \in LiveNodes' : j \in LiveNodes /\ j # i /\ orderQty'[j] = orderQty[j]
<1>1. /\ LiveNodes' = LiveNodes \ {i}
      /\ \A s \in Side, l \in Level :
           NodesAt(s, l)' = IF s = side /\ l = level THEN NodesAt(s, l) \ {i} ELSE NodesAt(s, l)
  BY LeavingNodes
<1>2. orderQty \in [Node -> Qty] /\ orderQty' = [orderQty EXCEPT ![i] = 0] /\ i \in Node
  BY LiveFacts DEF UnlinkOrder, TypeOK
<1>3. \A j \in Node : j # i => orderQty'[j] = orderQty[j]
  BY <1>2
<1>4. ASSUME NEW s \in Side, NEW l \in Level
      PROVE  levelQty'[s][l] = QtyAt(s, l)' % QtyMod
  <2> DEFINE S == NodesAt(s, l)
  <2>1. IsFiniteSet(S) /\ S \subseteq Node /\ \A j \in S : orderQty[j] \in Int
    BY QtyFacts
  <2>2. CASE s = side /\ l = level
    <3> DEFINE T == S \ {i}
               a == SumFunctionOnSet(orderQty, T)
               b == orderQty[i]
    <3>1. IsFiniteSet(T) /\ T \subseteq Node /\ i \notin T
      BY <2>1, FS_RemoveElement
    <3>2. QtyAt(s, l) = b + a
      BY <2>1, <2>2, SumTake DEF QtyAt
    <3>3. S' = T
      BY <1>1, <2>2
    <3>4. QtyAt(s, l)' = a
      <4>1. \A j \in T : orderQty[j] = orderQty'[j]
        BY <1>3, <3>1
      <4> HIDE DEF T
      <4>2. a = SumFunctionOnSet(orderQty', T)
        BY <3>1, <4>1, SumSame
      <4>3. QED BY <3>3, <4>2 DEF QtyAt
    <3>5. levelQty[s][l] = QtyAt(s, l) % QtyMod
      BY DEF TotalsModulo
    <3>6. levelQty'[s][l] = (levelQty[s][l] - b) % QtyMod
      BY <2>2 DEF UnlinkOrder, TypeOK
    <3>7. a \in Int /\ b \in Int /\ QtyMod \in Nat \ {0} /\ QtyAt(s, l) \in Int
      <4>1. \A j \in T : orderQty[j] \in Int
        BY <2>1
      <4> HIDE DEF T
      <4>2. a \in Int
        BY <3>1, <4>1, SumTake
      <4>3. QED BY <1>2, <4>2, QtyFacts
    <3> HIDE DEF a, b, S, T
    <3>8. ((QtyAt(s, l) % QtyMod) - b) % QtyMod = (QtyAt(s, l) - b) % QtyMod
      BY <3>7, ModSub
    <3>9. QtyAt(s, l) - b = a
      BY <3>2, <3>7
    <3>10. QED BY <3>4, <3>5, <3>6, <3>8, <3>9
  <2>3. CASE ~(s = side /\ l = level)
    <3>1. i \notin S
      BY <2>3, LiveFacts
    <3>2. \A j \in S : orderQty[j] = orderQty'[j]
      BY <1>3, <2>1, <3>1
    <3>3. S' = S
      BY <1>1, <2>3
    <3>4. levelQty'[s][l] = levelQty[s][l]
      BY <2>3 DEF UnlinkOrder, TypeOK
    <3> HIDE DEF S
    <3>5. SumFunctionOnSet(orderQty, S) = SumFunctionOnSet(orderQty', S)
      BY <2>1, <3>2, SumSame
    <3>6. QED BY <3>3, <3>4, <3>5 DEF TotalsModulo, QtyAt, S
  <2>4. QED BY <2>2, <2>3
<1>5. \A j \in LiveNodes' : j \in LiveNodes /\ j # i /\ orderQty'[j] = orderQty[j]
  BY <1>1, <1>3, LiveFacts
<1>6. QED BY <1>4, <1>5 DEF TotalsModulo

\* The maker i of a trade keeps resting with less.
Shrinks(side, level, i, traded) ==
  /\ orderQty' = [orderQty EXCEPT ![i] = @ - traded]
  /\ levelQty' = [levelQty EXCEPT ![side][level] = (@ - traded) % QtyMod]
  /\ UNCHANGED <<head, tail, occ, best, next, prev, poolVars>>

LEMMA ShrinkingTotals ==
  ASSUME TypeOK, TotalsModulo, NEW side \in Side, NEW level \in Level,
         NEW i \in NodesAt(side, level), NEW traded \in Int,
         Shrinks(side, level, i, traded), UNCHANGED <<orderSide, orderPrice>>
  PROVE  /\ TotalsModulo'
         /\ LiveNodes' = LiveNodes
         /\ \A j \in LiveNodes : orderQty'[j] = IF j = i THEN orderQty[j] - traded ELSE orderQty[j]
<1>1. LiveNodes' = LiveNodes /\ \A s \in Side, l \in Level : NodesAt(s, l)' = NodesAt(s, l)
  BY DEF LiveNodes, NodesAt, Shrinks, poolVars
<1>2. i \in Node /\ LiveNodes \subseteq Node
  BY LiveFacts
<1>3. \A j \in Node : orderQty'[j] = IF j = i THEN orderQty[j] - traded ELSE orderQty[j]
  BY <1>2 DEF TypeOK, Shrinks
<1>4. ASSUME NEW s \in Side, NEW l \in Level
      PROVE  levelQty'[s][l] = QtyAt(s, l)' % QtyMod
  <2> DEFINE S == NodesAt(s, l)
  <2>1. /\ IsFiniteSet(S) /\ S \subseteq Node /\ \A j \in S : orderQty[j] \in Int
        /\ QtyAt(s, l) \in Int /\ QtyMod \in Nat \ {0}
    BY QtyFacts
  <2>2. levelQty[s][l] = QtyAt(s, l) % QtyMod
    BY DEF TotalsModulo
  <2>3. CASE s = side /\ l = level
    <3>1. /\ \A j \in S : orderQty'[j] \in Int
          /\ \A j \in S : j # i => orderQty[j] = orderQty'[j]
      BY <1>3, <2>1
    <3>2. i \in S /\ orderQty'[i] = orderQty[i] - traded
      BY <1>2, <1>3, <2>3
    <3>3. levelQty'[s][l] = (levelQty[s][l] - traded) % QtyMod
      BY <2>3 DEF TypeOK, Shrinks
    <3> HIDE DEF S
    <3>4. SumFunctionOnSet(orderQty', S) = (SumFunctionOnSet(orderQty, S) - orderQty[i]) + orderQty'[i]
      <4> DEFINE f == orderQty
                 g == orderQty'
      <4>1. /\ \A j \in S : f[j] \in Int
            /\ \A j \in S : g[j] \in Int
            /\ \A j \in S : j # i => f[j] = g[j]
        BY <2>1, <3>1
      <4> HIDE DEF f, g
      <4>2. SumFunctionOnSet(g, S) = (SumFunctionOnSet(f, S) - f[i]) + g[i]
        BY <2>1, <3>2, <4>1, SumChange
      <4>3. QED BY <4>2 DEF f, g
    <3> DEFINE a == QtyAt(s, l)
               b == orderQty[i]
               c == QtyAt(s, l)'
    <3>5. c = (a - b) + (b - traded)
      BY <1>1, <3>2, <3>4 DEF QtyAt, S
    <3>6. a \in Int /\ b \in Int
      BY <2>1, <3>2
    <3> HIDE DEF a, b, c
    <3>7. c = a - traded
      BY <3>5, <3>6
    <3>8. ((a % QtyMod) - traded) % QtyMod = (a - traded) % QtyMod
      BY <2>1, <3>6, ModSub
    <3>9. QED BY <2>2, <3>3, <3>7, <3>8 DEF a, c
  <2>4. CASE ~(s = side /\ l = level)
    <3>1. i \notin S
      BY <2>4, LiveFacts
    <3>2. \A j \in S : orderQty[j] = orderQty'[j]
      BY <1>3, <2>1, <3>1
    <3>3. levelQty'[s][l] = levelQty[s][l]
      BY <2>4 DEF TypeOK, Shrinks
    <3> HIDE DEF S
    <3>4. SumFunctionOnSet(orderQty, S) = SumFunctionOnSet(orderQty', S)
      BY <2>1, <3>2, SumSame
    <3>5. QED BY <1>1, <2>2, <3>3, <3>4 DEF QtyAt, S
  <2>5. QED BY <2>3, <2>4
<1>5. QED BY <1>1, <1>2, <1>3, <1>4 DEF TotalsModulo

LEMMA JoiningTotals ==
  ASSUME TypeOK, FreeLinked, TotalsModulo, NEW side \in Side, NEW price \in PriceMin..PriceMax,
         NEW id \in Node, NEW qty \in Qty, ~AllocFails(id), AllocOrder(id),
         orderSide' = [orderSide EXCEPT ![freeHead] = side],
         orderPrice' = [orderPrice EXCEPT ![freeHead] = price],
         orderQty' = [orderQty EXCEPT ![freeHead] = qty],
         LinkNewOrder(side, PriceToLevel(price), freeHead, qty)
  PROVE  /\ TotalsModulo'
         /\ LiveNodes' = LiveNodes \cup {freeHead}
         /\ \A j \in LiveNodes' : orderQty'[j] = IF j = freeHead THEN qty ELSE orderQty[j]
<1> DEFINE i == freeHead
           level == PriceToLevel(price)
<1>1. /\ i \in Node /\ i \notin LiveNodes /\ LiveNodes' = LiveNodes \cup {i}
      /\ \A s \in Side, l \in Level :
           NodesAt(s, l)' = IF s = side /\ l = level THEN NodesAt(s, l) \cup {i} ELSE NodesAt(s, l)
  BY RestingNodes
<1>2. \A j \in Node : orderQty'[j] = IF j = i THEN qty ELSE orderQty[j]
  BY <1>1 DEF TypeOK
<1>3. qty \in Int /\ level \in Level
  BY LevelPrices, EngineAssumption DEF Qty
<1>4. ASSUME NEW s \in Side, NEW l \in Level
      PROVE  levelQty'[s][l] = QtyAt(s, l)' % QtyMod
  <2> DEFINE S == NodesAt(s, l)
  <2>1. /\ IsFiniteSet(S) /\ S \subseteq Node /\ \A j \in S : orderQty[j] \in Int
        /\ QtyAt(s, l) \in Int /\ QtyMod \in Nat \ {0}
    BY QtyFacts
  <2>2. levelQty[s][l] = QtyAt(s, l) % QtyMod
    BY DEF TotalsModulo
  <2>3. i \notin S /\ \A j \in S : orderQty[j] = orderQty'[j]
    BY <1>1, <1>2, <2>1 DEF NodesAt
  <2>4. SumFunctionOnSet(orderQty, S) = SumFunctionOnSet(orderQty', S)
    <3> HIDE DEF S
    <3>1. QED BY <2>1, <2>3, SumSame
  <2>5. CASE s = side /\ l = level
    <3>1. levelQty'[s][l] = (levelQty[s][l] + qty) % QtyMod
      BY <2>5 DEF LinkNewOrder, TypeOK
    <3>2. S' = S \cup {i} /\ orderQty'[i] = qty
      BY <1>1, <1>2, <2>5
    <3> DEFINE g == orderQty'
    <3> HIDE DEF S
    <3>3. SumFunctionOnSet(g, S \cup {i}) = SumFunctionOnSet(g, S) + g[i]
      <4>1. (\A j \in S : g[j] \in Int) /\ g[i] \in Int
        BY <1>3, <2>1, <2>3, <3>2
      <4> HIDE DEF g, i
      <4>2. QED BY <2>1, <2>3, <4>1, SumAdd
    <3>4. QtyAt(s, l)' = QtyAt(s, l) + qty
      BY <2>4, <3>2, <3>3 DEF QtyAt, S
    <3>5. ((QtyAt(s, l) % QtyMod) + qty) % QtyMod = (QtyAt(s, l) + qty) % QtyMod
      BY <1>3, <2>1, ModAdd
    <3>6. QED BY <2>2, <3>1, <3>4, <3>5
  <2>6. CASE ~(s = side /\ l = level)
    <3>1. levelQty'[s][l] = levelQty[s][l]
      BY <2>6 DEF LinkNewOrder, TypeOK
    <3>2. S' = S
      BY <1>1, <2>6
    <3>3. QED BY <2>2, <2>4, <3>1, <3>2 DEF QtyAt
  <2>7. QED BY <2>5, <2>6
<1>5. \A j \in LiveNodes' : orderQty'[j] = IF j = i THEN qty ELSE orderQty[j]
  BY <1>1, <1>2, LiveFacts
<1>6. QED BY <1>1, <1>4, <1>5 DEF TotalsModulo

\* What the totals are made of stays as it was.
LEMMA SameTotals ==
  ASSUME TotalsModulo, UNCHANGED <<levelQty, orderQty, orderSide, orderPrice, idToIdx>>
  PROVE  TotalsModulo' /\ UNCHANGED LiveNodes
<1>1. UNCHANGED LiveNodes
  BY DEF LiveNodes
<1>2. \A s \in Side, l \in Level : UNCHANGED QtyAt(s, l)
  BY <1>1 DEF QtyAt, NodesAt
<1>3. QED BY <1>1, <1>2 DEF TotalsModulo

LEMMA EmptyTotals ==
  ASSUME NEW s \in Side, NEW l \in Level, NEW f, NEW S, S = {}
  PROVE  0 = SumFunctionOnSet(f, S) % QtyMod
<1>1. SumFunctionOnSet(f, S) = 0 /\ 0 \in 0..QtyMod-1 /\ QtyMod \in Nat \ {0}
  BY SumEmpty, EngineAssumption
<1>2. QED BY <1>1, ModSmall

LEMMA InitQty == ASSUME Init PROVE QtyInv
<1>1. LiveNodes = {} /\ ~call.running
  BY DEF Init, LiveNodes, NoCall
<1>2. \A s \in Side, l \in Level : NodesAt(s, l) = {} /\ levelQty[s][l] = 0
  BY <1>1 DEF Init, NodesAt
<1>3. TotalsModulo
  BY <1>2, EmptyTotals DEF TotalsModulo, QtyAt
<1>4. QED BY <1>1, <1>3 DEF QtyInv, Positive

LEMMA ResetQty == ASSUME Reset PROVE QtyInv'
<1>1. LiveNodes' = {} /\ ~call'.running
  BY DEF Reset, LiveNodes
<1>2. \A s \in Side, l \in Level : NodesAt(s, l)' = {} /\ levelQty'[s][l] = 0
  BY <1>1 DEF Reset, NodesAt
<1>3. TotalsModulo'
  BY <1>2, EmptyTotals DEF TotalsModulo, QtyAt
<1>4. QED BY <1>1, <1>3 DEF QtyInv, Positive

\* A trade finishes the taker or leaves some of it, and likewise the maker.
TakerTraded(traded) ==
  \/ traded = call.remaining /\ Return(TRUE)
  \/ /\ traded < call.remaining
     /\ call' = [call EXCEPT !.remaining = @ - traded] /\ UNCHANGED ok
     /\ call'.running /\ call'.remaining = call.remaining - traded

MakerTraded(side, level, i, traded) ==
  \/ traded = orderQty[i] /\ UnlinkOrder(side, level, i) /\ FreeOrder(orderId[i])
  \/ traded < orderQty[i] /\ Shrinks(side, level, i, traded)

\* The trade of one iteration is positive and no more than either order has.
LEMMA TradeFacts ==
  ASSUME TypeOK, Positive, NEW side, NEW level, NEW i \in LiveNodes, call.running,
         TradeWith(side, level, i),
         NEW traded, traded = Min({call.remaining, orderQty[i]})
  PROVE  /\ i \in Node /\ traded \in Int /\ traded > 0
         /\ traded <= call.remaining /\ traded <= orderQty[i]
         /\ call.remaining \in Int /\ orderQty[i] \in Int
         /\ TakerTraded(traded) /\ MakerTraded(side, level, i, traded)
<1>1. i \in Node /\ orderQty[i] \in Qty /\ call.remaining \in Qty
  BY LiveFacts DEF TypeOK
<1>2. orderQty[i] > 0 /\ call.remaining > 0
  BY DEF Positive
<1>3. /\ traded \in Int /\ traded > 0 /\ traded <= call.remaining /\ traded <= orderQty[i]
      /\ call.remaining \in Int /\ orderQty[i] \in Int
  BY <1>1, <1>2, TradedBoth, EngineAssumption DEF Qty
<1>4. TakerTraded(traded)
  <2>1. CASE traded = call.remaining
    BY <2>1 DEF TradeWith, TakerTraded
  <2>2. CASE traded # call.remaining
    <3>1. traded < call.remaining
      BY <1>3, <2>2
    <3>2. call' = [call EXCEPT !.remaining = @ - traded] /\ UNCHANGED ok
      BY <2>2 DEF TradeWith
    <3>3. call'.running /\ call'.remaining = call.remaining - traded
      BY <3>2 DEF TypeOK
    <3>4. QED BY <3>1, <3>2, <3>3 DEF TakerTraded
  <2>3. QED BY <2>1, <2>2
<1>5. MakerTraded(side, level, i, traded)
  <2>1. CASE traded = orderQty[i]
    BY <2>1 DEF TradeWith, MakerTraded
  <2>2. CASE traded # orderQty[i]
    <3>1. traded < orderQty[i]
      BY <1>3, <2>2
    <3>2. QED BY <2>2, <3>1 DEF TradeWith, MakerTraded, Shrinks
  <2>3. QED BY <2>1, <2>2
<1>6. QED BY <1>1, <1>3, <1>4, <1>5

\* The side and the level that an iteration of the matching loop works on.
LEMMA MatchLevel ==
  ASSUME TypeOK, MatchStep
  PROVE  /\ Opposite(call.side) \in Side /\ best[Opposite(call.side)] \in Level
         /\ best[Opposite(call.side)] # kNil /\ call.running
  BY DEF MatchStep, Crossing, Opposite, TypeOK, Side

LEMMA MatchStepQty == ASSUME TypeOK, ListInv, QtyInv, MatchStep PROVE QtyInv'
<1> DEFINE side == Opposite(call.side)
           level == best[side]
           i == NextMaker(side, level)
           traded == Min({call.remaining, orderQty[i]})
<1>1. side \in Side /\ level \in Level /\ call.running
  BY MatchLevel
<1>2. IdsMatch /\ RestingPlaced /\ Positive /\ TotalsModulo
  BY DEF ListInv, QtyInv
<1>3. CASE i = kNil
  <2>1. UNCHANGED <<levelQty, nodeVars, poolVars, call>>
    BY <1>3 DEF MatchStep
  <2>2. TotalsModulo' /\ UNCHANGED LiveNodes
    BY <1>2, <2>1, SameTotals DEF nodeVars, poolVars
  <2>3. QED BY <1>2, <2>1, <2>2 DEF QtyInv, Positive, nodeVars
<1>4. CASE i # kNil
  <2>1. TradeWith(side, level, i) /\ UNCHANGED <<orderId, orderPrice, orderSide>>
    BY <1>4 DEF MatchStep, TradeWith
  <2>2. i \in NodesAt(side, level) /\ i \in LiveNodes
    BY <1>1, <1>4, MakerRests
  <2> HIDE DEF i, level, side, traded
  <2>3. /\ i \in Node /\ traded \in Int /\ traded > 0
        /\ traded <= call.remaining /\ traded <= orderQty[i]
        /\ call.remaining \in Int /\ orderQty[i] \in Int
        /\ TakerTraded(traded) /\ MakerTraded(side, level, i, traded)
    BY <1>1, <1>2, <2>1, <2>2, TradeFacts DEF traded
  <2>4. call'.running => call'.remaining > 0
    BY <2>3 DEF TakerTraded, Return, NoCall
  <2>5. TotalsModulo' /\ \A j \in LiveNodes' : orderQty'[j] > 0
    <3>1. CASE UnlinkOrder(side, level, i) /\ FreeOrder(orderId[i])
      <4>1. /\ TotalsModulo'
            /\ \A j \in LiveNodes' : j \in LiveNodes /\ j # i /\ orderQty'[j] = orderQty[j]
        BY <1>1, <1>2, <2>1, <2>2, <3>1, LeavingTotals
      <4>2. QED BY <1>2, <4>1 DEF Positive
    <3>2. CASE traded < orderQty[i] /\ Shrinks(side, level, i, traded)
      <4>1. /\ TotalsModulo' /\ LiveNodes' = LiveNodes
            /\ \A j \in LiveNodes :
                 orderQty'[j] = IF j = i THEN orderQty[j] - traded ELSE orderQty[j]
        BY <1>1, <1>2, <2>1, <2>2, <2>3, <3>2, ShrinkingTotals
      <4>2. orderQty[i] - traded > 0
        BY <2>3, <3>2
      <4>3. QED BY <1>2, <4>1, <4>2 DEF Positive
    <3>3. QED BY <2>3, <3>1, <3>2 DEF MakerTraded
  <2>6. QED BY <2>4, <2>5 DEF QtyInv, Positive
<1>5. QED BY <1>3, <1>4

LEMMA RestRemainderQty == ASSUME TypeOK, ListInv, QtyInv, RestRemainder PROVE QtyInv'
<1>1. ~call'.running
  BY DEF RestRemainder, Return, NoCall
<1>2. Positive /\ TotalsModulo
  BY DEF QtyInv
<1>3. CASE AllocFails(call.id)
  <2>1. UNCHANGED <<levelVars, nodeVars, poolVars>>
    BY <1>3 DEF RestRemainder
  <2>2. TotalsModulo' /\ UNCHANGED <<LiveNodes, orderQty>>
    BY <1>2, <2>1, SameTotals DEF levelVars, nodeVars, poolVars
  <2>3. QED BY <1>1, <1>2, <2>2 DEF QtyInv, Positive
<1>4. CASE ~AllocFails(call.id)
  <2>1. /\ call.side \in Side /\ call.price \in PriceMin..PriceMax /\ call.id \in Node
        /\ call.remaining \in Qty /\ call.remaining > 0
    BY <1>2 DEF TypeOK, Positive, RestRemainder
  <2>2. /\ TotalsModulo'
        /\ LiveNodes' = LiveNodes \cup {freeHead}
        /\ \A j \in LiveNodes' : orderQty'[j] = IF j = freeHead THEN call.remaining ELSE orderQty[j]
    BY <1>2, <1>4, <2>1, JoiningTotals DEF RestRemainder, ListInv
  <2>3. \A j \in LiveNodes' : orderQty'[j] > 0
    BY <1>2, <2>1, <2>2 DEF Positive
  <2>4. QED BY <1>1, <2>2, <2>3 DEF QtyInv, Positive
<1>5. QED BY <1>3, <1>4

LEMMA CancelQty == ASSUME TypeOK, ListInv, QtyInv, NEW id \in Ids, Cancel(id) PROVE QtyInv'
<1> DEFINE i == idToIdx[id]
           side == orderSide[i]
           level == PriceToLevel(orderPrice[i])
<1>1. ~call'.running
  BY DEF Cancel, Return, NoCall
<1>2. IdsMatch /\ RestingPlaced /\ Positive /\ TotalsModulo
  BY DEF ListInv, QtyInv
<1>3. CASE ValidId(id) /\ i # kNil
  <2>1. id \in Node /\ i \in LiveNodes
    BY <1>3, EngineAssumption DEF ValidId, Node, LiveNodes
  <2>2. /\ orderId[i] = id /\ side \in Side /\ level \in Level /\ i \in NodesAt(side, level)
    BY <1>2, <1>3, <2>1, LivePlaced DEF IdsMatch
  <2>3. /\ UnlinkOrder(side, level, i) /\ FreeOrder(orderId[i])
        /\ UNCHANGED <<orderId, orderSide, orderPrice>>
    BY <1>3, <2>2 DEF Cancel
  <2> HIDE DEF i, side, level
  <2>4. /\ TotalsModulo'
        /\ \A j \in LiveNodes' : j \in LiveNodes /\ j # i /\ orderQty'[j] = orderQty[j]
    BY <1>2, <2>2, <2>3, LeavingTotals
  <2>5. QED BY <1>1, <1>2, <2>4 DEF QtyInv, Positive
<1>4. CASE ~(ValidId(id) /\ i # kNil)
  <2>1. TotalsModulo' /\ UNCHANGED <<LiveNodes, orderQty>>
    BY <1>2, <1>4, SameTotals DEF Cancel, levelVars, poolVars
  <2>2. QED BY <1>1, <1>2, <2>1 DEF QtyInv, Positive
<1>5. QED BY <1>3, <1>4

LEMMA ProcessOrderQty ==
  ASSUME QtyInv, NEW side, NEW price, NEW qty \in Qtys, NEW id,
         ProcessOrder(side, price, qty, id)
  PROVE  QtyInv'
<1>1. TotalsModulo' /\ UNCHANGED <<LiveNodes, orderQty>>
  BY SameTotals DEF QtyInv, ProcessOrder, levelVars, nodeVars, poolVars
<1>2. call'.remaining > 0
  BY DEF ProcessOrder, Acceptable
<1>3. QED BY <1>1, <1>2 DEF QtyInv, Positive

LEMMA RefuseOrderQty ==
  ASSUME QtyInv, NEW price, NEW qty, NEW id, RefuseOrder(price, qty, id)
  PROVE  QtyInv'
<1>1. TotalsModulo' /\ UNCHANGED <<LiveNodes, orderQty>>
  BY SameTotals DEF QtyInv, RefuseOrder, levelVars, nodeVars, poolVars
<1>2. ~call'.running
  BY DEF RefuseOrder, Return, NoCall
<1>3. QED BY <1>1, <1>2 DEF QtyInv, Positive

\* QtyInv is inductive next to the types and the lists.
EngineInv == TypeOK /\ Separated /\ ListInv /\ QtyInv

LEMMA EngineAlways == Spec => []EngineInv
<1>1. Init => QtyInv
  BY InitQty
<1>2. TypeOK /\ ListInv /\ QtyInv /\ [Next]_engineVars => QtyInv'
  <2> SUFFICES ASSUME TypeOK, ListInv, QtyInv, [Next]_engineVars PROVE QtyInv'
    OBVIOUS
  <2>1. CASE Reset
    BY <2>1, ResetQty
  <2>2. CASE \E side \in Side, price \in Prices, qty \in Qtys, id \in Ids :
               ProcessOrder(side, price, qty, id)
    BY <2>2, ProcessOrderQty
  <2>3. CASE \E price \in Prices, qty \in Qtys, id \in Ids : RefuseOrder(price, qty, id)
    BY <2>3, RefuseOrderQty
  <2>4. CASE MatchStep
    BY <2>4, MatchStepQty
  <2>5. CASE RestRemainder
    BY <2>5, RestRemainderQty
  <2>6. CASE \E id \in Ids : Cancel(id)
    BY <2>6, CancelQty
  <2>7. CASE UNCHANGED engineVars
    <3>1. TotalsModulo' /\ UNCHANGED <<LiveNodes, orderQty, call>>
      BY <2>7, SameTotals DEF QtyInv, engineVars, levelVars, nodeVars, poolVars
    <3>2. QED BY <3>1 DEF QtyInv, Positive
  <2>8. QED BY <2>1, <2>2, <2>3, <2>4, <2>5, <2>6, <2>7 DEF Next
<1>3. QED BY <1>1, <1>2, ListsAlways, SeparatedAlways, PTL DEF Spec, EngineInv

LEMMA VacatedMarks ==
  ASSUME TypeOK, NEW side \in Side, NEW level \in Level, VacateLevel(side, level)
  PROVE  \A s \in Side : Marked(s)' = IF s = side THEN Marked(s) \ {level} ELSE Marked(s)
<1> DEFINE words == ClearOccupied(occ[side], level)
<1>1. MarkedIn(words) = Marked(side) \ {level}
  BY ClearOccupiedUnmarks DEF TypeOK, Marked
<1>2. \A s \in Side : occ'[s] = IF s = side THEN words ELSE occ[s]
  BY DEF VacateLevel, TypeOK
<1> HIDE DEF words
<1>3. QED BY <1>1, <1>2 DEF Marked, MarkedIn

\* Every iteration of the matching loop that does not end it takes from the
\* taker or vacates a marked level: the loop cannot spin, even where totals
\* wrap and a level is vacated with orders still on it.
THEOREM Progress == Spec => MatchProgress
<1> DEFINE Act == call.running /\ call'.running =>
                    \/ call'.remaining < call.remaining
                    \/ \E s \in Side : Marked(s)' # Marked(s) /\ Marked(s)' \subseteq Marked(s)
<1>1. EngineInv /\ [Next]_engineVars => [Act]_engineVars
  <2> SUFFICES ASSUME EngineInv, Next, call.running, call'.running
               PROVE  \/ call'.remaining < call.remaining
                      \/ \E s \in Side : Marked(s)' # Marked(s) /\ Marked(s)' \subseteq Marked(s)
    OBVIOUS
  <2>1. MatchStep
    BY DEF Next, Reset, ProcessOrder, RefuseOrder, RestRemainder, Cancel, Return, NoCall
  <2> DEFINE side == Opposite(call.side)
             level == best[side]
             i == NextMaker(side, level)
             traded == Min({call.remaining, orderQty[i]})
  <2>2. TypeOK /\ Separated /\ ListInv /\ Positive
    BY DEF EngineInv, QtyInv
  <2>3. side \in Side /\ level \in Level /\ level # kNil
    BY <2>1, <2>2, MatchLevel
  <2>4. CASE i = kNil
    <3>1. VacateLevel(side, level)
      BY <2>1, <2>4 DEF MatchStep
    <3>2. level \in Marked(side)
      BY <2>2, <2>3 DEF Separated, BestMarked, BestOfSide
    <3> HIDE DEF i, level, side, traded
    <3>3. PICK s \in Side, l \in Level : s = side /\ l = level
      BY <2>3
    <3>4. Marked(s)' = Marked(s) \ {l}
      BY <2>2, <3>1, <3>3, VacatedMarks
    <3>5. QED BY <3>2, <3>3, <3>4
  <2>5. CASE i # kNil
    <3>1. TradeWith(side, level, i)
      BY <2>1, <2>5 DEF MatchStep
    <3>2. i \in LiveNodes
      BY <2>2, <2>3, <2>5, MakerRests
    <3> HIDE DEF i, level, side, traded
    <3>3. /\ traded > 0 /\ traded \in Int /\ call.remaining \in Int /\ TakerTraded(traded)
      BY <2>2, <3>1, <3>2, TradeFacts DEF traded
    <3>4. call'.remaining = call.remaining - traded
      BY <3>3 DEF TakerTraded, Return, NoCall
    <3>5. QED BY <3>3, <3>4
  <2>6. QED BY <2>4, <2>5
<1>2. QED BY <1>1, EngineAlways, PTL DEF Spec, MatchProgress
------------------------------------------------------------------------------
(***************************************************************************)
(* Where no sum of quantities reaches 2^w, the totals are exact and a      *)
(* level's bit is set exactly while orders rest on it.                     *)
(***************************************************************************)
\* MaxOrders orders of this quantity still fit in QtyT.
Small(q) == q * MaxOrders < QtyMod

LEMMA SmallerIsSmall ==
  ASSUME NEW a \in Int, NEW b \in Int, a <= b, Small(b)
  PROVE  Small(a)
<1>1. MaxOrders \in Nat /\ QtyMod \in Nat
  BY EngineAssumption
<1>2. a * MaxOrders <= b * MaxOrders
  BY <1>1
<1>3. QED BY <1>1, <1>2 DEF Small

\* The total of some nodes with small quantities.
LEMMA SmallTotal ==
  ASSUME NEW S, S \subseteq Node, NEW f,
         \A i \in S : f[i] \in Int /\ f[i] > 0 /\ Small(f[i])
  PROVE  /\ SumFunctionOnSet(f, S) % QtyMod = SumFunctionOnSet(f, S)
         /\ SumFunctionOnSet(f, S) % QtyMod = 0 <=> S = {}
<1> DEFINE b == (QtyMod - 1) \div MaxOrders
           n == Cardinality(S)
           sum == SumFunctionOnSet(f, S)
<1>1. /\ MaxOrders \in Nat \ {0} /\ QtyMod \in Nat \ {0} /\ QtyMod - 1 \in Nat
      /\ IsFiniteSet(S) /\ n \in Nat /\ n <= MaxOrders
  <2>1. IsFiniteSet(S) /\ n <= Cardinality(Node)
    BY NodeFacts, FS_Subset
  <2>2. n \in Nat
    BY <2>1, FS_CardinalityType
  <2>3. QED BY <2>1, <2>2, NodeFacts, EngineAssumption
<1>2. b \in Nat /\ MaxOrders * b <= QtyMod - 1 /\ QtyMod - 1 < MaxOrders * b + MaxOrders
  <2> DEFINE x == QtyMod - 1
  <2>1. x \in Nat
    BY <1>1
  <2> HIDE DEF x
  <2>2. x \div MaxOrders \in Nat /\ x % MaxOrders \in 0..MaxOrders-1
        /\ x = MaxOrders * (x \div MaxOrders) + (x % MaxOrders)
    BY <1>1, <2>1
  <2> DEFINE y == x \div MaxOrders
             z == x % MaxOrders
             w == MaxOrders * y
  <2>3. w \in Int
    BY <1>1, <2>2
  <2> HIDE DEF y, z, w
  <2>4. w <= x /\ x < w + MaxOrders
    BY <1>1, <2>1, <2>2, <2>3 DEF y, z, w
  <2>5. QED BY <2>2, <2>4 DEF x, y, w
<1> HIDE DEF b
<1>3. ASSUME NEW i \in S PROVE f[i] \in 0..b
  <2>1. f[i] \in Int /\ f[i] > 0 /\ f[i] * MaxOrders < QtyMod
    BY DEF Small
  <2>2. ~(b < f[i])
    <3>1. SUFFICES ASSUME b < f[i] PROVE FALSE
      OBVIOUS
    <3>2. MaxOrders * b + MaxOrders <= MaxOrders * f[i]
      BY <1>1, <1>2, <2>1, <3>1, MultiplesApart
    <3>3. MaxOrders * f[i] = f[i] * MaxOrders
      BY <1>1, <2>1
    <3> DEFINE y == MaxOrders * b
               z == f[i] * MaxOrders
    <3>4. y \in Int /\ z \in Int
      BY <1>1, <1>2, <2>1
    <3> HIDE DEF y, z
    <3>5. y + MaxOrders <= z /\ z < QtyMod /\ QtyMod - 1 < y + MaxOrders
      BY <1>2, <2>1, <3>2, <3>3 DEF y, z
    <3>6. QED BY <1>1, <3>4, <3>5
  <2>3. QED BY <1>2, <2>1, <2>2
<1> HIDE DEF n
<1>4. sum \in 0..QtyMod-1
  <2>1. sum \in 0..n * b
    BY <1>1, <1>2, <1>3, SumBounds DEF n
  <2>2. n * b <= MaxOrders * b
    BY <1>1, <1>2
  <2> HIDE DEF sum
  <2> DEFINE y == n * b
             z == MaxOrders * b
  <2>3. y \in Int /\ z \in Int
    BY <1>1, <1>2
  <2> HIDE DEF y, z
  <2>4. y <= z /\ sum \in 0..y /\ z <= QtyMod - 1
    BY <1>2, <2>1, <2>2 DEF y, z
  <2>5. QED BY <1>1, <2>3, <2>4
<1>5. S = {} => sum = 0
  BY SumEmpty
<1>6. S # {} => sum # 0
  <2>1. SUFFICES ASSUME NEW i \in S PROVE sum > 0
    BY <1>4
  <2>2. f[i] > 0
    OBVIOUS
  <2>3. QED BY <1>1, <1>2, <1>3, <2>2, SumPositive
<1> HIDE DEF sum
<1>7. sum % QtyMod = sum
  BY <1>1, <1>4, ModSmall
<1>8. QED BY <1>5, <1>6, <1>7 DEF sum

\* Every quantity is small, and the bits are right.
Bounded ==
  /\ \A i \in LiveNodes : Small(orderQty[i])
  /\ call.running => Small(call.remaining)

TrackInv == Bounded /\ OccupiedIffOrders

Exact ==
  \A s \in Side, l \in Level :
    /\ levelQty[s][l] = QtyAt(s, l)
    /\ levelQty[s][l] = 0 <=> NodesAt(s, l) = {}

LEMMA TotalsExact == TypeOK /\ QtyInv /\ Bounded => Exact
<1> SUFFICES ASSUME TypeOK, Positive, TotalsModulo, Bounded, NEW s \in Side, NEW l \in Level
             PROVE  /\ levelQty[s][l] = QtyAt(s, l)
                    /\ levelQty[s][l] = 0 <=> NodesAt(s, l) = {}
  BY DEF QtyInv, Exact
<1> DEFINE S == NodesAt(s, l)
<1>1. S \subseteq Node /\ S \subseteq LiveNodes
  BY QtyFacts, LiveFacts
<1>2. \A i \in S : orderQty[i] \in Int /\ orderQty[i] > 0 /\ Small(orderQty[i])
  BY <1>1, QtyFacts DEF Positive, Bounded
<1>3. levelQty[s][l] = QtyAt(s, l) % QtyMod
  BY DEF TotalsModulo
<1> HIDE DEF S
<1>4. /\ SumFunctionOnSet(orderQty, S) % QtyMod = SumFunctionOnSet(orderQty, S)
      /\ SumFunctionOnSet(orderQty, S) % QtyMod = 0 <=> S = {}
  BY <1>1, <1>2, SmallTotal
<1>5. QED BY <1>3, <1>4 DEF QtyAt, S

\* The unlinked order was the last of its level exactly if the total says so.
LEMMA LeavingTracks ==
  ASSUME TypeOK, IdsMatch, RestingPlaced, OccupiedIffOrders,
         TypeOK', QtyInv', Bounded',
         NEW side \in Side, NEW level \in Level, NEW i \in NodesAt(side, level),
         UnlinkOrder(side, level, i), FreeOrder(orderId[i]),
         UNCHANGED <<orderId, orderSide, orderPrice>>
  PROVE  OccupiedIffOrders'
<1>1. \A s \in Side, l \in Level :
         NodesAt(s, l)' = IF s = side /\ l = level THEN NodesAt(s, l) \ {i} ELSE NodesAt(s, l)
  BY LeavingNodes
<1>2. Exact'
  BY TotalsExact, PTL
<1>3. \A s \in Side, l \in Level : l \in Marked(s) <=> NodesAt(s, l) # {}
  BY DEF OccupiedIffOrders
<1>4. NodesAt(side, level) # {} /\ level \in Marked(side)
  BY <1>3
<1>5. IF NodesAt(side, level)' = {} THEN VacateLevel(side, level) ELSE UNCHANGED occ
  <2> DEFINE left == (levelQty[side][level] - orderQty[i]) % QtyMod
  <2>1. levelQty'[side][level] = left
    BY DEF UnlinkOrder, TypeOK
  <2>2. levelQty'[side][level] = 0 <=> NodesAt(side, level)' = {}
    BY <1>2 DEF Exact
  <2>3. IF left = 0 THEN VacateLevel(side, level) ELSE UNCHANGED <<occ, best>>
    BY DEF UnlinkOrder
  <2>4. QED BY <2>1, <2>2, <2>3
<1>6. ASSUME NEW s \in Side, NEW l \in Level
      PROVE  l \in Marked(s)' <=> NodesAt(s, l)' # {}
  <2>1. CASE NodesAt(side, level)' = {}
    <3>1. Marked(s)' = IF s = side THEN Marked(s) \ {level} ELSE Marked(s)
      BY <1>5, <2>1, VacatedMarks
    <3>2. QED BY <1>1, <1>3, <2>1, <3>1
  <2>2. CASE NodesAt(side, level)' # {}
    <3>1. Marked(s)' = Marked(s)
      BY <1>5, <2>2 DEF Marked, MarkedIn
    <3>2. CASE s = side /\ l = level
      BY <1>4, <2>2, <3>1, <3>2
    <3>3. CASE ~(s = side /\ l = level)
      BY <1>1, <1>3, <3>1, <3>3
    <3>4. QED BY <3>2, <3>3
  <2>3. QED BY <2>1, <2>2
<1>7. QED BY <1>6 DEF OccupiedIffOrders, Marked, MarkedIn

\* What the bits and the orders say stays as it was.
LEMMA SameTracks ==
  ASSUME OccupiedIffOrders, UNCHANGED <<occ, orderSide, orderPrice, idToIdx>>
  PROVE  OccupiedIffOrders' /\ UNCHANGED LiveNodes
  BY DEF OccupiedIffOrders, Marked, MarkedIn, NodesAt, LiveNodes

\* A marked level has a first order: the loop never has to drop a level.
LEMMA MarkedHasMaker ==
  ASSUME TypeOK, Separated, ListInv, OccupiedIffOrders, MatchStep
  PROVE  LET side == Opposite(call.side) IN NextMaker(side, best[side]) # kNil
<1> DEFINE side == Opposite(call.side)
           level == best[side]
<1>1. side \in Side /\ level \in Level /\ level # kNil
  BY MatchLevel
<1> HIDE DEF side, level
<1>2. level \in Marked(side)
  BY <1>1 DEF Separated, BestMarked, BestOfSide, level
<1>3. NodesAt(side, level) # {}
  BY <1>1, <1>2 DEF OccupiedIffOrders
<1> DEFINE q == Fifo(side, level)
           n == Len(q)
           S == NodesAt(side, level)
           first == head[side][level]
           last == tail[side][level]
<1>4. Threads(q, n, S, first, last, next, prev)
  BY <1>1 DEF ListInv, Linked
<1> HIDE DEF q, n, S, first, last
<1>5. /\ n \in Nat /\ \A k \in 1..n : q[k] # kNil
      /\ S = {q[k] : k \in 1..n} /\ first = IF n = 0 THEN kNil ELSE q[1]
  BY <1>4, ThreadsFacts
<1>6. n # 0
  BY <1>3, <1>5 DEF S
<1>7. first # kNil
  BY <1>5, <1>6
<1>8. QED BY <1>7 DEF NextMaker, first, side, level

LEMMA MatchStepTracks ==
  ASSUME TypeOK, Separated, ListInv, QtyInv, TrackInv, MatchStep, TypeOK', QtyInv'
  PROVE  TrackInv'
<1> DEFINE side == Opposite(call.side)
           level == best[side]
           i == NextMaker(side, level)
           traded == Min({call.remaining, orderQty[i]})
<1>1. side \in Side /\ level \in Level /\ call.running
  BY MatchLevel
<1>2. IdsMatch /\ RestingPlaced /\ Positive /\ TotalsModulo /\ Bounded /\ OccupiedIffOrders
  BY DEF ListInv, QtyInv, TrackInv
<1>3. i # kNil
  BY <1>2, MarkedHasMaker
<1>4. TradeWith(side, level, i) /\ UNCHANGED <<orderId, orderPrice, orderSide>>
  BY <1>3 DEF MatchStep, TradeWith
<1>5. i \in NodesAt(side, level) /\ i \in LiveNodes
  BY <1>1, <1>3, MakerRests
<1> HIDE DEF i, level, side, traded
<1>6. /\ i \in Node /\ traded \in Int /\ traded > 0
      /\ traded <= call.remaining /\ traded <= orderQty[i]
      /\ call.remaining \in Int /\ orderQty[i] \in Int
      /\ TakerTraded(traded) /\ MakerTraded(side, level, i, traded)
  BY <1>1, <1>2, <1>4, <1>5, TradeFacts DEF traded
<1>7. call'.running => Small(call'.remaining)
  <2>1. CASE Return(TRUE)
    BY <2>1 DEF Return, NoCall
  <2>2. CASE call'.remaining = call.remaining - traded
    <3>1. call.remaining - traded \in Int /\ call.remaining - traded <= call.remaining
      BY <1>6
    <3>2. Small(call.remaining - traded)
      BY <1>1, <1>2, <1>6, <3>1, SmallerIsSmall DEF Bounded
    <3>3. QED BY <2>2, <3>2
  <2>3. QED BY <1>6, <2>1, <2>2 DEF TakerTraded
<1>8. CASE UnlinkOrder(side, level, i) /\ FreeOrder(orderId[i])
  <2>1. \A j \in LiveNodes' : j \in LiveNodes /\ j # i /\ orderQty'[j] = orderQty[j]
    BY <1>1, <1>2, <1>4, <1>5, <1>8, LeavingTotals
  <2>2. Bounded'
    BY <1>2, <1>7, <2>1 DEF Bounded, Small
  <2>3. OccupiedIffOrders'
    BY <1>1, <1>2, <1>4, <1>5, <1>8, <2>2, LeavingTracks
  <2>4. QED BY <2>2, <2>3 DEF TrackInv
<1>9. CASE traded < orderQty[i] /\ Shrinks(side, level, i, traded)
  <2>1. /\ LiveNodes' = LiveNodes
        /\ \A j \in LiveNodes :
             orderQty'[j] = IF j = i THEN orderQty[j] - traded ELSE orderQty[j]
    BY <1>1, <1>2, <1>4, <1>5, <1>6, <1>9, ShrinkingTotals
  <2>2. Small(orderQty[i] - traded)
    <3>1. orderQty[i] - traded \in Int /\ orderQty[i] - traded <= orderQty[i]
      BY <1>6
    <3>2. QED BY <1>2, <1>5, <1>6, <3>1, SmallerIsSmall DEF Bounded
  <2>3. Bounded'
    BY <1>2, <1>7, <2>1, <2>2 DEF Bounded, Small
  <2>4. OccupiedIffOrders'
    BY <1>2, <1>4, <1>9, SameTracks DEF Shrinks, poolVars
  <2>5. QED BY <2>3, <2>4 DEF TrackInv
<1>10. QED BY <1>6, <1>8, <1>9 DEF MakerTraded

LEMMA RestRemainderTracks ==
  ASSUME TypeOK, Separated, ListInv, QtyInv, TrackInv, RestRemainder
  PROVE  TrackInv'
<1>1. ~call'.running
  BY DEF RestRemainder, Return, NoCall
<1>2. Positive /\ TotalsModulo /\ Bounded /\ OccupiedIffOrders
  BY DEF QtyInv, TrackInv
<1>3. CASE AllocFails(call.id)
  <2>1. UNCHANGED <<levelVars, nodeVars, poolVars>>
    BY <1>3 DEF RestRemainder
  <2>2. OccupiedIffOrders' /\ UNCHANGED <<LiveNodes, orderQty>>
    BY <1>2, <2>1, SameTracks DEF levelVars, nodeVars, poolVars
  <2>3. QED BY <1>1, <1>2, <2>2 DEF TrackInv, Bounded
<1>4. CASE ~AllocFails(call.id)
  <2> DEFINE side == call.side
             level == PriceToLevel(call.price)
  <2>1. /\ side \in Side /\ call.price \in PriceMin..PriceMax /\ call.id \in Node
        /\ call.remaining \in Qty /\ call.remaining > 0 /\ Small(call.remaining)
        /\ level \in Level /\ FreeLinked
    BY <1>2, LevelPrices DEF TypeOK, Positive, Bounded, RestRemainder, ListInv
  <2>2. /\ LiveNodes' = LiveNodes \cup {freeHead}
        /\ \A j \in LiveNodes' : orderQty'[j] = IF j = freeHead THEN call.remaining ELSE orderQty[j]
    BY <1>2, <1>4, <2>1, JoiningTotals DEF RestRemainder
  <2>3. \A s \in Side, l \in Level :
          NodesAt(s, l)' = IF s = side /\ l = level THEN NodesAt(s, l) \cup {freeHead}
                                                    ELSE NodesAt(s, l)
    BY <1>4, <2>1, RestingNodes DEF RestRemainder
  <2>4. Bounded'
    BY <1>1, <1>2, <2>1, <2>2 DEF Bounded, Small
  <2>5. \A s \in Side : Marked(s)' = IF s = side THEN Marked(s) \cup {level} ELSE Marked(s)
    <3> DEFINE words == SetOccupied(occ[side], level)
    <3>1. MarkedIn(words) = Marked(side) \cup {level}
      BY <2>1, SetOccupiedMarks DEF TypeOK, Marked
    <3>2. \A s \in Side : occ'[s] = IF s = side THEN words ELSE occ[s]
      BY <1>4 DEF RestRemainder, LinkNewOrder, TypeOK
    <3> HIDE DEF words, side, level
    <3>3. QED BY <3>1, <3>2 DEF Marked, MarkedIn
  <2>6. \A s \in Side, l \in Level : l \in Marked(s) <=> NodesAt(s, l) # {}
    BY <1>2 DEF OccupiedIffOrders
  <2> HIDE DEF side, level
  <2>7. \A s \in Side, l \in Level : l \in Marked(s)' <=> NodesAt(s, l)' # {}
    BY <2>3, <2>5, <2>6
  <2>8. OccupiedIffOrders'
    BY <2>7 DEF OccupiedIffOrders, Marked, MarkedIn
  <2>9. QED BY <2>4, <2>8 DEF TrackInv
<1>5. QED BY <1>3, <1>4

LEMMA CancelTracks ==
  ASSUME TypeOK, ListInv, QtyInv, TrackInv, NEW id \in Ids, Cancel(id), TypeOK', QtyInv'
  PROVE  TrackInv'
<1> DEFINE i == idToIdx[id]
           side == orderSide[i]
           level == PriceToLevel(orderPrice[i])
<1>1. ~call'.running
  BY DEF Cancel, Return, NoCall
<1>2. IdsMatch /\ RestingPlaced /\ Positive /\ TotalsModulo /\ Bounded /\ OccupiedIffOrders
  BY DEF ListInv, QtyInv, TrackInv
<1>3. CASE ValidId(id) /\ i # kNil
  <2>1. id \in Node /\ i \in LiveNodes
    BY <1>3, EngineAssumption DEF ValidId, Node, LiveNodes
  <2>2. /\ orderId[i] = id /\ side \in Side /\ level \in Level /\ i \in NodesAt(side, level)
    BY <1>2, <1>3, <2>1, LivePlaced DEF IdsMatch
  <2>3. /\ UnlinkOrder(side, level, i) /\ FreeOrder(orderId[i])
        /\ UNCHANGED <<orderId, orderSide, orderPrice>>
    BY <1>3, <2>2 DEF Cancel
  <2> HIDE DEF i, side, level
  <2>4. \A j \in LiveNodes' : j \in LiveNodes /\ j # i /\ orderQty'[j] = orderQty[j]
    BY <1>2, <2>2, <2>3, LeavingTotals
  <2>5. Bounded'
    BY <1>1, <1>2, <2>4 DEF Bounded, Small
  <2>6. OccupiedIffOrders'
    BY <1>2, <2>2, <2>3, <2>5, LeavingTracks
  <2>7. QED BY <2>5, <2>6 DEF TrackInv
<1>4. CASE ~(ValidId(id) /\ i # kNil)
  <2>1. OccupiedIffOrders' /\ UNCHANGED <<LiveNodes, orderQty>>
    BY <1>2, <1>4, SameTracks DEF Cancel, levelVars, poolVars
  <2>2. QED BY <1>1, <1>2, <2>1 DEF TrackInv, Bounded
<1>5. QED BY <1>3, <1>4

LEMMA EmptyTracks ==
  /\ Init => TrackInv
  /\ TypeOK /\ Reset => TrackInv'
<1>1. ASSUME Init PROVE TrackInv
  <2>1. LiveNodes = {} /\ ~call.running /\ occ = AllClear
    BY <1>1 DEF Init, LiveNodes, NoCall
  <2>2. QED BY <2>1, AllClearBits DEF TrackInv, Bounded, OccupiedIffOrders, Marked, NodesAt
<1>2. ASSUME TypeOK, Reset PROVE TrackInv'
  <2>1. LiveNodes' = {} /\ ~call'.running /\ occ' = AllClear
    BY <1>2 DEF Reset, LiveNodes
  <2>2. \A s \in Side : Marked(s)' = {}
    BY <2>1, AllClearBits DEF Marked, MarkedIn
  <2>3. \A s \in Side, l \in Level : NodesAt(s, l)' = {}
    BY <2>1 DEF NodesAt
  <2>4. OccupiedIffOrders'
    BY <2>2, <2>3 DEF OccupiedIffOrders, Marked, MarkedIn
  <2>5. QED BY <2>1, <2>4 DEF TrackInv, Bounded
<1>3. QED BY <1>1, <1>2

LEMMA TracksAlways == ASSUME QtyFits PROVE Spec => [](EngineInv /\ TrackInv)
<1>1. Init => TrackInv
  BY EmptyTracks
<1>2. EngineInv /\ EngineInv' /\ TrackInv /\ [Next]_engineVars => TrackInv'
  <2> SUFFICES ASSUME EngineInv, EngineInv', TrackInv, [Next]_engineVars PROVE TrackInv'
    OBVIOUS
  <2>0. TypeOK /\ Separated /\ ListInv /\ QtyInv /\ TypeOK' /\ QtyInv'
    BY DEF EngineInv
  <2>1. CASE Reset
    BY <2>0, <2>1, EmptyTracks
  <2>2. ASSUME NEW side \in Side, NEW price \in Prices, NEW qty \in Qtys, NEW id \in Ids,
               ProcessOrder(side, price, qty, id)
        PROVE  TrackInv'
    <3>1. OccupiedIffOrders' /\ UNCHANGED <<LiveNodes, orderQty>>
      BY <2>2, SameTracks DEF TrackInv, ProcessOrder, levelVars, nodeVars, poolVars
    <3>2. Small(call'.remaining)
      BY <2>2 DEF ProcessOrder, QtyFits, Small
    <3>3. QED BY <3>1, <3>2 DEF TrackInv, Bounded
  <2>3. ASSUME NEW price \in Prices, NEW qty \in Qtys, NEW id \in Ids,
               RefuseOrder(price, qty, id)
        PROVE  TrackInv'
    <3>1. OccupiedIffOrders' /\ UNCHANGED <<LiveNodes, orderQty>>
      BY <2>3, SameTracks DEF TrackInv, RefuseOrder, levelVars, nodeVars, poolVars
    <3>2. ~call'.running
      BY <2>3 DEF RefuseOrder, Return, NoCall
    <3>3. QED BY <3>1, <3>2 DEF TrackInv, Bounded
  <2>4. CASE MatchStep
    BY <2>0, <2>4, MatchStepTracks
  <2>5. CASE RestRemainder
    BY <2>0, <2>5, RestRemainderTracks
  <2>6. CASE \E id \in Ids : Cancel(id)
    BY <2>0, <2>6, CancelTracks
  <2>7. CASE UNCHANGED engineVars
    <3>1. OccupiedIffOrders' /\ UNCHANGED <<LiveNodes, orderQty, call>>
      BY <2>7, SameTracks DEF TrackInv, engineVars, levelVars, nodeVars, poolVars
    <3>2. QED BY <3>1 DEF TrackInv, Bounded
  <2>8. QED BY <2>1, <2>2, <2>3, <2>4, <2>5, <2>6, <2>7 DEF Next
<1>3. QED BY <1>1, <1>2, EngineAlways, PTL DEF Spec

\* The totals, the bits and the cached best levels are what the resting orders
\* say they should be, at every iteration, as long as a full pool of the
\* largest orders fits in QtyT.
THEOREM LevelsTrack == ASSUME QtyFits PROVE Spec => []LevelsTrackOrders
<1>1. EngineInv /\ TrackInv => LevelTotals /\ OccupiedIffOrders
  BY TotalsExact DEF EngineInv, TrackInv, Exact, LevelTotals
<1>2. QED BY <1>1, TracksAlways, BestCached, PTL DEF LevelsTrackOrders
------------------------------------------------------------------------------
(***************************************************************************)
(* The price-time priority book.  The orders of a level, in the order of   *)
(* its list, are the abstract queue of its price; what an operation does   *)
(* to the list is what the abstract operation does to the queue.           *)
(***************************************************************************)
Entries == [id : Node, qty : Qty]

\* The orders at the first n nodes of q.
Orders(q, n, ids, qtys) == [k \in 1..n |-> [id |-> ids[q[k]], qty |-> qtys[q[k]]]]

LEMMA OrdersSeq ==
  ASSUME NEW n \in Nat, NEW q \in [1..n -> Node],
         NEW ids \in [Node -> Node], NEW qtys \in [Node -> Qty]
  PROVE  LET o == Orders(q, n, ids, qtys)
         IN /\ o \in Seq(Entries) /\ Len(o) = n
            /\ \A k \in 1..n : o[k] = [id |-> ids[q[k]], qty |-> qtys[q[k]]] /\ o[k] \in Entries
            /\ o = <<>> <=> n = 0
            /\ n > 0 => Head(o) = [id |-> ids[q[1]], qty |-> qtys[q[1]]]
<1> DEFINE o == Orders(q, n, ids, qtys)
<1>1. \A k \in 1..n : o[k] = [id |-> ids[q[k]], qty |-> qtys[q[k]]] /\ o[k] \in Entries
  BY DEF Orders, Entries
<1>2. o \in [1..n -> Entries]
  BY <1>1 DEF Orders
<1> HIDE DEF o
<1>3. o \in Seq(Entries) /\ Len(o) = n
  <2>1. o \in Seq(Entries)
    BY <1>2, SeqDef
  <2>2. Len(o) \in Nat /\ DOMAIN o = 1..Len(o) /\ DOMAIN o = 1..n
    BY <1>2, <2>1, LenProperties
  <2>3. n <= Len(o)
    <3>1. n # 0 => n \in 1..Len(o)
      BY <2>2
    <3>2. QED BY <2>2, <3>1
  <2>4. Len(o) <= n
    <3>1. Len(o) # 0 => Len(o) \in 1..n
      BY <2>2
    <3>2. QED BY <2>2, <3>1
  <2> DEFINE z == Len(o)
  <2>5. z \in Nat /\ n <= z /\ z <= n
    BY <2>2, <2>3, <2>4
  <2> HIDE DEF z
  <2>6. z = n
    BY <2>5
  <2>7. QED BY <2>1, <2>6 DEF z
<1>4. o = <<>> <=> n = 0
  <2>1. o # <<>> => n # 0
    BY <1>3, EmptySeq
  <2>2. o = <<>> => n = 0
    BY <1>3
  <2>3. QED BY <2>1, <2>2
<1>5. n > 0 => Head(o) = o[1]
  BY <1>3
<1>6. QED BY <1>1, <1>3, <1>4, <1>5 DEF o

\* Two sequences of orders with the same orders are the same.
LEMMA OrdersAre ==
  ASSUME NEW n \in Nat, NEW q \in [1..n -> Node],
         NEW ids \in [Node -> Node], NEW qtys \in [Node -> Qty],
         NEW s \in Seq(Entries), Len(s) = n,
         \A k \in 1..n : s[k] = [id |-> ids[q[k]], qty |-> qtys[q[k]]]
  PROVE  s = Orders(q, n, ids, qtys)
<1> DEFINE o == Orders(q, n, ids, qtys)
<1>1. LET x == Orders(q, n, ids, qtys)
      IN /\ x \in Seq(Entries) /\ Len(x) = n
         /\ \A k \in 1..n : x[k] = [id |-> ids[q[k]], qty |-> qtys[q[k]]] /\ x[k] \in Entries
         /\ x = <<>> <=> n = 0
         /\ n > 0 => Head(x) = [id |-> ids[q[1]], qty |-> qtys[q[1]]]
  BY OrdersSeq
<1> HIDE DEF o
<1>2. o \in Seq(Entries) /\ Len(o) = n /\ \A k \in 1..n : s[k] = o[k]
  BY <1>1 DEF o
<1>3. s = o
  BY <1>2, SeqEqual
<1>4. QED BY <1>3 DEF o

\* The part of a sequence from a to b.
LEMMA Slice ==
  ASSUME NEW S, NEW s, NEW a \in Int, NEW b \in Int, \A k \in a..b : s[k] \in S
  PROVE  LET t == SubSeq(s, a, b)
         IN /\ t \in Seq(S) /\ Len(t) = IF a <= b THEN (b - a) + 1 ELSE 0
            /\ \A k \in 1..(b - a) + 1 : t[k] = s[(a + k) - 1]
<1>1. /\ SubSeq(s, a, b) \in Seq(S)
      /\ Len(SubSeq(s, a, b)) = IF a <= b THEN b - a + 1 ELSE 0
      /\ \A k \in 1..b - a + 1 : SubSeq(s, a, b)[k] = s[a + k - 1]
  BY SubSeqProperties
<1>2. b - a + 1 = (b - a) + 1
  OBVIOUS
<1>3. ASSUME NEW k \in 1..(b - a) + 1 PROVE SubSeq(s, a, b)[k] = s[(a + k) - 1]
  <2>1. a + k - 1 = (a + k) - 1 /\ k \in 1..b - a + 1
    BY <1>2
  <2>2. QED BY <1>1, <2>1
<1>4. QED BY <1>1, <1>2, <1>3

\* A queue without its m-th order.
Cut(o, m) == SubSeq(o, 1, m - 1) \o SubSeq(o, m + 1, Len(o))

\* The queue that loses its m-th order.
LEMMA OrdersWithout ==
  ASSUME NEW n \in Nat, NEW q \in [1..n -> Node], NEW m \in 1..n,
         NEW ids \in [Node -> Node], NEW qtys \in [Node -> Qty], NEW less \in [Node -> Qty],
         \A k \in 1..n : k # m => less[q[k]] = qtys[q[k]]
  PROVE  Orders(Without(q, n, m), n - 1, ids, less) = Cut(Orders(q, n, ids, qtys), m)
<1> DEFINE o == Orders(q, n, ids, qtys)
           r == Without(q, n, m)
           a == SubSeq(o, 1, m - 1)
           b == SubSeq(o, m + 1, Len(o))
<1>1. /\ o \in Seq(Entries) /\ Len(o) = n
      /\ \A k \in 1..n : o[k] = [id |-> ids[q[k]], qty |-> qtys[q[k]]] /\ o[k] \in Entries
  BY OrdersSeq
<1> HIDE DEF o
<1>2. /\ m \in Int /\ n \in Int /\ 1 <= m /\ m <= n /\ n - 1 \in Nat
  OBVIOUS
<1>3. a \in Seq(Entries) /\ Len(a) = m - 1 /\ \A k \in 1..m-1 : a[k] = o[k]
  <2> DEFINE y == m - 1
  <2>1. y \in Int /\ 1 \in Int /\ \A k \in 1..y : o[k] \in Entries
    BY <1>1, <1>2
  <2> HIDE DEF y
  <2>2. /\ SubSeq(o, 1, y) \in Seq(Entries)
        /\ Len(SubSeq(o, 1, y)) = IF 1 <= y THEN (y - 1) + 1 ELSE 0
        /\ \A k \in 1..(y - 1) + 1 : SubSeq(o, 1, y)[k] = o[(1 + k) - 1]
    BY <2>1, Slice
  <2>3. ASSUME NEW k \in 1..y PROVE SubSeq(o, 1, y)[k] = o[k]
    <3>1. k \in 1..(y - 1) + 1 /\ (1 + k) - 1 = k
      BY <2>1
    <3>2. QED BY <2>2, <3>1
  <2>4. Len(SubSeq(o, 1, y)) = y
    BY <1>2, <2>1, <2>2 DEF y
  <2>5. QED BY <2>2, <2>3, <2>4 DEF y
<1>4. b \in Seq(Entries) /\ Len(b) = n - m /\ \A k \in 1..n-m : b[k] = o[m + k]
  <2> DEFINE y == m + 1
  <2>1. y \in Int /\ n \in Int /\ \A k \in y..n : o[k] \in Entries
    <3>1. \A k \in y..n : k \in 1..n
      BY <1>2
    <3>2. QED BY <1>1, <1>2, <3>1
  <2>2. y = m + 1
    OBVIOUS
  <2> HIDE DEF y
  <2>3. /\ SubSeq(o, y, n) \in Seq(Entries)
        /\ Len(SubSeq(o, y, n)) = IF y <= n THEN (n - y) + 1 ELSE 0
        /\ \A k \in 1..(n - y) + 1 : SubSeq(o, y, n)[k] = o[(y + k) - 1]
    BY <2>1, Slice
  <2>4. ASSUME NEW k \in 1..n-m PROVE SubSeq(o, y, n)[k] = o[m + k]
    <3>1. k \in 1..(n - y) + 1 /\ (y + k) - 1 = m + k
      BY <1>2, <2>2
    <3>2. QED BY <2>3, <3>1
  <2>5. Len(SubSeq(o, y, n)) = n - m
    BY <1>2, <2>2, <2>3
  <2>6. QED BY <1>1, <2>2, <2>3, <2>4, <2>5
<1> HIDE DEF a, b
<1>5. /\ a \o b \in Seq(Entries) /\ Len(a \o b) = n - 1
      /\ \A k \in 1..n-1 : (a \o b)[k] = IF k <= m - 1 THEN a[k] ELSE b[k - (m - 1)]
  <2>1. /\ a \o b \in Seq(Entries) /\ Len(a \o b) = Len(a) + Len(b)
        /\ \A k \in 1..Len(a) + Len(b) :
             (a \o b)[k] = IF k <= Len(a) THEN a[k] ELSE b[k - Len(a)]
    <3>1. a \in Seq(Entries) /\ b \in Seq(Entries)
      BY <1>3, <1>4
    <3>2. QED BY ONLY <3>1, ConcatProperties
  <2>2. Len(a) + Len(b) = n - 1
    BY <1>2, <1>3, <1>4
  <2>3. QED BY <1>3, <2>1, <2>2
<1>6. r \in [1..n-1 -> Node]
  BY <1>2 DEF Without
<1>7. ASSUME NEW k \in 1..n-1
      PROVE  (a \o b)[k] = [id |-> ids[r[k]], qty |-> less[r[k]]]
  <2>1. CASE k < m
    <3>1. k \in 1..n /\ k # m /\ k \in 1..m-1 /\ k <= m - 1
      BY <1>2, <2>1
    <3>2. (a \o b)[k] = o[k]
      BY <1>3, <1>5, <3>1
    <3>3. r[k] = q[k]
      BY <2>1 DEF Without
    <3>4. QED BY <1>1, <3>1, <3>2, <3>3
  <2>2. CASE ~(k < m)
    <3>1. /\ k + 1 \in 1..n /\ k + 1 # m /\ k - (m - 1) \in 1..n-m
          /\ m + (k - (m - 1)) = k + 1 /\ ~(k <= m - 1)
      BY <1>2, <2>2
    <3>2. (a \o b)[k] = o[k + 1]
      BY <1>4, <1>5, <3>1
    <3>3. r[k] = q[k + 1]
      BY <2>2 DEF Without
    <3>4. o[k + 1] = [id |-> ids[q[k + 1]], qty |-> less[q[k + 1]]]
      BY <1>1, <3>1
    <3>5. QED BY <3>2, <3>3, <3>4
  <2>3. QED BY <2>1, <2>2
<1> HIDE DEF r
<1>8. a \o b = Orders(r, n - 1, ids, less)
  <2> DEFINE c == a \o b
             p == n - 1
  <2>1. /\ p \in Nat /\ r \in [1..p -> Node] /\ c \in Seq(Entries) /\ Len(c) = p
        /\ \A k \in 1..p : c[k] = [id |-> ids[r[k]], qty |-> less[r[k]]]
    BY <1>2, <1>5, <1>6, <1>7
  <2> HIDE DEF c, p
  <2>2. c = Orders(r, p, ids, less)
    BY <2>1, OrdersAre
  <2>3. QED BY <2>2 DEF c, p
<1>9. QED BY <1>8 DEF a, b, o, r, Cut

\* The queue without its oldest order.
LEMMA OrdersTail ==
  ASSUME NEW n \in Nat, n > 0, NEW q \in [1..n -> Node],
         NEW ids \in [Node -> Node], NEW qtys \in [Node -> Qty], NEW less \in [Node -> Qty],
         \A k \in 1..n : k # 1 => less[q[k]] = qtys[q[k]]
  PROVE  Orders(Without(q, n, 1), n - 1, ids, less) = Tail(Orders(q, n, ids, qtys))
<1> DEFINE o == Orders(q, n, ids, qtys)
           r == Orders(Without(q, n, 1), n - 1, ids, less)
<1>1. o \in Seq(Entries) /\ Len(o) = n /\ o # <<>>
  BY OrdersSeq
<1>2. r = SubSeq(o, 1, 1 - 1) \o SubSeq(o, 1 + 1, Len(o))
  <2>1. PICK m \in 1..n : m = 1
    OBVIOUS
  <2>2. \A k \in 1..n : k # m => less[q[k]] = qtys[q[k]]
    BY <2>1
  <2>3. Orders(Without(q, n, m), n - 1, ids, less) = Cut(o, m)
    BY <2>2, OrdersWithout
  <2> HIDE DEF o
  <2>4. QED BY <2>1, <2>3 DEF Cut
<1> HIDE DEF o, r
<1>3. SubSeq(o, 1, 1 - 1) = <<>>
  BY SubSeqEmpty
<1>4. Tail(o) \in Seq(Entries) /\ Tail(o) = SubSeq(o, 1 + 1, Len(o))
  BY <1>1, HeadTailProperties, TailIsSubSeq
<1>5. <<>> \o Tail(o) = Tail(o)
  BY <1>4, ConcatEmptySeq
<1>6. QED BY <1>2, <1>3, <1>4, <1>5 DEF o, r

\* The queue whose oldest order has another quantity.
Reduced(q, n, ids, qtys, less) ==
  <<[id |-> ids[q[1]], qty |-> less[q[1]]]>> \o Tail(Orders(q, n, ids, qtys))

LEMMA OrdersShrunk ==
  ASSUME NEW n \in Nat, n > 0, NEW q \in [1..n -> Node],
         NEW ids \in [Node -> Node], NEW qtys \in [Node -> Qty], NEW less \in [Node -> Qty],
         \A k \in 1..n : k # 1 => less[q[k]] = qtys[q[k]]
  PROVE  Orders(q, n, ids, less) = Reduced(q, n, ids, qtys, less)
<1> DEFINE o == Orders(q, n, ids, qtys)
           first == [id |-> ids[q[1]], qty |-> less[q[1]]]
           one == <<first>>
           rest == Tail(o)
           c == one \o rest
<1>1. /\ o \in Seq(Entries) /\ Len(o) = n /\ o # <<>>
      /\ \A k \in 1..n : o[k] = [id |-> ids[q[k]], qty |-> qtys[q[k]]]
  BY OrdersSeq
<1>2. one \in Seq(Entries) /\ Len(one) = 1 /\ one[1] = first
  <2>1. first \in Entries
    BY DEF Entries
  <2> HIDE DEF first
  <2>2. QED BY <2>1
<1> HIDE DEF o
<1>3. /\ rest \in Seq(Entries) /\ Len(rest) = n - 1 /\ \A k \in 1..n-1 : rest[k] = o[k + 1]
  <2>1. /\ Tail(o) \in Seq(Entries) /\ Len(Tail(o)) = Len(o) - 1
        /\ \A k \in 1..Len(Tail(o)) : Tail(o)[k] = o[k + 1]
    BY <1>1, HeadTailProperties
  <2>2. QED BY <1>1, <2>1
<1> HIDE DEF one, rest, first
<1>4. /\ c \in Seq(Entries) /\ Len(c) = n
      /\ \A k \in 1..n : c[k] = IF k <= 1 THEN one[k] ELSE rest[k - 1]
  <2>1. /\ one \o rest \in Seq(Entries) /\ Len(one \o rest) = Len(one) + Len(rest)
        /\ \A k \in 1..Len(one) + Len(rest) :
             (one \o rest)[k] = IF k <= Len(one) THEN one[k] ELSE rest[k - Len(one)]
    <3>1. one \in Seq(Entries) /\ rest \in Seq(Entries)
      BY <1>2, <1>3
    <3>2. QED BY <3>1, ConcatProperties
  <2>2. Len(one) + Len(rest) = n
    BY <1>2, <1>3
  <2>3. QED BY <1>2, <2>1, <2>2
<1> HIDE DEF c
<1>5. ASSUME NEW k \in 1..n PROVE c[k] = [id |-> ids[q[k]], qty |-> less[q[k]]]
  <2>1. CASE k = 1
    BY <1>2, <1>4, <2>1 DEF first
  <2>2. CASE k # 1
    <3>1. k - 1 \in 1..n-1 /\ (k - 1) + 1 = k /\ ~(k <= 1)
      BY <2>2
    <3>2. c[k] = o[k]
      BY <1>3, <1>4, <3>1
    <3>3. QED BY <1>1, <2>2, <3>2
  <2>3. QED BY <2>1, <2>2
<1>6. c = Orders(q, n, ids, less)
  BY <1>4, <1>5, OrdersAre
<1>7. QED BY <1>6 DEF c, one, rest, first, o, Reduced

\* The queue that a new order joins.
Joined(q, n, ids, qtys, i, newIds, newQtys) ==
  Append(Orders(q, n, ids, qtys), [id |-> newIds[i], qty |-> newQtys[i]])

\* What it takes for node i to join behind the n nodes of q.
Joins(q, n, i, ids, qtys, newIds, newQtys) ==
  /\ n \in Nat /\ i \in Node /\ q \in [1..n -> Node]
  /\ ids \in [Node -> Node] /\ qtys \in [Node -> Qty]
  /\ newIds \in [Node -> Node] /\ newQtys \in [Node -> Qty]
  /\ \A k \in 1..n : newIds[q[k]] = ids[q[k]] /\ newQtys[q[k]] = qtys[q[k]]

LEMMA OrdersAppended ==
  ASSUME NEW q, NEW n, NEW i, NEW ids, NEW qtys, NEW newIds, NEW newQtys,
         Joins(q, n, i, ids, qtys, newIds, newQtys)
  PROVE  Orders(Followed(q, n, i), n + 1, newIds, newQtys)
           = Joined(q, n, ids, qtys, i, newIds, newQtys)
<1> n \in Nat /\ i \in Node /\ q \in [1..n -> Node]
    /\ ids \in [Node -> Node] /\ qtys \in [Node -> Qty]
    /\ newIds \in [Node -> Node] /\ newQtys \in [Node -> Qty]
    /\ \A k \in 1..n : newIds[q[k]] = ids[q[k]] /\ newQtys[q[k]] = qtys[q[k]]
  BY DEF Joins
<1> PICK p : p = n + 1
  OBVIOUS
<1> DEFINE o == Orders(q, n, ids, qtys)
           new == [id |-> newIds[i], qty |-> newQtys[i]]
           r == Followed(q, n, i)
           c == Append(o, new)
<1>1. /\ o \in Seq(Entries) /\ Len(o) = n
      /\ \A k \in 1..n : o[k] = [id |-> ids[q[k]], qty |-> qtys[q[k]]]
  BY OrdersSeq
<1>2. new \in Entries
  BY DEF Entries
<1> HIDE DEF o, new
<1>3. /\ c \in Seq(Entries) /\ Len(c) = p
      /\ (\A k \in 1..n : c[k] = o[k]) /\ c[p] = new
  BY <1>1, <1>2, AppendProperties
<1>4. p \in Nat /\ r \in [1..p -> Node] /\ r[p] = i /\ \A k \in 1..n : r[k] = q[k]
  BY DEF Followed
<1>5. \A k \in 1..p : k # p => k \in 1..n
  OBVIOUS
<1> HIDE DEF c, r
<1>6. ASSUME NEW k \in 1..p PROVE c[k] = [id |-> newIds[r[k]], qty |-> newQtys[r[k]]]
  <2>1. CASE k = p
    BY <1>3, <1>4, <2>1 DEF new
  <2>2. CASE k # p
    <3>1. k \in 1..n
      BY <1>5, <2>2
    <3>2. c[k] = o[k] /\ r[k] = q[k] /\ o[k] = [id |-> ids[q[k]], qty |-> qtys[q[k]]]
      BY <1>1, <1>3, <1>4, <3>1
    <3>3. newIds[q[k]] = ids[q[k]] /\ newQtys[q[k]] = qtys[q[k]]
      BY <3>1
    <3>4. QED BY <3>2, <3>3
  <2>3. QED BY <2>1, <2>2
<1>7. c = Orders(r, p, newIds, newQtys)
  BY <1>3, <1>4, <1>6, OrdersAre
<1>8. QED BY <1>7 DEF c, r, o, new, Joined

\* The queue of which nothing changes.
LEMMA OrdersKept ==
  ASSUME NEW n, NEW q, NEW ids, NEW qtys, NEW newIds, NEW newQtys,
         \A k \in 1..n : newIds[q[k]] = ids[q[k]] /\ newQtys[q[k]] = qtys[q[k]]
  PROVE  Orders(q, n, newIds, newQtys) = Orders(q, n, ids, qtys)
BY DEF Orders

\* A table of queues, and the table with one queue replaced.
IsBook(B) == B = [s \in Side |-> [p \in PriceMin..PriceMax |-> B[s][p]]]
Put(B, s, p, x) == [B EXCEPT ![s][p] = x]

LEMMA BookPut ==
  ASSUME NEW B, NEW C, IsBook(B), IsBook(C), NEW s0 \in Side, NEW p0 \in PriceMin..PriceMax,
         \A s \in Side, p \in PriceMin..PriceMax : ~(s = s0 /\ p = p0) => C[s][p] = B[s][p]
  PROVE  C = Put(B, s0, p0, C[s0][p0])
<1> DEFINE P == PriceMin..PriceMax
           x == C[s0][p0]
           row(s) == [p \in P |-> C[s][p]]
<1>1. /\ B = [s \in Side |-> B[s]] /\ C = [s \in Side |-> C[s]]
      /\ \A s \in Side : B[s] = [p \in P |-> B[s][p]]
      /\ \A s \in Side : C[s] = [p \in P |-> C[s][p]]
  <2>1. ASSUME NEW A, IsBook(A)
        PROVE  A = [s \in Side |-> A[s]] /\ \A s \in Side : A[s] = [p \in P |-> A[s][p]]
    <3> DEFINE R(s) == [p \in P |-> A[s][p]]
    <3>1. A = [s \in Side |-> R(s)]
      BY <2>1 DEF IsBook
    <3> HIDE DEF R
    <3>2. \A s \in Side : A[s] = R(s)
      BY <3>1
    <3>3. A = [s \in Side |-> A[s]]
      BY <3>1
    <3>4. QED BY <3>2, <3>3 DEF R
  <2>2. QED BY <2>1
<1>2. ASSUME NEW s \in Side, s # s0 PROVE C[s] = B[s]
  <2>1. \A p \in P : C[s][p] = B[s][p]
    BY <1>2
  <2>2. QED BY <1>1, <2>1
<1>3. C[s0] = [B[s0] EXCEPT ![p0] = x]
  <2>1. \A p \in P : p # p0 => C[s0][p] = B[s0][p]
    OBVIOUS
  <2> DEFINE b == B[s0]
             c == C[s0]
  <2>2. b = [p \in P |-> b[p]] /\ c = [p \in P |-> c[p]]
    BY <1>1
  <2> HIDE DEF b, c
  <2>3. c = [b EXCEPT ![p0] = c[p0]]
    BY <2>1, <2>2 DEF b, c
  <2>4. QED BY <2>3 DEF b, c
<1> HIDE DEF x
<1>4. C = [B EXCEPT ![s0] = [B[s0] EXCEPT ![p0] = x]]
  BY <1>1, <1>2, <1>3
<1>5. QED BY <1>4 DEF Put, x

LEMMA BookShape == IsBook(BookOf) /\ IsBook(BookOf')
  BY DEF IsBook, BookOf

\* A step that changes one queue.
LEMMA OneQueue ==
  ASSUME NEW side \in Side, NEW price \in PriceMin..PriceMax,
         \A s \in Side, p \in PriceMin..PriceMax :
           ~(s = side /\ p = price) => BookOf'[s][p] = BookOf[s][p]
  PROVE  BookOf' = Put(BookOf, side, price, BookOf'[side][price])
<1> DEFINE B == BookOf
           C == BookOf'
<1>1. IsBook(B) /\ IsBook(C)
  BY BookShape
<1>2. \A s \in Side, p \in PriceMin..PriceMax : ~(s = side /\ p = price) => C[s][p] = B[s][p]
  OBVIOUS
<1> HIDE DEF B, C
<1>3. C = Put(B, side, price, C[side][price])
  BY <1>1, <1>2, BookPut
<1>4. QED BY <1>3 DEF B, C

\* The queue of a price, now and after a step.
LEMMA BookNow ==
  ASSUME TypeOK, Linked, NEW s \in Side, NEW p \in PriceMin..PriceMax
  PROVE  LET l == PriceToLevel(p)
             q == Fifo(s, l)
             n == Len(q)
         IN /\ n \in Nat /\ q \in [1..n -> Node]
            /\ NodesAt(s, l) = {q[k] : k \in 1..n}
            /\ head[s][l] = IF n = 0 THEN kNil ELSE q[1]
            /\ \A j, k \in 1..n : q[j] = q[k] => j = k
            /\ BookOf[s][p] = Orders(q, n, orderId, orderQty)
<1> DEFINE l == PriceToLevel(p)
           q == Fifo(s, l)
           n == Len(q)
<1>1. l \in Level
  BY LevelPrices
<1> HIDE DEF l
<1>2. Threads(q, n, NodesAt(s, l), head[s][l], tail[s][l], next, prev)
  BY <1>1 DEF Linked
<1>3. BookOf[s][p] = [k \in DOMAIN q |-> [id |-> orderId[q[k]], qty |-> orderQty[q[k]]]]
  BY DEF BookOf, l
<1> HIDE DEF q, n
<1>4. /\ n \in Nat /\ q \in [1..n -> Node]
      /\ NodesAt(s, l) = {q[k] : k \in 1..n}
      /\ head[s][l] = IF n = 0 THEN kNil ELSE q[1]
      /\ \A j, k \in 1..n : q[j] = q[k] => j = k
  BY <1>2 DEF Threads, Reads
<1>5. BookOf[s][p] = Orders(q, n, orderId, orderQty)
  BY <1>3, <1>4 DEF Orders
<1>6. QED BY <1>4, <1>5 DEF q, n, l

LEMMA BookNext ==
  ASSUME NEW s \in Side, NEW p \in PriceMin..PriceMax,
         NEW q, NEW n, NEW S, NEW last, NEW back,
         Threads(q, n, S, head'[s][PriceToLevel(p)], last, next', back)
  PROVE  BookOf'[s][p] = Orders(q, n, orderId', orderQty')
<1> DEFINE l == PriceToLevel(p)
<1>1. Fifo(s, l)' = Chain(head'[s][l], next')
  BY DEF Fifo, l
<1>2. Reads(q, n, S, head'[s][l], next')
  BY DEF Threads
<1> HIDE DEF l
<1>3. Fifo(s, l)' = q
  BY <1>1, <1>2, ChainReads
<1>4. DOMAIN q = 1..n
  BY <1>2 DEF Reads
<1>5. BookOf'[s][p] = [k \in DOMAIN q |-> [id |-> orderId'[q[k]], qty |-> orderQty'[q[k]]]]
  BY <1>3 DEF BookOf, l
<1>6. QED BY <1>4, <1>5 DEF Orders

\* A price has a queue exactly if its level is marked.
LEMMA BookMarked ==
  ASSUME TypeOK, Linked, OccupiedIffOrders, NEW s \in Side, NEW p \in PriceMin..PriceMax
  PROVE  BookOf[s][p] # <<>> <=> PriceToLevel(p) \in Marked(s)
<1> DEFINE l == PriceToLevel(p)
           q == Fifo(s, l)
           n == Len(q)
<1>1. /\ n \in Nat /\ q \in [1..n -> Node] /\ NodesAt(s, l) = {q[k] : k \in 1..n}
      /\ BookOf[s][p] = Orders(q, n, orderId, orderQty)
  BY BookNow
<1> HIDE DEF q, n
<1>2. BookOf[s][p] = <<>> <=> n = 0
  <2> DEFINE o == Orders(q, n, orderId, orderQty)
  <2>1. orderId \in [Node -> Node] /\ orderQty \in [Node -> Qty]
    BY DEF TypeOK
  <2>2. o = <<>> <=> n = 0
    BY <1>1, <2>1, OrdersSeq
  <2>3. QED BY <1>1, <2>2
<1>3. n = 0 <=> NodesAt(s, l) = {}
  <2>1. n # 0 => 1 \in 1..n
    BY <1>1
  <2>2. QED BY <1>1, <2>1
<1>4. NodesAt(s, l) # {} <=> l \in Marked(s)
  BY LevelPrices DEF OccupiedIffOrders
<1>5. QED BY <1>2, <1>3, <1>4

\* The makers that the taker can trade with, and the best price among them, are
\* what the loop condition and the cached best level say.
LEMMA CrossingIs ==
  ASSUME TypeOK, Separated, Linked, OccupiedIffOrders
  PROVE  LET s == Opposite(call.side)
             P == Abstract!CrossingPrices(BookOf[s])
         IN /\ Crossing <=> P # {}
            /\ Crossing => Abstract!BestOf(P) = LevelToPrice(best[s])
<1> DEFINE s == Opposite(call.side)
           P == Abstract!CrossingPrices(BookOf[s])
           m == best[s]
           top == LevelToPrice(m)
           reaches(p) == IF call.side = Buy THEN p <= call.price ELSE p >= call.price
<1>1. s \in Side /\ call.side \in Side /\ call.price \in Int /\ PriceMin \in Int
  BY EngineAssumption DEF TypeOK, Opposite, Side
<1> DEFINE B == BookOf
<1>2. \A p \in PriceMin..PriceMax : B[s][p] # <<>> <=> PriceToLevel(p) \in Marked(s)
  BY <1>1, BookMarked
<1> HIDE DEF B
<1>3. P = {p \in PriceMin..PriceMax : PriceToLevel(p) \in Marked(s) /\ reaches(p)}
  <2>1. P = {p \in PriceMin..PriceMax : B[s][p] # <<>> /\ reaches(p)}
    BY DEF Abstract!CrossingPrices, Abstract!Price, Abstract!Buy, Buy, B
  <2> HIDE DEF P, s, reaches
  <2>2. QED BY <1>2, <2>1
<1>4. \A l \in Marked(s) : l \in Level /\ l \in Int /\ LevelToPrice(l) \in PriceMin..PriceMax
                          /\ PriceToLevel(LevelToPrice(l)) = l
  BY LevelPrices, LevelFacts DEF Marked, MarkedIn
<1>5. \A p \in PriceMin..PriceMax : p \in Int /\ LevelToPrice(PriceToLevel(p)) = p
  BY <1>1, LevelPrices
<1>6. Crossing <=> m # kNil /\ reaches(top)
  BY DEF Crossing
<1>7. /\ m # kNil => m \in Marked(s)
      /\ \A l \in Marked(s) : m \in Marked(s) /\ m # kNil /\ ~Better(s, l, m)
  <2>1. BestOfSide(s, m, Marked(s))
    BY <1>1 DEF Separated, BestMarked
  <2>2. \A l \in Marked(s) : l # kNil
    BY <1>4, LevelFacts
  <2>3. QED BY <2>1, <2>2 DEF BestOfSide
<1>8. s = IF call.side = Buy THEN Sell ELSE Buy
  BY DEF Opposite
<1> HIDE DEF s, m, P
\* No price that the taker accepts is better for it than the top.
<1>9. ASSUME NEW p \in P
      PROVE  /\ m \in Marked(s) /\ m # kNil /\ top \in PriceMin..PriceMax /\ reaches(top)
             /\ IF call.side = Buy THEN top <= p ELSE top >= p
  <2> DEFINE l == PriceToLevel(p)
  <2>1. p \in PriceMin..PriceMax /\ l \in Marked(s) /\ reaches(p)
    BY <1>3
  <2>2. m \in Marked(s) /\ m # kNil /\ ~Better(s, l, m)
    BY <1>7, <2>1
  <2>3. p \in Int /\ l \in Int /\ m \in Int /\ p = l + PriceMin /\ top = m + PriceMin
        /\ top \in PriceMin..PriceMax
    BY <1>4, <1>5, <2>1, <2>2 DEF LevelToPrice
  <2>4. IF call.side = Buy THEN ~(l < m) ELSE ~(l > m)
    BY <1>8, <2>2 DEF Better, Buy, Sell
  <2> HIDE DEF l, top
  <2>5. IF call.side = Buy THEN top <= p ELSE top >= p
    BY <1>1, <2>3, <2>4
  <2>6. reaches(top)
    BY <1>1, <2>1, <2>3, <2>5
  <2>7. QED BY <2>2, <2>3, <2>5, <2>6
<1>10. Crossing => top \in P
  BY <1>3, <1>4, <1>6, <1>7
<1>11. Crossing <=> P # {}
  BY <1>6, <1>9, <1>10
<1>12. Crossing => Abstract!BestOf(P) = top
  <2> DEFINE first(p) == \A r \in P : IF call.side = Buy THEN p <= r ELSE p >= r
             b == CHOOSE p \in P : first(p)
  <2>1. Abstract!BestOf(P) = b
    BY DEF Abstract!BestOf, Abstract!Buy, Buy
  <2> HIDE DEF top
  <2>2. Crossing => top \in P /\ first(top)
    BY <1>9, <1>10
  <2>3. Crossing => b \in P /\ first(b)
    BY <2>2
  <2>4. Crossing => b = top
    <3>1. SUFFICES ASSUME Crossing PROVE b = top
      OBVIOUS
    <3>2. b \in P /\ top \in P /\ first(b) /\ first(top)
      BY <2>2, <2>3, <3>1
    <3> HIDE DEF b
    <3>3. b \in Int /\ top \in Int
      BY <1>3, <1>5, <3>2
    <3>4. QED BY <3>2, <3>3
  <2>5. QED BY <2>1, <2>4
<1>13. QED BY <1>11, <1>12 DEF s, P, m, top

\* The book without the m-th order of a level.
LEMMA LeavingBook ==
  ASSUME TypeOK, orderQty' \in [Node -> Qty], ListInv, NEW side \in Side, NEW level \in Level,
         NEW i \in NodesAt(side, level),
         UnlinkOrder(side, level, i), FreeOrder(orderId[i]),
         UNCHANGED <<orderId, orderSide, orderPrice>>,
         NEW q, NEW n, q = Fifo(side, level), n = Len(q), NEW m \in 1..n, q[m] = i
  PROVE  /\ BookOf' = Put(BookOf, side, LevelToPrice(level),
                          Orders(Without(q, n, m), n - 1, orderId, orderQty'))
         /\ \A j \in Node : j # i => orderQty'[j] = orderQty[j]
<1> DEFINE price == LevelToPrice(level)
<1>1. price \in PriceMin..PriceMax /\ PriceToLevel(price) = level
  BY LevelPrices
<1> HIDE DEF price
<1>2. Linked /\ Splice(side, level, i)
  BY DEF ListInv, UnlinkOrder
<1>3. \A j \in Node : j # i => orderQty'[j] = orderQty[j]
  BY DEF UnlinkOrder, TypeOK
<1>4. BookOf'[side][price] = Orders(Without(q, n, m), n - 1, orderId', orderQty')
  <2>1. Threads(Without(q, n, m), n - 1, NodesAt(side, level) \ {i},
                head'[side][level], tail'[side][level], next', prev')
    BY <1>2, SplicedHere
  <2>2. QED BY <1>1, <2>1, BookNext
<1>5. ASSUME NEW s \in Side, NEW p \in PriceMin..PriceMax, ~(s = side /\ p = price)
      PROVE  BookOf'[s][p] = BookOf[s][p]
  <2> DEFINE l == PriceToLevel(p)
             r == Fifo(s, l)
             k == Len(r)
  <2>1. l \in Level /\ ~(s = side /\ l = level)
    BY <1>1, <1>5, LevelPrices
  <2>2. /\ k \in Nat /\ r \in [1..k -> Node] /\ NodesAt(s, l) = {r[j] : j \in 1..k}
        /\ BookOf[s][p] = Orders(r, k, orderId, orderQty)
    BY <1>2, BookNow
  <2>3. Threads(r, k, NodesAt(s, l), head'[s][l], tail'[s][l], next', prev')
    BY <1>2, <2>1, SplicedElsewhere
  <2> HIDE DEF r, k
  <2>4. BookOf'[s][p] = Orders(r, k, orderId', orderQty')
    BY <2>3, BookNext
  <2>5. i \notin NodesAt(s, l)
    BY <2>1, LiveFacts
  <2>6. \A j \in 1..k : orderId'[r[j]] = orderId[r[j]] /\ orderQty'[r[j]] = orderQty[r[j]]
    BY <1>3, <2>2, <2>5
  <2>7. Orders(r, k, orderId', orderQty') = Orders(r, k, orderId, orderQty)
    BY <2>6, OrdersKept
  <2>8. QED BY <2>2, <2>4, <2>7
<1>6. BookOf' = Put(BookOf, side, price, BookOf'[side][price])
  BY <1>1, <1>5, OneQueue
<1>7. QED BY <1>3, <1>4, <1>6 DEF price

\* The book in which the oldest order of a level has less.
LEMMA ShrinkingBook ==
  ASSUME TypeOK, orderQty' \in [Node -> Qty], ListInv, NEW side \in Side, NEW level \in Level,
         NEW i \in NodesAt(side, level), i = NextMaker(side, level), NEW traded,
         Shrinks(side, level, i, traded), UNCHANGED orderId,
         NEW q, NEW n, q = Fifo(side, level), n = Len(q)
  PROVE  /\ BookOf' = Put(BookOf, side, LevelToPrice(level), Orders(q, n, orderId, orderQty'))
         /\ \A j \in Node : j # i => orderQty'[j] = orderQty[j]
         /\ orderQty'[i] = orderQty[i] - traded
<1> DEFINE price == LevelToPrice(level)
<1>1. price \in PriceMin..PriceMax /\ PriceToLevel(price) = level
  BY LevelPrices
<1> HIDE DEF price
<1>2. Linked
  BY DEF ListInv
<1>3. /\ \A j \in Node : j # i => orderQty'[j] = orderQty[j]
      /\ orderQty'[i] = orderQty[i] - traded
  BY LiveFacts DEF Shrinks, TypeOK
<1>4. ASSUME NEW s \in Side, NEW p \in PriceMin..PriceMax, NEW r, NEW k,
             r = Fifo(s, PriceToLevel(p)), k = Len(r)
      PROVE  BookOf'[s][p] = Orders(r, k, orderId', orderQty')
  <2> DEFINE l == PriceToLevel(p)
  <2>1. l \in Level
    BY LevelPrices
  <2>2. Threads(r, k, NodesAt(s, l), head[s][l], tail[s][l], next, prev)
    BY <1>2, <1>4, <2>1 DEF Linked
  <2>3. Threads(r, k, NodesAt(s, l), head'[s][l], tail'[s][l], next', prev')
    BY <2>2 DEF Shrinks
  <2>4. QED BY <2>3, BookNext
<1>5. BookOf'[side][price] = Orders(q, n, orderId, orderQty')
  BY <1>1, <1>4
<1>6. ASSUME NEW s \in Side, NEW p \in PriceMin..PriceMax, ~(s = side /\ p = price)
      PROVE  BookOf'[s][p] = BookOf[s][p]
  <2> DEFINE l == PriceToLevel(p)
             r == Fifo(s, l)
             k == Len(r)
  <2>1. l \in Level /\ ~(s = side /\ l = level)
    BY <1>1, <1>6, LevelPrices
  <2>2. /\ k \in Nat /\ r \in [1..k -> Node] /\ NodesAt(s, l) = {r[j] : j \in 1..k}
        /\ BookOf[s][p] = Orders(r, k, orderId, orderQty)
    BY <1>2, BookNow
  <2>3. BookOf'[s][p] = Orders(r, k, orderId', orderQty')
    BY <1>4
  <2>4. i \notin NodesAt(s, l)
    BY <2>1, LiveFacts
  <2> HIDE DEF r, k
  <2>5. \A j \in 1..k : orderId'[r[j]] = orderId[r[j]] /\ orderQty'[r[j]] = orderQty[r[j]]
    BY <1>3, <2>2, <2>4
  <2>6. Orders(r, k, orderId', orderQty') = Orders(r, k, orderId, orderQty)
    BY <2>5, OrdersKept
  <2>7. QED BY <2>2, <2>3, <2>6
<1>7. BookOf' = Put(BookOf, side, price, BookOf'[side][price])
  BY <1>1, <1>6, OneQueue
<1>8. QED BY <1>3, <1>5, <1>7 DEF price

\* One iteration of the matching loop is one trade of the price-time book.
LEMMA TradeMatches ==
  ASSUME TypeOK, Separated, ListInv, QtyInv, TrackInv, MatchStep, orderQty' \in [Node -> Qty]
  PROVE  Abstract!Trade
<1> DEFINE side == Opposite(call.side)
           level == best[side]
           i == NextMaker(side, level)
           q == Fifo(side, level)
           n == Len(q)
           price == LevelToPrice(level)
           queue == BookOf[side][price]
           maker == [id |-> orderId[i], qty |-> orderQty[i]]
           traded == Min({call.remaining, orderQty[i]})
           left == IF traded = maker.qty THEN Tail(queue)
                   ELSE <<[maker EXCEPT !.qty = @ - traded]>> \o Tail(queue)
<1>1. side \in Side /\ level \in Level /\ call.running /\ Crossing
  BY MatchLevel DEF MatchStep
<1>2. /\ IdsMatch /\ RestingPlaced /\ Linked /\ Positive /\ TotalsModulo
      /\ Bounded /\ OccupiedIffOrders
      /\ orderId \in [Node -> Node] /\ orderQty \in [Node -> Qty]
  BY DEF ListInv, QtyInv, TrackInv, TypeOK
<1>3. i # kNil
  BY <1>2, MarkedHasMaker
<1>4. TradeWith(side, level, i) /\ UNCHANGED <<orderId, orderPrice, orderSide>>
  BY <1>3 DEF MatchStep, TradeWith
<1>5. i \in NodesAt(side, level) /\ i \in LiveNodes
  BY <1>1, <1>3, MakerRests
<1>6. price \in PriceMin..PriceMax /\ PriceToLevel(price) = level
  BY <1>1, LevelPrices
<1>7. /\ n \in Nat /\ q \in [1..n -> Node]
      /\ head[side][level] = IF n = 0 THEN kNil ELSE q[1]
      /\ \A j, k \in 1..n : q[j] = q[k] => j = k
      /\ queue = Orders(q, n, orderId, orderQty)
  BY <1>1, <1>2, <1>6, BookNow
<1>8. i = head[side][level]
  BY DEF NextMaker
<1> HIDE DEF i, level, side, traded, q, n, price
<1>9. n > 0 /\ 1 \in 1..n /\ i = q[1] /\ \A k \in 1..n : k # 1 => q[k] # i
  BY <1>3, <1>7, <1>8
<1>10. Head(queue) = maker
  <2>1. Head(Orders(q, n, orderId, orderQty)) = [id |-> orderId[q[1]], qty |-> orderQty[q[1]]]
    BY <1>2, <1>7, <1>9, OrdersSeq
  <2>2. QED BY <1>7, <1>9, <2>1
<1>11. /\ i \in Node /\ traded \in Int /\ traded > 0
       /\ traded <= call.remaining /\ traded <= orderQty[i]
       /\ call.remaining \in Int /\ orderQty[i] \in Int
       /\ TakerTraded(traded) /\ MakerTraded(side, level, i, traded)
  BY <1>1, <1>2, <1>4, <1>5, TradeFacts DEF traded
<1>12. BookOf' = Put(BookOf, side, price, left)
  <2>1. CASE traded = orderQty[i] /\ UnlinkOrder(side, level, i) /\ FreeOrder(orderId[i])
    <3>1. /\ BookOf' = Put(BookOf, side, price, Orders(Without(q, n, 1), n - 1, orderId, orderQty'))
          /\ \A j \in Node : j # i => orderQty'[j] = orderQty[j]
      <4>1. PICK m \in 1..n : m = 1
        BY <1>9
      <4>2. q = Fifo(side, level) /\ n = Len(q) /\ q[m] = i
        BY <1>9, <4>1 DEF q, n
      <4>3. /\ BookOf' = Put(BookOf, side, LevelToPrice(level),
                             Orders(Without(q, n, m), n - 1, orderId, orderQty'))
            /\ \A j \in Node : j # i => orderQty'[j] = orderQty[j]
        BY <1>1, <1>2, <1>4, <1>5, <2>1, <4>2, LeavingBook
      <4>4. QED BY <4>1, <4>3 DEF price
    <3>2. \A k \in 1..n : k # 1 => orderQty'[q[k]] = orderQty[q[k]]
      BY <1>7, <1>9, <3>1
    <3>3. Orders(Without(q, n, 1), n - 1, orderId, orderQty') = Tail(Orders(q, n, orderId, orderQty))
      BY <1>2, <1>7, <1>9, <3>2, OrdersTail
    <3>4. left = Tail(queue)
      BY <2>1
    <3>5. QED BY <1>7, <3>1, <3>3, <3>4
  <2>2. CASE traded < orderQty[i] /\ Shrinks(side, level, i, traded)
    <3>1. /\ BookOf' = Put(BookOf, side, price, Orders(q, n, orderId, orderQty'))
          /\ \A j \in Node : j # i => orderQty'[j] = orderQty[j]
          /\ orderQty'[i] = orderQty[i] - traded
      <4>1. q = Fifo(side, level) /\ n = Len(q) /\ i = NextMaker(side, level)
        BY DEF q, n, i, side, level
      <4>2. QED BY <1>1, <1>4, <1>5, <2>2, <4>1, ShrinkingBook DEF price
    <3>2. \A k \in 1..n : k # 1 => orderQty'[q[k]] = orderQty[q[k]]
      BY <1>7, <1>9, <3>1
    <3>3. Orders(q, n, orderId, orderQty')
            = <<[id |-> orderId[q[1]], qty |-> orderQty'[q[1]]]>> \o Tail(Orders(q, n, orderId, orderQty))
      <4> DEFINE less == orderQty'
      <4>1. less \in [Node -> Qty] /\ \A k \in 1..n : k # 1 => less[q[k]] = orderQty[q[k]]
        BY <3>2
      <4> HIDE DEF less
      <4>2. Orders(q, n, orderId, less) = Reduced(q, n, orderId, orderQty, less)
        BY <1>2, <1>7, <1>9, <4>1, OrdersShrunk
      <4>3. QED BY <4>2 DEF less, Reduced
    <3>4. left = <<[id |-> orderId[i], qty |-> orderQty[i] - traded]>> \o Tail(queue)
      <4>1. traded # maker.qty
        BY <1>11, <2>2
      <4>2. [maker EXCEPT !.qty = @ - traded] = [id |-> orderId[i], qty |-> orderQty[i] - traded]
        OBVIOUS
      <4>3. QED BY <4>1, <4>2
    <3>5. QED BY <1>7, <1>9, <3>1, <3>3, <3>4
  <2>3. QED BY <1>11, <2>1, <2>2 DEF MakerTraded
<1>13. traded = IF maker.qty < call.remaining THEN maker.qty ELSE call.remaining
  <2>1. traded \in {call.remaining, orderQty[i]}
    BY <1>11, MinOfTwo DEF traded
  <2>2. QED BY <1>11, <2>1
<1>14. executions' = Append(executions, [maker |-> orderId[i], price |-> price, qty |-> traded])
  BY <1>4 DEF TradeWith, price, traded
<1>15. IF traded = call.remaining
       THEN call' = NoCall /\ ok' = TRUE
       ELSE call' = [call EXCEPT !.remaining = @ - traded] /\ UNCHANGED ok
  BY <1>4 DEF TradeWith, Return, traded
<1> DEFINE P == Abstract!CrossingPrices(BookOf[side])
<1>16. P # {} /\ Abstract!BestOf(P) = price
  BY <1>1, <1>2, CrossingIs DEF side, level, price
<1>17. side = Abstract!Opposite(call.side)
  BY DEF side, Opposite, Abstract!Opposite, Buy, Sell, Abstract!Buy, Abstract!Sell
<1>18. NoCall = Abstract!NoTaker
  BY DEF NoCall, Abstract!NoTaker, Buy, Abstract!Buy
<1>19. BookOf' = [BookOf EXCEPT ![side][price] =
                    IF traded = maker.qty THEN Tail(@)
                    ELSE <<[maker EXCEPT !.qty = @ - traded]>> \o Tail(@)]
  BY <1>12 DEF Put
\* The same in the words of the abstract action.
<1> DEFINE s == Abstract!Opposite(call.side)
           crossing == Abstract!CrossingPrices(BookOf[s])
           p == Abstract!BestOf(crossing)
           oldest == Head(BookOf[s][p])
           qty == IF oldest.qty < call.remaining THEN oldest.qty ELSE call.remaining
<1>20. s = side /\ crossing # {} /\ p = price /\ oldest = maker /\ qty = traded
       /\ orderId[i] = maker.id
  <2>1. s = side
    BY <1>17
  <2>2. crossing = P
    BY <2>1
  <2> HIDE DEF s, crossing, P
  <2>3. crossing # {} /\ p = price
    BY <1>16, <2>2
  <2> HIDE DEF p
  <2>4. oldest = Head(queue)
    BY <2>1, <2>3
  <2>5. oldest = maker
    BY <1>10, <2>4
  <2>6. QED BY <1>13, <2>1, <2>3, <2>5
<1> HIDE DEF s, crossing, p, oldest, qty, maker, queue, left, P
<1>21. executions' = Append(executions, [maker |-> oldest.id, price |-> p, qty |-> qty])
  BY <1>14, <1>20
<1>22. BookOf' = [BookOf EXCEPT ![s][p] =
                    IF qty = oldest.qty THEN Tail(@)
                    ELSE <<[oldest EXCEPT !.qty = @ - qty]>> \o Tail(@)]
  BY <1>19, <1>20
<1>23. IF qty = call.remaining
       THEN call' = Abstract!NoTaker /\ ok' = TRUE
       ELSE call' = [call EXCEPT !.remaining = @ - qty] /\ UNCHANGED ok
  BY <1>15, <1>18, <1>20
<1>24. QED
  BY <1>1, <1>20, <1>21, <1>22, <1>23, Zenon
  DEF Abstract!Trade, s, crossing, p, oldest, qty

\* The ids that rest in the book are the ids that map to a node.
LEMMA RestingIdsAre ==
  ASSUME TypeOK, IdsMatch, RestingPlaced, Linked
  PROVE  Abstract!RestingIds = {id \in Node : idToIdx[id] # kNil}
<1> DEFINE P == PriceMin..PriceMax
           B == BookOf
           ids(s, p) == {B[s][p][k].id : k \in 1..Len(B[s][p])}
           T == {id \in Node : idToIdx[id] # kNil}
<1>1. ASSUME NEW s \in Side, NEW p \in P
      PROVE  ids(s, p) = {orderId[i] : i \in NodesAt(s, PriceToLevel(p))}
  <2> DEFINE l == PriceToLevel(p)
             q == Fifo(s, l)
             n == Len(q)
             o == Orders(q, n, orderId, orderQty)
  <2>1. /\ n \in Nat /\ q \in [1..n -> Node] /\ NodesAt(s, l) = {q[k] : k \in 1..n}
        /\ BookOf[s][p] = o
    BY BookNow
  <2>2. orderId \in [Node -> Node] /\ orderQty \in [Node -> Qty]
    BY DEF TypeOK
  <2> HIDE DEF q, n
  <2>3. Len(o) = n /\ \A k \in 1..n : o[k] = [id |-> orderId[q[k]], qty |-> orderQty[q[k]]]
    BY <2>1, <2>2, OrdersSeq
  <2> HIDE DEF o, l
  <2>4. ids(s, p) = {o[k].id : k \in 1..n}
    BY <2>1, <2>3
  <2>5. \A k \in 1..n : o[k].id = orderId[q[k]]
    BY <2>3
  <2>6. ids(s, p) = {orderId[q[k]] : k \in 1..n}
    <3> DEFINE A == {o[k].id : k \in 1..n}
               C == {orderId[q[k]] : k \in 1..n}
    <3>1. \A x \in A : x \in C
      BY <2>5
    <3>2. \A x \in C : x \in A
      BY <2>5
    <3>3. A = C
      BY <3>1, <3>2
    <3> HIDE DEF A, C
    <3>4. QED BY <2>4, <3>3 DEF A, C
  <2>7. QED BY <2>1, <2>6 DEF l
<1>2. Abstract!RestingIds = UNION {ids(s, p) : s \in Side, p \in P}
  BY DEF Abstract!RestingIds, Abstract!Side, Abstract!Price, Side, Buy, Sell,
         Abstract!Buy, Abstract!Sell
<1> HIDE DEF ids, B
<1>3. ASSUME NEW id \in Abstract!RestingIds PROVE id \in T
  <2>1. PICK s \in Side, p \in P : id \in ids(s, p)
    BY <1>2
  <2>2. PICK i \in NodesAt(s, PriceToLevel(p)) : id = orderId[i]
    BY <1>1, <2>1
  <2>3. i \in LiveNodes
    BY LevelPrices, LiveFacts
  <2>4. id \in Node /\ idToIdx[id] = i /\ i \in Node
    BY <2>2, <2>3, LivePlaced
  <2>5. QED BY <2>4, NodeFacts
<1>4. ASSUME NEW id \in T PROVE id \in Abstract!RestingIds
  <2> DEFINE i == idToIdx[id]
             s == orderSide[i]
             l == PriceToLevel(orderPrice[i])
             p == LevelToPrice(l)
  <2>1. i \in LiveNodes /\ orderId[i] = id
    BY DEF LiveNodes, IdsMatch
  <2>2. s \in Side /\ l \in Level /\ i \in NodesAt(s, l)
    BY <2>1, LivePlaced
  <2>3. p \in P /\ PriceToLevel(p) = l
    BY <2>2, LevelPrices
  <2> HIDE DEF i, s, l, p
  <2>4. id \in ids(s, p)
    BY <1>1, <2>1, <2>2, <2>3
  <2>5. QED BY <1>2, <2>2, <2>3, <2>4
<1>5. QED BY <1>3, <1>4

\* alloc_order fails exactly if the id rests already or nothing more can rest.
LEMMA AllocFailsWhenFull ==
  ASSUME TypeOK, ListInv, NEW id \in Node
  PROVE  AllocFails(id) <=> ~(/\ id \notin Abstract!RestingIds
                              /\ Cardinality(Abstract!RestingIds) < MaxOrders)
<1> DEFINE R == Abstract!RestingIds
           L == LiveNodes
           f == [j \in R |-> idToIdx[j]]
<1>1. R = {j \in Node : idToIdx[j] # kNil}
  BY RestingIdsAre DEF ListInv
<1>2. L \subseteq Node /\ R \subseteq Node
  BY <1>1, LiveFacts
<1>3. f \in Bijection(R, L)
  <2>1. L = {idToIdx[j] : j \in R}
    BY <1>1, NodeFacts DEF LiveNodes
  <2> HIDE DEF R, L
  <2>2. \A j, k \in R : f[j] = f[k] => j = k
    BY <1>1 DEF ListInv, IdsMatch
  <2>3. f \in [R -> L] /\ \A i \in L : \E j \in R : f[j] = i
    BY <2>1
  <2>4. QED BY <2>2, <2>3 DEF Bijection, Injection, Surjection, IsInjective
<1> HIDE DEF R, L, f
<1>4. /\ IsFiniteSet(R) /\ IsFiniteSet(L) /\ Cardinality(R) = Cardinality(L)
      /\ Cardinality(L) \in Nat /\ Cardinality(L) <= MaxOrders
      /\ (Cardinality(L) = MaxOrders <=> L = Node)
  <2>1. IsFiniteSet(R)
    BY <1>2, NodeFacts, FS_Subset
  <2>2. ExistsBijection(R, L)
    BY <1>3 DEF ExistsBijection
  <2>3. IsFiniteSet(L) /\ Cardinality(L) = Cardinality(R)
    BY <2>1, <2>2, FS_Bijection
  <2>4. Cardinality(L) <= Cardinality(Node) /\ (Cardinality(Node) = Cardinality(L) => Node = L)
    BY <1>2, NodeFacts, FS_Subset
  <2>5. Cardinality(L) \in Nat
    BY <2>3, FS_CardinalityType
  <2>6. QED BY <2>1, <2>3, <2>4, <2>5, NodeFacts
<1>5. freeHead = kNil <=> L = Node
  <2> DEFINE q == FreeList
             n == Len(q)
             S == Node \ LiveNodes
  <2>1. Reads(q, n, S, freeHead, nextFree)
    BY DEF ListInv, FreeLinked
  <2> HIDE DEF q, n, S
  <2>2. n \in Nat /\ S = {q[k] : k \in 1..n} /\ freeHead = (IF n = 0 THEN kNil ELSE q[1])
        /\ \A k \in 1..n : q[k] # kNil
    <3>1. n \in Nat /\ (\A k \in 1..n : q[k] # kNil) /\ freeHead = IF n = 0 THEN kNil ELSE q[1]
      BY <2>1, ReadsFacts
    <3>2. S = {q[k] : k \in 1..n}
      BY <2>1 DEF Reads
    <3>3. QED BY <3>1, <3>2
  <2>3. n # 0 => 1 \in 1..n
    BY <2>2
  <2>4. freeHead = kNil <=> S = {}
    BY <2>2, <2>3
  <2>5. QED BY <1>2, <2>4 DEF S, L
<1>6. idToIdx[id] # kNil <=> id \in R
  BY <1>1
<1>7. MaxOrders \in Nat
  BY NodeFacts
<1>8. Cardinality(R) < MaxOrders <=> freeHead # kNil
  <2> DEFINE c == Cardinality(R)
  <2> HIDE DEF c
  <2>1. c \in Nat /\ c <= MaxOrders /\ (c = MaxOrders <=> L = Node)
    BY <1>4 DEF c
  <2>2. c < MaxOrders <=> c # MaxOrders
    <3>1. c \in Int /\ MaxOrders \in Int /\ c <= MaxOrders
      BY <1>7, <2>1
    <3>2. QED BY ONLY <3>1
  <2>3. QED BY <1>5, <2>1, <2>2 DEF c
<1>9. QED BY <1>6, <1>8 DEF AllocFails, R

\* The book that the rest of the taker joins.
LEMMA RestedBook ==
  ASSUME TypeOK, ListInv, orderId' \in [Node -> Node], orderQty' \in [Node -> Qty],
         RestRemainder, ~AllocFails(call.id)
  PROVE  BookOf' = Put(BookOf, call.side, call.price,
                       Append(BookOf[call.side][call.price], [id |-> call.id, qty |-> call.remaining]))
<1> DEFINE side == call.side
           price == call.price
           i == freeHead
           level == PriceToLevel(price)
<1>1. /\ side \in Side /\ price \in PriceMin..PriceMax /\ call.id \in Node
      /\ level \in Level /\ FreeLinked /\ Linked
  BY LevelPrices DEF TypeOK, ListInv
<1>2. /\ AllocOrder(call.id)
      /\ orderId' = [orderId EXCEPT ![i] = call.id]
      /\ orderSide' = [orderSide EXCEPT ![i] = side]
      /\ orderPrice' = [orderPrice EXCEPT ![i] = price]
      /\ orderQty' = [orderQty EXCEPT ![i] = call.remaining]
      /\ LinkNewOrder(side, level, i, call.remaining)
  BY DEF RestRemainder
<1> HIDE DEF side, price
<1>3. i \in Node /\ i \notin LiveNodes
  BY <1>1, <1>2, RestingNodes
<1>4. /\ orderId'[i] = call.id /\ orderQty'[i] = call.remaining
      /\ \A j \in Node : j # i => orderId'[j] = orderId[j] /\ orderQty'[j] = orderQty[j]
  BY <1>2, <1>3 DEF TypeOK
<1>5. ASSUME NEW s \in Side, NEW p \in PriceMin..PriceMax
      PROVE  /\ s = side /\ p = price =>
                  BookOf'[s][p] = Append(BookOf[s][p], [id |-> call.id, qty |-> call.remaining])
             /\ ~(s = side /\ p = price) => BookOf'[s][p] = BookOf[s][p]
  <2> DEFINE l == PriceToLevel(p)
             q == Fifo(s, l)
             n == Len(q)
             here == s = side /\ l = level
  <2>1. /\ n \in Nat /\ q \in [1..n -> Node] /\ NodesAt(s, l) = {q[k] : k \in 1..n}
        /\ BookOf[s][p] = Orders(q, n, orderId, orderQty)
    BY <1>1, BookNow
  <2>2. l \in Level /\ (here <=> s = side /\ p = price)
    BY <1>1, LevelPrices
  <2>3. q = Fifo(s, l) /\ n = Len(q)
    OBVIOUS
  <2> HIDE DEF q, n, l
  <2>4. Threads(IF here THEN Followed(q, n, i) ELSE q, IF here THEN n + 1 ELSE n,
                NodesAt(s, l)', head'[s][l], tail'[s][l], next', prev')
    BY <1>1, <1>2, <2>2, <2>3, RestedLists
  <2>5. \A k \in 1..n : orderId'[q[k]] = orderId[q[k]] /\ orderQty'[q[k]] = orderQty[q[k]]
    <3>1. \A k \in 1..n : q[k] \in LiveNodes
      BY <2>1, <2>2, LiveFacts
    <3>2. QED BY <1>3, <1>4, <2>1, <3>1
  <2>6. CASE here
    <3> DEFINE r == Followed(q, n, i)
               m == n + 1
    <3>1. Threads(r, m, NodesAt(s, l)', head'[s][l], tail'[s][l], next', prev')
      BY <2>4, <2>6
    <3> HIDE DEF r, m
    <3>2. BookOf'[s][p] = Orders(r, m, orderId', orderQty')
      BY <3>1, BookNext DEF l
    <3> DEFINE ids == orderId'
               qtys == orderQty'
    <3>3. /\ ids \in [Node -> Node] /\ qtys \in [Node -> Qty]
          /\ orderId \in [Node -> Node] /\ orderQty \in [Node -> Qty]
          /\ \A k \in 1..n : ids[q[k]] = orderId[q[k]] /\ qtys[q[k]] = orderQty[q[k]]
          /\ ids[i] = call.id /\ qtys[i] = call.remaining
      BY <1>4, <2>5 DEF TypeOK
    <3> HIDE DEF ids, qtys
    <3>4. Orders(r, m, ids, qtys) = Joined(q, n, orderId, orderQty, i, ids, qtys)
      <4>1. /\ n \in Nat /\ q \in [1..n -> Node] /\ i \in Node
            /\ ids \in [Node -> Node] /\ qtys \in [Node -> Qty]
            /\ orderId \in [Node -> Node] /\ orderQty \in [Node -> Qty]
            /\ \A k \in 1..n : ids[q[k]] = orderId[q[k]] /\ qtys[q[k]] = orderQty[q[k]]
        BY <1>3, <2>1, <3>3
      <4> HIDE DEF i
      <4>2. Joins(q, n, i, orderId, orderQty, ids, qtys)
        BY <4>1 DEF Joins
      <4>3. Orders(Followed(q, n, i), n + 1, ids, qtys) = Joined(q, n, orderId, orderQty, i, ids, qtys)
        BY <4>2, OrdersAppended
      <4>4. QED BY <4>3 DEF r, m
    <3>5. BookOf'[s][p] = Append(BookOf[s][p], [id |-> call.id, qty |-> call.remaining])
      BY <2>1, <3>2, <3>3, <3>4 DEF ids, qtys, Joined
    <3>6. QED BY <2>2, <2>6, <3>5
  <2>7. CASE ~here
    <3>1. Threads(q, n, NodesAt(s, l)', head'[s][l], tail'[s][l], next', prev')
      BY <2>4, <2>7
    <3>2. BookOf'[s][p] = Orders(q, n, orderId', orderQty')
      BY <3>1, BookNext DEF l
    <3>3. Orders(q, n, orderId', orderQty') = Orders(q, n, orderId, orderQty)
      BY <2>5, OrdersKept
    <3>4. QED BY <2>1, <2>2, <2>7, <3>2, <3>3
  <2>8. QED BY <2>6, <2>7
<1>6. BookOf' = Put(BookOf, side, price, BookOf'[side][price])
  BY <1>1, <1>5, OneQueue
<1>7. BookOf'[side][price] = Append(BookOf[side][price], [id |-> call.id, qty |-> call.remaining])
  BY <1>1, <1>5
<1>8. QED BY <1>6, <1>7 DEF side, price

\* The end of process_order is the abstract taker that rests or fails.
LEMMA RestMatches ==
  ASSUME TypeOK, Separated, ListInv, TrackInv, RestRemainder,
         orderId' \in [Node -> Node], orderQty' \in [Node -> Qty]
  PROVE  Abstract!Rest
<1>1. call.id \in Node /\ call.running /\ ~Crossing /\ UNCHANGED executions
  BY DEF TypeOK, RestRemainder
<1>2. Linked /\ OccupiedIffOrders
  BY DEF ListInv, TrackInv
<1> DEFINE free == /\ call.id \notin Abstract!RestingIds
                   /\ Cardinality(Abstract!RestingIds) < MaxOrders
           P == Abstract!CrossingPrices(BookOf[Abstract!Opposite(call.side)])
<1>3. P = {}
  <2>1. Opposite(call.side) = Abstract!Opposite(call.side)
    BY DEF Opposite, Abstract!Opposite, Buy, Sell, Abstract!Buy, Abstract!Sell
  <2>2. Abstract!CrossingPrices(BookOf[Opposite(call.side)]) = {}
    BY <1>1, <1>2, CrossingIs
  <2>3. QED BY <2>1, <2>2
<1>4. AllocFails(call.id) <=> ~free
  BY <1>1, AllocFailsWhenFull
<1> HIDE DEF free, P
<1>5. call' = NoCall /\ NoCall = Abstract!NoTaker
  BY DEF RestRemainder, Return, NoCall, Abstract!NoTaker, Buy, Abstract!Buy
<1>6. ok' = free
  <2>1. free \in BOOLEAN
    BY DEF free
  <2>2. ok' = IF AllocFails(call.id) THEN FALSE ELSE TRUE
    BY DEF RestRemainder, Return
  <2>3. QED BY <1>4, <2>1, <2>2
<1>7. BookOf' = IF ok'
                THEN [BookOf EXCEPT ![call.side][call.price] =
                        Append(@, [id |-> call.id, qty |-> call.remaining])]
                ELSE BookOf
  <2>1. CASE AllocFails(call.id)
    <3>1. UNCHANGED <<levelVars, nodeVars, poolVars>>
      BY <2>1 DEF RestRemainder
    <3>2. BookOf' = BookOf
      BY <3>1 DEF BookOf, Fifo, levelVars, nodeVars
    <3>3. QED BY <1>4, <1>6, <2>1, <3>2
  <2>2. CASE ~AllocFails(call.id)
    <3>1. BookOf' = Put(BookOf, call.side, call.price,
                        Append(BookOf[call.side][call.price], [id |-> call.id, qty |-> call.remaining]))
      BY <2>2, RestedBook
    <3>2. QED BY <1>4, <1>6, <2>2, <3>1 DEF Put
  <2>3. QED BY <2>1, <2>2
<1>8. Abstract!Cardinality(Abstract!RestingIds) = Cardinality(Abstract!RestingIds)
  BY Zenon DEF Abstract!Cardinality, Cardinality
<1>9. QED BY <1>1, <1>3, <1>5, <1>6, <1>7, <1>8 DEF Abstract!Rest, free, P

\* Where the abstract book finds the orders of an id.
LEMMA PlacesFacts ==
  ASSUME TypeOK, ListInv, NEW id
  PROVE  /\ \A s \in Side, p \in PriceMin..PriceMax :
              \A m \in 1..Len(Fifo(s, PriceToLevel(p))) :
                 orderId[Fifo(s, PriceToLevel(p))[m]] = id => <<s, p, m>> \in Abstract!Places(id)
         /\ Abstract!Places(id) # {} => \E i \in LiveNodes : orderId[i] = id
<1> DEFINE P == PriceMin..PriceMax
           B == BookOf
           here(place) == /\ place[3] <= Len(B[place[1]][place[2]])
                          /\ B[place[1]][place[2]][place[3]].id = id
<1>1. Abstract!Places(id) = {place \in Side \X P \X (1..MaxOrders) : here(place)}
  BY DEF Abstract!Places, Abstract!Side, Abstract!Price, Side, Buy, Sell, Abstract!Buy, Abstract!Sell
<1>2. orderId \in [Node -> Node] /\ orderQty \in [Node -> Qty] /\ Linked
  BY DEF TypeOK, ListInv
<1>3. ASSUME NEW s \in Side, NEW p \in P
      PROVE  LET q == Fifo(s, PriceToLevel(p))
             IN /\ Len(q) \in Nat /\ Len(q) <= MaxOrders /\ Len(B[s][p]) = Len(q)
                /\ \A m \in 1..Len(q) : B[s][p][m].id = orderId[q[m]] /\ q[m] \in LiveNodes
  <2> DEFINE l == PriceToLevel(p)
             q == Fifo(s, l)
             n == Len(q)
             o == Orders(q, n, orderId, orderQty)
  <2>1. /\ n \in Nat /\ q \in [1..n -> Node] /\ NodesAt(s, l) = {q[k] : k \in 1..n}
        /\ B[s][p] = o
    BY <1>2, BookNow
  <2>2. l \in Level /\ Threads(q, n, NodesAt(s, l), head[s][l], tail[s][l], next, prev)
    BY <1>2, LevelPrices DEF Linked
  <2> HIDE DEF q, n, l
  <2>3. n <= MaxOrders
    BY <2>2, ReadsLength DEF Threads
  <2>4. Len(o) = n /\ \A m \in 1..n : o[m] = [id |-> orderId[q[m]], qty |-> orderQty[q[m]]]
    BY <1>2, <2>1, OrdersSeq
  <2>5. \A m \in 1..n : q[m] \in LiveNodes
    BY <2>1, <2>2, LiveFacts
  <2> HIDE DEF o, B
  <2>6. \A m \in 1..n : B[s][p][m].id = orderId[q[m]]
    BY <2>1, <2>4
  <2>7. QED BY <2>1, <2>3, <2>4, <2>5, <2>6 DEF q, n, l
<1> HIDE DEF B
<1>4. ASSUME NEW s \in Side, NEW p \in P, NEW m \in 1..Len(Fifo(s, PriceToLevel(p))),
             orderId[Fifo(s, PriceToLevel(p))[m]] = id
      PROVE  <<s, p, m>> \in Abstract!Places(id)
  <2> DEFINE n == Len(Fifo(s, PriceToLevel(p)))
  <2>1. n \in Nat /\ n <= MaxOrders /\ Len(B[s][p]) = n /\ B[s][p][m].id = id
    BY <1>3, <1>4
  <2> HIDE DEF n
  <2>2. m \in 1..n /\ MaxOrders \in Nat
    BY NodeFacts DEF n
  <2>3. m \in 1..MaxOrders /\ m <= n
    BY <2>1, <2>2
  <2>4. QED BY <1>1, <2>1, <2>3
<1>5. ASSUME NEW place \in Abstract!Places(id) PROVE \E i \in LiveNodes : orderId[i] = id
  <2> DEFINE s == place[1]
             p == place[2]
             m == place[3]
             q == Fifo(s, PriceToLevel(p))
             n == Len(q)
  <2>1. s \in Side /\ p \in P /\ m \in 1..MaxOrders /\ m <= Len(B[s][p]) /\ B[s][p][m].id = id
    BY <1>1
  <2> HIDE DEF s, p, m
  <2>2. n \in Nat /\ Len(B[s][p]) = n
        /\ \A k \in 1..n : B[s][p][k].id = orderId[q[k]] /\ q[k] \in LiveNodes
    BY <1>3, <2>1
  <2> HIDE DEF q, n
  <2>3. m \in 1..n
    BY <2>1, <2>2, NodeFacts
  <2>4. QED BY <2>1, <2>2, <2>3
<1>6. QED BY <1>4, <1>5

\* Between calls no taker is kept.
IdleCall == ~call.running => call = NoCall

\* cancel_order is the abstract cancellation.
LEMMA CancelMatches ==
  ASSUME TypeOK, ListInv, IdleCall, NEW id \in Ids, Cancel(id), orderQty' \in [Node -> Qty]
  PROVE  Abstract!Cancel(id)
<1> DEFINE i == idToIdx[id]
           side == orderSide[i]
           level == PriceToLevel(orderPrice[i])
           q == Fifo(side, level)
           n == Len(q)
           price == LevelToPrice(level)
<1>1. ~call.running /\ call = NoCall /\ call' = NoCall /\ UNCHANGED executions
  BY DEF Cancel, Return, IdleCall
<1>2. IdsMatch /\ RestingPlaced /\ Linked
      /\ orderId \in [Node -> Node] /\ orderQty \in [Node -> Qty]
  BY DEF ListInv, TypeOK
<1>3. CASE ValidId(id) /\ i # kNil
  <2>1. id \in Node /\ i \in LiveNodes
    BY <1>3, EngineAssumption DEF ValidId, Node, LiveNodes
  <2>2. /\ orderId[i] = id /\ side \in Side /\ level \in Level /\ i \in NodesAt(side, level)
    BY <1>2, <1>3, <2>1, LivePlaced DEF IdsMatch
  <2>3. /\ UnlinkOrder(side, level, i) /\ FreeOrder(orderId[i]) /\ ok' = TRUE
        /\ UNCHANGED <<orderId, orderSide, orderPrice>>
    BY <1>3, <2>2 DEF Cancel, Return
  <2>4. price \in PriceMin..PriceMax /\ PriceToLevel(price) = level
    BY <2>2, LevelPrices
  <2>5. /\ n \in Nat /\ q \in [1..n -> Node] /\ NodesAt(side, level) = {q[k] : k \in 1..n}
        /\ \A j, k \in 1..n : q[j] = q[k] => j = k
        /\ BookOf[side][price] = Orders(q, n, orderId, orderQty)
    BY <1>2, <2>2, <2>4, BookNow
  <2>6. q = Fifo(side, level) /\ n = Len(q)
    OBVIOUS
  <2> HIDE DEF i, side, level, price, q, n
  <2>7. PICK m \in 1..n : q[m] = i
    BY <2>2, <2>5
  <2>8. /\ BookOf' = Put(BookOf, side, price, Orders(Without(q, n, m), n - 1, orderId, orderQty'))
        /\ \A j \in Node : j # i => orderQty'[j] = orderQty[j]
    BY <1>2, <2>2, <2>3, <2>6, <2>7, LeavingBook DEF price
  <2>9. Orders(Without(q, n, m), n - 1, orderId, orderQty')
          = Abstract!WithoutPosition(Orders(q, n, orderId, orderQty), m)
    <3> DEFINE less == orderQty'
    <3>1. less \in [Node -> Qty] /\ \A k \in 1..n : k # m => less[q[k]] = orderQty[q[k]]
      BY <2>5, <2>7, <2>8
    <3> HIDE DEF less
    <3>2. Orders(Without(q, n, m), n - 1, orderId, less) = Cut(Orders(q, n, orderId, orderQty), m)
      BY ONLY <1>2, <2>5, <2>7, <3>1, OrdersWithout
    <3>3. QED BY <3>2, Zenon DEF Abstract!WithoutPosition, Cut, less
  <2>10. <<side, price, m>> \in Abstract!Places(id)
    <3>1. m \in 1..Len(Fifo(side, PriceToLevel(price)))
          /\ orderId[Fifo(side, PriceToLevel(price))[m]] = id
      BY <2>2, <2>4, <2>6, <2>7
    <3>2. QED BY <2>2, <2>4, <3>1, PlacesFacts
  <2>11. BookOf' = Put(BookOf, side, price, Abstract!WithoutPosition(BookOf[side][price], m))
    BY <2>5, <2>8, <2>9
  <2> DEFINE place == <<side, price, m>>
  <2>12. place \in Abstract!Places(id) /\ Abstract!Places(id) # {}
    BY <2>10
  <2>13. BookOf' = [BookOf EXCEPT ![place[1]][place[2]] = Abstract!WithoutPosition(@, place[3])]
    BY <2>11 DEF Put
  <2> HIDE DEF place
  <2>14. ok' = (Abstract!Places(id) # {})
    BY <2>3, <2>12
  <2>15. UNCHANGED <<call, executions>>
    BY <1>1
  <2>16. QED BY <1>1, <2>12, <2>13, <2>14, <2>15, Zenon DEF Abstract!Cancel
<1>4. CASE ~(ValidId(id) /\ i # kNil)
  <2>1. ok' = FALSE /\ UNCHANGED <<levelVars, nodeVars>>
    BY <1>4 DEF Cancel, Return, nodeVars
  <2>2. BookOf' = BookOf
    BY <2>1 DEF BookOf, Fifo, levelVars, nodeVars
  <2>3. Abstract!Places(id) = {}
    <3>1. ASSUME NEW j \in LiveNodes, orderId[j] = id PROVE FALSE
      <4>1. id \in Node /\ idToIdx[id] = j /\ j \in Node
        BY <1>2, <3>1, LivePlaced
      <4>2. ValidId(id) /\ j # kNil
        BY <4>1, NodeFacts DEF ValidId, Node
      <4>3. QED BY <1>4, <4>1, <4>2
    <3>2. QED BY <3>1, PlacesFacts
  <2>4. ok' = (Abstract!Places(id) # {}) /\ ~ok'
    BY <2>1, <2>3
  <2>5. UNCHANGED <<call, executions>>
    BY <1>1
  <2>6. QED BY <1>1, <2>2, <2>4, <2>5, Zenon DEF Abstract!Cancel
<1>5. QED BY <1>3, <1>4

\* With no order in any list every queue of the abstract book is empty.
LEMMA EmptyBook ==
  ASSUME TypeOK, Linked, LiveNodes = {}
  PROVE  BookOf = [s \in Abstract!Side |-> [p \in Abstract!Price |-> <<>>]]
<1> DEFINE P == PriceMin..PriceMax
           B == BookOf
<1>1. ASSUME NEW s \in Side, NEW p \in P PROVE B[s][p] = <<>>
  <2> DEFINE l == PriceToLevel(p)
             q == Fifo(s, l)
             n == Len(q)
  <2>1. /\ n \in Nat /\ q \in [1..n -> Node] /\ NodesAt(s, l) = {q[k] : k \in 1..n}
        /\ B[s][p] = Orders(q, n, orderId, orderQty)
    BY BookNow
  <2>2. NodesAt(s, l) = {}
    BY DEF NodesAt
  <2> HIDE DEF q, n, l, B
  <2>3. n = 0
    <3>1. n # 0 => 1 \in 1..n
      BY <2>1
    <3>2. QED BY <2>1, <2>2, <3>1
  <2>4. orderId \in [Node -> Node] /\ orderQty \in [Node -> Qty]
    BY DEF TypeOK
  <2>5. Orders(q, n, orderId, orderQty) = <<>>
    BY <2>1, <2>3, <2>4, OrdersSeq
  <2>6. QED BY <2>1, <2>5
<1>2. B = [s \in Side |-> [p \in P |-> B[s][p]]]
  BY BookShape DEF IsBook
<1> HIDE DEF B
<1>3. B = [s \in Side |-> [p \in P |-> <<>>]]
  BY <1>1, <1>2
<1>4. QED BY <1>3 DEF B, Abstract!Side, Abstract!Price, Side, Buy, Sell, Abstract!Buy, Abstract!Sell

LEMMA EmptyBookFact ==
  TypeOK /\ Linked /\ LiveNodes = {}
    => BookOf = [s \in Abstract!Side |-> [p \in Abstract!Price |-> <<>>]]
BY EmptyBook

LEMMA NoTakerIs == NoCall = Abstract!NoTaker
BY DEF NoCall, Abstract!NoTaker, Buy, Abstract!Buy

LEMMA InitMatches == ASSUME Init, TypeOK, ListInv PROVE Abstract!Init
<1>1. LiveNodes = {} /\ Linked
  BY DEF Init, LiveNodes, ListInv
<1>2. BookOf = [s \in Abstract!Side |-> [p \in Abstract!Price |-> <<>>]]
  BY <1>1, EmptyBook
<1>3. call = Abstract!NoTaker /\ ok = FALSE /\ executions = <<>>
  BY NoTakerIs DEF Init
<1>4. QED BY <1>2, <1>3, Zenon DEF Abstract!Init

\* reset empties the abstract book.
LEMMA ResetMatches == ASSUME Reset, TypeOK', ListInv' PROVE Abstract!Clear
<1>1. LiveNodes' = {} /\ Linked'
  BY DEF Reset, LiveNodes, ListInv
<1>2. (TypeOK /\ Linked /\ LiveNodes = {}
         => BookOf = [s \in Abstract!Side |-> [p \in Abstract!Price |-> <<>>]])'
  BY EmptyBookFact, PTL
<1>3. BookOf' = [s \in Abstract!Side |-> [p \in Abstract!Price |-> <<>>]]
  BY <1>1, <1>2
<1>4. ~call.running /\ UNCHANGED <<call, ok, executions>>
  BY DEF Reset
<1>5. QED BY <1>3, <1>4, Zenon DEF Abstract!Clear

LEMMA BookUnchanged == ASSUME UNCHANGED <<levelVars, nodeVars>> PROVE BookOf' = BookOf
BY DEF BookOf, Fifo, levelVars, nodeVars

\* process_order up to its loop submits the taker, or refuses it.
LEMMA ProcessOrderMatches ==
  ASSUME NEW side \in Side, NEW price \in Prices, NEW qty \in Qtys, NEW id \in Ids,
         ProcessOrder(side, price, qty, id)
  PROVE  Abstract!Submit
<1>1. /\ ~call.running /\ Acceptable(price, qty, id)
      /\ call' = [running |-> TRUE, side |-> side, price |-> price, remaining |-> qty, id |-> id]
      /\ ok' = FALSE /\ executions' = <<>> /\ UNCHANGED <<levelVars, nodeVars>>
  BY DEF ProcessOrder
<1>2. BookOf' = BookOf
  BY <1>1, BookUnchanged
<1>3. side \in Abstract!Side
  BY DEF Abstract!Side, Abstract!Buy, Abstract!Sell, Side, Buy, Sell
<1>4. price \in Prices \cap Abstract!Price
  BY <1>1, EngineAssumption DEF Acceptable, InRange, Abstract!Price
<1>5. qty \in Qtys \ {0} /\ id \in Ids \cap Abstract!Id
  BY <1>1, EngineAssumption DEF Acceptable, ValidId, Abstract!Id
<1>6. call' \in Abstract!Acceptable
  BY <1>1, <1>3, <1>4, <1>5 DEF Abstract!Acceptable
<1>7. QED BY <1>1, <1>2, <1>6, Zenon DEF Abstract!Submit

LEMMA RefuseOrderMatches ==
  ASSUME IdleCall, NEW price \in Prices, NEW qty \in Qtys, NEW id \in Ids,
         RefuseOrder(price, qty, id)
  PROVE  Abstract!Refuse
<1>1. /\ ~call.running /\ ok' = FALSE /\ executions' = <<>> /\ call' = NoCall
      /\ UNCHANGED <<levelVars, nodeVars>>
  BY DEF RefuseOrder, Return
<1>2. BookOf' = BookOf
  BY <1>1, BookUnchanged
<1>3. UNCHANGED <<BookOf, call>>
  BY <1>1, <1>2 DEF IdleCall
<1>4. QED BY <1>1, <1>3, Zenon DEF Abstract!Refuse

LEMMA IdleAlways == Spec => []IdleCall
<1>1. Init => IdleCall
  BY DEF Init, IdleCall
<1>2. TypeOK /\ IdleCall /\ [Next]_engineVars => IdleCall'
  <2> SUFFICES ASSUME TypeOK, IdleCall, [Next]_engineVars PROVE IdleCall'
    OBVIOUS
  <2> USE DEF IdleCall
  <2>1. CASE Reset
    BY <2>1 DEF Reset
  <2>2. ASSUME NEW side \in Side, NEW price \in Prices, NEW qty \in Qtys, NEW id \in Ids,
               ProcessOrder(side, price, qty, id)
        PROVE  IdleCall'
    BY <2>2 DEF ProcessOrder
  <2>3. ASSUME NEW price \in Prices, NEW qty \in Qtys, NEW id \in Ids,
               RefuseOrder(price, qty, id)
        PROVE  IdleCall'
    BY <2>3 DEF RefuseOrder, Return
  <2>4. CASE MatchStep
    <3> DEFINE side == Opposite(call.side)
               i == NextMaker(side, best[side])
               traded == Min({call.remaining, orderQty[i]})
    <3>1. call.running /\ call \in [running : BOOLEAN, side : Side, price : PriceMin..PriceMax,
                                   remaining : Qty, id : Node]
      BY <2>4 DEF MatchStep, TypeOK
    <3> HIDE DEF side, i, traded
    <3>2. \/ UNCHANGED call
          \/ call' = NoCall
          \/ call' = [call EXCEPT !.remaining = @ - traded]
      BY <2>4 DEF MatchStep, TradeWith, Return, side, i, traded
    <3>3. call'.running \/ call' = NoCall
      BY <3>1, <3>2
    <3>4. QED BY <3>3
  <2>5. CASE RestRemainder
    BY <2>5 DEF RestRemainder, Return
  <2>6. CASE \E id \in Ids : Cancel(id)
    BY <2>6 DEF Cancel, Return
  <2>7. CASE UNCHANGED engineVars
    BY <2>7 DEF engineVars
  <2>8. QED BY <2>1, <2>2, <2>3, <2>4, <2>5, <2>6, <2>7 DEF Next
<1>3. Spec => []TypeOK
  BY EngineAlways, PTL DEF EngineInv
<1>4. QED BY <1>1, <1>2, <1>3, PTL DEF Spec

\* The engine, with its pool, free list, linked levels, occupancy words and
\* cached best prices, is the price-time book: every call, and every iteration
\* of the matching loop, is the step that the book promises, as long as a full
\* pool of the largest orders fits in QtyT.
THEOREM PriceTimePriority == ASSUME QtyFits PROVE Spec => ImplementsPriceTime
<1> DEFINE I == EngineInv /\ TrackInv /\ IdleCall
<1>1. Spec => []I
  BY TracksAlways, IdleAlways, PTL
<1>2. Init /\ I => Abstract!Init
  BY InitMatches DEF EngineInv
<1>3. I /\ I' /\ [Next]_engineVars => [Abstract!Next]_Abstract!vars
  <2> SUFFICES ASSUME I, I', [Next]_engineVars PROVE [Abstract!Next]_Abstract!vars
    OBVIOUS
  <2>0. /\ TypeOK /\ Separated /\ ListInv /\ QtyInv /\ TrackInv /\ IdleCall
        /\ TypeOK' /\ ListInv'
        /\ orderQty' \in [Node -> Qty] /\ orderId' \in [Node -> Node]
    BY DEF EngineInv, TypeOK
  <2> HIDE DEF I
  <2>1. Reset => Abstract!Clear
    BY <2>0, ResetMatches
  <2>2. ASSUME NEW side \in Side, NEW price \in Prices, NEW qty \in Qtys, NEW id \in Ids,
               ProcessOrder(side, price, qty, id)
        PROVE  Abstract!Submit
    BY <2>2, ProcessOrderMatches
  <2>3. ASSUME NEW price \in Prices, NEW qty \in Qtys, NEW id \in Ids,
               RefuseOrder(price, qty, id)
        PROVE  Abstract!Refuse
    BY <2>0, <2>3, RefuseOrderMatches
  <2>4. MatchStep => Abstract!Trade
    BY <2>0, TradeMatches
  <2>5. RestRemainder => Abstract!Rest
    BY <2>0, RestMatches
  <2>6. \A id \in Ids : Cancel(id) => Abstract!Cancel(id)
    BY <2>0, CancelMatches
  <2>7. UNCHANGED engineVars => UNCHANGED Abstract!vars
    <3>1. SUFFICES ASSUME UNCHANGED engineVars PROVE UNCHANGED <<BookOf, call, ok, executions>>
      BY DEF Abstract!vars
    <3>2. QED BY <3>1, BookUnchanged DEF engineVars
  <2>8. Next => Abstract!Next
    BY <2>1, <2>2, <2>3, <2>4, <2>5, <2>6, Zenon DEF Next, Abstract!Next
  <2>9. QED BY <2>7, <2>8
<1>4. QED BY <1>1, <1>2, <1>3, PTL DEF Spec, ImplementsPriceTime, Abstract!Spec
------------------------------------------------------------------------------
(***************************************************************************)
(* The ledger: what the operations mean for the orders by their id.  This  *)
(* is all that a caller of the engine can rely on, and needs no assumption *)
(* on quantities.                                                          *)
(***************************************************************************)
Resting == {id \in Node : idToIdx[id] # kNil}

\* What an id has left in the engine, and the side and price of its order.
Left(id) == IF id \in Resting THEN orderQty[idToIdx[id]] ELSE 0
SideAt(id) == orderSide[idToIdx[id]]
PriceAt(id) == orderPrice[idToIdx[id]]

Placed(id) == /\ SideAt(id)' = SideAt(id) /\ PriceAt(id)' = PriceAt(id)
Undisturbed(id) == Left(id)' = Left(id) /\ (id \in Resting => id \in Resting' /\ Placed(id))

LEMMA LedgerFacts ==
  ASSUME TypeOK, ListInv, QtyInv
  PROVE  /\ Resting \subseteq Node
         /\ \A id : id \in Resting <=> Left(id) # 0
         /\ \A id : Left(id) \in Qty
         /\ \A id \in Resting : SideAt(id) \in Side /\ PriceAt(id) \in Int
<1>1. ASSUME NEW id \in Resting
      PROVE  Left(id) > 0 /\ Left(id) \in Qty /\ SideAt(id) \in Side /\ PriceAt(id) \in Int
  <2> DEFINE i == idToIdx[id]
  <2>1. id \in Node /\ i \in LiveNodes /\ i \in Node
    BY LiveFacts DEF Resting, LiveNodes
  <2>2. orderSide[i] \in Side /\ orderPrice[i] \in Int /\ orderQty[i] > 0 /\ orderQty[i] \in Qty
    BY <2>1, LivePlaced DEF ListInv, QtyInv, Positive, TypeOK
  <2>3. QED BY <2>2 DEF Left, SideAt, PriceAt
<1>2. 0 \in Qty
  BY EngineAssumption DEF Qty
<1>3. QED BY <1>1, <1>2 DEF Resting, Left

\* An operation on one id and one node leaves the other orders alone.
LEMMA OthersUndisturbed ==
  ASSUME TypeOK, IdsMatch, NEW id \in Node, NEW i,
         \A j \in Node : j # id => idToIdx'[j] = idToIdx[j],
         \A k \in LiveNodes : k # i => /\ orderQty'[k] = orderQty[k]
                                       /\ orderSide'[k] = orderSide[k]
                                       /\ orderPrice'[k] = orderPrice[k],
         i \in LiveNodes => idToIdx[id] = i
  PROVE  \A j : j # id => Undisturbed(j)
<1> SUFFICES ASSUME NEW j, j # id PROVE Undisturbed(j)
  OBVIOUS
<1>1. CASE j \in Resting
  <2> DEFINE k == idToIdx[j]
  <2>1. j \in Node /\ k \in LiveNodes /\ orderId[k] = j
    BY <1>1 DEF Resting, LiveNodes, IdsMatch
  <2>2. k # i
    BY <2>1, NodeFacts DEF IdsMatch, LiveNodes
  <2>3. idToIdx'[j] = k /\ k # kNil
    BY <1>1, <2>1 DEF Resting
  <2> HIDE DEF k
  <2>4. orderQty'[k] = orderQty[k] /\ orderSide'[k] = orderSide[k] /\ orderPrice'[k] = orderPrice[k]
    BY <2>1, <2>2
  <2>5. j \in Resting'
    BY <2>1, <2>3 DEF Resting
  <2>6. QED BY <1>1, <2>3, <2>4, <2>5 DEF k, Undisturbed, Placed, Left, SideAt, PriceAt
<1>2. CASE j \notin Resting
  <2>1. j \notin Resting'
    BY <1>2 DEF Resting
  <2>2. QED BY <1>2, <2>1 DEF Undisturbed, Left
<1>3. QED BY <1>1, <1>2

LEMMA SameLedger ==
  ASSUME UNCHANGED <<nodeVars, poolVars>> PROVE \A id : Undisturbed(id)
BY DEF nodeVars, poolVars, Undisturbed, Placed, Left, SideAt, PriceAt, Resting

\* A trade of qty with the order of an id, which fills it or the taker.
Trades(id, qty) ==
  /\ qty <= Left(id) /\ qty <= call.remaining
  /\ qty = Left(id) \/ qty = call.remaining
  /\ SideAt(id) = Opposite(call.side)
  /\ IF call.side = Buy THEN PriceAt(id) <= call.price ELSE PriceAt(id) >= call.price
  /\ executions' = Append(executions, [maker |-> id, price |-> PriceAt(id), qty |-> qty])
  /\ TakerTraded(qty)
  /\ Left(id)' = Left(id) - qty /\ (id \in Resting' => Placed(id))
  /\ \A j : j # id => Undisturbed(j)

\* What a trade leaves of the order of its maker i, which has this id.
LEMMA MakerLedger ==
  ASSUME TypeOK, ListInv, NEW side, NEW level, NEW i \in LiveNodes, NEW id, id = orderId[i],
         NEW traded \in Nat \ {0}, traded <= orderQty[i],
         MakerTraded(side, level, i, traded), UNCHANGED <<orderId, orderPrice, orderSide>>
  PROVE  /\ Left(id)' = Left(id) - traded /\ (id \in Resting' => Placed(id))
         /\ \A j : j # id => Undisturbed(j)
<1>1. i \in Node /\ id \in Node /\ idToIdx[id] = i /\ i # kNil /\ orderQty[i] \in Int /\ IdsMatch
  BY LiveFacts, NodeFacts DEF ListInv, IdsMatch, TypeOK, Qty, LiveNodes
<1>2. Left(id) = orderQty[i]
  BY <1>1 DEF Left, Resting
<1>3. CASE traded = orderQty[i] /\ UnlinkOrder(side, level, i) /\ FreeOrder(id)
  <2>1. idToIdx' = [idToIdx EXCEPT ![id] = kNil] /\ orderQty' = [orderQty EXCEPT ![i] = 0]
    BY <1>3 DEF UnlinkOrder, FreeOrder
  <2>2. id \notin Resting'
    BY <1>1, <2>1 DEF Resting, TypeOK
  <2>3. Left(id)' = 0
    BY <2>2 DEF Left
  <2>4. \A j : j # id => Undisturbed(j)
    <3>1. /\ \A j \in Node : j # id => idToIdx'[j] = idToIdx[j]
          /\ \A k \in LiveNodes : k # i => /\ orderQty'[k] = orderQty[k]
                                           /\ orderSide'[k] = orderSide[k]
                                           /\ orderPrice'[k] = orderPrice[k]
      BY <2>1, LiveFacts DEF TypeOK
    <3>2. QED BY <1>1, <3>1, OthersUndisturbed
  <2>5. QED BY <1>1, <1>2, <1>3, <2>2, <2>3, <2>4
<1>4. CASE traded < orderQty[i] /\ Shrinks(side, level, i, traded)
  <2>1. idToIdx' = idToIdx /\ orderQty' = [orderQty EXCEPT ![i] = @ - traded]
    BY <1>4 DEF Shrinks, poolVars
  <2>2. id \in Resting' /\ Placed(id)
    BY <1>1, <2>1 DEF Resting, Placed, SideAt, PriceAt
  <2>3. Left(id)' = orderQty[i] - traded
    BY <1>1, <2>1, <2>2 DEF Left, TypeOK
  <2>4. \A j : j # id => Undisturbed(j)
    <3>1. /\ \A j \in Node : j # id => idToIdx'[j] = idToIdx[j]
          /\ \A k \in LiveNodes : k # i => /\ orderQty'[k] = orderQty[k]
                                           /\ orderSide'[k] = orderSide[k]
                                           /\ orderPrice'[k] = orderPrice[k]
      BY <2>1, LiveFacts DEF TypeOK
    <3>2. QED BY <1>1, <3>1, OthersUndisturbed
  <2>5. QED BY <1>2, <2>2, <2>3, <2>4
<1>5. QED BY <1>3, <1>4 DEF MakerTraded

\* One iteration of the matching loop trades with one resting order that the
\* taker's limit accepts, at its price, or changes no order.
LEMMA MatchStepLedger ==
  ASSUME TypeOK, ListInv, QtyInv, MatchStep
  PROVE  \/ UNCHANGED <<nodeVars, poolVars, call, ok, executions>>
         \/ \E id \in Resting, qty \in Nat \ {0} : Trades(id, qty)
<1>1. PICK side, level : /\ side = Opposite(call.side) /\ level = best[side]
                         /\ side \in Side /\ level \in Level /\ call.running
  BY MatchLevel
<1>2. IdsMatch /\ RestingPlaced /\ Positive
  BY DEF ListInv, QtyInv
<1>3. PICK i : i = NextMaker(side, level)
  OBVIOUS
<1>4. CASE i = kNil
  BY <1>1, <1>3, <1>4 DEF MatchStep
<1>5. CASE i # kNil
  <2>1. TradeWith(side, level, i) /\ UNCHANGED <<orderId, orderPrice, orderSide>>
    BY <1>1, <1>3, <1>5 DEF MatchStep, TradeWith
  <2>2. i \in NodesAt(side, level) /\ i \in LiveNodes
    BY <1>1, <1>3, <1>5, MakerRests
  <2>3. LevelToPrice(level) = orderPrice[i] /\ orderSide[i] = side
    BY <2>2 DEF NodesAt
  <2>4. IF call.side = Buy THEN LevelToPrice(level) <= call.price
                           ELSE LevelToPrice(level) >= call.price
    BY <1>1 DEF MatchStep, Crossing
  <2>5. PICK id, traded : id = orderId[i] /\ traded = Min({call.remaining, orderQty[i]})
    OBVIOUS
  <2>6. executions' = Append(executions, [maker |-> id, price |-> LevelToPrice(level), qty |-> traded])
    BY <2>1, <2>5 DEF TradeWith
  <2>7. /\ i \in Node /\ traded \in Int /\ traded > 0
        /\ traded <= call.remaining /\ traded <= orderQty[i]
        /\ call.remaining \in Int /\ orderQty[i] \in Int
        /\ TakerTraded(traded) /\ MakerTraded(side, level, i, traded)
    BY <1>1, <1>2, <2>1, <2>2, <2>5, TradeFacts
  <2>8. id \in Node /\ idToIdx[id] = i /\ i # kNil /\ id \in Resting
    BY <1>2, <2>2, <2>5, <2>7, LivePlaced, NodeFacts DEF Resting
  <2>9. Left(id) = orderQty[i] /\ SideAt(id) = side /\ PriceAt(id) = LevelToPrice(level)
    BY <2>3, <2>8 DEF Left, SideAt, PriceAt
  <2>10. /\ Left(id)' = Left(id) - traded /\ (id \in Resting' => Placed(id))
         /\ \A j : j # id => Undisturbed(j)
    BY <2>1, <2>2, <2>5, <2>7, MakerLedger
  <2>11. traded = orderQty[i] \/ traded = call.remaining
    BY <2>5, <2>7, MinOfTwo
  <2>12. Trades(id, traded)
    BY <1>1, <2>4, <2>6, <2>7, <2>9, <2>10, <2>11 DEF Trades
  <2>13. QED BY <2>7, <2>8, <2>12
<1>6. QED BY <1>4, <1>5

\* What follows the loop: the rest of the taker rests, unless its id rests
\* already or every id there is does.
LEMMA RestRemainderLedger ==
  ASSUME TypeOK, ListInv, RestRemainder, NEW id, id = call.id
  PROVE  /\ UNCHANGED executions /\ call' = NoCall
         /\ \/ /\ ok' = TRUE /\ id \notin Resting /\ id \in Resting'
               /\ Left(id)' = call.remaining
               /\ SideAt(id)' = call.side /\ PriceAt(id)' = call.price
               /\ \A j : j # id => Undisturbed(j)
            \/ id \in Resting \/ Resting = Node
<1> PICK i : i = freeHead
  OBVIOUS
<1>1. id \in Node /\ IdsMatch /\ UNCHANGED executions /\ call' = NoCall
  BY DEF TypeOK, ListInv, RestRemainder, Return
<1>2. CASE AllocFails(id)
  <2>1. id \in Abstract!RestingIds \/ ~(Cardinality(Abstract!RestingIds) < MaxOrders)
    BY <1>1, <1>2, AllocFailsWhenFull
  <2>2. Abstract!RestingIds = Resting
    BY RestingIdsAre DEF ListInv, Resting
  <2>3. Resting \subseteq Node
    BY DEF Resting
  <2>4. /\ Cardinality(Resting) \in Nat /\ MaxOrders \in Nat
        /\ Cardinality(Resting) <= MaxOrders /\ (MaxOrders = Cardinality(Resting) => Node = Resting)
    <3>1. /\ IsFiniteSet(Resting) /\ Cardinality(Resting) <= Cardinality(Node)
          /\ (Cardinality(Node) = Cardinality(Resting) => Node = Resting)
      BY <2>3, NodeFacts, FS_Subset
    <3>2. QED BY <3>1, NodeFacts, FS_CardinalityType
  <2>5. ~(Cardinality(Resting) < MaxOrders) => Resting = Node
    BY <2>4
  <2>6. QED BY <1>1, <2>1, <2>2, <2>5
<1>3. CASE ~AllocFails(id)
  <2>1. /\ AllocOrder(id) /\ ok' = TRUE
        /\ orderSide' = [orderSide EXCEPT ![i] = call.side]
        /\ orderPrice' = [orderPrice EXCEPT ![i] = call.price]
        /\ orderQty' = [orderQty EXCEPT ![i] = call.remaining]
    BY <1>3 DEF RestRemainder, Return
  <2>2. i \in Node /\ i \notin LiveNodes
    <3>1. call.side \in Side /\ call.price \in PriceMin..PriceMax /\ FreeLinked
      BY DEF TypeOK, ListInv
    <3>2. QED BY <1>1, <1>3, <2>1, <3>1, RestingNodes
  <2>3. idToIdx' = [idToIdx EXCEPT ![id] = i] /\ id \notin Resting
    BY <1>3, <2>1 DEF AllocOrder, AllocFails, Resting
  <2>4. id \in Resting' /\ idToIdx'[id] = i
    BY <1>1, <2>2, <2>3, NodeFacts DEF Resting, TypeOK
  <2>5. Left(id)' = call.remaining /\ SideAt(id)' = call.side /\ PriceAt(id)' = call.price
    BY <2>1, <2>2, <2>4 DEF Left, SideAt, PriceAt, TypeOK
  <2>6. \A j : j # id => Undisturbed(j)
    <3>1. /\ \A j \in Node : j # id => idToIdx'[j] = idToIdx[j]
          /\ \A k \in LiveNodes : k # i => /\ orderQty'[k] = orderQty[k]
                                           /\ orderSide'[k] = orderSide[k]
                                           /\ orderPrice'[k] = orderPrice[k]
      BY <2>1, <2>3, LiveFacts DEF TypeOK
    <3>2. QED BY <1>1, <2>2, <3>1, OthersUndisturbed
  <2>7. QED BY <1>1, <2>1, <2>3, <2>4, <2>5, <2>6
<1>4. QED BY <1>2, <1>3

\* A cancellation takes the order of its id, if it rests, and no other.
LEMMA CancelLedger ==
  ASSUME TypeOK, ListInv, NEW id \in Ids, Cancel(id)
  PROVE  /\ UNCHANGED executions /\ call' = NoCall /\ ~call.running
         /\ (IF id \in Resting THEN ok' = TRUE ELSE ok' = FALSE) /\ id \notin Resting'
         /\ \A j : j # id => Undisturbed(j)
<1> DEFINE i == idToIdx[id]
<1>1. UNCHANGED executions /\ call' = NoCall /\ ~call.running /\ IdsMatch
  BY DEF Cancel, Return, ListInv
<1>2. CASE ValidId(id) /\ i # kNil
  <2>1. id \in Node /\ i \in LiveNodes /\ id \in Resting
    BY <1>2, EngineAssumption DEF ValidId, Node, LiveNodes, Resting
  <2>2. /\ ok' = TRUE /\ idToIdx' = [idToIdx EXCEPT ![id] = kNil]
        /\ orderQty' = [orderQty EXCEPT ![i] = 0] /\ UNCHANGED <<orderPrice, orderSide>>
    BY <1>2 DEF Cancel, Return, UnlinkOrder, FreeOrder
  <2> HIDE DEF i
  <2>3. id \notin Resting'
    BY <2>2 DEF Resting, TypeOK
  <2>4. \A j : j # id => Undisturbed(j)
    <3>1. /\ \A j \in Node : j # id => idToIdx'[j] = idToIdx[j]
          /\ \A k \in LiveNodes : k # i => /\ orderQty'[k] = orderQty[k]
                                           /\ orderSide'[k] = orderSide[k]
                                           /\ orderPrice'[k] = orderPrice[k]
      BY <2>2, LiveFacts DEF TypeOK
    <3>2. QED BY <1>1, <2>1, <3>1, OthersUndisturbed DEF i
  <2>5. QED BY <1>1, <2>1, <2>2, <2>3, <2>4
<1>3. CASE ~(ValidId(id) /\ i # kNil)
  <2>1. ok' = FALSE /\ UNCHANGED <<nodeVars, poolVars>>
    BY <1>3 DEF Cancel, Return, nodeVars
  <2>2. id \notin Resting
    BY <1>3, NodeFacts DEF Resting, ValidId, Node
  <2>3. id \notin Resting'
    BY <2>1, <2>2 DEF Resting, poolVars
  <2>4. QED BY <1>1, <2>1, <2>2, <2>3, SameLedger
<1>4. QED BY <1>2, <1>3
------------------------------------------------------------------------------
(***************************************************************************)
(* The queries.  A level is found by its rank, the number of better ones   *)
(* among the levels that hold orders; the walk of getDepth goes from each  *)
(* rank to the next.                                                       *)
(***************************************************************************)
LEMMA RankFacts ==
  ASSUME NEW side \in Side, NEW S \in SUBSET Level, NEW l \in S
  PROVE  /\ IsFiniteSet(S) /\ Cardinality(S) \in Nat
         /\ IsFiniteSet(BetterThan(side, S, l)) /\ Cardinality(BetterThan(side, S, l)) \in Nat
         /\ IsFiniteSet(BetterThan(side, S, l) \cup {l})
         /\ BetterThan(side, S, l) \cup {l} \subseteq S
         /\ Cardinality(BetterThan(side, S, l) \cup {l}) = Cardinality(BetterThan(side, S, l)) + 1
<1> DEFINE B == BetterThan(side, S, l)
<1>1. IsFiniteSet(Level)
  BY LevelFacts, FS_Interval DEF Level
<1>2. B \subseteq S /\ S \subseteq Level
  BY DEF BetterThan
<1>3. l \notin B
  <2>1. l \in Int
    BY LevelFacts
  <2>2. QED BY <2>1 DEF BetterThan, Better
<1> HIDE DEF B
<1>4. IsFiniteSet(S) /\ IsFiniteSet(B)
  BY <1>1, <1>2, FS_Subset
<1>5. Cardinality(S) \in Nat /\ Cardinality(B) \in Nat
  BY <1>4, FS_CardinalityType
<1>6. IsFiniteSet(B \cup {l}) /\ Cardinality(B \cup {l}) = Cardinality(B) + 1
  BY <1>3, <1>4, FS_AddElement
<1>7. QED BY <1>2, <1>4, <1>5, <1>6 DEF B

\* A better level has a lower rank, so that no two levels have the same.
LEMMA RankLess ==
  ASSUME NEW side \in Side, NEW S \in SUBSET Level, NEW l \in S, NEW m \in S, Better(side, l, m)
  PROVE  Cardinality(BetterThan(side, S, l)) < Cardinality(BetterThan(side, S, m))
<1> DEFINE B == BetterThan(side, S, l)
           C == BetterThan(side, S, m)
<1>1. B \cup {l} \subseteq C
  <2>1. \A x \in S : x \in Int
    BY LevelFacts
  <2>2. QED BY <2>1 DEF BetterThan, Better
<1>2. /\ Cardinality(B) \in Nat /\ Cardinality(C) \in Nat /\ IsFiniteSet(C)
      /\ Cardinality(B \cup {l}) = Cardinality(B) + 1
  BY RankFacts
<1> HIDE DEF B, C
<1>3. Cardinality(B \cup {l}) <= Cardinality(C)
  BY <1>1, <1>2, FS_Subset
<1>4. QED BY <1>2, <1>3 DEF B, C

LEMMA RankedIs ==
  ASSUME NEW side \in Side, NEW S \in SUBSET Level, NEW l \in S, NEW k \in Int,
         Cardinality(BetterThan(side, S, l)) = k - 1
  PROVE  Ranked(side, S, k) = l
<1>1. ASSUME NEW m \in S, Cardinality(BetterThan(side, S, m)) = k - 1 PROVE m = l
  <2>1. /\ Cardinality(BetterThan(side, S, m)) \in Nat /\ Cardinality(BetterThan(side, S, l)) \in Nat
        /\ Cardinality(BetterThan(side, S, m)) = Cardinality(BetterThan(side, S, l))
    BY <1>1, RankFacts
  <2>2. ~Better(side, l, m) /\ ~Better(side, m, l)
    BY <2>1, RankLess
  <2>3. l \in Int /\ m \in Int
    BY LevelFacts
  <2>4. QED BY <2>2, <2>3 DEF Better
<1>2. QED BY <1>1 DEF Ranked

\* The levels behind one, and the first of them.
Behind(side, S, l) == {m \in S : Better(side, l, m)}
Leads(side, b, S) == b \in S /\ \A m \in S : ~Better(side, m, b)

LEMMA RankFirst ==
  ASSUME NEW side \in Side, NEW S \in SUBSET Level, NEW b, Leads(side, b, S)
  PROVE  Cardinality(BetterThan(side, S, b)) = 0
<1>1. BetterThan(side, S, b) = {}
  BY DEF BetterThan, Leads
<1>2. QED BY <1>1, FS_EmptySet

LEMMA RankNext ==
  ASSUME NEW side \in Side, NEW S \in SUBSET Level, NEW l \in S, NEW b,
         Leads(side, b, Behind(side, S, l))
  PROVE  b \in S /\ Cardinality(BetterThan(side, S, b)) = Cardinality(BetterThan(side, S, l)) + 1
<1>1. b \in S /\ Better(side, l, b) /\ \A m \in S : Better(side, l, m) => ~Better(side, m, b)
  BY DEF Leads, Behind
<1>2. BetterThan(side, S, b) = BetterThan(side, S, l) \cup {l}
  <2>1. \A x \in S : x \in Int
    BY LevelFacts
  <2>2. ASSUME NEW m \in S PROVE Better(side, m, b) <=> Better(side, m, l) \/ m = l
    BY <1>1, <2>1 DEF Better
  <2>3. QED BY <2>2 DEF BetterThan
<1>3. Cardinality(BetterThan(side, S, l) \cup {l}) = Cardinality(BetterThan(side, S, l)) + 1
  BY RankFacts
<1>4. QED BY <1>1, <1>2, <1>3

\* The last rank is that of the level with none behind it.
LEMMA RankLast ==
  ASSUME NEW side \in Side, NEW S \in SUBSET Level, NEW l \in S
  PROVE  /\ Cardinality(BetterThan(side, S, l)) + 1 <= Cardinality(S)
         /\ Behind(side, S, l) = {} <=> Cardinality(BetterThan(side, S, l)) + 1 = Cardinality(S)
<1> DEFINE T == BetterThan(side, S, l) \cup {l}
<1>1. /\ IsFiniteSet(S) /\ T \in SUBSET S
      /\ Cardinality(T) = Cardinality(BetterThan(side, S, l)) + 1
  BY RankFacts
<1>2. Behind(side, S, l) = {} <=> S = T
  <2>1. \A x \in S : x \in Int
    BY LevelFacts
  <2>2. ASSUME NEW m \in S PROVE Better(side, l, m) <=> ~(Better(side, m, l) \/ m = l)
    BY <2>1 DEF Better
  <2>3. T = {m \in S : Better(side, m, l) \/ m = l}
    BY DEF BetterThan
  <2> HIDE DEF T
  <2>4. QED BY <2>2, <2>3 DEF Behind
<1> HIDE DEF T
<1>3. Cardinality(T) <= Cardinality(S) /\ (Cardinality(S) = Cardinality(T) => S = T)
  BY <1>1, FS_Subset
<1>4. QED BY <1>1, <1>2, <1>3

LEMMA Leader ==
  ASSUME NEW side \in Side, NEW S \in SUBSET Level, S # {}
  PROVE  Leads(side, Foremost(side, S), S)
<1>1. S \in SUBSET (0..kLevels-1) /\ kLevels - 1 \in Int
  BY LevelFacts DEF Level
<1>2. QED BY <1>1, ForemostOf DEF Leads

\* Every rank up to the number of levels is taken.
LEMMA AllRanked ==
  ASSUME NEW side \in Side, NEW S \in SUBSET Level, NEW k \in 1..Cardinality(S)
  PROVE  Ranked(side, S, k) \in S /\ Cardinality(BetterThan(side, S, Ranked(side, S, k))) = k - 1
<1> DEFINE Has(j) == \E l \in S : Cardinality(BetterThan(side, S, l)) = j - 1
           D == {j \in 1..Cardinality(S) : ~Has(j)}
<1>1. IsFiniteSet(S) /\ Cardinality(S) \in Nat
  <2>1. IsFiniteSet(Level)
    BY LevelFacts, FS_Interval DEF Level
  <2>2. IsFiniteSet(S)
    BY <2>1, FS_Subset
  <2>3. QED BY <2>2, FS_CardinalityType
<1>2. D = {}
  <2> SUFFICES ASSUME D # {} PROVE FALSE
    OBVIOUS
  <2>1. D \in SUBSET Nat
    BY <1>1
  <2>2. PICK j \in D : \A i \in D : j =< i
    BY <2>1, LeastNatural
  <2>3. j \in 1..Cardinality(S) /\ ~Has(j)
    OBVIOUS
  <2> HIDE DEF D, Has
  <2>4. CASE j = 1
    <3>1. S # {}
      BY <1>1, <2>3, FS_EmptySet
    <3>2. PICK b : Leads(side, b, S)
      BY <3>1, Leader
    <3>3. b \in S /\ Cardinality(BetterThan(side, S, b)) = 0
      BY <3>2, RankFirst DEF Leads
    <3>4. Has(j)
      BY <2>4, <3>3 DEF Has
    <3>5. QED BY <2>3, <3>4
  <2>5. CASE j # 1
    <3>1. j - 1 \in 1..Cardinality(S) /\ ~(j =< j - 1) /\ j \in Int
      BY <1>1, <2>3, <2>5
    <3>2. Has(j - 1)
      BY <2>2, <3>1 DEF D
    <3>3. PICK l \in S : Cardinality(BetterThan(side, S, l)) = (j - 1) - 1
      BY <3>2 DEF Has
    <3>4. Cardinality(BetterThan(side, S, l)) + 1 # Cardinality(S)
      BY <1>1, <2>3, <3>1, <3>3
    <3>5. Behind(side, S, l) # {} /\ Behind(side, S, l) \in SUBSET Level
      BY <3>4, RankLast DEF Behind
    <3>6. PICK b : Leads(side, b, Behind(side, S, l))
      BY <3>5, Leader
    <3>7. b \in S /\ Cardinality(BetterThan(side, S, b)) = ((j - 1) - 1) + 1
      BY <3>3, <3>6, RankNext
    <3>8. Has(j)
      BY <3>1, <3>7 DEF Has
    <3>9. QED BY <2>3, <3>8
  <2>6. QED BY <2>4, <2>5
<1>3. PICK l \in S : Cardinality(BetterThan(side, S, l)) = k - 1
  BY <1>2
<1>4. QED BY <1>1, <1>3, RankedIs

\* Every price with a total is the price of a level that holds orders, and the
\* cached best level leads those.
Shown(side) ==
  /\ \A p \in PriceMin..PriceMax : LevelQuantity(side, p) # 0 <=> PriceToLevel(p) \in HoldingLevels(side)
  /\ BestOfSide(side, best[side], HoldingLevels(side))

LEMMA PriceFacts ==
  /\ PriceMin \in Int /\ NoPrice \in Int /\ NoPrice \notin PriceMin..PriceMax
  /\ \A l \in Level : /\ LevelToPrice(l) \in PriceMin..PriceMax /\ LevelToPrice(l) \in Int
                      /\ LevelToPrice(l) # NoPrice
                      /\ PriceToLevel(LevelToPrice(l)) = l /\ l \in Int
  /\ \A p \in PriceMin..PriceMax : /\ PriceToLevel(p) \in Level
                                   /\ LevelToPrice(PriceToLevel(p)) = p /\ p \in Int
BY EngineAssumption DEF NoPrice, LevelToPrice, PriceToLevel, Level, kLevels

LEMMA BetterPrice ==
  ASSUME NEW side \in Side, NEW l \in Level, NEW m \in Level
  PROVE  Better(side, LevelToPrice(l), LevelToPrice(m)) <=> Better(side, l, m)
<1>1. l \in Int /\ m \in Int /\ PriceMin \in Int
  BY PriceFacts
<1>2. QED BY <1>1 DEF Better, LevelToPrice

\* The foremost price is that of the foremost level.
LEMMA ForemostPrice ==
  ASSUME NEW side \in Side, NEW B \in SUBSET Level, B # {}
  PROVE  Foremost(side, {LevelToPrice(m) : m \in B}) = LevelToPrice(Foremost(side, B))
<1> DEFINE f == Foremost(side, B)
           Q == {LevelToPrice(m) : m \in B}
           x == LevelToPrice(f)
<1>1. f \in B /\ \A m \in B : ~Better(side, m, f)
  BY Leader DEF Leads
<1> HIDE DEF f
<1>2. x \in Q /\ \A y \in Q : y \in Int /\ ~Better(side, y, x)
  BY <1>1, BetterPrice, PriceFacts
<1> HIDE DEF Q, x
<1>3. CASE side = Buy
  <2>1. \A y \in Q : x >= y
    BY <1>2, <1>3 DEF Better
  <2>2. Max(Q) \in Q /\ \A y \in Q : Max(Q) >= y
    BY <1>2, <2>1 DEF Max
  <2>3. Max(Q) = x
    <3>1. PICK z : z = Max(Q)
      OBVIOUS
    <3>2. z \in Int /\ x \in Int /\ z >= x /\ x >= z
      BY <1>2, <2>1, <2>2, <3>1
    <3>3. QED BY <3>1, <3>2
  <2>4. QED BY <1>3, <2>3 DEF Foremost, Q, x, f
<1>4. CASE side # Buy
  <2>1. \A y \in Q : x =< y
    BY <1>2, <1>4 DEF Better
  <2>2. Min(Q) \in Q /\ \A y \in Q : Min(Q) =< y
    BY <1>2, <2>1 DEF Min
  <2>3. Min(Q) = x
    <3>1. PICK z : z = Min(Q)
      OBVIOUS
    <3>2. z \in Int /\ x \in Int /\ z =< x /\ x =< z
      BY <1>2, <2>1, <2>2, <3>1
    <3>3. QED BY <3>1, <3>2
  <2>4. QED BY <1>4, <2>3 DEF Foremost, Q, x, f
<1>5. QED BY <1>3, <1>4

\* The walk goes from a level that holds orders to the first one behind it.
LEMMA NextPriceIs ==
  ASSUME NEW side \in Side, Shown(side), NEW l \in HoldingLevels(side)
  PROVE  LET B == Behind(side, HoldingLevels(side), l)
         IN NextPrice(side, LevelToPrice(l)) =
              IF B = {} THEN NoPrice ELSE LevelToPrice(Foremost(side, B))
<1> DEFINE S == HoldingLevels(side)
           B == Behind(side, S, l)
           Q == {q \in PriceMin..PriceMax :
                   Better(side, LevelToPrice(l), q) /\ LevelQuantity(side, q) # 0}
<1>1. S \in SUBSET Level /\ l \in S /\ B \in SUBSET Level
  BY DEF HoldingLevels, Behind
<1>2. \A p \in PriceMin..PriceMax : LevelQuantity(side, p) # 0 <=> PriceToLevel(p) \in S
  BY DEF Shown
<1> HIDE DEF S
<1>3. Q = {LevelToPrice(m) : m \in B}
  <2>1. ASSUME NEW q \in Q PROVE q \in {LevelToPrice(m) : m \in B}
    <3>1. PICK m \in Level : m = PriceToLevel(q) /\ q = LevelToPrice(m)
      BY PriceFacts
    <3>2. m \in S /\ Better(side, l, m)
      BY <1>1, <1>2, <3>1, BetterPrice
    <3>3. QED BY <3>1, <3>2 DEF Behind
  <2>2. ASSUME NEW m \in B PROVE LevelToPrice(m) \in Q
    <3>1. m \in Level /\ m \in S /\ Better(side, l, m)
      BY <1>1 DEF Behind
    <3>2. /\ LevelToPrice(m) \in PriceMin..PriceMax
          /\ PriceToLevel(LevelToPrice(m)) = m
      BY <3>1, PriceFacts
    <3>3. QED BY <1>1, <1>2, <3>1, <3>2, BetterPrice
  <2>3. QED BY <2>1, <2>2
<1>4. NextPrice(side, LevelToPrice(l)) = IF Q = {} THEN NoPrice ELSE Foremost(side, Q)
  BY DEF NextPrice
<1> HIDE DEF Q
<1>5. Q = {} <=> B = {}
  BY <1>3
<1> HIDE DEF B
<1>6. B # {} => Foremost(side, Q) = LevelToPrice(Foremost(side, B))
  BY <1>1, <1>3, ForemostPrice
<1>7. QED BY <1>4, <1>5, <1>6 DEF B, S

\* The price of rank k.
PriceOfRank(side, k) ==
  IF k <= Cardinality(HoldingLevels(side))
  THEN LevelToPrice(Ranked(side, HoldingLevels(side), k)) ELSE NoPrice

LEMMA HoldingFacts ==
  ASSUME NEW side
  PROVE  /\ HoldingLevels(side) \in SUBSET Level /\ IsFiniteSet(HoldingLevels(side))
         /\ Cardinality(HoldingLevels(side)) \in 0..kLevels /\ kLevels \in Nat
<1> DEFINE S == HoldingLevels(side)
<1>1. S \in SUBSET Level
  BY DEF HoldingLevels
<1> HIDE DEF S
<1>2. IsFiniteSet(Level) /\ Cardinality(Level) = kLevels /\ kLevels \in Nat
  <2>1. kLevels \in Nat /\ kLevels - 1 \in Int
    BY LevelFacts
  <2>2. IsFiniteSet(0..kLevels-1) /\ Cardinality(0..kLevels-1) =
          IF 0 > kLevels - 1 THEN 0 ELSE (kLevels - 1) - 0 + 1
    BY <2>1, FS_Interval
  <2>3. QED BY <2>1, <2>2 DEF Level
<1>3. IsFiniteSet(S) /\ Cardinality(S) <= Cardinality(Level)
  BY <1>1, <1>2, FS_Subset
<1>4. Cardinality(S) \in Nat
  BY <1>3, FS_CardinalityType
<1>5. QED BY <1>1, <1>2, <1>3, <1>4 DEF S

\* The walk starts at rank 1.
LEMMA WalkStarts ==
  ASSUME NEW side \in Side, Shown(side)
  PROVE  /\ BestPrice(side) = PriceOfRank(side, 1)
         /\ BestPrice(side) # NoPrice => LevelQuantity(side, BestPrice(side)) # 0
<1> DEFINE S == HoldingLevels(side)
           b == best[side]
           n == Cardinality(S)
<1>1. S \in SUBSET Level /\ IsFiniteSet(S) /\ n \in Nat
  BY HoldingFacts
<1>2. BestOfSide(side, b, S)
  BY DEF Shown
<1>3. n = 0 <=> S = {}
  BY <1>1, FS_EmptySet
<1>4. BestPrice(side) = IF b = kNil THEN NoPrice ELSE LevelToPrice(b)
  BY DEF BestPrice
<1>5. PriceOfRank(side, 1) = IF 1 <= n THEN LevelToPrice(Ranked(side, S, 1)) ELSE NoPrice
  BY DEF PriceOfRank
<1>6. \A p \in PriceMin..PriceMax : LevelQuantity(side, p) # 0 <=> PriceToLevel(p) \in S
  BY DEF Shown
<1> HIDE DEF S, b, n
<1>7. CASE S = {}
  <2>1. b = kNil /\ ~(1 <= n)
    BY <1>1, <1>2, <1>3, <1>7 DEF BestOfSide
  <2>2. QED BY <1>4, <1>5, <2>1
<1>8. CASE S # {}
  <2>1. b \in S /\ Leads(side, b, S) /\ b # kNil /\ b \in Level
    BY <1>1, <1>2, <1>8, LevelFacts DEF BestOfSide, Leads
  <2>2. 1 <= n
    BY <1>1, <1>3, <1>8
  <2>3. Cardinality(BetterThan(side, S, b)) = 1 - 1
    BY <1>1, <2>1, RankFirst
  <2>4. Ranked(side, S, 1) = b
    BY <1>1, <2>1, <2>3, RankedIs
  <2>5. /\ LevelToPrice(b) \in PriceMin..PriceMax /\ PriceToLevel(LevelToPrice(b)) = b
    BY <2>1, PriceFacts
  <2>6. LevelQuantity(side, LevelToPrice(b)) # 0
    BY <1>6, <2>1, <2>5
  <2>7. BestPrice(side) = LevelToPrice(b)
    BY <1>4, <2>1
  <2>8. QED BY <1>5, <2>2, <2>4, <2>6, <2>7
<1>9. QED BY <1>7, <1>8

\* It goes from each rank to the next, and stays at NoPrice after the last.
LEMMA WalkGoes ==
  ASSUME NEW side \in Side, Shown(side), NEW k \in Nat \ {0}
  PROVE  PriceOfRank(side, k + 1) =
           IF PriceOfRank(side, k) = NoPrice THEN NoPrice
           ELSE NextPrice(side, PriceOfRank(side, k))
<1> DEFINE S == HoldingLevels(side)
           n == Cardinality(S)
           l == Ranked(side, S, k)
           B == Behind(side, S, l)
<1>1. S \in SUBSET Level /\ n \in Nat
  BY HoldingFacts
<1>2. /\ PriceOfRank(side, k) = IF k <= n THEN LevelToPrice(l) ELSE NoPrice
      /\ PriceOfRank(side, k + 1) = IF k + 1 <= n THEN LevelToPrice(Ranked(side, S, k + 1)) ELSE NoPrice
  BY DEF PriceOfRank
<1>3. CASE ~(k <= n)
  <2>1. ~(k + 1 <= n)
    BY <1>1, <1>3
  <2>2. QED BY <1>2, <1>3, <2>1
<1>4. CASE k <= n
  <2>1. k \in 1..Cardinality(S)
    BY <1>1, <1>4
  <2>2. l \in S /\ Cardinality(BetterThan(side, S, l)) = k - 1
    BY <1>1, <2>1, AllRanked
  <2>3. NextPrice(side, LevelToPrice(l)) = IF B = {} THEN NoPrice ELSE LevelToPrice(Foremost(side, B))
    BY <2>2, NextPriceIs
  <2>4. B \in SUBSET Level /\ (B = {} <=> (k - 1) + 1 = Cardinality(S))
    BY <1>1, <2>2, RankLast DEF Behind
  <2>5. LevelToPrice(l) # NoPrice
    BY <1>1, <2>2, PriceFacts
  <2> HIDE DEF S, l
  <2>6. CASE B = {}
    <3>1. ~(k + 1 <= n)
      BY <1>1, <2>4, <2>6
    <3>2. QED BY <1>2, <1>4, <2>3, <2>5, <2>6, <3>1
  <2>7. CASE B # {}
    <3>1. k + 1 <= n /\ k + 1 \in Int /\ k = (k + 1) - 1
      BY <1>1, <1>4, <2>4, <2>7
    <3> DEFINE b == Foremost(side, B)
    <3>2. Leads(side, b, B)
      BY <2>4, <2>7, Leader
    <3>3. b \in S /\ Cardinality(BetterThan(side, S, b)) = (k - 1) + 1
      BY <1>1, <2>2, <3>2, RankNext
    <3> HIDE DEF b
    <3>4. Cardinality(BetterThan(side, S, b)) = (k + 1) - 1
      BY <3>3
    <3>5. Ranked(side, S, k + 1) = b
      BY <1>1, <3>1, <3>3, <3>4, RankedIs
    <3>6. QED BY <1>2, <1>4, <2>3, <2>5, <2>7, <3>1, <3>5 DEF b
  <2>8. QED BY <2>6, <2>7
<1>5. QED BY <1>3, <1>4

\* So it visits the ranks in order.
LEMMA WalkIs ==
  ASSUME NEW side \in Side, Shown(side)
  PROVE  Walk(side) = [k \in 1..kLevels |-> PriceOfRank(side, k)]
<1> DEFINE From(k, p) == IF p = NoPrice \/ (k = 1 /\ LevelQuantity(side, p) # 0) THEN p
                         ELSE NextPrice(side, p)
           Step(h) == [k \in 1..kLevels |-> From(k, IF k = 1 THEN BestPrice(side) ELSE h[k-1])]
           f == [k \in 1..kLevels |-> PriceOfRank(side, k)]
           price == CHOOSE h : h = Step(h)
<1>1. kLevels \in Nat
  BY LevelFacts
<1>2. f = Step(f)
  <2>1. ASSUME NEW k \in 1..kLevels, k = 1 PROVE f[k] = From(k, BestPrice(side))
    BY <2>1, WalkStarts
  <2>2. ASSUME NEW k \in 1..kLevels, k # 1 PROVE f[k] = From(k, f[k-1])
    <3>1. k - 1 \in 1..kLevels /\ k - 1 \in Nat \ {0} /\ (k - 1) + 1 = k
      BY <1>1, <2>2
    <3>2. f[k] = PriceOfRank(side, k) /\ f[k-1] = PriceOfRank(side, k - 1)
      BY <3>1
    <3>3. PriceOfRank(side, (k - 1) + 1) = IF PriceOfRank(side, k - 1) = NoPrice THEN NoPrice
                                           ELSE NextPrice(side, PriceOfRank(side, k - 1))
      BY <3>1, WalkGoes
    <3>4. QED BY <2>2, <3>1, <3>2, <3>3
  <2> HIDE DEF f, From
  <2>3. \A k \in 1..kLevels : f[k] = Step(f)[k]
    BY <2>1, <2>2
  <2>4. f = [k \in 1..kLevels |-> f[k]]
    BY DEF f
  <2>5. QED BY <2>3, <2>4
<1> HIDE DEF f, Step, From
<1>3. price = Step(price)
  BY <1>2
<1>4. price = f
  <2> DEFINE D == {k \in 1..kLevels : price[k] # f[k]}
  <2>1. D \in SUBSET Nat
    BY <1>1
  <2>2. CASE D # {}
    <3>1. PICK k \in D : \A j \in D : k =< j
      BY <2>1, <2>2, LeastNatural
    <3>2. k \in 1..kLevels /\ price[k] # f[k]
      OBVIOUS
    <3>3. price[k] = Step(price)[k] /\ f[k] = Step(f)[k]
      BY <1>2, <1>3
    <3>4. CASE k = 1
      BY <3>2, <3>3, <3>4 DEF Step
    <3>5. CASE k # 1
      <4>1. k - 1 \in 1..kLevels /\ ~(k =< k - 1)
        BY <3>2, <3>5, <1>1
      <4>2. price[k-1] = f[k-1]
        BY <3>1, <4>1
      <4>3. QED BY <3>2, <3>3, <3>5, <4>2 DEF Step
    <3>6. QED BY <3>4, <3>5
  <2>3. CASE D = {}
    <3>1. \A k \in 1..kLevels : price[k] = f[k]
      BY <2>3
    <3>2. price = [k \in 1..kLevels |-> price[k]] /\ f = [k \in 1..kLevels |-> f[k]]
      <4>1. ASSUME NEW h PROVE Step(h) = [k \in 1..kLevels |-> Step(h)[k]]
        BY DEF Step
      <4> HIDE DEF price
      <4>2. QED BY <4>1, <1>2, <1>3
    <3> HIDE DEF price
    <3>3. QED BY <3>1, <3>2
  <2>4. QED BY <2>2, <2>3
<1>5. Walk(side) = price
  BY DEF Walk, Step, From
<1>6. QED BY <1>4, <1>5 DEF f

\* What getDepth and getQuote then return, if the totals are right.
LEMMA LinesShown ==
  ASSUME NEW side \in Side, Shown(side), NEW k \in 1..Cardinality(HoldingLevels(side)),
         \A l \in Level : levelQty[side][l] = QtyAt(side, l)
  PROVE  LET l == Ranked(side, HoldingLevels(side), k)
         IN /\ PriceOfRank(side, k) = LevelToPrice(l) /\ PriceOfRank(side, k) # NoPrice
            /\ Listing(side, PriceOfRank(side, k)) = [price |-> LevelToPrice(l), qty |-> QtyAt(side, l)]
<1> DEFINE S == HoldingLevels(side)
           l == Ranked(side, S, k)
<1>1. S \in SUBSET Level /\ k <= Cardinality(S)
  <2>1. Cardinality(S) \in Nat
    BY HoldingFacts
  <2>2. QED BY <2>1, HoldingFacts
<1>2. l \in Level
  BY <1>1, AllRanked
<1>3. PriceOfRank(side, k) = LevelToPrice(l)
  BY <1>1 DEF PriceOfRank
<1>4. /\ LevelToPrice(l) \in PriceMin..PriceMax /\ LevelToPrice(l) # NoPrice
      /\ PriceToLevel(LevelToPrice(l)) = l /\ LevelToPrice(l) \in Int
  BY <1>2, PriceFacts
<1> HIDE DEF l
<1>5. LevelQuantity(side, LevelToPrice(l)) = QtyAt(side, l)
  <2>1. InRange(LevelToPrice(l))
    BY <1>4, EngineAssumption DEF InRange
  <2>2. QED BY <1>2, <1>4, <2>1 DEF LevelQuantity
<1>6. QED BY <1>3, <1>4, <1>5 DEF l, Listing

LEMMA DepthIs ==
  ASSUME NEW side \in Side, Shown(side), NEW max \in Nat,
         \A l \in Level : levelQty[side][l] = QtyAt(side, l)
  PROVE  GetDepth(side, max) = TrueDepth(side, max)
<1> DEFINE S == HoldingLevels(side)
           n == Cardinality(S)
           m == Min({max, n})
           Line(k) == [price |-> LevelToPrice(Ranked(side, S, k)), qty |-> QtyAt(side, Ranked(side, S, k))]
<1>1. n \in Nat /\ n <= kLevels /\ kLevels \in Nat
  BY HoldingFacts
<1>2. m \in Int /\ \A k \in Int : k <= m <=> k <= max /\ k <= n
  <2> HIDE DEF n, S
  <2>0. max \in Int /\ n \in Int
    BY <1>1
  <2>1. m \in {max, n} /\ m <= max /\ m <= n
    BY <2>0, MinOfTwo
  <2>2. QED BY <1>1, <2>1
<1>3. \A k \in 1..n : PriceOfRank(side, k) # NoPrice /\ Listing(side, PriceOfRank(side, k)) = Line(k)
  BY LinesShown
<1>4. \A k \in 1..kLevels : k > n => PriceOfRank(side, k) = NoPrice
  BY <1>1 DEF PriceOfRank
<1> DEFINE w == Walk(side)
<1>5. \A k \in 1..kLevels : w[k] = PriceOfRank(side, k)
  BY WalkIs
<1>6. GetDepth(side, max) =
        [k \in {j \in 1..kLevels : j <= max /\ w[j] # NoPrice} |-> Listing(side, w[k])]
  BY DEF GetDepth
<1>7. TrueDepth(side, max) = [k \in 1..m |-> Line(k)]
  BY DEF TrueDepth
<1> HIDE DEF w, m, n, S, Line
<1>8. {j \in 1..kLevels : j <= max /\ w[j] # NoPrice} = 1..m
  <2>1. ASSUME NEW j \in 1..kLevels PROVE j <= max /\ w[j] # NoPrice <=> j \in 1..m
    <3>1. j \in 1..n \/ j > n
      BY <1>1
    <3>2. QED BY <1>1, <1>2, <1>3, <1>4, <1>5, <3>1
  <2>2. 1..m \subseteq 1..kLevels
    BY <1>1, <1>2
  <2>3. QED BY <2>1, <2>2
<1>9. \A k \in 1..m : Listing(side, w[k]) = Line(k)
  <2>1. ASSUME NEW k \in 1..m PROVE k \in 1..n /\ k \in 1..kLevels
    BY <1>1, <1>2
  <2>2. QED BY <1>3, <1>5, <2>1
<1>10. QED BY <1>6, <1>7, <1>8, <1>9

LEMMA QuoteIs ==
  ASSUME NEW side \in Side, Shown(side), \A l \in Level : levelQty[side][l] = QtyAt(side, l)
  PROVE  GetQuote(side) = TrueDepth(side, 1)
<1> DEFINE S == HoldingLevels(side)
           n == Cardinality(S)
           m == Min({1, n})
           Line(k) == [price |-> LevelToPrice(Ranked(side, S, k)), qty |-> QtyAt(side, Ranked(side, S, k))]
           p == BestPrice(side)
<1>1. n \in Nat
  BY HoldingFacts
<1>2. m \in {1, n} /\ m <= 1 /\ m <= n
  <2> HIDE DEF n, S
  <2>1. QED BY <1>1, MinOfTwo
<1>3. p = PriceOfRank(side, 1)
  BY WalkStarts
<1>4. TrueDepth(side, 1) = [k \in 1..m |-> Line(k)]
  BY DEF TrueDepth
<1>5. GetQuote(side) = IF p = NoPrice THEN <<>> ELSE <<Listing(side, p)>>
  BY DEF GetQuote
<1>6. 1 \in 1..n => p # NoPrice /\ Listing(side, p) = Line(1)
  BY <1>3, LinesShown
<1>7. ~(1 <= n) => p = NoPrice
  BY <1>3 DEF PriceOfRank
<1> HIDE DEF m, n, p, S, Line
<1>8. CASE n = 0
  <2>1. m = 0 /\ p = NoPrice
    BY <1>1, <1>2, <1>7, <1>8
  <2>2. QED BY <1>4, <1>5, <2>1
<1>9. CASE n # 0
  <2>1. m = 1 /\ p # NoPrice /\ Listing(side, p) = Line(1)
    BY <1>1, <1>2, <1>6, <1>9
  <2>2. 1..m = {1}
    BY <2>1
  <2>3. [k \in {1} |-> Line(k)] = <<Line(1)>>
    OBVIOUS
  <2>4. QED BY <1>4, <1>5, <2>1, <2>2, <2>3
<1>10. QED BY <1>8, <1>9

\* What getDepth and getQuote say of the market is what rests in the book, best
\* level first, for any number of levels and across any gaps, as long as a full
\* pool of the largest orders fits in QtyT.
THEOREM DepthCorrect == ASSUME QtyFits PROVE Spec => []DepthShowsOrders
<1>1. EngineInv /\ TrackInv => DepthShowsOrders
  <2> SUFFICES ASSUME EngineInv, TrackInv, NEW side \in Side
               PROVE  /\ GetQuote(side) = TrueDepth(side, 1)
                      /\ \A max \in 0..kLevels+1 : GetDepth(side, max) = TrueDepth(side, max)
    BY DEF DepthShowsOrders
  <2>1. Exact
    BY TotalsExact DEF EngineInv, TrackInv
  <2>2. \A l \in Level : levelQty[side][l] = QtyAt(side, l)
    BY <2>1 DEF Exact
  <2>3. Shown(side)
    <3>1. Marked(side) = HoldingLevels(side)
      BY DEF TrackInv, OccupiedIffOrders, HoldingLevels
    <3>2. BestOfSide(side, best[side], HoldingLevels(side))
      BY <3>1 DEF EngineInv, Separated, BestMarked
    <3>3. ASSUME NEW q \in PriceMin..PriceMax
          PROVE  LevelQuantity(side, q) # 0 <=> PriceToLevel(q) \in HoldingLevels(side)
      <4>1. PriceToLevel(q) \in Level
        BY PriceFacts
      <4>2. InRange(q)
        BY EngineAssumption DEF InRange
      <4>3. LevelQuantity(side, q) = levelQty[side][PriceToLevel(q)]
        BY <4>2 DEF LevelQuantity
      <4>4. QED BY <2>1, <4>1, <4>3 DEF Exact, HoldingLevels
    <3>4. QED BY <3>2, <3>3 DEF Shown
  <2>4. \A max \in 0..kLevels+1 : max \in Nat
    OBVIOUS
  <2>5. QED BY <2>2, <2>3, <2>4, QuoteIs, DepthIs
<1>2. QED BY <1>1, TracksAlways, PTL
=============================================================================
