------------------------- MODULE OrderBookFundsProofs -------------------------
(***************************************************************************)
(* Proofs about the funds of the wrapper's users, for every set of users   *)
(* and whatever is deposited, submitted and cancelled: what users have     *)
(* locked is what their orders need, and what they own covers it.          *)
(***************************************************************************)
EXTENDS OrderBookProofs

\* What the orders of table ords lock of user u, each order's part and all.
QuotePart(o, u) == IF o.user = u THEN o.lockedQuote ELSE 0
BasePart(o, u) == IF o.user = u THEN o.lockedBase ELSE 0
QuoteParts(ords, u) == [id \in 1..Len(ords) |-> QuotePart(ords[id], u)]
BaseParts(ords, u) == [id \in 1..Len(ords) |-> BasePart(ords[id], u)]
QuoteSum(ords, u) == SumFunctionOnSet(QuoteParts(ords, u), 1..Len(ords))
BaseSum(ords, u) == SumFunctionOnSet(BaseParts(ords, u), 1..Len(ords))
\* The base of all users of table us.
BaseOf(us) == [u \in DOMAIN us |-> us[u].base]
Bases(us) == SumFunctionOnSet(BaseOf(us), DOMAIN us)

LEMMA PartTypes ==
  ASSUME NEW o \in Order, NEW u
  PROVE  QuotePart(o, u) \in Int /\ BasePart(o, u) \in 0..QtyMod-1 /\ BasePart(o, u) \in Int
BY QtyModFacts DEF QuotePart, BasePart, Order

LEMMA SumTypes ==
  ASSUME NEW ords \in Seq(Order), NEW u
  PROVE  /\ IsFiniteSet(1..Len(ords))
         /\ \A id \in 1..Len(ords) :
              /\ QuoteParts(ords, u)[id] = QuotePart(ords[id], u) /\ QuoteParts(ords, u)[id] \in Int
              /\ BaseParts(ords, u)[id] = BasePart(ords[id], u) /\ BaseParts(ords, u)[id] \in Int
              /\ BaseParts(ords, u)[id] \in 0..QtyMod-1
         /\ QuoteSum(ords, u) \in Int /\ BaseSum(ords, u) \in Nat
<1>1. IsFiniteSet(1..Len(ords))
  BY FS_Interval
<1>2. \A id \in 1..Len(ords) :
        /\ QuoteParts(ords, u)[id] = QuotePart(ords[id], u) /\ QuoteParts(ords, u)[id] \in Int
        /\ BaseParts(ords, u)[id] = BasePart(ords[id], u) /\ BaseParts(ords, u)[id] \in Int
        /\ BaseParts(ords, u)[id] \in 0..QtyMod-1
  BY PartTypes DEF QuoteParts, BaseParts
<1>3. QuoteSum(ords, u) \in Int
  BY <1>1, <1>2, SumTake DEF QuoteSum
<1>4. BaseSum(ords, u) \in Nat
  <2>1. QtyMod - 1 \in Nat /\ Cardinality(1..Len(ords)) \in Nat
    BY <1>1, QtyModFacts, FS_CardinalityType
  <2>2. BaseSum(ords, u) \in 0..Cardinality(1..Len(ords)) * (QtyMod - 1)
    BY <1>1, <1>2, <2>1, SumBounds DEF BaseSum
  <2>3. QED BY <2>2
<1>5. QED BY <1>1, <1>2, <1>3, <1>4

\* A new order adds what it locks.
LEMMA SumsAppend ==
  ASSUME NEW ords \in Seq(Order), NEW o \in Order, NEW u
  PROVE  /\ QuoteSum(Append(ords, o), u) = QuoteSum(ords, u) + QuotePart(o, u)
         /\ BaseSum(Append(ords, o), u) = BaseSum(ords, u) + BasePart(o, u)
<1> DEFINE S == 1..Len(ords)
           n == Len(ords) + 1
           x == Append(ords, o)
<1>1. /\ x \in Seq(Order) /\ 1..Len(x) = S \cup {n} /\ n \notin S /\ x[n] = o
      /\ \A id \in S : x[id] = ords[id]
  BY AppendProperties
<1> HIDE DEF x, n, S
<1>2. IsFiniteSet(S)
  BY SumTypes DEF S
<1>3. /\ \A id \in S : QuoteParts(ords, u)[id] = QuoteParts(x, u)[id] /\ QuoteParts(x, u)[id] \in Int
      /\ QuoteParts(x, u)[n] = QuotePart(o, u) /\ QuoteParts(x, u)[n] \in Int
  BY <1>1, SumTypes DEF S
<1>4. QuoteSum(x, u) = QuoteSum(ords, u) + QuotePart(o, u)
  <2>1. SumFunctionOnSet(QuoteParts(ords, u), S) = SumFunctionOnSet(QuoteParts(x, u), S)
    BY <1>2, <1>3, SumSame
  <2>2. SumFunctionOnSet(QuoteParts(x, u), S \cup {n}) =
          SumFunctionOnSet(QuoteParts(x, u), S) + QuoteParts(x, u)[n]
    BY <1>1, <1>2, <1>3, SumAdd
  <2>3. QED BY <1>1, <1>3, <2>1, <2>2 DEF QuoteSum, S
<1>5. /\ \A id \in S : BaseParts(ords, u)[id] = BaseParts(x, u)[id] /\ BaseParts(x, u)[id] \in Int
      /\ BaseParts(x, u)[n] = BasePart(o, u) /\ BaseParts(x, u)[n] \in Int
  BY <1>1, SumTypes DEF S
<1>6. BaseSum(x, u) = BaseSum(ords, u) + BasePart(o, u)
  <2>1. SumFunctionOnSet(BaseParts(ords, u), S) = SumFunctionOnSet(BaseParts(x, u), S)
    BY <1>2, <1>5, SumSame
  <2>2. SumFunctionOnSet(BaseParts(x, u), S \cup {n}) =
          SumFunctionOnSet(BaseParts(x, u), S) + BaseParts(x, u)[n]
    BY <1>1, <1>2, <1>5, SumAdd
  <2>3. QED BY <1>1, <1>5, <2>1, <2>2 DEF BaseSum, S
<1>7. QED BY <1>4, <1>6 DEF x

\* A change of one order changes its part.
LEMMA SumsChange ==
  ASSUME NEW ords, ords \in Seq(Order), NEW id, id \in 1..Len(ords), NEW u,
         NEW x, x \in Seq(Order), Len(x) = Len(ords),
         \A j \in 1..Len(ords) : j # id => x[j] = ords[j]
  PROVE  /\ QuoteSum(x, u) = (QuoteSum(ords, u) - QuotePart(ords[id], u)) + QuotePart(x[id], u)
         /\ BaseSum(x, u) = (BaseSum(ords, u) - BasePart(ords[id], u)) + BasePart(x[id], u)
<1> DEFINE S == 1..Len(ords)
<1>1. /\ x \in Seq(Order) /\ 1..Len(x) = S
      /\ \A j \in S : j # id => x[j] = ords[j]
  OBVIOUS
<1>2. IsFiniteSet(S)
  BY SumTypes
<1>3. /\ \A j \in S : QuoteParts(ords, u)[j] \in Int /\ QuoteParts(x, u)[j] \in Int
      /\ \A j \in S : j # id => QuoteParts(ords, u)[j] = QuoteParts(x, u)[j]
      /\ QuoteParts(x, u)[id] = QuotePart(x[id], u) /\ QuoteParts(ords, u)[id] = QuotePart(ords[id], u)
      /\ QuoteSum(ords, u) \in Int
  <2>1. \A j \in S : /\ QuoteParts(ords, u)[j] = QuotePart(ords[j], u) /\ QuoteParts(ords, u)[j] \in Int
                     /\ QuoteParts(x, u)[j] = QuotePart(x[j], u) /\ QuoteParts(x, u)[j] \in Int
    BY <1>1, SumTypes DEF QuoteParts
  <2>2. QuoteSum(ords, u) \in Int
    BY SumTypes
  <2>3. QED BY <1>1, <2>1, <2>2 DEF QuoteParts
<1>4. QuoteSum(x, u) = (QuoteSum(ords, u) - QuotePart(ords[id], u)) + QuotePart(x[id], u)
  <2>1. SumFunctionOnSet(QuoteParts(x, u), S) =
          (SumFunctionOnSet(QuoteParts(ords, u), S) - QuoteParts(ords, u)[id]) + QuoteParts(x, u)[id]
    <3>1. PICK f, g, T : f = QuoteParts(ords, u) /\ g = QuoteParts(x, u) /\ T = S
      OBVIOUS
    <3>2. /\ IsFiniteSet(T) /\ id \in T
          /\ \A j \in T : f[j] \in Int
          /\ \A j \in T : g[j] \in Int
          /\ \A j \in T : j # id => f[j] = g[j]
      BY <1>1, <1>2, <1>3, <3>1
    <3>3. SumFunctionOnSet(g, T) = (SumFunctionOnSet(f, T) - f[id]) + g[id]
      BY ONLY <3>2, SumChange
    <3>4. QED BY <3>1, <3>3
  <2>2. QED BY <1>1, <1>3, <2>1 DEF QuoteSum
<1>5. /\ \A j \in S : BaseParts(ords, u)[j] \in Int /\ BaseParts(x, u)[j] \in Int
      /\ \A j \in S : j # id => BaseParts(ords, u)[j] = BaseParts(x, u)[j]
      /\ BaseParts(x, u)[id] = BasePart(x[id], u) /\ BaseParts(ords, u)[id] = BasePart(ords[id], u)
      /\ BaseSum(ords, u) \in Int
  <2>1. \A j \in S : /\ BaseParts(ords, u)[j] = BasePart(ords[j], u) /\ BaseParts(ords, u)[j] \in Int
                     /\ BaseParts(x, u)[j] = BasePart(x[j], u) /\ BaseParts(x, u)[j] \in Int
    BY <1>1, SumTypes DEF BaseParts
  <2>2. BaseSum(ords, u) \in Int
    BY SumTypes
  <2>3. QED BY <1>1, <2>1, <2>2 DEF BaseParts
<1>6. BaseSum(x, u) = (BaseSum(ords, u) - BasePart(ords[id], u)) + BasePart(x[id], u)
  <2>1. SumFunctionOnSet(BaseParts(x, u), S) =
          (SumFunctionOnSet(BaseParts(ords, u), S) - BaseParts(ords, u)[id]) + BaseParts(x, u)[id]
    <3>1. PICK f, g, T : f = BaseParts(ords, u) /\ g = BaseParts(x, u) /\ T = S
      OBVIOUS
    <3>2. /\ IsFiniteSet(T) /\ id \in T
          /\ \A j \in T : f[j] \in Int
          /\ \A j \in T : g[j] \in Int
          /\ \A j \in T : j # id => f[j] = g[j]
      BY <1>1, <1>2, <1>5, <3>1
    <3>3. SumFunctionOnSet(g, T) = (SumFunctionOnSet(f, T) - f[id]) + g[id]
      BY ONLY <3>2, SumChange
    <3>4. QED BY <3>1, <3>3
  <2>2. QED BY <1>1, <1>5, <2>1 DEF BaseSum
<1>7. QED BY <1>4, <1>6

\* An order's base is among what its user's orders lock.
LEMMA PartWithin ==
  ASSUME NEW ords \in Seq(Order), NEW id \in 1..Len(ords)
  PROVE  ords[id].lockedBase <= BaseSum(ords, ords[id].user)
<1> DEFINE S == 1..Len(ords)
           T == S \ {id}
<1>1. PICK u, f : u = ords[id].user /\ f = BaseParts(ords, u)
  OBVIOUS
<1>2. /\ IsFiniteSet(S) /\ id \in S /\ f[id] = ords[id].lockedBase
      /\ \A j \in S : f[j] \in 0..QtyMod-1 /\ f[j] \in Int
  BY <1>1, SumTypes DEF BasePart
<1>3. IsFiniteSet(T) /\ T \subseteq S
  BY <1>2, FS_RemoveElement
<1>4. SumFunctionOnSet(f, S) = f[id] + SumFunctionOnSet(f, T)
  <2> HIDE DEF S
  <2>1. QED BY <1>2, SumTake
<1>5. SumFunctionOnSet(f, T) \in Nat
  <2>1. QtyMod - 1 \in Nat /\ Cardinality(T) \in Nat
    BY <1>3, QtyModFacts, FS_CardinalityType
  <2>2. \A j \in T : f[j] \in 0..QtyMod-1
    BY <1>2
  <2> HIDE DEF T, S
  <2>3. SumFunctionOnSet(f, T) \in 0..Cardinality(T) * (QtyMod - 1)
    BY <1>3, <2>1, <2>2, SumBounds
  <2>4. QED BY <2>3
<1>6. BaseSum(ords, u) = SumFunctionOnSet(f, S)
  BY <1>1 DEF BaseSum
<1>7. f[id] \in Int
  BY <1>2
<1>8. QED BY <1>1, <1>2, <1>4, <1>5, <1>6, <1>7

\* A user without orders locks nothing.
LEMMA SumsNobody ==
  ASSUME NEW ords \in Seq(Order), NEW u, \A id \in 1..Len(ords) : ords[id].user # u
  PROVE  QuoteSum(ords, u) = 0 /\ BaseSum(ords, u) = 0
<1>1. IsFiniteSet(1..Len(ords))
  BY SumTypes
<1>2. \A id \in 1..Len(ords) : QuoteParts(ords, u)[id] = 0 /\ BaseParts(ords, u)[id] = 0
  BY DEF QuoteParts, BaseParts, QuotePart, BasePart
<1>3. QED BY <1>1, <1>2, SumZero DEF QuoteSum, BaseSum

\* The sums that the properties speak of.
LEMMA QuoteSumIs ==
  ASSUME NEW ords \in Seq(Order), NEW u,
         \A id \in 1..Len(ords) : ~ords[id].active => ords[id].lockedQuote = 0
  PROVE  LET S == {id \in {i \in 1..Len(ords) : ords[i].active} : ords[id].user = u}
         IN QuoteSum(ords, u) = MapThenSumSet(LAMBDA id : ords[id].lockedQuote, S)
<1> DEFINE T == 1..Len(ords)
           S == {id \in {i \in T : ords[i].active} : ords[id].user = u}
           f == QuoteParts(ords, u)
           P(h) == h = [s \in SUBSET S |-> IF s = {} THEN 0
                                           ELSE ords[Picked(s)].lockedQuote + h[s \ {Picked(s)}]]
<1>1. IsFiniteSet(T) /\ S \in SUBSET T /\ \A id \in T : f[id] \in Int
  BY SumTypes
<1>2. IsFiniteSet(S)
  BY <1>1, FS_Subset
<1>3. \A id \in S : f[id] = ords[id].lockedQuote
  BY DEF QuoteParts, QuotePart
<1>4. \A id \in T \ S : f[id] = 0
  BY DEF QuoteParts, QuotePart
<1>5. MapThenSumSet(LAMBDA id : ords[id].lockedQuote, S) = (CHOOSE h : P(h))[S]
  BY DEF MapThenSumSet, MapThenFoldSet, Picked
<1>6. SumFunctionOnSet(f, T) = SumFunctionOnSet(f, S)
  <2> HIDE DEF T, S, f
  <2>1. QED BY <1>1, <1>4, SumRestrict
<1> HIDE DEF S, f
<1>7. \A h : P(h) <=> Sums(f, SUBSET S, h)
  BY <1>3, PickedIn DEF Sums
<1>8. PICK h : Sums(f, SUBSET S, h)
  BY <1>2, SumsExist
<1>9. PICK c : c = CHOOSE x : P(x)
  OBVIOUS
<1>10. Sums(f, SUBSET S, c)
  <2> HIDE DEF P
  <2>1. P(c)
    BY <1>7, <1>8, <1>9
  <2>2. QED BY <1>7, <2>1
<1>11. SumFunctionOnSet(f, S) = c[S]
  <2>1. S \in SUBSET S
    OBVIOUS
  <2>2. QED BY <1>2, <1>10, <2>1, SumIs
<1>12. QuoteSum(ords, u) = SumFunctionOnSet(f, T)
  BY DEF QuoteSum, f
<1> HIDE DEF P
<1>13. QED BY <1>5, <1>6, <1>9, <1>11, <1>12 DEF S

LEMMA BaseSumIs ==
  ASSUME NEW ords \in Seq(Order), NEW u,
         \A id \in 1..Len(ords) : ~ords[id].active => ords[id].lockedBase = 0
  PROVE  LET S == {id \in {i \in 1..Len(ords) : ords[i].active} : ords[id].user = u}
         IN BaseSum(ords, u) = MapThenSumSet(LAMBDA id : ords[id].lockedBase, S)
<1> DEFINE T == 1..Len(ords)
           S == {id \in {i \in T : ords[i].active} : ords[id].user = u}
           f == BaseParts(ords, u)
           P(h) == h = [s \in SUBSET S |-> IF s = {} THEN 0
                                           ELSE ords[Picked(s)].lockedBase + h[s \ {Picked(s)}]]
<1>1. IsFiniteSet(T) /\ S \in SUBSET T /\ \A id \in T : f[id] \in Int
  BY SumTypes
<1>2. IsFiniteSet(S)
  BY <1>1, FS_Subset
<1>3. \A id \in S : f[id] = ords[id].lockedBase
  BY DEF BaseParts, BasePart
<1>4. \A id \in T \ S : f[id] = 0
  BY DEF BaseParts, BasePart
<1>5. MapThenSumSet(LAMBDA id : ords[id].lockedBase, S) = (CHOOSE h : P(h))[S]
  BY DEF MapThenSumSet, MapThenFoldSet, Picked
<1>6. SumFunctionOnSet(f, T) = SumFunctionOnSet(f, S)
  <2> HIDE DEF T, S, f
  <2>1. QED BY <1>1, <1>4, SumRestrict
<1> HIDE DEF S, f
<1>7. \A h : P(h) <=> Sums(f, SUBSET S, h)
  BY <1>3, PickedIn DEF Sums
<1>8. PICK h : Sums(f, SUBSET S, h)
  BY <1>2, SumsExist
<1>9. PICK c : c = CHOOSE x : P(x)
  OBVIOUS
<1>10. Sums(f, SUBSET S, c)
  <2> HIDE DEF P
  <2>1. P(c)
    BY <1>7, <1>8, <1>9
  <2>2. QED BY <1>7, <2>1
<1>11. SumFunctionOnSet(f, S) = c[S]
  <2>1. S \in SUBSET S
    OBVIOUS
  <2>2. QED BY <1>2, <1>10, <2>1, SumIs
<1>12. BaseSum(ords, u) = SumFunctionOnSet(f, T)
  BY DEF BaseSum, f
<1> HIDE DEF P
<1>13. QED BY <1>5, <1>6, <1>9, <1>11, <1>12 DEF S

\* The base of all users: what it bounds, and how it changes with one of them.
LEMMA BasesTypes ==
  ASSUME NEW D, IsFiniteSet(D), NEW us \in [D -> User]
  PROVE  /\ \A u \in D : /\ BaseOf(us)[u] = us[u].base /\ BaseOf(us)[u] \in 0..QtyMod-1
                         /\ BaseOf(us)[u] \in Int
         /\ Bases(us) = SumFunctionOnSet(BaseOf(us), D) /\ Bases(us) \in Nat
<1>1. \A u \in D : /\ BaseOf(us)[u] = us[u].base /\ BaseOf(us)[u] \in 0..QtyMod-1
                   /\ BaseOf(us)[u] \in Int
  BY QtyModFacts DEF BaseOf, User
<1>2. Bases(us) = SumFunctionOnSet(BaseOf(us), D)
  BY DEF Bases
<1>3. QtyMod - 1 \in Nat /\ Cardinality(D) \in Nat
  BY QtyModFacts, FS_CardinalityType
<1>4. SumFunctionOnSet(BaseOf(us), D) \in 0..Cardinality(D) * (QtyMod - 1)
  BY <1>1, <1>3, SumBounds
<1>5. QED BY <1>1, <1>2, <1>3, <1>4

LEMMA BasesChange ==
  ASSUME NEW D, IsFiniteSet(D), NEW us, us \in [D -> User], NEW v, v \in D,
         NEW x, x \in [D -> User], \A u \in D : u # v => x[u] = us[u]
  PROVE  Bases(x) = (Bases(us) - us[v].base) + x[v].base
<1>1. PICK f, g : f = BaseOf(us) /\ g = BaseOf(x)
  OBVIOUS
<1>2. /\ \A u \in D : f[u] \in Int /\ g[u] \in Int
      /\ \A u \in D : u # v => f[u] = g[u]
      /\ f[v] = us[v].base /\ g[v] = x[v].base
  <2>1. IsFiniteSet(D) /\ us \in [D -> User] /\ x \in [D -> User]
    OBVIOUS
  <2>2. \A u \in D : /\ BaseOf(us)[u] = us[u].base /\ BaseOf(us)[u] \in Int
                     /\ BaseOf(x)[u] = x[u].base /\ BaseOf(x)[u] \in Int
    BY ONLY <2>1, BasesTypes
  <2>3. QED BY <1>1, <2>2
<1>3. SumFunctionOnSet(g, D) = (SumFunctionOnSet(f, D) - f[v]) + g[v]
  <2>1. /\ IsFiniteSet(D) /\ v \in D
        /\ \A u \in D : f[u] \in Int
        /\ \A u \in D : g[u] \in Int
        /\ \A u \in D : u # v => f[u] = g[u]
    BY <1>2
  <2>2. QED BY ONLY <2>1, SumChange
<1>4. Bases(us) = SumFunctionOnSet(f, D) /\ Bases(x) = SumFunctionOnSet(g, D)
  BY <1>1, BasesTypes
<1>5. QED BY <1>2, <1>3, <1>4

LEMMA BasesTwo ==
  ASSUME NEW D, IsFiniteSet(D), NEW us \in [D -> User], NEW v \in D, NEW w \in D, v # w
  PROVE  us[v].base + us[w].base <= Bases(us)
<1>1. PICK f : f = BaseOf(us)
  OBVIOUS
<1>2. /\ \A u \in D : f[u] \in Int /\ f[u] \in 0..QtyMod-1
      /\ f[v] = us[v].base /\ f[w] = us[w].base /\ Bases(us) = SumFunctionOnSet(f, D)
  BY <1>1, BasesTypes
<1>3. PICK A, B : A = D \ {v} /\ B = A \ {w}
  OBVIOUS
<1>4. IsFiniteSet(A) /\ w \in A /\ A \subseteq D /\ IsFiniteSet(B) /\ B \subseteq D
  BY <1>3, FS_RemoveElement
<1>5. SumFunctionOnSet(f, D) = f[v] + SumFunctionOnSet(f, A)
  BY <1>2, <1>3, SumTake
<1>6. SumFunctionOnSet(f, A) = f[w] + SumFunctionOnSet(f, B)
  <2>1. \A u \in A : f[u] \in Int
    BY <1>2, <1>4
  <2>2. QED BY <1>3, <1>4, <2>1, SumTake
<1>7. SumFunctionOnSet(f, B) \in Nat
  <2>1. QtyMod - 1 \in Nat /\ Cardinality(B) \in Nat
    BY <1>4, QtyModFacts, FS_CardinalityType
  <2>2. \A u \in B : f[u] \in 0..QtyMod-1
    BY <1>2, <1>4
  <2>3. SumFunctionOnSet(f, B) \in 0..Cardinality(B) * (QtyMod - 1)
    BY <1>4, <2>1, <2>2, SumBounds
  <2>4. QED BY <2>1, <2>3
<1>8. f[v] \in Int /\ f[w] \in Int
  BY <1>2
<1>9. QED BY <1>2, <1>5, <1>6, <1>7, <1>8

LEMMA TotalIs ==
  ASSUME NEW D, IsFiniteSet(D), NEW us \in [D -> User]
  PROVE  MapThenSumSet(LAMBDA u : us[u].base, D) = Bases(us)
<1> DEFINE P(h) == h = [s \in SUBSET D |-> IF s = {} THEN 0
                                           ELSE us[Picked(s)].base + h[s \ {Picked(s)}]]
<1>1. PICK f : f = BaseOf(us)
  OBVIOUS
<1>2. (\A u \in D : f[u] = us[u].base) /\ Bases(us) = SumFunctionOnSet(f, D)
  BY <1>1, BasesTypes
<1>3. MapThenSumSet(LAMBDA u : us[u].base, D) = (CHOOSE h : P(h))[D]
  BY DEF MapThenSumSet, MapThenFoldSet, Picked
<1>4. \A h : P(h) <=> Sums(f, SUBSET D, h)
  BY <1>2, PickedIn DEF Sums
<1>5. PICK h : Sums(f, SUBSET D, h)
  BY SumsExist
<1>6. PICK c : c = CHOOSE x : P(x)
  OBVIOUS
<1>7. Sums(f, SUBSET D, c)
  <2> HIDE DEF P
  <2>1. P(c)
    BY <1>4, <1>5, <1>6
  <2>2. QED BY <1>4, <2>1
<1>8. SumFunctionOnSet(f, D) = c[D]
  <2>1. D \in SUBSET D
    OBVIOUS
  <2>2. QED BY <1>7, <2>1, SumIs
<1> HIDE DEF P
<1>9. QED BY <1>2, <1>3, <1>6, <1>8

\* What is added modulo the width adds the same to the sum.
LEMMA SumWraps ==
  ASSUME NEW x \in Int, NEW b \in Int, NEW d \in Int
  PROVE  ((x - b) + ((b + d) % QtyMod)) % QtyMod = (x + d) % QtyMod
<1>1. PICK m \in Nat \ {0} : m = QtyMod
  BY QtyModFacts
<1>2. PICK q, r : q = (b + d) \div m /\ r = (b + d) % m
  OBVIOUS
<1>3. q \in Int /\ r \in Int /\ b + d = m * q + r
  BY <1>2
<1>4. PICK k \in Int : k = -q
  BY <1>3
<1>5. m * k = -(m * q) /\ m * q \in Int
  BY <1>3, <1>4
<1>6. (x - b) + r = (x + d) + m * k
  BY <1>3, <1>5
<1>7. ((x + d) + m * k) % m = (x + d) % m
  <2>1. x + d \in Int
    OBVIOUS
  <2>2. QED BY <2>1, ModShift
<1>8. QED BY <1>1, <1>2, <1>6, <1>7

\* What an order locks is what the rest of it needs at its limit, and what a
\* user has locked is what its orders lock; a lock on base is kept in the width.
OrderLocks(o) ==
  /\ o.lockedQuote = LockQuote(o.side, o.limit, o.remaining)
  /\ o.lockedBase = LockBase(o.side, o.remaining)
FundsOf(ords, us) ==
  /\ \A id \in 1..Len(ords) : OrderLocks(ords[id])
  /\ \A u \in DOMAIN us : /\ us[u].lockedQuote = QuoteSum(ords, u)
                          /\ us[u].lockedBase = BaseSum(ords, u) % QtyMod
Funds == FundsOf(orders, users)

LEMMA ForgottenLocks ==
  ASSUME NEW o \in Order
  PROVE  LET f == Forgotten(o)
         IN OrderLocks(f) /\ f.lockedQuote = 0 /\ f.lockedBase = 0 /\ ~f.active
<1>1. PICK f : f = Forgotten(o)
  OBVIOUS
<1>2. /\ f.lockedQuote = 0 /\ f.lockedBase = 0 /\ ~f.active /\ f.remaining = 0
      /\ f.limit = o.limit /\ o.limit \in Int
  BY <1>1 DEF Forgotten, Order
<1>3. OrderLocks(f)
  BY <1>2 DEF OrderLocks, LockQuote, LockBase
<1>4. QED BY <1>1, <1>2, <1>3

\* A fill shrinks what an order locks by what the filled part needs.
LEMMA FilledLocks ==
  ASSUME NEW o \in Order, OrderLocks(o), NEW price \in Int, NEW qty \in Nat, o.remaining >= qty
  PROVE  LET f == Filled(o, price, qty)
         IN /\ OrderLocks(f)
            /\ f.lockedQuote = o.lockedQuote - LockQuote(o.side, o.limit, qty)
            /\ f.lockedBase = o.lockedBase - LockBase(o.side, qty)
<1>1. PICK f : f = Filled(o, price, qty)
  OBVIOUS
<1>2. /\ f \in Order /\ f.side = o.side /\ f.limit = o.limit /\ f.remaining = o.remaining - qty
  BY <1>1, FilledTyped, FilledExact
<1>3. o.remaining \in 0..QtyMod-1 /\ o.limit \in Int /\ o.lockedQuote \in Int
      /\ o.remaining \in Int
  BY QtyModFacts DEF Order
<1>4. PICK y : y = (o.lockedBase - LockBase(o.side, qty)) % QtyMod
  OBVIOUS
<1>5. f.lockedQuote = o.lockedQuote - LockQuote(o.side, o.limit, qty) /\ f.lockedBase = y
  BY <1>1, <1>4 DEF Filled, ReleasePrice, Order, Unlocked
<1>6. y = o.lockedBase - LockBase(o.side, qty)
  <2>1. o.lockedBase - LockBase(o.side, qty) \in 0..QtyMod-1
    BY <1>3, QtyModFacts DEF OrderLocks, LockBase
  <2>2. QED BY <1>4, <2>1, QtyModFacts, ModSmall
<1>7. LockQuote(o.side, o.limit, o.remaining) - LockQuote(o.side, o.limit, qty) =
        LockQuote(o.side, o.limit, o.remaining - qty)
  <2>1. PICK p \in Int, r \in Int : p = o.limit /\ r = o.remaining
    BY <1>3
  <2>2. p * r - p * qty = p * (r - qty)
    OBVIOUS
  <2>3. QED BY <2>1, <2>2 DEF LockQuote
<1>8. LockBase(o.side, o.remaining) - LockBase(o.side, qty) = LockBase(o.side, o.remaining - qty)
  BY <1>3 DEF LockBase
<1>9. OrderLocks(f)
  BY <1>2, <1>5, <1>6, <1>7, <1>8 DEF OrderLocks
<1>10. QED BY <1>1, <1>5, <1>6, <1>9

LEMMA AfterTradeFields ==
  ASSUME NEW u \in User, NEW o \in Order, NEW price \in Int, NEW qty \in Int
  PROVE  LET w == AfterTrade(u, o, price, qty)
         IN /\ w \in User
            /\ w.lockedQuote = u.lockedQuote - LockQuote(o.side, o.limit, qty)
            /\ w.lockedBase = (u.lockedBase - LockBase(o.side, qty)) % QtyMod
            /\ w.base = (u.base + BaseMoved(o.side, qty)) % QtyMod
            /\ w.quote = u.quote + QuoteMoved(o.side, price * qty) + Refund(o, price, qty)
<1>1. PICK q, x, p, y :
        /\ q = u.quote + QuoteMoved(o.side, price * qty) + Refund(o, price, qty)
        /\ x = (u.base + BaseMoved(o.side, qty)) % QtyMod
        /\ p = u.lockedQuote - LockQuote(o.side, o.limit, qty)
        /\ y = (u.lockedBase - LockBase(o.side, qty)) % QtyMod
  OBVIOUS
<1>2. AfterTrade(u, o, price, qty) = [u EXCEPT !.quote = q, !.base = x, !.lockedQuote = p, !.lockedBase = y]
  BY <1>1 DEF AfterTrade, User, Unlocked
<1>3. AfterTrade(u, o, price, qty) \in User
  BY AfterTradeTyped
<1>4. PICK w : w = AfterTrade(u, o, price, qty)
  OBVIOUS
<1>5. w.quote = q /\ w.base = x /\ w.lockedQuote = p /\ w.lockedBase = y
  BY <1>2, <1>4 DEF User
<1>6. QED BY <1>1, <1>3, <1>4, <1>5

\* When one order and its user change by the same amount, the sums hold.
LEMMA FundsChange ==
  ASSUME NEW D, NEW ords \in Seq(Order), NEW us \in [D -> User], FundsOf(ords, us),
         NEW id \in 1..Len(ords), NEW v \in D, ords[id].user = v,
         NEW o \in Order, o.user = v, OrderLocks(o), NEW w \in User,
         w.lockedQuote = (us[v].lockedQuote - ords[id].lockedQuote) + o.lockedQuote,
         w.lockedBase = ((us[v].lockedBase - ords[id].lockedBase) + o.lockedBase) % QtyMod
  PROVE  FundsOf([ords EXCEPT ![id] = o], [us EXCEPT ![v] = w])
<1>1. PICK x, y : x = [ords EXCEPT ![id] = o] /\ y = [us EXCEPT ![v] = w]
  OBVIOUS
<1>2. /\ x \in Seq(Order) /\ Len(x) = Len(ords) /\ x[id] = o
      /\ \A j \in 1..Len(ords) : j # id => x[j] = ords[j]
      /\ DOMAIN y = D /\ y[v] = w /\ \A u \in D : u # v => y[u] = us[u]
      /\ ords[id] \in Order
  BY <1>1
<1>3. ASSUME NEW j \in 1..Len(x) PROVE OrderLocks(x[j])
  BY <1>2 DEF FundsOf
<1>4. ASSUME NEW u \in D
      PROVE  y[u].lockedQuote = QuoteSum(x, u) /\ y[u].lockedBase = BaseSum(x, u) % QtyMod
  <2>1. /\ QuoteSum(x, u) = (QuoteSum(ords, u) - QuotePart(ords[id], u)) + QuotePart(o, u)
        /\ BaseSum(x, u) = (BaseSum(ords, u) - BasePart(ords[id], u)) + BasePart(o, u)
    <3>1. /\ ords \in Seq(Order) /\ id \in 1..Len(ords) /\ x \in Seq(Order) /\ Len(x) = Len(ords)
          /\ \A j \in 1..Len(ords) : j # id => x[j] = ords[j]
      BY <1>2
    <3>2. /\ QuoteSum(x, u) = (QuoteSum(ords, u) - QuotePart(ords[id], u)) + QuotePart(x[id], u)
          /\ BaseSum(x, u) = (BaseSum(ords, u) - BasePart(ords[id], u)) + BasePart(x[id], u)
      BY ONLY <3>1, SumsChange
    <3>3. QED BY <1>2, <3>2
  <2>2. /\ QuoteSum(ords, u) \in Int /\ BaseSum(ords, u) \in Int
        /\ us[u].lockedQuote = QuoteSum(ords, u) /\ us[u].lockedBase = BaseSum(ords, u) % QtyMod
    BY SumTypes DEF FundsOf
  <2>3. CASE u = v
    <3>1. /\ QuotePart(ords[id], u) = ords[id].lockedQuote /\ QuotePart(o, u) = o.lockedQuote
          /\ BasePart(ords[id], u) = ords[id].lockedBase /\ BasePart(o, u) = o.lockedBase
      BY <2>3 DEF QuotePart, BasePart
    <3>2. PICK s, b, c : s = BaseSum(ords, u) /\ b = ords[id].lockedBase /\ c = o.lockedBase
      OBVIOUS
    <3>3. s \in Int /\ b \in Int /\ c \in Int
      BY <1>2, <2>2, <3>2, QtyModFacts DEF Order
    <3>4. (((s % QtyMod) - b) + c) % QtyMod = ((s - b) + c) % QtyMod
      <4>1. PICK m \in Nat \ {0} : m = QtyMod
        BY QtyModFacts
      <4>2. PICK d \in Int : d = c - b
        BY <3>3
      <4>3. ((s % m) + d) % m = (s + d) % m
        BY <3>3, ModAdd
      <4>4. PICK r \in Int : r = s % m
        BY <3>3
      <4>5. (r - b) + c = r + d /\ (s - b) + c = s + d
        BY <3>3, <4>2, <4>4
      <4>6. QED BY <4>1, <4>3, <4>4, <4>5
    <3>5. w.lockedBase = (((s % QtyMod) - b) + c) % QtyMod
      BY <2>2, <2>3, <3>2
    <3>6. BaseSum(x, u) = (s - b) + c
      BY <2>1, <3>1, <3>2
    <3>7. w.lockedQuote = QuoteSum(x, u)
      BY <2>1, <2>2, <2>3, <3>1
    <3>8. QED BY <1>2, <2>3, <3>4, <3>5, <3>6, <3>7
  <2>4. CASE u # v
    <3>1. /\ QuotePart(ords[id], u) = 0 /\ QuotePart(o, u) = 0
          /\ BasePart(ords[id], u) = 0 /\ BasePart(o, u) = 0
      BY <2>4 DEF QuotePart, BasePart
    <3>2. QuoteSum(x, u) = QuoteSum(ords, u) /\ BaseSum(x, u) = BaseSum(ords, u)
      BY <2>1, <2>2, <3>1
    <3>3. QED BY <1>2, <2>2, <2>4, <3>2
  <2>5. QED BY <2>3, <2>4
<1>5. FundsOf(x, y)
  BY <1>2, <1>3, <1>4 DEF FundsOf
<1>6. QED BY <1>1, <1>5

LEMMA FundsAppend ==
  ASSUME NEW D, NEW ords \in Seq(Order), NEW us \in [D -> User], FundsOf(ords, us),
         NEW v \in D, NEW o \in Order, o.user = v, OrderLocks(o)
  PROVE  FundsOf(Append(ords, o), [us EXCEPT ![v] = Locks(@, o)])
<1>1. PICK x, y : x = Append(ords, o) /\ y = [us EXCEPT ![v] = Locks(us[v], o)]
  OBVIOUS
<1>2. /\ x \in Seq(Order) /\ 1..Len(x) = (1..Len(ords)) \cup {Len(ords) + 1}
      /\ x[Len(ords) + 1] = o /\ \A j \in 1..Len(ords) : x[j] = ords[j]
  BY <1>1, AppendProperties
<1>3. DOMAIN y = D /\ y[v] = Locks(us[v], o) /\ \A u \in D : u # v => y[u] = us[u]
  BY <1>1
<1>4. ASSUME NEW j \in 1..Len(x) PROVE OrderLocks(x[j])
  BY <1>2 DEF FundsOf
<1>5. ASSUME NEW u \in D
      PROVE  y[u].lockedQuote = QuoteSum(x, u) /\ y[u].lockedBase = BaseSum(x, u) % QtyMod
  <2>1. /\ QuoteSum(x, u) = QuoteSum(ords, u) + QuotePart(o, u)
        /\ BaseSum(x, u) = BaseSum(ords, u) + BasePart(o, u)
    BY <1>1, SumsAppend
  <2>2. /\ QuoteSum(ords, u) \in Int /\ BaseSum(ords, u) \in Int
        /\ us[u].lockedQuote = QuoteSum(ords, u) /\ us[u].lockedBase = BaseSum(ords, u) % QtyMod
    BY SumTypes DEF FundsOf
  <2>3. CASE u = v
    <3>1. QuotePart(o, u) = o.lockedQuote /\ BasePart(o, u) = o.lockedBase
      BY <2>3 DEF QuotePart, BasePart
    <3>2. PICK s, c : s = BaseSum(ords, u) /\ c = o.lockedBase
      OBVIOUS
    <3>3. s \in Int /\ c \in Int
      BY <2>2, <3>2, QtyModFacts DEF Order
    <3>4. ((s % QtyMod) + c) % QtyMod = (s + c) % QtyMod
      BY <3>3, QtyModFacts, ModAdd
    <3>5. PICK r : r = (us[v].lockedBase + o.lockedBase) % QtyMod
      OBVIOUS
    <3>6. y[u].lockedQuote = us[v].lockedQuote + o.lockedQuote /\ y[u].lockedBase = r
      <4>1. us[v] \in User /\ y[u] = Locks(us[v], o)
        BY <1>3, <2>3
      <4>2. QED BY <3>5, <4>1 DEF Locks, User
    <3>7. r = (s + c) % QtyMod
      BY <2>2, <2>3, <3>2, <3>4, <3>5
    <3>8. QED BY <2>1, <2>2, <2>3, <3>1, <3>2, <3>6, <3>7
  <2>4. CASE u # v
    <3>1. QuotePart(o, u) = 0 /\ BasePart(o, u) = 0
      BY <2>4 DEF QuotePart, BasePart
    <3>2. QuoteSum(x, u) = QuoteSum(ords, u) /\ BaseSum(x, u) = BaseSum(ords, u)
      BY <2>1, <2>2, <3>1
    <3>3. QED BY <1>3, <2>2, <2>4, <3>2
  <2>5. QED BY <2>3, <2>4
<1>6. FundsOf(x, y)
  BY <1>3, <1>4, <1>5 DEF FundsOf
<1>7. QED BY <1>1, <1>6

LEMMA SubmitFunds ==
  ASSUME BaseInv, Funds, SubmitStep
  PROVE  Funds'
<1>1. PICK user \in UserIds, side \in Sides, price \in Int, qty \in 0..QtyMod-1, discard \in BOOLEAN :
        op = Idle /\ Submit(user, side, price, qty, discard)
  BY DEF SubmitStep
<1>2. PICK o : o = NewOrder(user, side, price, qty)
  OBVIOUS
<1>3. o \in Order /\ orders' = Append(orders, o) /\ users' = [users EXCEPT ![user] = Locks(@, o)]
  BY <1>1, <1>2, SubmitChanges DEF BaseInv
<1>4. o.user = user /\ OrderLocks(o)
  BY <1>2 DEF NewOrder, OrderLocks
<1>5. orders \in Seq(Order) /\ users \in [UserIds -> User] /\ FundsOf(orders, users)
  BY DEF BaseInv, Tables, OrdersTyped, UsersTyped, Funds
<1>6. FundsOf(orders', users')
  BY <1>3, <1>4, <1>5, FundsAppend
<1>7. QED BY <1>6 DEF Funds

LEMMA ReleasesFunds ==
  ASSUME BaseInv, Funds, NEW id \in 1..Len(orders), Releases(id)
  PROVE  Funds'
<1>1. PICK o, f, v, w : o = orders[id] /\ f = Forgotten(o) /\ v = o.user /\ w = Unlocks(users[v], o)
  OBVIOUS
<1>2. /\ orders \in Seq(Order) /\ users \in [UserIds -> User] /\ FundsOf(orders, users)
      /\ o \in Order /\ v \in UserIds /\ users[v] \in User
  BY <1>1 DEF BaseInv, Tables, OrdersTyped, UsersTyped, Funds
<1>3. f \in Order /\ f.user = v /\ OrderLocks(f) /\ f.lockedQuote = 0 /\ f.lockedBase = 0
  BY <1>1, <1>2, ForgottenTyped, ForgottenLocks
<1>4. w \in User
  BY <1>1, <1>2, UnlocksTyped
<1>5. PICK y : y = (users[v].lockedBase - o.lockedBase) % QtyMod
  OBVIOUS
<1>6. w.lockedQuote = users[v].lockedQuote - o.lockedQuote /\ w.lockedBase = y
  BY <1>1, <1>2, <1>5 DEF Unlocks, User
<1>7. /\ users[v].lockedQuote \in Int /\ o.lockedQuote \in Int
      /\ users[v].lockedBase \in Int /\ o.lockedBase \in Int
  BY <1>2, QtyModFacts DEF User, Order
<1>8. /\ w.lockedQuote = (users[v].lockedQuote - orders[id].lockedQuote) + f.lockedQuote
      /\ w.lockedBase = ((users[v].lockedBase - orders[id].lockedBase) + f.lockedBase) % QtyMod
  <2>1. (users[v].lockedBase - o.lockedBase) + 0 = users[v].lockedBase - o.lockedBase
    BY <1>7
  <2>2. QED BY <1>1, <1>3, <1>5, <1>6, <1>7, <2>1
<1>9. orders' = [orders EXCEPT ![id] = f] /\ users' = [users EXCEPT ![v] = w]
  BY <1>1, <1>2 DEF Releases
<1>10. FundsOf(orders', users')
  <2>1. orders[id].user = v
    BY <1>1
  <2>2. QED BY <1>2, <1>3, <1>4, <1>8, <1>9, <2>1, FundsChange
<1>11. QED BY <1>10 DEF Funds

\* One party of a trade.
LEMMA FundsTrade ==
  ASSUME NEW D, NEW ords \in Seq(Order), NEW us \in [D -> User], FundsOf(ords, us),
         NEW id \in 1..Len(ords), NEW o, o = ords[id], o.user \in D,
         NEW price \in Int, NEW qty \in Nat, o.remaining >= qty
  PROVE  FundsOf([ords EXCEPT ![id] = Filled(o, price, qty)],
                 [us EXCEPT ![o.user] = AfterTrade(us[o.user], o, price, qty)])
<1>1. PICK v, f, w, lq, lb : /\ v = o.user /\ f = Filled(o, price, qty)
                             /\ w = AfterTrade(us[v], o, price, qty)
                             /\ lq = LockQuote(o.side, o.limit, qty) /\ lb = LockBase(o.side, qty)
  OBVIOUS
<1>2. o \in Order /\ OrderLocks(o) /\ us[v] \in User
  BY <1>1 DEF FundsOf
<1>3. f \in Order /\ f.user = v
  BY <1>1, <1>2, FilledTyped
<1>4. OrderLocks(f) /\ f.lockedQuote = o.lockedQuote - lq /\ f.lockedBase = o.lockedBase - lb
  BY <1>1, <1>2, FilledLocks
<1>5. w \in User /\ w.lockedQuote = us[v].lockedQuote - lq
      /\ w.lockedBase = (us[v].lockedBase - lb) % QtyMod
  BY <1>1, <1>2, AfterTradeFields
<1>6. /\ us[v].lockedQuote \in Int /\ us[v].lockedBase \in Int /\ lq \in Int /\ lb \in Int
      /\ o.lockedQuote \in Int /\ o.lockedBase \in Int
  <2>1. lq \in Int /\ lb \in Int
    <3>1. o.limit \in Int
      BY <1>2 DEF Order
    <3>2. QED BY <1>1, <3>1, LockTypes
  <2>2. us[v].lockedQuote \in Int /\ us[v].lockedBase \in Int
    BY <1>2, QtyModFacts DEF User
  <2>3. o.lockedQuote \in Int /\ o.lockedBase \in Int
    <3>1. o.lockedQuote \in Int /\ o.lockedBase \in E!Qty
      BY <1>2 DEF Order
    <3>2. QED BY <3>1, QtyModFacts
  <2>4. QED BY <2>1, <2>2, <2>3
<1>7. /\ us[v].lockedQuote - lq = (us[v].lockedQuote - o.lockedQuote) + (o.lockedQuote - lq)
      /\ us[v].lockedBase - lb = (us[v].lockedBase - o.lockedBase) + (o.lockedBase - lb)
  <2>1. PICK a \in Int, b \in Int, c \in Int, d \in Int :
          a = us[v].lockedQuote /\ b = us[v].lockedBase /\ c = o.lockedQuote /\ d = o.lockedBase
    BY <1>6
  <2>2. a - lq = (a - c) + (c - lq) /\ b - lb = (b - d) + (d - lb)
    BY <1>6
  <2>3. QED BY <2>1, <2>2
<1>8. /\ w.lockedQuote = (us[v].lockedQuote - ords[id].lockedQuote) + f.lockedQuote
      /\ w.lockedBase = ((us[v].lockedBase - ords[id].lockedBase) + f.lockedBase) % QtyMod
  BY <1>4, <1>5, <1>7
<1>9. FundsOf([ords EXCEPT ![id] = f], [us EXCEPT ![v] = w])
  <2>1. v \in D /\ ords[id].user = v
    BY <1>1
  <2>2. QED BY <1>3, <1>4, <1>5, <1>8, <2>1, FundsChange
<1>10. QED BY <1>1, <1>9

\* Orders m and t trade: first the maker's side is settled, then the taker's.
Exchange(m, t, price, qty) ==
  LET half == [orders EXCEPT ![m] = Filled(orders[m], price, qty)]
      u == orders[m].user
      v == orders[t].user
      paid == [users EXCEPT ![u] = AfterTrade(users[u], orders[m], price, qty)]
  IN /\ orders' = [half EXCEPT ![t] = Filled(orders[t], price, qty)]
     /\ users' = [paid EXCEPT ![v] = AfterTrade(paid[v], orders[t], price, qty)]
Tradable(m, t, price, qty) ==
  /\ m # t
  /\ \A id \in {m, t} : /\ orders[id].user \in UserIds /\ orders[id].active
                        /\ orders[id].remaining >= qty
  /\ price = orders[m].limit /\ orders[m].side = E!Opposite(orders[t].side)
  /\ IF orders[t].side = E!Buy THEN price <= orders[t].limit ELSE price >= orders[t].limit

\* One iteration of settlement is a trade of two live orders, one on each side.
LEMMA SettleTrades ==
  ASSUME OpTyped, BaseInv, EngineOk, EngineOk', Synced, Settle
  PROVE  /\ op # Idle /\ op' # Idle /\ op.next \in 1..Len(executions) /\ UNCHANGED E!engineVars
         /\ \E m \in 1..Len(orders), t \in 1..Len(orders), price \in Int, qty \in Nat \ {0} :
              price = executions[op.next].price /\ Tradable(m, t, price, qty) /\ Exchange(m, t, price, qty)
<1>1. /\ op # Idle /\ op' # Idle /\ op.phase = "settling" /\ op.next \in 1..Len(executions)
      /\ UNCHANGED E!engineVars
      /\ IF orders[executions[op.next].maker].active THEN Settles(op.next)
         ELSE UNCHANGED <<orders, users>>
  BY SettleBase
<1>2. PICK e, t, m : e = executions[op.next] /\ t = op.id /\ m = e.maker
  OBVIOUS
<1>3. /\ e \in Execution /\ e.qty \in Nat \ {0} /\ m \in 1..Len(orders) /\ m # t
      /\ t \in 1..Len(orders)
      /\ \A id \in {m, t} : orders[id].active /\ orders[id].remaining >= e.qty
  BY <1>1, <1>2, SettleFinds
<1>4. Fair(e, orders, t)
  <2>1. op.next \in Pending
    BY <1>1 DEF Pending
  <2>2. QED BY <1>2, <2>1 DEF BaseInv, PendingFair
<1>5. \A id \in {m, t} : orders[id].user \in UserIds
  BY <1>3 DEF BaseInv, Tables, OrdersTyped
<1>6. Settles(op.next)
  BY <1>1, <1>2, <1>3
<1>7. PICK price, qty : price = e.price /\ qty = e.qty
  OBVIOUS
<1>8. price \in Int /\ qty \in Nat \ {0} /\ price = executions[op.next].price
  BY <1>2, <1>3, <1>7 DEF Execution
<1>9. Tradable(m, t, price, qty)
  BY <1>2, <1>3, <1>4, <1>5, <1>7 DEF Tradable, Fair
<1>10. Exchange(m, t, price, qty)
  <2>1. orders \in Seq(Order) /\ users \in [UserIds -> User]
    BY DEF BaseInv, Tables, OrdersTyped, UsersTyped
  <2>2. /\ orders' = [orders EXCEPT ![m] = Filled(orders[m], price, qty),
                                    ![t] = Filled(orders[t], price, qty)]
        /\ users' = LET paid == [users EXCEPT ![orders[m].user] = AfterTrade(@, orders[m], price, qty)]
                    IN [paid EXCEPT ![orders[t].user] = AfterTrade(@, orders[t], price, qty)]
    BY <1>2, <1>6, <1>7 DEF Settles
  <2>3. PICK x, y, a, b, u, v : /\ x = Filled(orders[m], price, qty) /\ y = Filled(orders[t], price, qty)
                          /\ u = orders[m].user /\ v = orders[t].user
                          /\ a = AfterTrade(users[u], orders[m], price, qty)
                          /\ b = AfterTrade([users EXCEPT ![u] = a][v], orders[t], price, qty)
    OBVIOUS
  <2>4. orders' = [[orders EXCEPT ![m] = x] EXCEPT ![t] = y]
    BY <1>3, <2>1, <2>2, <2>3
  <2>5. u \in UserIds /\ v \in UserIds
    BY <1>5, <2>3
  <2>6. users' = [[users EXCEPT ![u] = a] EXCEPT ![v] = b]
    BY <2>1, <2>2, <2>3, <2>5
  <2>7. QED BY <2>3, <2>4, <2>6 DEF Exchange
<1>11. QED BY <1>1, <1>3, <1>8, <1>9, <1>10

LEMMA ExchangeFunds ==
  ASSUME BaseInv, Funds, NEW m \in 1..Len(orders), NEW t \in 1..Len(orders), NEW price \in Int,
         NEW qty \in Nat \ {0}, Tradable(m, t, price, qty), Exchange(m, t, price, qty)
  PROVE  Funds'
<1>1. PICK x, y, u, v : /\ x = orders[m] /\ y = orders[t] /\ u = x.user /\ v = y.user
  OBVIOUS
<1>2. PICK half, paid : /\ half = [orders EXCEPT ![m] = Filled(x, price, qty)]
                        /\ paid = [users EXCEPT ![u] = AfterTrade(users[u], x, price, qty)]
  OBVIOUS
<1>3. /\ orders' = [half EXCEPT ![t] = Filled(y, price, qty)]
      /\ users' = [paid EXCEPT ![v] = AfterTrade(paid[v], y, price, qty)]
  BY <1>1, <1>2 DEF Exchange
<1>4. /\ orders \in Seq(Order) /\ users \in [UserIds -> User] /\ FundsOf(orders, users)
      /\ x \in Order /\ y \in Order
  BY <1>1 DEF BaseInv, Tables, OrdersTyped, UsersTyped, Funds
<1>5. /\ m # t /\ u \in UserIds /\ v \in UserIds /\ x.remaining >= qty /\ y.remaining >= qty
      /\ qty \in Nat /\ qty \in Int
  BY <1>1 DEF Tradable
<1>6. FundsOf(half, paid)
  BY <1>1, <1>2, <1>4, <1>5, FundsTrade
<1>7. Filled(x, price, qty) \in Order /\ AfterTrade(users[u], x, price, qty) \in User
  <2>1. users[u] \in User
    BY <1>4, <1>5
  <2>2. QED BY <1>4, <1>5, <2>1, FilledTyped, AfterTradeTyped
<1>8. half \in Seq(Order) /\ t \in 1..Len(half) /\ half[t] = y /\ paid \in [UserIds -> User]
  BY <1>1, <1>2, <1>4, <1>5, <1>7
<1>9. FundsOf([half EXCEPT ![t] = Filled(y, price, qty)],
              [paid EXCEPT ![v] = AfterTrade(paid[v], y, price, qty)])
  <2>1. /\ half \in Seq(Order) /\ paid \in [UserIds -> User] /\ FundsOf(half, paid)
        /\ t \in 1..Len(half) /\ y = half[t] /\ y.user \in UserIds /\ price \in Int
        /\ qty \in Nat /\ y.remaining >= qty
    BY <1>1, <1>5, <1>6, <1>8
  <2>2. FundsOf([half EXCEPT ![t] = Filled(y, price, qty)],
                [paid EXCEPT ![y.user] = AfterTrade(paid[y.user], y, price, qty)])
    BY ONLY <2>1, FundsTrade
  <2>3. QED BY <1>1, <2>2
<1>10. FundsOf(orders', users')
  BY <1>3, <1>9
<1>11. QED BY <1>10 DEF Funds

LEMMA QuietFunds ==
  ASSUME BaseInv, Funds, QuietStep
  PROVE  Funds'
<1>1. /\ orders \in Seq(Order) /\ users \in [UserIds -> User] /\ UserIds = 0..Cardinality(UserIds)-1
      /\ \A id \in 1..Len(orders) : OrderLocks(orders[id]) /\ orders[id].user \in UserIds
      /\ \A u \in UserIds : /\ users[u].lockedQuote = QuoteSum(orders, u)
                            /\ users[u].lockedBase = BaseSum(orders, u) % QtyMod
      /\ orders' = orders
  BY DEF BaseInv, Tables, OrdersTyped, UsersTyped, Funds, FundsOf, UserIds, QuietStep, MakeUser,
         AddBalance
<1>2. ASSUME NEW name \in AnyName, MakeUser(name), NEW u \in UserIds'
      PROVE  /\ users'[u].lockedQuote = QuoteSum(orders, u)
             /\ users'[u].lockedBase = BaseSum(orders, u) % QtyMod
  <2>1. CASE u \in UserIds
    <3>1. users'[u] = users[u]
      BY <1>1, <1>2, <2>1, FS_CardinalityType DEF MakeUser, BaseInv, Tables, UsersTyped
    <3>2. QED BY <1>1, <2>1, <3>1
  <2>2. CASE u \notin UserIds
    <3>1. users' = [i \in 0..Cardinality(UserIds) |->
                      IF i = Cardinality(UserIds) THEN NewUser(name) ELSE users[i]]
      BY <1>2, <2>2 DEF MakeUser, UserIds
    <3>2. Cardinality(UserIds) \in Nat
      BY FS_CardinalityType DEF BaseInv, Tables, UsersTyped
    <3>3. u \in 0..Cardinality(UserIds)
      BY <3>1 DEF UserIds
    <3>4. u = Cardinality(UserIds)
      BY <1>1, <2>2, <3>2, <3>3
    <3>5. users'[u].lockedQuote = 0 /\ users'[u].lockedBase = 0
      BY <3>1, <3>3, <3>4 DEF NewUser
    <3>6. QuoteSum(orders, u) = 0 /\ BaseSum(orders, u) = 0
      BY <1>1, <2>2, SumsNobody
    <3>7. 0 % QtyMod = 0
      BY QtyModFacts, ModSmall
    <3>8. QED BY <3>5, <3>6, <3>7
  <2>3. QED BY <2>1, <2>2
<1>3. ASSUME NEW user \in UserIds, NEW quote \in Int, NEW base \in 0..QtyMod-1,
             AddBalance(user, quote, base), NEW u \in UserIds'
      PROVE  /\ users'[u].lockedQuote = QuoteSum(orders, u)
             /\ users'[u].lockedBase = BaseSum(orders, u) % QtyMod
  <2>1. PICK q, x : q = users[user].quote + quote /\ x = (users[user].base + base) % QtyMod
    OBVIOUS
  <2>2. users' = [users EXCEPT ![user] = [users[user] EXCEPT !.quote = q, !.base = x]]
    BY <1>3, <2>1 DEF AddBalance, UserIds
  <2>3. u \in UserIds
    BY <1>1, <2>2 DEF UserIds
  <2>4. users[user] \in User
    BY <1>1
  <2>5. users'[u].lockedQuote = users[u].lockedQuote /\ users'[u].lockedBase = users[u].lockedBase
    BY <1>1, <2>2, <2>3, <2>4 DEF User
  <2>6. QED BY <1>1, <2>3, <2>5
<1>4. \A u \in UserIds' : /\ users'[u].lockedQuote = QuoteSum(orders, u)
                          /\ users'[u].lockedBase = BaseSum(orders, u) % QtyMod
  BY <1>2, <1>3 DEF QuietStep
<1>5. FundsOf(orders', users')
  <2>1. DOMAIN users' = UserIds'
    BY DEF UserIds
  <2>2. QED BY <1>1, <1>4, <2>1 DEF FundsOf
<1>6. QED BY <1>5 DEF Funds

LEMMA FundsStep ==
  ASSUME OpTyped, BaseInv, EngineOk, EngineOk', Synced, Funds, [AnyStep]_vars
  PROVE  Funds'
<1>1. CASE SubmitStep
  BY <1>1, SubmitFunds
<1>2. CASE UNCHANGED <<users, orders>>
  BY <1>2 DEF Funds, FundsOf
<1>3. CASE CancelStep
  <2>1. PICK id \in 1..Len(orders) : CancelActive(id)
    BY <1>3 DEF CancelStep
  <2>2. IF ok' THEN Releases(id) ELSE UNCHANGED <<users, orders>>
    BY <2>1, CancelChanges DEF BaseInv
  <2>3. QED BY <1>2, <2>2, ReleasesFunds
<1>4. CASE QuietStep
  BY <1>4, QuietFunds
<1>5. CASE EngineStep
  BY <1>2, <1>5 DEF EngineStep
<1>6. CASE Rollback
  <2>1. op.id \in 1..Len(orders) /\ Releases(op.id)
    BY <1>6, RollbackChanges DEF BaseInv, Tables, OrdersTyped
  <2>2. PICK id : id = op.id
    OBVIOUS
  <2>3. QED BY <2>1, <2>2, ReleasesFunds
<1>7. CASE Settle
  BY <1>7, SettleTrades, ExchangeFunds
<1>8. CASE Finish
  <2>1. PICK id : id = op.id
    OBVIOUS
  <2>2. id \in 1..Len(orders) /\ (Releases(id) \/ UNCHANGED <<users, orders>>)
    BY <1>8, <2>1, FinishChanges
  <2>3. QED BY <1>2, <2>2, ReleasesFunds
<1>9. CASE UNCHANGED vars
  BY <1>2, <1>9 DEF vars, walletVars
<1>10. QED BY <1>1, <1>3, <1>4, <1>5, <1>6, <1>7, <1>8, <1>9, StepKinds

LEMMA FundsAlways == AnySpec => []Funds
<1>1. Init => Funds
  <2> SUFFICES ASSUME Init PROVE FundsOf(orders, users)
    BY DEF Funds
  <2>1. orders = <<>> /\ users = SeedUsers /\ orders \in Seq(Order) /\ Len(orders) = 0
    BY EmptySeq DEF Init
  <2>2. ASSUME NEW u \in DOMAIN users
        PROVE  users[u].lockedQuote = QuoteSum(orders, u) /\ users[u].lockedBase = BaseSum(orders, u) % QtyMod
    <3>1. users[u].lockedQuote = 0 /\ users[u].lockedBase = 0
      BY <2>1, <2>2, OrderBookAssumption
    <3>2. QuoteSum(orders, u) = 0 /\ BaseSum(orders, u) = 0
      <4>1. \A id \in 1..Len(orders) : orders[id].user # u
        BY <2>1
      <4>2. QED BY <2>1, <4>1, SumsNobody
    <3>3. 0 % QtyMod = 0
      BY QtyModFacts, ModSmall
    <3>4. QED BY <3>1, <3>2, <3>3
  <2>3. QED BY <2>1, <2>2 DEF FundsOf
<1>2. OpTyped /\ BaseInv /\ EngineOk /\ EngineOk' /\ Synced /\ Funds /\ [AnyStep]_vars => Funds'
  BY FundsStep
<1>3. QED BY <1>1, <1>2, OpTypedAlways, EngineAlwaysOk, BaseAlways, SyncAlways, PTL DEF AnySpec
------------------------------------------------------------------------------
LEMMA BasesSame ==
  ASSUME NEW D, IsFiniteSet(D), NEW us \in [D -> User], NEW ws \in [D -> User],
         \A u \in D : ws[u].base = us[u].base
  PROVE  Bases(ws) = Bases(us)
<1>1. BaseOf(ws) = BaseOf(us)
  BY DEF BaseOf
<1>2. QED BY <1>1 DEF Bases

\* Locking and unlocking move no base.
LEMMA LocksMoveNothing ==
  ASSUME NEW D, NEW us \in [D -> User], NEW v, NEW o, NEW u \in D
  PROVE  /\ [us EXCEPT ![v] = Locks(@, o)][u].base = us[u].base
         /\ [us EXCEPT ![v] = Unlocks(@, o)][u].base = us[u].base
         /\ [us EXCEPT ![v] = Locks(@, o)][u].quote = us[u].quote
         /\ [us EXCEPT ![v] = Unlocks(@, o)][u].quote = us[u].quote
<1>1. us[u] \in User
  OBVIOUS
<1>2. \A w \in User : /\ Locks(w, o).base = w.base /\ Unlocks(w, o).base = w.base
                      /\ Locks(w, o).quote = w.quote /\ Unlocks(w, o).quote = w.quote
  <2>1. ASSUME NEW w \in User
        PROVE  /\ Locks(w, o).base = w.base /\ Unlocks(w, o).base = w.base
               /\ Locks(w, o).quote = w.quote /\ Unlocks(w, o).quote = w.quote
    <3>1. PICK x, y : /\ x = (w.lockedBase + o.lockedBase) % QtyMod
                      /\ y = (w.lockedBase - o.lockedBase) % QtyMod
      OBVIOUS
    <3>2. QED BY <3>1 DEF Locks, Unlocks, User
  <2>2. QED BY <2>1
<1>3. QED BY <1>1, <1>2

\* The two sides of a trade move base in opposite directions.
LEMMA OppositeMoves ==
  ASSUME NEW x \in Order, NEW y \in Order, x.side = E!Opposite(y.side), NEW qty \in Nat
  PROVE  /\ IsBid(x.side) <=> ~IsBid(y.side)
         /\ BaseMoved(x.side, qty) \in Int /\ BaseMoved(y.side, qty) = -BaseMoved(x.side, qty)
         /\ IsBid(y.side) <=> y.side = E!Buy
<1>1. x.side \in E!Side /\ y.side \in E!Side /\ Engine!Buy = E!Buy
  BY SameEngine DEF Order, Sides
<1>2. (IsBid(x.side) <=> x.side = E!Buy) /\ (IsBid(y.side) <=> y.side = E!Buy)
  BY <1>1 DEF IsBid
<1>3. x.side = E!Buy <=> y.side # E!Buy
  BY <1>1 DEF E!Opposite, E!Side, E!Buy, E!Sell
<1>4. QED BY <1>2, <1>3 DEF BaseMoved

LEMMA ExchangeBases ==
  ASSUME BaseInv, NEW m \in 1..Len(orders), NEW t \in 1..Len(orders), NEW price \in Int,
         NEW qty \in Nat \ {0}, Tradable(m, t, price, qty), Exchange(m, t, price, qty)
  PROVE  Bases(users') % QtyMod = Bases(users) % QtyMod
<1>1. PICK x, y, u, v : /\ x = orders[m] /\ y = orders[t] /\ u = x.user /\ v = y.user
  OBVIOUS
<1>2. PICK w, paid : w = AfterTrade(users[u], x, price, qty) /\ paid = [users EXCEPT ![u] = w]
  OBVIOUS
<1>3. PICK z : z = AfterTrade(paid[v], y, price, qty) /\ users' = [paid EXCEPT ![v] = z]
  BY <1>1, <1>2 DEF Exchange
<1>4. PICK D : D = UserIds
  OBVIOUS
<1>5. /\ IsFiniteSet(D) /\ users \in [D -> User] /\ u \in D /\ v \in D
      /\ x \in Order /\ y \in Order /\ x.side = E!Opposite(y.side) /\ qty \in Nat /\ qty \in Int
  BY <1>1, <1>4 DEF BaseInv, Tables, OrdersTyped, UsersTyped, Tradable
<1>6. PICK d \in Int : d = BaseMoved(x.side, qty) /\ BaseMoved(y.side, qty) = -d
  BY <1>5, OppositeMoves
<1>7. w \in User /\ w.base = (users[u].base + d) % QtyMod
  <2>1. users[u] \in User
    BY <1>5
  <2>2. QED BY <1>2, <1>5, <1>6, <2>1, AfterTradeFields
<1>8. paid \in [D -> User]
  BY <1>2, <1>5, <1>7
<1>9. z \in User /\ z.base = (paid[v].base + (-d)) % QtyMod
  <2>1. paid[v] \in User
    BY <1>5, <1>8
  <2>2. QED BY <1>3, <1>5, <1>6, <2>1, AfterTradeFields
<1>10. Bases(paid) = (Bases(users) - users[u].base) + w.base
  <2>1. /\ IsFiniteSet(D) /\ users \in [D -> User] /\ u \in D /\ paid \in [D -> User]
        /\ \A r \in D : r # u => paid[r] = users[r]
    BY <1>2, <1>5, <1>8
  <2>2. Bases(paid) = (Bases(users) - users[u].base) + paid[u].base
    BY ONLY <2>1, BasesChange
  <2>3. QED BY <1>2, <1>5, <2>2
<1>11. Bases(users') = (Bases(paid) - paid[v].base) + z.base
  <2>1. PICK last : last = [paid EXCEPT ![v] = z] /\ users' = last
    BY <1>3
  <2>2. /\ IsFiniteSet(D) /\ paid \in [D -> User] /\ v \in D /\ last \in [D -> User]
        /\ \A r \in D : r # v => last[r] = paid[r]
    BY <1>5, <1>8, <1>9, <2>1
  <2>3. Bases(last) = (Bases(paid) - paid[v].base) + last[v].base
    BY ONLY <2>2, BasesChange
  <2>4. QED BY <1>5, <1>8, <2>1, <2>3
<1>12. Bases(users) \in Int /\ Bases(paid) \in Int
  BY <1>5, <1>8, BasesTypes
<1>13. users[u].base \in Int /\ paid[v].base \in Int
  <2>1. users[u] \in User /\ paid[v] \in User
    BY <1>5, <1>8
  <2>2. \A r \in User : r.base \in Int
    BY QtyModFacts DEF User
  <2>3. QED BY <2>1, <2>2
<1>14. Bases(paid) % QtyMod = (Bases(users) + d) % QtyMod
  <2>1. PICK X \in Int, b \in Int : X = Bases(users) /\ b = users[u].base
    BY <1>12, <1>13
  <2>2. ((X - b) + ((b + d) % QtyMod)) % QtyMod = (X + d) % QtyMod
    BY SumWraps
  <2>3. Bases(paid) = (X - b) + ((b + d) % QtyMod)
    BY <1>7, <1>10, <2>1
  <2>4. QED BY <2>1, <2>2, <2>3
<1>15. Bases(users') % QtyMod = (Bases(paid) + (-d)) % QtyMod
  <2>1. PICK X \in Int, b \in Int, c \in Int : X = Bases(paid) /\ b = paid[v].base /\ c = -d
    BY <1>12, <1>13
  <2>2. ((X - b) + ((b + c) % QtyMod)) % QtyMod = (X + c) % QtyMod
    BY SumWraps
  <2>3. Bases(users') = (X - b) + ((b + c) % QtyMod)
    BY <1>9, <1>11, <2>1
  <2>4. QED BY <2>1, <2>2, <2>3
<1>16. (Bases(paid) + (-d)) % QtyMod = Bases(users) % QtyMod
  <2>1. PICK M \in Nat \ {0} : M = QtyMod
    BY QtyModFacts
  <2>2. PICK a \in Int, b \in Int, c \in Int : a = Bases(users) /\ b = Bases(paid) /\ c = -d
    BY <1>12
  <2>3. ((b % M) + c) % M = (b + c) % M
    BY ModAdd
  <2>4. (((a + d) % M) + c) % M = ((a + d) + c) % M
    <3>1. a + d \in Int
      OBVIOUS
    <3>2. QED BY <3>1, ModAdd
  <2>5. (a + d) + c = a
    BY <2>2
  <2>6. b % M = (a + d) % M
    BY <1>14, <2>1, <2>2
  <2>7. QED BY <2>1, <2>2, <2>3, <2>4, <2>5, <2>6
<1>17. QED BY <1>15, <1>16

\* Only trades and deposits move money.
BalancesKept ==
  /\ UserIds' = UserIds
  /\ \A u \in UserIds : users'[u].base = users[u].base /\ users'[u].quote = users[u].quote

LEMMA ReleasesKeep ==
  ASSUME BaseInv, NEW id \in 1..Len(orders), Releases(id)
  PROVE  BalancesKept
<1>1. PICK o, v : o = orders[id] /\ v = o.user
  OBVIOUS
<1>2. /\ users \in [UserIds -> User] /\ UserIds' = UserIds
      /\ users' = [users EXCEPT ![v] = Unlocks(@, o)]
  BY <1>1, ReleasesTables DEF BaseInv, Tables, UsersTyped, Releases
<1>3. PICK D : D = UserIds
  OBVIOUS
<1>4. \A u \in D : users'[u].base = users[u].base /\ users'[u].quote = users[u].quote
  BY <1>2, <1>3, LocksMoveNothing
<1>5. QED BY <1>2, <1>3, <1>4 DEF BalancesKept

LEMMA SubmitKeeps ==
  ASSUME BaseInv, SubmitStep
  PROVE  BalancesKept
<1>1. PICK user \in UserIds, side \in Sides, price \in Int, qty \in 0..QtyMod-1, discard \in BOOLEAN :
        op = Idle /\ Submit(user, side, price, qty, discard)
  BY DEF SubmitStep
<1>2. PICK o, D : o = NewOrder(user, side, price, qty) /\ D = UserIds
  OBVIOUS
<1>3. users' = [users EXCEPT ![user] = Locks(@, o)] /\ users \in [D -> User]
  BY <1>1, <1>2, SubmitChanges DEF BaseInv, Tables, UsersTyped
<1>4. \A u \in D : users'[u].base = users[u].base /\ users'[u].quote = users[u].quote
  BY <1>3, LocksMoveNothing
<1>5. UserIds' = UserIds
  BY <1>2, <1>3 DEF UserIds
<1>6. QED BY <1>2, <1>4, <1>5 DEF BalancesKept

\* The steps that only lock, unlock or match.
KeepingStep == SubmitStep \/ CancelStep \/ EngineStep \/ Rollback \/ Finish \/ UNCHANGED vars

LEMMA BalancesStep ==
  ASSUME OpTyped, BaseInv, EngineOk, EngineOk', KeepingStep
  PROVE  BalancesKept
<1>1. CASE SubmitStep
  BY <1>1, SubmitKeeps
<1>2. CASE UNCHANGED <<users, orders>>
  BY <1>2 DEF BalancesKept, UserIds
<1>3. CASE CancelStep
  <2>1. PICK id \in 1..Len(orders) : CancelActive(id)
    BY <1>3 DEF CancelStep
  <2>2. IF ok' THEN Releases(id) ELSE UNCHANGED <<users, orders>>
    BY <2>1, CancelChanges DEF BaseInv
  <2>3. QED BY <1>2, <2>2, ReleasesKeep
<1>4. CASE EngineStep
  BY <1>2, <1>4 DEF EngineStep
<1>5. CASE Rollback
  <2>1. PICK id : id = op.id
    OBVIOUS
  <2>2. id \in 1..Len(orders) /\ Releases(id)
    BY <1>5, <2>1, RollbackChanges DEF BaseInv, Tables, OrdersTyped
  <2>3. QED BY <2>2, ReleasesKeep
<1>6. CASE Finish
  <2>1. PICK id : id = op.id
    OBVIOUS
  <2>2. id \in 1..Len(orders) /\ (Releases(id) \/ UNCHANGED <<users, orders>>)
    BY <1>6, <2>1, FinishChanges
  <2>3. QED BY <1>2, <2>2, ReleasesKeep
<1>7. CASE UNCHANGED vars
  BY <1>2, <1>7 DEF vars, walletVars
<1>8. QED BY <1>1, <1>3, <1>4, <1>5, <1>6, <1>7 DEF KeepingStep

LEMMA KeptBases ==
  ASSUME BaseInv, BaseInv', BalancesKept
  PROVE  Bases(users') = Bases(users)
<1>1. PICK D, ws : D = UserIds /\ ws = users'
  OBVIOUS
<1>2. /\ IsFiniteSet(D) /\ users \in [D -> User] /\ ws \in [D -> User]
      /\ \A u \in D : ws[u].base = users[u].base
  BY <1>1 DEF BaseInv, Tables, UsersTyped, BalancesKept
<1>3. Bases(ws) = Bases(users)
  BY <1>2, BasesSame
<1>4. QED BY <1>1, <1>3

LEMMA TotalBase == BaseInv => Total("base") = Bases(users)
<1> SUFFICES ASSUME BaseInv PROVE Total("base") = Bases(users)
  OBVIOUS
<1>1. PICK D : D = UserIds
  OBVIOUS
<1>2. IsFiniteSet(D) /\ users \in [D -> User]
  BY <1>1 DEF BaseInv, Tables, UsersTyped
<1>3. MapThenSumSet(LAMBDA u : users[u].base, D) = Bases(users)
  BY <1>2, TotalIs
<1>4. QED BY <1>1, <1>3 DEF Total

LEMMA CallsKeepBases ==
  ASSUME OpTyped, BaseInv, BaseInv', EngineOk, EngineOk', Synced, KeepingStep \/ Settle
  PROVE  Bases(users') % QtyMod = Bases(users) % QtyMod
<1>1. CASE Settle
  BY <1>1, SettleTrades, ExchangeBases
<1>2. CASE KeepingStep
  BY <1>2, BalancesStep, KeptBases
<1>3. QED BY <1>1, <1>2

\* Only addBalance changes the amount of base in the system, up to the width
\* of the type: settlement takes from the seller what it gives to the buyer,
\* also when they are the same user.
THEOREM BaseConserved == Spec => TradesConserveBase
<1>1. OpTyped /\ BaseInv /\ BaseInv' /\ EngineOk /\ EngineOk' /\ Synced /\ [AnyStep]_vars
      => [op # Idle \/ op' # Idle => Total("base")' % QtyMod = Total("base") % QtyMod]_vars
  <2> SUFFICES ASSUME OpTyped, BaseInv, BaseInv', EngineOk, EngineOk', Synced, [AnyStep]_vars,
                      op # Idle \/ op' # Idle
               PROVE  Total("base")' % QtyMod = Total("base") % QtyMod
    OBVIOUS
  <2>1. ~QuietStep
    BY DEF QuietStep, MakeUser, AddBalance, CanCall
  <2>2. Bases(users') % QtyMod = Bases(users) % QtyMod
    <3>1. KeepingStep \/ Settle
      BY <2>1, StepKinds DEF KeepingStep
    <3>2. QED BY <3>1, CallsKeepBases
  <2>3. Total("base") = Bases(users)
    BY TotalBase
  <2>4. Total("base")' = Bases(users)'
    <3>1. (Total("base") = Bases(users))'
      BY TotalBase, PTL
    <3>2. QED BY <3>1
  <2>5. Bases(users)' = Bases(users')
    BY DEF Bases, BaseOf
  <2>6. QED BY <2>2, <2>3, <2>4, <2>5
<1>2. QED BY <1>1, SpecIsAny, OpTypedAlways, EngineAlwaysOk, BaseAlways, SyncAlways, PTL DEF AnySpec, TradesConserveBase

LEMMA BasesAdd ==
  ASSUME NEW n \in Nat, NEW us \in [0..n-1 -> User], NEW ws \in [0..n -> User],
         \A u \in 0..n-1 : ws[u].base = us[u].base
  PROVE  Bases(ws) = Bases(us) + ws[n].base
<1>1. PICK f, g, C, D : f = BaseOf(us) /\ g = BaseOf(ws) /\ C = 0..n /\ D = 0..n-1
  OBVIOUS
<1>2. IsFiniteSet(D) /\ IsFiniteSet(C) /\ C = D \cup {n} /\ n \notin D
  <2>1. C = D \cup {n} /\ n \notin D
    BY <1>1
  <2>2. 0 \in Int /\ n \in Int /\ n - 1 \in Int
    OBVIOUS
  <2>3. IsFiniteSet(0..n) /\ IsFiniteSet(0..n-1)
    BY ONLY <2>2, FS_Interval
  <2>4. QED BY <1>1, <2>1, <2>3
<1>3. /\ \A u \in D : f[u] = us[u].base /\ f[u] \in Int
      /\ Bases(us) = SumFunctionOnSet(f, D)
  <2>1. IsFiniteSet(D) /\ us \in [D -> User]
    BY <1>1, <1>2
  <2>2. /\ \A u \in D : /\ BaseOf(us)[u] = us[u].base /\ BaseOf(us)[u] \in 0..QtyMod-1
                         /\ BaseOf(us)[u] \in Int
        /\ Bases(us) = SumFunctionOnSet(BaseOf(us), D) /\ Bases(us) \in Nat
    BY ONLY <2>1, BasesTypes
  <2>3. QED BY <1>1, <2>2
<1>4. /\ \A u \in C : g[u] = ws[u].base /\ g[u] \in Int
      /\ Bases(ws) = SumFunctionOnSet(g, C)
  <2>1. IsFiniteSet(C) /\ ws \in [C -> User]
    BY <1>1, <1>2
  <2>2. /\ \A u \in C : /\ BaseOf(ws)[u] = ws[u].base /\ BaseOf(ws)[u] \in 0..QtyMod-1
                         /\ BaseOf(ws)[u] \in Int
        /\ Bases(ws) = SumFunctionOnSet(BaseOf(ws), C) /\ Bases(ws) \in Nat
    BY ONLY <2>1, BasesTypes
  <2>3. QED BY <1>1, <2>2
<1>5. SumFunctionOnSet(f, D) = SumFunctionOnSet(g, D)
  <2>1. \A u \in D : f[u] = g[u]
    BY <1>1, <1>2, <1>3, <1>4
  <2>2. QED BY <1>2, <2>1, SumSame
<1>6. SumFunctionOnSet(g, D \cup {n}) = SumFunctionOnSet(g, D) + g[n]
  <2>1. (\A u \in D : g[u] \in Int) /\ g[n] \in Int
    BY <1>2, <1>4
  <2>2. QED BY <1>2, <2>1, SumAdd
<1>7. n \in C
  BY <1>1
<1>8. QED BY <1>2, <1>3, <1>4, <1>5, <1>6, <1>7

\* A new user brings no base, and a deposit adds what it says, modulo the width.
LEMMA MakeUserBases ==
  ASSUME BaseInv, BaseInv', NEW name, MakeUser(name)
  PROVE  Bases(users') = Bases(users)
<1>1. CASE users' = users
  BY <1>1 DEF Bases, BaseOf
<1>2. CASE users' # users
  <2>1. PICK n, D, ws : n = Cardinality(UserIds) /\ D = UserIds /\ ws = users'
    OBVIOUS
  <2>2. ws = [u \in 0..n |-> IF u = n THEN NewUser(name) ELSE users[u]]
    BY <1>2, <2>1 DEF MakeUser
  <2>3. /\ IsFiniteSet(D) /\ users \in [D -> User] /\ n \in Nat /\ D = 0..n-1
        /\ ws \in [0..n -> User]
    <3>1. UserIds' = 0..n
      BY <2>1, <2>2 DEF UserIds
    <3>2. QED BY <2>1, <3>1, FS_CardinalityType DEF BaseInv, Tables, UsersTyped
  <2>4. ws[n].base = 0 /\ \A u \in 0..n-1 : ws[u].base = users[u].base
    BY <2>2, <2>3 DEF NewUser
  <2>5. Bases(ws) = Bases(users) + ws[n].base
    <3>1. /\ n \in Nat /\ users \in [0..n-1 -> User] /\ ws \in [0..n -> User]
          /\ \A u \in 0..n-1 : ws[u].base = users[u].base
      BY <2>3, <2>4
    <3>2. QED BY ONLY <3>1, BasesAdd
  <2>6. Bases(users) \in Nat
    BY <2>3, BasesTypes
  <2>7. QED BY <2>1, <2>4, <2>5, <2>6
<1>3. QED BY <1>1, <1>2

LEMMA AddBalanceBases ==
  ASSUME BaseInv, NEW user \in UserIds, NEW quote \in Int, NEW base \in 0..QtyMod-1,
         AddBalance(user, quote, base)
  PROVE  Bases(users') % QtyMod = (Bases(users) + base) % QtyMod
<1>1. PICK D, ws : D = UserIds /\ ws = users'
  OBVIOUS
<1>2. /\ IsFiniteSet(D) /\ users \in [D -> User] /\ user \in D /\ ws \in [D -> User]
  <2>1. UserIds' = UserIds /\ UsersTyped'
    BY AddBalanceTyped DEF BaseInv, Tables
  <2>2. QED BY <1>1, <2>1 DEF BaseInv, Tables, UsersTyped
<1>3. users[user] \in User
  BY <1>2
<1>4. PICK b \in 0..QtyMod-1 : b = users[user].base
  BY <1>3, QtyModFacts DEF User
<1>5. PICK q, x : q = users[user].quote + quote /\ x = (b + base) % QtyMod
  OBVIOUS
<1>6. PICK w : w = [users[user] EXCEPT !.quote = q, !.base = x]
  OBVIOUS
<1>7. ws = [users EXCEPT ![user] = w]
  BY <1>1, <1>2, <1>4, <1>5, <1>6 DEF AddBalance
<1>8. ws[user].base = x
  BY <1>2, <1>3, <1>6, <1>7 DEF User
<1>9. Bases(ws) = (Bases(users) - users[user].base) + ws[user].base
  <2>1. /\ IsFiniteSet(D) /\ users \in [D -> User] /\ user \in D /\ ws \in [D -> User]
        /\ \A u \in D : u # user => ws[u] = users[u]
    BY <1>2, <1>7
  <2>2. QED BY ONLY <2>1, BasesChange
<1>10. PICK s \in Nat : s = Bases(users)
  BY <1>2, BasesTypes
<1>11. Bases(ws) = (s - b) + ((b + base) % QtyMod)
  BY <1>4, <1>5, <1>8, <1>9, <1>10
<1>12. ((s - b) + ((b + base) % QtyMod)) % QtyMod = (s + base) % QtyMod
  <2>1. s \in Int /\ b \in Int /\ base \in Int
    OBVIOUS
  <2>2. QED BY <2>1, SumWraps
<1>13. QED BY <1>1, <1>10, <1>11, <1>12

------------------------------------------------------------------------------
\* The base that is ever deposited fits the type of a quantity.
BaseFits == BaseCap \in Int /\ BaseCap < QtyMod /\ Bases(SeedUsers) < QtyMod

\* Then no balance wraps, and every user owns the base that its orders sell.
Backed ==
  /\ Bases(users) < QtyMod
  /\ \A u \in UserIds : BaseSum(orders, u) <= users[u].base

LEMMA BasesWithin ==
  ASSUME NEW D, IsFiniteSet(D), NEW us \in [D -> User], NEW v \in D
  PROVE  us[v].base <= Bases(us)
<1>1. PICK f : f = BaseOf(us)
  OBVIOUS
<1>2. /\ \A u \in D : f[u] \in Int /\ f[u] \in 0..QtyMod-1
      /\ f[v] = us[v].base /\ Bases(us) = SumFunctionOnSet(f, D)
  BY <1>1, BasesTypes
<1>3. PICK A : A = D \ {v}
  OBVIOUS
<1>4. IsFiniteSet(A) /\ A \subseteq D
  BY <1>3, FS_RemoveElement
<1>5. SumFunctionOnSet(f, D) = f[v] + SumFunctionOnSet(f, A)
  BY <1>2, <1>3, SumTake
<1>6. SumFunctionOnSet(f, A) \in Nat
  <2>1. QtyMod - 1 \in Nat /\ Cardinality(A) \in Nat
    BY <1>4, QtyModFacts, FS_CardinalityType
  <2>2. \A u \in A : f[u] \in 0..QtyMod-1
    BY <1>2, <1>4
  <2>3. SumFunctionOnSet(f, A) \in 0..Cardinality(A) * (QtyMod - 1)
    BY <1>4, <2>1, <2>2, SumBounds
  <2>4. QED BY <2>1, <2>3
<1>7. QED BY <1>2, <1>5, <1>6

\* What the other facts say of one user, under Backed.
LEMMA BackedFacts ==
  ASSUME BaseInv, Backed, NEW u \in UserIds
  PROVE  /\ users[u] \in User /\ users[u].base \in 0..QtyMod-1 /\ BaseSum(orders, u) \in Nat
         /\ BaseSum(orders, u) <= users[u].base /\ users[u].base <= Bases(users)
         /\ Bases(users) \in Nat /\ Bases(users) < QtyMod
         /\ BaseSum(orders, u) % QtyMod = BaseSum(orders, u)
<1>1. PICK D : D = UserIds
  OBVIOUS
<1>2. IsFiniteSet(D) /\ users \in [D -> User] /\ u \in D /\ orders \in Seq(Order)
  BY <1>1 DEF BaseInv, Tables, UsersTyped, OrdersTyped
<1>3. users[u] \in User /\ users[u].base \in 0..QtyMod-1
  <2>1. users[u] \in User
    BY <1>2
  <2>2. QED BY <2>1, QtyModFacts DEF User
<1>4. BaseSum(orders, u) \in Nat
  BY <1>2, SumTypes
<1>5. users[u].base <= Bases(users) /\ Bases(users) \in Nat
  BY <1>2, BasesWithin, BasesTypes
<1>6. BaseSum(orders, u) <= users[u].base /\ Bases(users) < QtyMod
  BY DEF Backed
<1>7. BaseSum(orders, u) % QtyMod = BaseSum(orders, u)
  <2>1. BaseSum(orders, u) \in 0..QtyMod-1
    BY <1>3, <1>4, <1>6, QtyModFacts
  <2>2. QED BY <2>1, QtyModFacts, ModSmall
<1>8. QED BY <1>3, <1>4, <1>5, <1>6, <1>7

\* The funds check lets nobody sell base that its orders sell already.
LEMMA SubmitBacked ==
  ASSUME BaseInv, BaseInv', Funds, Backed, SubmitStep
  PROVE  Backed'
<1>1. PICK user \in UserIds, side \in Sides, price \in Int, qty \in 0..QtyMod-1, discard \in BOOLEAN :
        op = Idle /\ Submit(user, side, price, qty, discard)
  BY DEF SubmitStep
<1>2. PICK o : o = NewOrder(user, side, price, qty)
  OBVIOUS
<1>3. o \in Order /\ orders' = Append(orders, o) /\ orders \in Seq(Order)
  BY <1>1, <1>2, SubmitChanges DEF BaseInv, Tables, OrdersTyped
<1>4. BalancesKept /\ Bases(users') = Bases(users)
  BY SubmitKeeps, KeptBases
<1>5. ASSUME NEW u \in UserIds PROVE BaseSum(orders', u) <= users[u].base
  <2>1. BaseSum(orders', u) = BaseSum(orders, u) + BasePart(o, u)
    BY <1>3, SumsAppend
  <2>2. /\ users[u].base \in 0..QtyMod-1 /\ BaseSum(orders, u) \in Nat
        /\ BaseSum(orders, u) <= users[u].base
        /\ BaseSum(orders, u) % QtyMod = BaseSum(orders, u)
    BY BackedFacts
  <2>3. CASE u # user \/ IsBid(side)
    <3>1. BasePart(o, u) = 0
      BY <1>2, <2>3 DEF BasePart, NewOrder, LockBase
    <3>2. QED BY <2>1, <2>2, <3>1
  <2>4. CASE u = user /\ ~IsBid(side)
    <3>1. BasePart(o, u) = qty
      BY <1>2, <2>4 DEF BasePart, NewOrder, LockBase
    <3>2. FreeBase(users[u]) >= qty
      BY <1>1, <2>4 DEF Submit, Funded
    <3>3. users[u].lockedBase = BaseSum(orders, u)
      BY <2>2 DEF Funds, FundsOf, UserIds
    <3>4. PICK b \in 0..QtyMod-1, s \in Nat : b = users[u].base /\ s = BaseSum(orders, u)
      BY <2>2
    <3>5. (b - s) % QtyMod = b - s
      <4>1. s <= b /\ QtyMod \in Nat \ {0}
        BY <2>2, <3>4, QtyModFacts
      <4>2. b - s \in 0..QtyMod-1
        BY ONLY <4>1
      <4>3. QED BY ONLY <4>1, <4>2, ModSmall
    <3>6. FreeBase(users[u]) = b - s
      BY <3>3, <3>4, <3>5 DEF FreeBase
    <3>7. QED BY <2>1, <3>1, <3>2, <3>4, <3>6
  <2>5. QED BY <2>3, <2>4
<1>6. Bases(users') < QtyMod /\ UserIds' = UserIds
      /\ \A u \in UserIds : BaseSum(orders', u) <= users'[u].base
  BY <1>4, <1>5 DEF Backed, BalancesKept
<1>7. QED BY <1>6 DEF Backed, Bases, BaseOf, BaseSum, BaseParts, BasePart

LEMMA ReleasesBacked ==
  ASSUME BaseInv, BaseInv', Backed, NEW id \in 1..Len(orders), Releases(id)
  PROVE  Backed'
<1>1. PICK o, f : o = orders[id] /\ f = Forgotten(o)
  OBVIOUS
<1>2. orders \in Seq(Order) /\ o \in Order /\ orders' = [orders EXCEPT ![id] = f]
  BY <1>1 DEF BaseInv, Tables, OrdersTyped, Releases
<1>3. f \in Order /\ f.lockedBase = 0 /\ f.user = o.user
  BY <1>1, <1>2, ForgottenTyped, ForgottenLocks
<1>4. BalancesKept /\ Bases(users') = Bases(users)
  BY ReleasesKeep, KeptBases
<1>5. ASSUME NEW u \in UserIds PROVE BaseSum(orders', u) <= users[u].base
  <2>1. BaseSum(orders', u) = (BaseSum(orders, u) - BasePart(o, u)) + BasePart(f, u)
    <3>1. PICK x : x = [orders EXCEPT ![id] = f]
      OBVIOUS
    <3>2. /\ orders \in Seq(Order) /\ id \in 1..Len(orders) /\ x \in Seq(Order)
          /\ Len(x) = Len(orders) /\ \A j \in 1..Len(orders) : j # id => x[j] = orders[j]
      BY <1>2, <1>3, <3>1
    <3>3. BaseSum(x, u) = (BaseSum(orders, u) - BasePart(orders[id], u)) + BasePart(x[id], u)
      BY ONLY <3>2, SumsChange
    <3>4. x[id] = f
      BY <1>2, <3>1
    <3>5. QED BY <1>1, <1>2, <3>1, <3>3, <3>4
  <2>2. BasePart(f, u) = 0
    BY <1>3 DEF BasePart
  <2>3. BasePart(o, u) \in 0..QtyMod-1
    BY <1>2, PartTypes
  <2>4. /\ users[u].base \in 0..QtyMod-1 /\ BaseSum(orders, u) \in Nat
        /\ BaseSum(orders, u) <= users[u].base
    BY BackedFacts
  <2>5. QED BY <2>1, <2>2, <2>3, <2>4
<1>6. Bases(users') < QtyMod /\ UserIds' = UserIds
      /\ \A u \in UserIds : BaseSum(orders', u) <= users'[u].base
  BY <1>4, <1>5 DEF Backed, BalancesKept
<1>7. QED BY <1>6 DEF Backed, Bases, BaseOf, BaseSum, BaseParts, BasePart

\* What a trade moves to user w, and what it frees of w's lock, as one party.
Gains(o, qty, w) == IF w = o.user THEN BaseMoved(o.side, qty) ELSE 0
Frees(o, qty, w) == IF w = o.user THEN LockBase(o.side, qty) ELSE 0

\* A seller owns what it sells, and a buyer has room for it.
LEMMA ExchangeExact ==
  ASSUME BaseInv, Funds, Backed,
         NEW m \in 1..Len(orders), NEW t \in 1..Len(orders), NEW price \in Int,
         NEW qty \in Nat \ {0}, Tradable(m, t, price, qty), Exchange(m, t, price, qty)
  PROVE  /\ \A w \in UserIds : users'[w].base =
              (users[w].base + Gains(orders[m], qty, w)) + Gains(orders[t], qty, w)
         /\ Bases(users') = Bases(users)
<1>1. PICK x, y, u, v : /\ x = orders[m] /\ y = orders[t] /\ u = x.user /\ v = y.user
  OBVIOUS
<1>2. PICK a, paid : a = AfterTrade(users[u], x, price, qty) /\ paid = [users EXCEPT ![u] = a]
  OBVIOUS
<1>3. PICK z : z = AfterTrade(paid[v], y, price, qty) /\ users' = [paid EXCEPT ![v] = z]
  BY <1>1, <1>2 DEF Exchange
<1>4. PICK D : D = UserIds
  OBVIOUS
<1>5. /\ IsFiniteSet(D) /\ users \in [D -> User] /\ u \in D /\ v \in D /\ orders \in Seq(Order)
      /\ x \in Order /\ y \in Order /\ x.side = E!Opposite(y.side) /\ qty \in Nat /\ qty \in Int
      /\ x.remaining >= qty /\ y.remaining >= qty
  BY <1>1, <1>4 DEF BaseInv, Tables, OrdersTyped, UsersTyped, Tradable
<1>6. PICK d \in Int : d = BaseMoved(x.side, qty) /\ BaseMoved(y.side, qty) = -d
  BY <1>5, OppositeMoves
<1>7. (d = qty /\ ~IsBid(y.side)) \/ (d = -qty /\ ~IsBid(x.side))
  BY <1>5, <1>6, OppositeMoves DEF BaseMoved
<1>8. PICK b \in 0..QtyMod-1, c \in 0..QtyMod-1 : b = users[u].base /\ c = users[v].base
  BY <1>4, <1>5, BackedFacts
<1>9. /\ ~IsBid(x.side) => qty <= b
      /\ ~IsBid(y.side) => qty <= c
  <2>1. x.lockedBase <= BaseSum(orders, u) /\ y.lockedBase <= BaseSum(orders, v)
    BY <1>1, <1>5, PartWithin
  <2>2. /\ ~IsBid(x.side) => x.lockedBase = x.remaining
        /\ ~IsBid(y.side) => y.lockedBase = y.remaining
    BY <1>1 DEF Funds, FundsOf, OrderLocks, LockBase
  <2>3. /\ BaseSum(orders, u) <= b /\ BaseSum(orders, u) \in Nat
        /\ BaseSum(orders, v) <= c /\ BaseSum(orders, v) \in Nat
    BY <1>4, <1>5, <1>8, BackedFacts
  <2>4. x.remaining \in Int /\ y.remaining \in Int
    BY <1>5, QtyModFacts DEF Order
  <2>5. QED BY <1>5, <2>1, <2>2, <2>3, <2>4
<1>10. a \in User /\ a.base = (b + d) % QtyMod
  <2>1. users[u] \in User
    BY <1>5
  <2>2. x \in Order /\ price \in Int /\ qty \in Int
    BY <1>5
  <2>3. a \in User /\ a.base = (users[u].base + BaseMoved(x.side, qty)) % QtyMod
    BY ONLY <1>2, <2>1, <2>2, AfterTradeFields
  <2>4. QED BY ONLY <1>6, <1>8, <2>3
<1>11. paid \in [D -> User] /\ paid[u] = a /\ \A w \in D : w # u => paid[w] = users[w]
  BY <1>2, <1>5, <1>10
<1>12. z \in User /\ z.base = (paid[v].base + (-d)) % QtyMod
  <2>1. paid[v] \in User
    BY <1>5, <1>11
  <2>2. y \in Order /\ price \in Int /\ qty \in Int
    BY <1>5
  <2>3. z \in User /\ z.base = (paid[v].base + BaseMoved(y.side, qty)) % QtyMod
    BY ONLY <1>3, <2>1, <2>2, AfterTradeFields
  <2>4. QED BY ONLY <1>6, <2>3
<1>13. users'[v] = z /\ \A w \in D : w # v => users'[w] = paid[w]
  BY <1>3, <1>5, <1>11
<1>14. CASE u # v
  <2>1. b + c <= Bases(users) /\ Bases(users) \in Nat /\ Bases(users) < QtyMod
    BY <1>4, <1>5, <1>8, <1>14, BasesTwo, BackedFacts
  <2>2. b + d \in 0..QtyMod-1 /\ c + (-d) \in 0..QtyMod-1
    <3>1. QtyMod \in Nat \ {0} /\ qty \in Nat
      BY <1>5, QtyModFacts
    <3>2. CASE d = qty /\ ~IsBid(y.side)
      BY <1>9, <2>1, <3>1, <3>2
    <3>3. CASE d = -qty /\ ~IsBid(x.side)
      BY <1>9, <2>1, <3>1, <3>3
    <3>4. QED BY <1>7, <3>2, <3>3
  <2>3. (b + d) % QtyMod = b + d /\ (c + (-d)) % QtyMod = c + (-d)
    BY <2>2, QtyModFacts, ModSmall
  <2>4. paid[v].base = c
    BY <1>5, <1>8, <1>11, <1>14
  <2>5. z.base = c + (-d) /\ a.base = b + d
    BY <1>10, <1>12, <2>3, <2>4
  <2>6. ASSUME NEW w \in D
        PROVE  users'[w].base = (users[w].base + Gains(x, qty, w)) + Gains(y, qty, w)
    <3>1. users[w].base \in Int
      BY <1>4, BackedFacts
    <3>2. users'[u].base = b + d /\ users'[v].base = c + (-d)
      BY <1>5, <1>11, <1>13, <1>14, <2>5
    <3>3. /\ Gains(x, qty, w) = IF w = u THEN d ELSE 0
          /\ Gains(y, qty, w) = IF w = v THEN -d ELSE 0
      BY <1>1, <1>6 DEF Gains
    <3>4. w # u /\ w # v => users'[w] = users[w]
      BY <1>11, <1>13
    <3>5. PICK g, h : g = Gains(x, qty, w) /\ h = Gains(y, qty, w)
      OBVIOUS
    <3>6. CASE w = u
      <4>1. users[w].base = b /\ g = d /\ h = 0 /\ users'[w].base = b + d
        BY ONLY <1>8, <1>14, <3>2, <3>3, <3>5, <3>6
      <4>2. users'[w].base = (users[w].base + g) + h
        BY ONLY <1>6, <1>8, <4>1
      <4>3. QED BY ONLY <3>5, <4>2
    <3>7. CASE w = v
      <4>1. users[w].base = c /\ g = 0 /\ h = -d /\ users'[w].base = c + (-d)
        BY ONLY <1>8, <1>14, <3>2, <3>3, <3>5, <3>7
      <4>2. users'[w].base = (users[w].base + g) + h
        BY ONLY <1>6, <1>8, <4>1
      <4>3. QED BY ONLY <3>5, <4>2
    <3>8. CASE w # u /\ w # v
      <4>1. g = 0 /\ h = 0 /\ users'[w].base = users[w].base
        BY ONLY <3>3, <3>4, <3>5, <3>8
      <4>2. users'[w].base = (users[w].base + g) + h
        BY ONLY <3>1, <4>1
      <4>3. QED BY ONLY <3>5, <4>2
    <3>9. QED BY <3>6, <3>7, <3>8
  <2>7. Bases(users') = Bases(users)
    <3>1. Bases(paid) = (Bases(users) - b) + a.base
      <4>1. /\ IsFiniteSet(D) /\ users \in [D -> User] /\ u \in D /\ paid \in [D -> User]
            /\ \A w \in D : w # u => paid[w] = users[w]
        BY <1>5, <1>11
      <4>2. Bases(paid) = (Bases(users) - users[u].base) + paid[u].base
        BY ONLY <4>1, BasesChange
      <4>3. QED BY <1>8, <1>11, <4>2
    <3>2. Bases(users') = (Bases(paid) - c) + z.base
      <4>1. PICK last : last = [paid EXCEPT ![v] = z] /\ users' = last
        BY <1>3
      <4>2. /\ IsFiniteSet(D) /\ paid \in [D -> User] /\ v \in D /\ last \in [D -> User]
            /\ \A w \in D : w # v => last[w] = paid[w]
        BY <1>5, <1>11, <1>12, <4>1
      <4>3. Bases(last) = (Bases(paid) - paid[v].base) + last[v].base
        BY ONLY <4>2, BasesChange
      <4>4. QED BY <1>13, <2>4, <4>1, <4>3
    <3>3. QED BY <2>1, <2>5, <3>1, <3>2
  <2>8. QED BY <1>1, <1>4, <2>6, <2>7
<1>15. CASE u = v
  <2>1. z.base = b
    <3>1. z.base = (((b + d) % QtyMod) + (-d)) % QtyMod
      BY <1>10, <1>11, <1>12, <1>15
    <3>2. (((b + d) % QtyMod) + (-d)) % QtyMod = ((b + d) + (-d)) % QtyMod
      <4>1. b + d \in Int /\ -d \in Int
        OBVIOUS
      <4>2. QED BY <4>1, QtyModFacts, ModAdd
    <3>3. (b + d) + (-d) = b
      OBVIOUS
    <3>4. b % QtyMod = b
      BY QtyModFacts, ModSmall
    <3>5. QED BY <3>1, <3>2, <3>3, <3>4
  <2>2. ASSUME NEW w \in D
        PROVE  users'[w].base = (users[w].base + Gains(x, qty, w)) + Gains(y, qty, w)
    <3>1. users[w].base \in Int
      BY <1>4, BackedFacts
    <3>2. CASE w = u
      <4>1. users'[w].base = b /\ users[w].base = b
        BY <1>8, <1>13, <1>15, <2>1, <3>2
      <4>2. Gains(x, qty, w) = d /\ Gains(y, qty, w) = -d
        BY <1>1, <1>6, <1>15, <3>2 DEF Gains
      <4>3. QED BY <4>1, <4>2
    <3>3. CASE w # u
      BY <1>1, <1>11, <1>13, <1>15, <3>1, <3>3 DEF Gains
    <3>4. QED BY <3>2, <3>3
  <2>3. Bases(users') = Bases(users)
    <3>1. Bases(paid) = (Bases(users) - b) + a.base
      <4>1. /\ IsFiniteSet(D) /\ users \in [D -> User] /\ u \in D /\ paid \in [D -> User]
            /\ \A w \in D : w # u => paid[w] = users[w]
        BY <1>5, <1>11
      <4>2. Bases(paid) = (Bases(users) - users[u].base) + paid[u].base
        BY ONLY <4>1, BasesChange
      <4>3. QED BY <1>8, <1>11, <4>2
    <3>2. Bases(users') = (Bases(paid) - paid[v].base) + z.base
      <4>1. PICK last : last = [paid EXCEPT ![v] = z] /\ users' = last
        BY <1>3
      <4>2. /\ IsFiniteSet(D) /\ paid \in [D -> User] /\ v \in D /\ last \in [D -> User]
            /\ \A w \in D : w # v => last[w] = paid[w]
        BY <1>5, <1>11, <1>12, <4>1
      <4>3. Bases(last) = (Bases(paid) - paid[v].base) + last[v].base
        BY ONLY <4>2, BasesChange
      <4>4. QED BY <1>13, <4>1, <4>3
    <3>3. paid[v].base = a.base /\ a.base \in Int
      BY <1>10, <1>11, <1>15, QtyModFacts DEF User
    <3>4. Bases(users) \in Nat
      BY <1>5, BasesTypes
    <3>5. QED BY <2>1, <3>1, <3>2, <3>3, <3>4
  <2>4. QED BY <1>1, <1>4, <2>2, <2>3
<1>16. QED BY <1>14, <1>15

LEMMA ExchangeSums ==
  ASSUME BaseInv, Funds,
         NEW m \in 1..Len(orders), NEW t \in 1..Len(orders), NEW price \in Int,
         NEW qty \in Nat \ {0}, Tradable(m, t, price, qty), Exchange(m, t, price, qty)
  PROVE  \A w \in UserIds :
           BaseSum(orders', w) =
             (BaseSum(orders, w) - Frees(orders[m], qty, w)) - Frees(orders[t], qty, w)
<1> TAKE w \in UserIds
<1>1. PICK x, y, f, g : /\ x = orders[m] /\ y = orders[t]
                        /\ f = Filled(x, price, qty) /\ g = Filled(y, price, qty)
  OBVIOUS
<1>2. PICK half : half = [orders EXCEPT ![m] = f]
  OBVIOUS
<1>3. /\ orders \in Seq(Order) /\ x \in Order /\ y \in Order /\ m # t /\ qty \in Nat /\ qty \in Int
      /\ x.remaining >= qty /\ y.remaining >= qty /\ OrderLocks(x) /\ OrderLocks(y)
  BY <1>1 DEF BaseInv, Tables, OrdersTyped, Tradable, Funds, FundsOf
<1>4. /\ f \in Order /\ f.user = x.user /\ f.lockedBase = x.lockedBase - LockBase(x.side, qty)
      /\ g \in Order /\ g.user = y.user /\ g.lockedBase = y.lockedBase - LockBase(y.side, qty)
  <2>1. f \in Order /\ f.user = x.user /\ g \in Order /\ g.user = y.user
    BY <1>1, <1>3, FilledTyped
  <2>2. /\ f.lockedBase = x.lockedBase - LockBase(x.side, qty)
        /\ g.lockedBase = y.lockedBase - LockBase(y.side, qty)
    BY <1>1, <1>3, FilledLocks
  <2>3. QED BY <2>1, <2>2
<1>5. half \in Seq(Order) /\ t \in 1..Len(half) /\ half[t] = y
  BY <1>1, <1>2, <1>3, <1>4
<1>6. PICK last : last = [half EXCEPT ![t] = g] /\ orders' = last
  BY <1>1, <1>2 DEF Exchange
<1>7. BaseSum(half, w) = (BaseSum(orders, w) - BasePart(x, w)) + BasePart(f, w)
  <2>1. /\ orders \in Seq(Order) /\ m \in 1..Len(orders) /\ half \in Seq(Order)
        /\ Len(half) = Len(orders) /\ \A j \in 1..Len(orders) : j # m => half[j] = orders[j]
    BY <1>2, <1>3, <1>5
  <2>2. BaseSum(half, w) = (BaseSum(orders, w) - BasePart(orders[m], w)) + BasePart(half[m], w)
    BY ONLY <2>1, SumsChange
  <2>3. half[m] = f
    BY <1>2, <1>3
  <2>4. QED BY <1>1, <2>2, <2>3
<1>8. BaseSum(last, w) = (BaseSum(half, w) - BasePart(y, w)) + BasePart(g, w)
  <2>1. /\ half \in Seq(Order) /\ t \in 1..Len(half) /\ last \in Seq(Order)
        /\ Len(last) = Len(half) /\ \A j \in 1..Len(half) : j # t => last[j] = half[j]
    BY <1>4, <1>5, <1>6
  <2>2. BaseSum(last, w) = (BaseSum(half, w) - BasePart(half[t], w)) + BasePart(last[t], w)
    BY ONLY <2>1, SumsChange
  <2>3. last[t] = g
    BY <1>5, <1>6
  <2>4. QED BY <1>5, <2>2, <2>3
<1>9. /\ BasePart(f, w) = BasePart(x, w) - Frees(x, qty, w)
      /\ BasePart(g, w) = BasePart(y, w) - Frees(y, qty, w)
  BY <1>4 DEF BasePart, Frees
<1>10. /\ BasePart(x, w) \in Int /\ BasePart(y, w) \in Int /\ BaseSum(orders, w) \in Int
       /\ BaseSum(half, w) \in Int
  BY <1>3, <1>5, PartTypes, SumTypes
<1>11. Frees(x, qty, w) \in Int /\ Frees(y, qty, w) \in Int
  BY <1>3 DEF Frees, LockBase
<1>12. BaseSum(last, w) = (BaseSum(orders, w) - Frees(x, qty, w)) - Frees(y, qty, w)
  BY ONLY <1>7, <1>8, <1>9, <1>10, <1>11
<1>13. QED BY <1>1, <1>6, <1>12

LEMMA CoverKept ==
  ASSUME NEW b \in Int, NEW s \in Int, s <= b, NEW g \in Int, NEW h \in Int,
         NEW f \in Int, NEW k \in Int, g + f >= 0, h + k >= 0
  PROVE  (s - f) - k <= (b + g) + h
OBVIOUS

LEMMA ExchangeBacked ==
  ASSUME BaseInv, BaseInv', Funds, Backed,
         NEW m \in 1..Len(orders), NEW t \in 1..Len(orders), NEW price \in Int,
         NEW qty \in Nat \ {0}, Tradable(m, t, price, qty), Exchange(m, t, price, qty),
         UserIds' = UserIds
  PROVE  Backed'
<1>1. PICK x, y : x = orders[m] /\ y = orders[t]
  OBVIOUS
<1>2. ASSUME NEW w \in UserIds PROVE BaseSum(orders', w) <= users'[w].base
  <2>1. users'[w].base = (users[w].base + Gains(x, qty, w)) + Gains(y, qty, w)
    <3>1. users'[w].base =
            (users[w].base + Gains(orders[m], qty, w)) + Gains(orders[t], qty, w)
      BY ExchangeExact
    <3>2. QED BY <1>1, <3>1
  <2>2. BaseSum(orders', w) = (BaseSum(orders, w) - Frees(x, qty, w)) - Frees(y, qty, w)
    <3>1. BaseSum(orders', w) =
            (BaseSum(orders, w) - Frees(orders[m], qty, w)) - Frees(orders[t], qty, w)
      BY ExchangeSums
    <3>2. QED BY <1>1, <3>1
  <2>3. /\ users[w].base \in 0..QtyMod-1 /\ BaseSum(orders, w) \in Nat
        /\ BaseSum(orders, w) <= users[w].base
    BY BackedFacts
  <2>4. /\ Gains(x, qty, w) \in Int /\ Frees(x, qty, w) \in Int
        /\ Gains(x, qty, w) + Frees(x, qty, w) >= 0
        /\ Gains(y, qty, w) \in Int /\ Frees(y, qty, w) \in Int
        /\ Gains(y, qty, w) + Frees(y, qty, w) >= 0
    BY DEF Gains, Frees, BaseMoved, LockBase
  <2>5. users[w].base \in Int /\ BaseSum(orders, w) \in Int
    BY <2>3, QtyModFacts
  <2>6. (BaseSum(orders, w) - Frees(x, qty, w)) - Frees(y, qty, w)
          <= (users[w].base + Gains(x, qty, w)) + Gains(y, qty, w)
    BY ONLY <2>3, <2>4, <2>5, CoverKept
  <2>7. QED BY <2>1, <2>2, <2>6
<1>3. Bases(users') < QtyMod
  BY ExchangeExact DEF Backed
<1>4. QED BY <1>2, <1>3 DEF Backed, Bases, BaseOf, BaseSum, BaseParts, BasePart

LEMMA MakeUserBacked ==
  ASSUME BaseInv, BaseInv', Backed, NEW name \in AnyName, MakeUser(name)
  PROVE  Backed'
<1>1. CASE users' = users
  <2>1. orders' = orders
    BY DEF MakeUser
  <2>2. QED BY <1>1, <2>1 DEF Backed, UserIds, Bases, BaseOf, BaseSum, BaseParts, BasePart
<1>2. CASE users' # users
  <2>1. PICK n, D, ws : n = Cardinality(UserIds) /\ D = UserIds /\ ws = users'
    OBVIOUS
  <2>2. ws = [u \in 0..n |-> IF u = n THEN NewUser(name) ELSE users[u]] /\ orders' = orders
    BY <1>2, <2>1 DEF MakeUser
  <2>3. /\ IsFiniteSet(D) /\ users \in [D -> User] /\ n \in Nat /\ D = 0..n-1
        /\ UserIds' = 0..n /\ ws \in [0..n -> User] /\ orders \in Seq(Order)
        /\ \A id \in 1..Len(orders) : orders[id].user \in D
    <3>1. UserIds' = 0..n
      BY <2>1, <2>2 DEF UserIds
    <3>2. QED BY <2>1, <3>1, FS_CardinalityType DEF BaseInv, Tables, UsersTyped, OrdersTyped
  <2>4. 0..n = D \cup {n} /\ n \notin D
    BY <2>3
  <2>5. ws[n].base = 0 /\ \A u \in D : ws[u].base = users[u].base
    BY <2>2, <2>3, <2>4 DEF NewUser
  <2>6. Bases(ws) = Bases(users)
    BY <2>1, MakeUserBases
  <2>7. ASSUME NEW u \in 0..n PROVE BaseSum(orders, u) <= ws[u].base
    <3>1. CASE u = n
      <4>1. BaseSum(orders, u) = 0
        BY <2>3, <2>4, <3>1, SumsNobody
      <4>2. QED BY <2>5, <3>1, <4>1
    <3>2. CASE u # n
      <4>1. u \in D /\ u \in UserIds
        BY <2>1, <2>4, <3>2
      <4>2. QED BY <2>5, <4>1 DEF Backed
    <3>3. QED BY <3>1, <3>2
  <2>8. Bases(users') < QtyMod
    BY <2>1, <2>6 DEF Backed
  <2>9. \A u \in UserIds' : BaseSum(orders', u) <= users'[u].base
    BY <2>1, <2>2, <2>3, <2>7
  <2>10. QED BY <2>8, <2>9 DEF Backed, Bases, BaseOf, BaseSum, BaseParts, BasePart
<1>3. QED BY <1>1, <1>2

\* A deposit keeps all base together within the type, so that no balance wraps.
LEMMA AddBalanceBacked ==
  ASSUME BaseFits, BaseInv, BaseInv', Backed,
         NEW user \in UserIds, NEW quote \in Int, NEW base \in 0..QtyMod-1,
         AddBalance(user, quote, base)
  PROVE  Backed'
<1>1. PICK D, ws : D = UserIds /\ ws = users'
  OBVIOUS
<1>2. /\ IsFiniteSet(D) /\ users \in [D -> User] /\ user \in D /\ UserIds' = D /\ ws \in [D -> User]
      /\ orders' = orders /\ base \in 0..QtyMod-1
  <2>1. UserIds' = UserIds
    BY AddBalanceTyped DEF BaseInv, Tables
  <2>2. QED BY <1>1, <2>1, OrderBookAssumption DEF BaseInv, Tables, UsersTyped, AddBalance
<1>3. PICK b \in 0..QtyMod-1 : b = users[user].base
  BY <1>1, <1>2, BackedFacts
<1>4. Bases(users) + base <= BaseCap
  <2>1. Total("base") + base <= BaseCap
    BY DEF AddBalance
  <2>2. QED BY <2>1, TotalBase
<1>5. (b + base) % QtyMod = b + base
  <2>1. b <= Bases(users) /\ Bases(users) \in Nat
    BY <1>2, <1>3, BasesWithin, BasesTypes
  <2>2. b + base \in 0..QtyMod-1
    BY <1>2, <1>4, <2>1, QtyModFacts DEF BaseFits
  <2>3. QED BY <2>2, QtyModFacts, ModSmall
<1>6. PICK q, x : q = users[user].quote + quote /\ x = (b + base) % QtyMod
  OBVIOUS
<1>7. PICK w : w = [users[user] EXCEPT !.quote = q, !.base = x]
  OBVIOUS
<1>8. ws = [users EXCEPT ![user] = w]
  BY <1>1, <1>2, <1>3, <1>6, <1>7 DEF AddBalance
<1>9. w \in User /\ w.base = b + base
  <2>1. ws[user] = w /\ ws[user] \in User
    BY <1>2, <1>8
  <2>2. users[user] \in User
    BY <1>2
  <2>3. w.base = x
    BY <1>7, <2>2 DEF User
  <2>4. QED BY <1>5, <1>6, <2>1, <2>3
<1>10. Bases(ws) = Bases(users) + base
  <2>1. Bases(ws) = (Bases(users) - users[user].base) + w.base
    <3>1. /\ IsFiniteSet(D) /\ users \in [D -> User] /\ user \in D /\ ws \in [D -> User]
          /\ \A u \in D : u # user => ws[u] = users[u]
      BY <1>2, <1>8, <1>9
    <3>2. Bases(ws) = (Bases(users) - users[user].base) + ws[user].base
      BY ONLY <3>1, BasesChange
    <3>3. QED BY <1>2, <1>8, <3>2
  <2>2. Bases(users) \in Nat
    BY <1>2, BasesTypes
  <2>3. QED BY <1>2, <1>3, <1>9, <2>1, <2>2
<1>11. Bases(ws) < QtyMod
  <2>1. Bases(users) \in Nat /\ base \in Int
    BY <1>2, BasesTypes
  <2>2. QED BY <1>4, <1>10, <2>1, QtyModFacts DEF BaseFits
<1>12. ASSUME NEW u \in D PROVE BaseSum(orders, u) <= ws[u].base
  <2>1. /\ BaseSum(orders, u) \in Nat /\ BaseSum(orders, u) <= users[u].base
        /\ users[u].base \in 0..QtyMod-1
    BY <1>1, BackedFacts
  <2>2. CASE u = user
    BY <1>2, <1>3, <1>8, <1>9, <2>1, <2>2
  <2>3. CASE u # user
    BY <1>2, <1>8, <2>1, <2>3
  <2>4. QED BY <2>2, <2>3
<1>13. /\ Bases(users') < QtyMod
       /\ \A u \in UserIds' : BaseSum(orders', u) <= users'[u].base
  BY <1>1, <1>2, <1>11, <1>12
<1>14. QED BY <1>13 DEF Backed, Bases, BaseOf, BaseSum, BaseParts, BasePart

LEMMA BackedStep ==
  ASSUME BaseFits, OpTyped, BaseInv, BaseInv', EngineOk, EngineOk', Synced, Funds, Backed, [AnyStep]_vars
  PROVE  Backed'
<1>1. CASE SubmitStep
  BY <1>1, SubmitBacked
<1>2. CASE UNCHANGED <<users, orders>>
  BY <1>2 DEF Backed, UserIds, Bases, BaseOf, BaseSum, BaseParts, BasePart
<1>3. CASE CancelStep
  <2>1. PICK id \in 1..Len(orders) : CancelActive(id)
    BY <1>3 DEF CancelStep
  <2>2. IF ok' THEN Releases(id) ELSE UNCHANGED <<users, orders>>
    BY <2>1, CancelChanges DEF BaseInv
  <2>3. QED BY <1>2, <2>2, ReleasesBacked
<1>4. CASE QuietStep
  BY <1>4, MakeUserBacked, AddBalanceBacked DEF QuietStep
<1>5. CASE EngineStep
  BY <1>2, <1>5 DEF EngineStep
<1>6. CASE Rollback
  <2>1. PICK id : id = op.id
    OBVIOUS
  <2>2. id \in 1..Len(orders) /\ Releases(id)
    BY <1>6, <2>1, RollbackChanges DEF BaseInv, Tables, OrdersTyped
  <2>3. QED BY <2>2, ReleasesBacked
<1>7. CASE Settle
  <2>1. PICK m \in 1..Len(orders), t \in 1..Len(orders), price \in Int, qty \in Nat \ {0} :
          Tradable(m, t, price, qty) /\ Exchange(m, t, price, qty)
    BY <1>7, SettleTrades
  <2>2. UserIds' = UserIds
    BY <2>1 DEF Exchange, UserIds
  <2>3. QED BY <2>1, <2>2, ExchangeBacked
<1>8. CASE Finish
  <2>1. PICK id : id = op.id
    OBVIOUS
  <2>2. id \in 1..Len(orders) /\ (Releases(id) \/ UNCHANGED <<users, orders>>)
    BY <1>8, <2>1, FinishChanges
  <2>3. QED BY <1>2, <2>2, ReleasesBacked
<1>9. CASE UNCHANGED vars
  BY <1>2, <1>9 DEF vars, walletVars
<1>10. QED BY <1>1, <1>3, <1>4, <1>5, <1>6, <1>7, <1>8, <1>9, StepKinds

LEMMA BackedAlways == BaseFits => (AnySpec => []Backed)
<1> SUFFICES ASSUME BaseFits PROVE AnySpec => []Backed
  OBVIOUS
<1>1. Init => Backed
  <2> SUFFICES ASSUME Init PROVE Backed
    OBVIOUS
  <2>1. orders = <<>> /\ users = SeedUsers /\ orders \in Seq(Order) /\ Len(orders) = 0
    BY EmptySeq DEF Init
  <2>2. ASSUME NEW u \in UserIds PROVE BaseSum(orders, u) <= users[u].base
    <3>1. users[u].base \in 0..QtyMod-1
      BY <2>1, OrderBookAssumption DEF UserIds
    <3>2. \A id \in 1..Len(orders) : orders[id].user # u
      BY <2>1
    <3>3. BaseSum(orders, u) = 0
      BY <2>1, <3>2, SumsNobody
    <3>4. QED BY <3>1, <3>3, QtyModFacts
  <2>3. QED BY <2>1, <2>2 DEF Backed, BaseFits
<1>2. OpTyped /\ BaseInv /\ BaseInv' /\ EngineOk /\ EngineOk' /\ Synced /\ Funds /\ Backed /\ [AnyStep]_vars
      => Backed'
  BY BackedStep
<1>3. QED BY <1>1, <1>2, OpTypedAlways, EngineAlwaysOk, BaseAlways, SyncAlways, FundsAlways, PTL DEF AnySpec

\* An order that is not active locks nothing, so the sums run over the active ones.
LEMMA FundsOfActive ==
  ASSUME BaseInv, Synced, Funds
  PROVE  /\ ActiveLocked
         /\ \A u \in UserIds :
              /\ QuoteSum(orders, u) = MapThenSumSet(LAMBDA id : orders[id].lockedQuote, OrdersOf(u))
              /\ BaseSum(orders, u) = MapThenSumSet(LAMBDA id : orders[id].lockedBase, OrdersOf(u))
<1>1. /\ orders \in Seq(Order)
      /\ \A id \in 1..Len(orders) : OrderLocks(orders[id]) /\ orders[id] \in Order
      /\ \A id \in 1..Len(orders) : orders[id].active <=> orders[id].remaining # 0
  BY DEF BaseInv, Tables, OrdersTyped, Funds, FundsOf, Synced, Agrees
<1>2. ASSUME NEW id \in 1..Len(orders), ~orders[id].active
      PROVE  orders[id].lockedQuote = 0 /\ orders[id].lockedBase = 0
  <2>1. orders[id].remaining = 0 /\ orders[id].limit \in Int
    BY <1>1, <1>2 DEF Order
  <2>2. QED BY <1>1, <2>1 DEF OrderLocks, LockQuote, LockBase
<1>3. ASSUME NEW u \in UserIds
      PROVE  QuoteSum(orders, u) = MapThenSumSet(LAMBDA id : orders[id].lockedQuote, OrdersOf(u))
  <2>1. \A id \in 1..Len(orders) : ~orders[id].active => orders[id].lockedQuote = 0
    BY <1>2
  <2>2. QED BY ONLY <1>1, <2>1, QuoteSumIs DEF OrdersOf, ActiveIds
<1>4. ASSUME NEW u \in UserIds
      PROVE  BaseSum(orders, u) = MapThenSumSet(LAMBDA id : orders[id].lockedBase, OrdersOf(u))
  <2>1. \A id \in 1..Len(orders) : ~orders[id].active => orders[id].lockedBase = 0
    BY <1>2
  <2>2. QED BY ONLY <1>1, <2>1, BaseSumIs DEF OrdersOf, ActiveIds
<1>5. ActiveLocked
  BY <1>1 DEF ActiveIds, OrderLocks, ActiveLocked
<1>6. QED BY <1>3, <1>4, <1>5

\* Whatever balances amount to, also where a sum of locked base passes 2^w.
LEMMA FundsAddUp == BaseInv /\ Synced /\ Funds => LocksAddUp
<1> SUFFICES ASSUME BaseInv, Synced, Funds PROVE LocksAddUp
  OBVIOUS
<1>1. ASSUME NEW u \in UserIds
      PROVE  users[u].lockedQuote = QuoteSum(orders, u) /\ users[u].lockedBase = BaseSum(orders, u) % QtyMod
  BY DEF Funds, FundsOf, UserIds
<1>2. QED BY <1>1, FundsOfActive DEF LocksAddUp

\* Where users own the base that their orders sell, no sum does.
LEMMA FundsAreSums == BaseInv /\ Synced /\ Funds /\ Backed => LocksAreSums
<1> SUFFICES ASSUME BaseInv, Synced, Funds, Backed PROVE LocksAreSums
  OBVIOUS
<1>1. ASSUME NEW u \in UserIds
      PROVE  users[u].lockedQuote = QuoteSum(orders, u) /\ users[u].lockedBase = BaseSum(orders, u)
  BY BackedFacts DEF Funds, FundsOf, UserIds
<1>2. QED BY <1>1, FundsOfActive DEF LocksAreSums

\* What a user has locked is, at every step of a submission too, what its
\* active orders need at their limits, as long as all base that was deposited
\* fits the type of a quantity: no lock leaks and none is released twice.
THEOREM LocksAreExact == BaseFits => (Spec => []LocksAreSums)
BY FundsAreSums, SpecIsAny, BaseAlways, SyncAlways, FundsAlways, BackedAlways, PTL

\* The wrapper on its own: whatever is deposited and wraps, no lock leaks and
\* none is released twice; only the amount locked is known modulo 2^w.
THEOREM LocksAlwaysAddUp == Spec => []LocksAddUp
BY FundsAddUp, SpecIsAny, BaseAlways, SyncAlways, FundsAlways, PTL

------------------------------------------------------------------------------
\* The engine trades at prices of its range.
Priced == \A k \in 1..Len(executions) : executions[k].price \in PriceMin..PriceMax

LEMMA RestingPriced ==
  ASSUME EngineOk, NEW id \in E!Resting
  PROVE  E!PriceAt(id) \in PriceMin..PriceMax
BY DEF EngineOk, E!EngineInv, E!ListInv, E!RestingPlaced, E!Resting, E!PriceAt

LEMMA PricedStep ==
  ASSUME OpTyped, BaseInv, EngineOk, EngineOk', Priced, [AnyStep]_vars
  PROVE  Priced'
<1>1. CASE executions' = executions
  BY <1>1 DEF Priced
<1>2. CASE SubmitStep
  <2>1. executions' = <<>>
    BY <1>2, SubmitChanges DEF SubmitStep, BaseInv
  <2>2. QED BY <2>1, EmptySeq DEF Priced
<1>3. CASE CancelStep
  <2>1. PICK id \in 1..Len(orders) : CancelActive(id)
    BY <1>3 DEF CancelStep
  <2>2. QED BY <1>1, <2>1 DEF CancelActive, Engine!Cancel
<1>4. CASE QuietStep
  BY <1>1, <1>4 DEF QuietStep, MakeUser, AddBalance, engineVars
<1>5. CASE EngineStep
  <2>1. \/ Passes
        \/ \E id \in E!Resting, qty \in Nat \ {0} : TakesFrom(id, qty)
        \/ \E id : RestsAs(id)
    BY <1>5, EngineStepCases
  <2>2. CASE Passes \/ \E id : RestsAs(id)
    BY <1>1, <2>2 DEF Passes, RestsAs
  <2>3. ASSUME NEW id \in E!Resting, NEW qty \in Nat \ {0}, TakesFrom(id, qty)
        PROVE  Priced'
    <3>1. PICK e : e = [maker |-> id, price |-> E!PriceAt(id), qty |-> qty]
      OBVIOUS
    <3>2. executions' = Append(executions, e) /\ e.price \in PriceMin..PriceMax
      BY <2>3, <3>1, RestingPriced DEF TakesFrom, E!Trades
    <3>3. /\ Len(executions') = Len(executions) + 1 /\ executions'[Len(executions) + 1] = e
          /\ \A k \in 1..Len(executions) : executions'[k] = executions[k]
          /\ Len(executions) \in Nat
      <4>1. executions \in Seq(Execution)
        BY DEF BaseInv, Tables, ExecutionsTyped
      <4>2. QED BY <3>2, <4>1
    <3>4. ASSUME NEW k \in 1..Len(executions') PROVE executions'[k].price \in PriceMin..PriceMax
      <4>1. CASE k \in 1..Len(executions)
        BY <3>2, <3>3, <4>1 DEF Priced
      <4>2. CASE k = Len(executions) + 1
        BY <3>2, <3>3, <4>2
      <4>3. k \in 1..Len(executions) \/ k = Len(executions) + 1
        BY <3>2, <3>3
      <4>4. QED BY <4>1, <4>2, <4>3
    <3>5. QED BY <3>4 DEF Priced
  <2>4. QED BY <2>1, <2>2, <2>3
<1>6. CASE Rollback \/ Settle
  <2>1. UNCHANGED executions
    BY <1>6 DEF Rollback, Settle, engineVars
  <2>2. QED BY <1>1, <2>1
<1>7. CASE Finish
  BY <1>1, <1>7 DEF Finish, CancelActive, Engine!Cancel, engineVars
<1>8. CASE UNCHANGED vars
  BY <1>1, <1>8 DEF vars, engineVars
<1>9. QED BY <1>2, <1>3, <1>4, <1>5, <1>6, <1>7, <1>8, StepKinds

LEMMA PricedAlways == AnySpec => []Priced
<1>1. Init => Priced
  <2> SUFFICES ASSUME Init PROVE Priced
    OBVIOUS
  <2>1. executions = <<>>
    BY DEF Init, Engine!Init
  <2>2. QED BY <2>1, EmptySeq DEF Priced
<1>2. OpTyped /\ BaseInv /\ EngineOk /\ EngineOk' /\ Priced /\ [AnyStep]_vars => Priced'
  BY PricedStep
<1>3. QED BY <1>1, <1>2, OpTypedAlways, EngineAlwaysOk, BaseAlways, PTL DEF AnySpec

\* A trade leaves either party with at least as much unlocked quote: a bid that
\* trades below its limit is paid back more than it saved.
LEMMA QuoteTrade ==
  ASSUME NEW u \in User, NEW o \in Order, NEW price \in Nat, NEW qty \in Nat,
         IsBid(o.side) => price <= o.limit
  PROVE  FreeQuote(AfterTrade(u, o, price, qty)) >= FreeQuote(u)
<1>1. PICK w, a, b : /\ w = AfterTrade(u, o, price, qty)
                     /\ a = o.limit * qty /\ b = price * qty
  OBVIOUS
<1>2. o.limit \in Int /\ u.quote \in Int /\ u.lockedQuote \in Int
  BY DEF Order, User
<1>3. a \in Int /\ b \in Nat
  <2>1. PICK l \in Int : l = o.limit
    BY <1>2
  <2>2. l * qty \in Int /\ price * qty \in Nat
    OBVIOUS
  <2>3. QED BY <1>1, <2>1, <2>2
<1>4. /\ w.lockedQuote = u.lockedQuote - LockQuote(o.side, o.limit, qty)
      /\ w.quote = u.quote + QuoteMoved(o.side, price * qty) + Refund(o, price, qty)
  BY <1>1, AfterTradeFields
<1>5. CASE IsBid(o.side)
  <2>1. b <= a
    <3>1. PICK k \in Nat : k = o.limit - price
      BY <1>2, <1>5
    <3>2. (price + k) * qty = price * qty + k * qty /\ k * qty \in Nat
      OBVIOUS
    <3>3. o.limit = price + k
      BY <1>2, <3>1
    <3>4. QED BY <1>1, <1>3, <3>2, <3>3
  <2>2. Refund(o, price, qty) = a - b
    <3>1. Refund(o, price, qty) = Max({0, a - b})
      BY <1>1, <1>5 DEF Refund, LockQuote
    <3>2. 0 \in Int /\ a - b \in Int
      BY <1>3
    <3>3. Max({0, a - b}) = IF 0 >= a - b THEN 0 ELSE a - b
      BY <3>2, MaxTwo
    <3>4. QED BY <1>3, <2>1, <3>1, <3>3
  <2>3. w.lockedQuote = u.lockedQuote - a /\ w.quote = u.quote + (-b) + (a - b)
    BY <1>1, <1>4, <1>5, <2>2 DEF LockQuote, QuoteMoved
  <2>4. QED BY <1>1, <1>2, <1>3, <2>1, <2>3 DEF FreeQuote
<1>6. CASE ~IsBid(o.side)
  <2>1. Refund(o, price, qty) = 0
    <3>1. Refund(o, price, qty) = Max({0, 0 - 0})
      BY <1>6 DEF Refund, LockQuote
    <3>2. 0 - 0 = 0 /\ Max({0, 0}) = IF 0 >= 0 THEN 0 ELSE 0
      BY MaxTwo
    <3>3. QED BY <3>1, <3>2
  <2>2. w.lockedQuote = u.lockedQuote - 0 /\ w.quote = u.quote + b + 0
    BY <1>1, <1>4, <1>6, <2>1 DEF LockQuote, QuoteMoved
  <2>3. QED BY <1>1, <1>2, <1>3, <2>2 DEF FreeQuote
<1>7. QED BY <1>5, <1>6

LEMMA ExchangeFree ==
  ASSUME BaseInv, NEW m \in 1..Len(orders), NEW t \in 1..Len(orders), NEW price \in Nat,
         NEW qty \in Nat \ {0}, Tradable(m, t, price, qty), Exchange(m, t, price, qty),
         NEW w \in UserIds
  PROVE  FreeQuote(users'[w]) >= FreeQuote(users[w])
<1>1. PICK x, y, u, v : /\ x = orders[m] /\ y = orders[t] /\ u = x.user /\ v = y.user
  OBVIOUS
<1>2. PICK a, paid : a = AfterTrade(users[u], x, price, qty) /\ paid = [users EXCEPT ![u] = a]
  OBVIOUS
<1>3. PICK z : z = AfterTrade(paid[v], y, price, qty) /\ users' = [paid EXCEPT ![v] = z]
  BY <1>1, <1>2 DEF Exchange
<1>4. PICK D : D = UserIds
  OBVIOUS
<1>5. /\ users \in [D -> User] /\ u \in D /\ v \in D /\ w \in D
      /\ x \in Order /\ y \in Order /\ x.side = E!Opposite(y.side)
      /\ qty \in Nat /\ qty \in Int /\ price \in Int /\ price = x.limit
      /\ IF y.side = E!Buy THEN price <= y.limit ELSE price >= y.limit
  <2>1. orders \in Seq(Order) /\ users \in [D -> User]
    BY <1>4 DEF BaseInv, Tables, OrdersTyped, UsersTyped
  <2>2. x \in Order /\ y \in Order
    BY <1>1, <2>1
  <2>3. /\ u \in D /\ v \in D /\ x.side = E!Opposite(y.side) /\ price = x.limit
        /\ IF y.side = E!Buy THEN price <= y.limit ELSE price >= y.limit
    BY <1>1, <1>4 DEF Tradable
  <2>4. QED BY <1>4, <2>1, <2>2, <2>3
<1>6. /\ IsBid(x.side) => price <= x.limit
      /\ IsBid(y.side) => price <= y.limit
  <2>1. IsBid(y.side) => y.side = E!Buy
    BY ONLY <1>5, OppositeMoves
  <2>2. IsBid(y.side) => price <= y.limit
    BY <1>5, <2>1
  <2>3. QED BY <1>5, <2>2
<1>7. a \in User /\ FreeQuote(a) >= FreeQuote(users[u])
  <2>1. users[u] \in User
    BY <1>5
  <2>2. a \in User
    BY <1>2, <1>5, <2>1, AfterTradeTyped
  <2>3. QED BY <1>2, <1>5, <1>6, <2>1, <2>2, QuoteTrade
<1>8. paid \in [D -> User] /\ paid[u] = a /\ \A i \in D : i # u => paid[i] = users[i]
  BY <1>2, <1>5, <1>7
<1>9. z \in User /\ FreeQuote(z) >= FreeQuote(paid[v])
  <2>1. paid[v] \in User
    BY <1>5, <1>8
  <2>2. z \in User
    BY <1>3, <1>5, <2>1, AfterTradeTyped
  <2>3. QED BY <1>3, <1>5, <1>6, <2>1, <2>2, QuoteTrade
<1>10. users'[v] = z /\ \A i \in D : i # v => users'[i] = paid[i]
  BY <1>3, <1>5, <1>8
<1>11. \A r \in User : FreeQuote(r) \in Int
  BY DEF FreeQuote, User
<1>12. FreeQuote(paid[w]) >= FreeQuote(users[w])
  <2>1. FreeQuote(users[w]) \in Int
    BY <1>5, <1>11
  <2>2. QED BY <1>5, <1>7, <1>8, <2>1
<1>13. FreeQuote(users'[w]) >= FreeQuote(paid[w])
  <2>1. FreeQuote(paid[w]) \in Int
    BY <1>5, <1>8, <1>11
  <2>2. QED BY <1>5, <1>9, <1>10, <2>1
<1>14. FreeQuote(users[w]) \in Int /\ FreeQuote(paid[w]) \in Int /\ FreeQuote(users'[w]) \in Int
  <2>1. users[w] \in User /\ paid[w] \in User /\ users'[w] \in User
    BY <1>5, <1>8, <1>9, <1>10
  <2>2. QED BY <1>11, <2>1
<1>15. QED BY <1>12, <1>13, <1>14

\* The funds check of a bid: what is unlocked pays for it.
LEMMA SubmitFree ==
  ASSUME BaseInv, SubmitStep, NEW w \in UserIds, FreeQuote(users[w]) >= 0
  PROVE  w \in UserIds' /\ FreeQuote(users'[w]) >= 0
<1>1. PICK user \in UserIds, side \in Sides, price \in Int, qty \in 0..QtyMod-1, discard \in BOOLEAN :
        op = Idle /\ Submit(user, side, price, qty, discard)
  BY DEF SubmitStep
<1>2. PICK o, D : o = NewOrder(user, side, price, qty) /\ D = UserIds
  OBVIOUS
<1>3. /\ o \in Order /\ users' = [users EXCEPT ![user] = Locks(@, o)] /\ users \in [D -> User]
      /\ user \in D /\ w \in D /\ UserIds' = UserIds
  <2>1. o \in Order /\ users' = [users EXCEPT ![user] = Locks(@, o)]
    BY <1>1, <1>2, SubmitChanges DEF BaseInv
  <2>2. UserIds' = UserIds
    BY SubmitKeeps DEF BalancesKept
  <2>3. QED BY <1>2, <2>1, <2>2 DEF BaseInv, Tables, UsersTyped
<1>4. CASE w = user
  <2>1. IF IsBid(side) THEN FreeQuote(users[user]) >= price * qty ELSE TRUE
    BY <1>1 DEF Submit, Funded
  <2>2. PICK x \in Int : x = price * qty
    <3>1. qty \in Int
      BY QtyModFacts
    <3>2. QED BY <3>1
  <2>3. o.lockedQuote = IF IsBid(side) THEN x ELSE 0
    BY <1>2, <2>2 DEF NewOrder, LockQuote
  <2>4. users[w] \in User
    BY <1>3
  <2>5. FreeQuote(Locks(users[w], o)) = FreeQuote(users[w]) - o.lockedQuote
    <3>1. PICK y : y = (users[w].lockedBase + o.lockedBase) % QtyMod
      OBVIOUS
    <3>2. Locks(users[w], o).lockedQuote = users[w].lockedQuote + o.lockedQuote
          /\ Locks(users[w], o).quote = users[w].quote
      BY <2>4, <3>1 DEF Locks, User
    <3>3. users[w].lockedQuote \in Int /\ users[w].quote \in Int /\ o.lockedQuote \in Int
      BY <1>3, <2>4 DEF User, Order
    <3>4. QED BY <3>2, <3>3 DEF FreeQuote
  <2>6. FreeQuote(users[w]) \in Int
    BY <2>4 DEF FreeQuote, User
  <2>7. users'[w] = Locks(users[w], o)
    BY <1>3, <1>4
  <2>8. QED BY <1>3, <1>4, <2>1, <2>2, <2>3, <2>5, <2>6, <2>7
<1>5. CASE w # user
  BY <1>3, <1>5
<1>6. QED BY <1>4, <1>5

\* An order that rests locks no negative sum.
LEMMA ReleasesFree ==
  ASSUME PriceMin >= 0, BaseInv, EngineOk, Funds, NEW id \in 1..Len(orders), id \in E!Resting,
         Releases(id), NEW w \in UserIds
  PROVE  w \in UserIds' /\ FreeQuote(users'[w]) >= FreeQuote(users[w])
<1>1. PICK o, D : o = orders[id] /\ D = UserIds
  OBVIOUS
<1>2. /\ users' = [users EXCEPT ![o.user] = Unlocks(@, o)] /\ users \in [D -> User]
      /\ o.user \in D /\ o \in Order /\ OrderLocks(o) /\ w \in D /\ UserIds' = UserIds
  <2>1. UserIds' = UserIds
    BY ReleasesKeep DEF BalancesKept
  <2>2. QED BY <1>1, <2>1 DEF Releases, BaseInv, Tables, UsersTyped, OrdersTyped, Funds, FundsOf
<1>3. o.lockedQuote \in Nat
  <2>1. o.limit \in PriceMin..PriceMax
    BY <1>1, RestingPriced DEF BaseInv, Known
  <2>2. o.limit \in Nat /\ o.remaining \in Nat
    <3>1. o.limit \in Nat
      BY <2>1, OrderBookAssumption
    <3>2. o.remaining \in Nat
      BY <1>2, QtyModFacts DEF Order
    <3>3. QED BY <3>1, <3>2
  <2>3. PICK p \in Nat, r \in Nat : p = o.limit /\ r = o.remaining
    BY <2>2
  <2>4. p * r \in Nat
    OBVIOUS
  <2>5. QED BY <1>2, <2>3, <2>4 DEF OrderLocks, LockQuote
<1>4. users[w] \in User
  BY <1>2
<1>5. users[w].lockedQuote \in Int /\ users[w].quote \in Int
  BY <1>4 DEF User
<1>6. CASE w = o.user
  <2>1. PICK y : y = (users[w].lockedBase - o.lockedBase) % QtyMod
    OBVIOUS
  <2>2. Unlocks(users[w], o).lockedQuote = users[w].lockedQuote - o.lockedQuote
        /\ Unlocks(users[w], o).quote = users[w].quote
    BY <1>4, <2>1 DEF Unlocks, User
  <2>3. users'[w] = Unlocks(users[w], o)
    BY <1>2, <1>6
  <2>4. QED BY <1>2, <1>3, <1>5, <2>2, <2>3 DEF FreeQuote
<1>7. CASE w # o.user
  BY <1>2, <1>5, <1>7 DEF FreeQuote
<1>8. QED BY <1>6, <1>7

LEMMA QuietFree ==
  ASSUME BaseInv, QuietStep, NEW w \in UserIds, FreeQuote(users[w]) >= 0, ~Withdraws(w)
  PROVE  w \in UserIds' /\ FreeQuote(users'[w]) >= 0
<1>1. CASE \E name \in AnyName : MakeUser(name)
  <2>1. PICK name \in AnyName : MakeUser(name)
    BY <1>1
  <2>2. PICK n : n = Cardinality(UserIds)
    OBVIOUS
  <2>3. n \in Nat /\ UserIds = 0..n-1
    BY <2>2, FS_CardinalityType DEF BaseInv, Tables, UsersTyped
  <2>4. CASE users' = users
    BY <2>4 DEF UserIds
  <2>5. CASE users' = [u \in 0..n |-> IF u = n THEN NewUser(name) ELSE users[u]]
    BY <2>3, <2>5 DEF UserIds
  <2>6. QED BY <2>1, <2>2, <2>4, <2>5 DEF MakeUser
<1>2. ASSUME NEW user \in UserIds, NEW quote \in Int, NEW base \in 0..QtyMod-1,
             AddBalance(user, quote, base)
      PROVE  w \in UserIds' /\ FreeQuote(users'[w]) >= 0
  <2>1. PICK D, x, q : /\ D = UserIds /\ x = (users[user].base + base) % QtyMod
                       /\ q = users[user].quote + quote
    OBVIOUS
  <2>2. users \in [D -> User] /\ user \in D /\ w \in D
    BY <2>1 DEF BaseInv, Tables, UsersTyped
  <2>3. users' = [users EXCEPT ![user] = [users[user] EXCEPT !.quote = q, !.base = x]]
    BY <1>2, <2>1, <2>2 DEF AddBalance
  <2>4. op = Idle /\ op' = Idle
    BY <1>2 DEF AddBalance, CanCall
  <2>5. quote \in Int
    BY OrderBookAssumption
  <2>6. users[w] \in User
    BY <2>2
  <2>7. users[w].lockedQuote \in Int /\ users[w].quote \in Int
    BY <2>6 DEF User
  <2>8. CASE w = user
    <3>1. users'[w] = [users[w] EXCEPT !.quote = q, !.base = x]
      BY <2>2, <2>3, <2>8
    <3>2. users'[w].quote = q /\ users'[w].lockedQuote = users[w].lockedQuote
      BY <2>6, <3>1 DEF User
    <3>3. ~(q < users[w].quote)
      BY <2>4, <3>2 DEF Withdraws
    <3>4. q \in Int
      BY <2>1, <2>5, <2>7, <2>8
    <3>5. FreeQuote(users'[w]) >= 0
      BY <2>7, <3>2, <3>3, <3>4 DEF FreeQuote
    <3>6. QED BY <2>1, <2>2, <2>3, <3>5 DEF UserIds
  <2>9. CASE w # user
    BY <2>1, <2>2, <2>3, <2>9 DEF UserIds
  <2>10. QED BY <2>8, <2>9
<1>3. QED BY <1>1, <1>2 DEF QuietStep

LEMMA FreeStep ==
  ASSUME PriceMin >= 0, OpTyped, BaseInv, EngineOk, EngineOk', Synced, Funds, Priced, [AnyStep]_vars,
         op.phase # "refused", NEW w \in UserIds, FreeQuote(users[w]) >= 0, ~Withdraws(w)
  PROVE  w \in UserIds' /\ FreeQuote(users'[w]) >= 0
<1>1. CASE SubmitStep
  BY <1>1, SubmitFree
<1>2. CASE UNCHANGED <<users, orders>>
  BY <1>2 DEF UserIds
<1>3. FreeQuote(users[w]) \in Int
  <2>1. users[w] \in User
    BY DEF BaseInv, Tables, UsersTyped
  <2>2. QED BY <2>1 DEF FreeQuote, User
<1>4. ASSUME NEW id \in 1..Len(orders), id \in E!Resting, Releases(id)
      PROVE  w \in UserIds' /\ FreeQuote(users'[w]) >= 0
  <2>1. BalancesKept
    BY <1>4, ReleasesKeep
  <2>2. w \in UserIds' /\ FreeQuote(users'[w]) >= FreeQuote(users[w])
    BY <1>4, ReleasesFree
  <2>3. FreeQuote(users'[w]) \in Int
    <3>1. UsersTyped' /\ UserIds' = UserIds
      BY <1>4, ReleasesTables DEF BaseInv
    <3>2. users'[w] \in User
      BY <3>1 DEF UsersTyped
    <3>3. \A r \in User : r.quote \in Int /\ r.lockedQuote \in Int
      BY DEF User
    <3>4. QED BY <3>2, <3>3 DEF FreeQuote
  <2>4. QED BY <1>3, <2>2, <2>3
<1>5. CASE CancelStep
  <2>1. PICK id \in 1..Len(orders) :
          op = Idle /\ op' = Idle /\ UNCHANGED nextOrderId /\ CancelActive(id)
    BY <1>5 DEF CancelStep
  <2>2. op.phase # "matching"
    BY <2>1 DEF Idle
  <2>3. IF id \in E!Resting THEN Releases(id) ELSE UNCHANGED <<users, orders>>
    BY <2>1, <2>2, CancelBase
  <2>4. QED BY <1>2, <1>4, <2>3
<1>6. CASE QuietStep
  BY <1>6, QuietFree
<1>7. CASE EngineStep
  BY <1>2, <1>7 DEF EngineStep
<1>8. CASE Settle
  <2>1. /\ op.next \in 1..Len(executions)
        /\ \E m \in 1..Len(orders), t \in 1..Len(orders), price \in Int, qty \in Nat \ {0} :
             price = executions[op.next].price /\ Tradable(m, t, price, qty) /\ Exchange(m, t, price, qty)
    BY <1>8, SettleTrades
  <2>2. PICK m \in 1..Len(orders), t \in 1..Len(orders), price \in Int, qty \in Nat \ {0} :
          price = executions[op.next].price /\ Tradable(m, t, price, qty) /\ Exchange(m, t, price, qty)
    BY <2>1
  <2>3. price \in Nat
    <3>1. price \in PriceMin..PriceMax
      BY <2>1, <2>2 DEF Priced
    <3>2. QED BY <3>1, OrderBookAssumption
  <2>4. FreeQuote(users'[w]) >= FreeQuote(users[w])
    BY <2>2, <2>3, ExchangeFree
  <2>5. UserIds' = UserIds
    BY <2>2 DEF Exchange, UserIds
  <2>6. FreeQuote(users'[w]) \in Int
    <3>1. UsersTyped'
      BY <1>8, SettleBase DEF BaseInv, Tables
    <3>2. users'[w] \in User
      BY <2>5, <3>1 DEF UsersTyped
    <3>3. \A r \in User : r.quote \in Int /\ r.lockedQuote \in Int
      BY DEF User
    <3>4. QED BY <3>2, <3>3 DEF FreeQuote
  <2>7. QED BY <1>3, <2>4, <2>5, <2>6
<1>9. CASE Rollback
  BY <1>9 DEF Rollback
<1>10. CASE Finish
  <2>1. PICK id : id = op.id
    OBVIOUS
  <2>2. /\ id \in 1..Len(orders)
        /\ (id \in E!Resting /\ Releases(id)) \/ UNCHANGED <<users, orders>>
    BY <1>10, <2>1, FinishChanges
  <2>3. QED BY <1>2, <1>4, <2>2
<1>11. CASE UNCHANGED vars
  BY <1>2, <1>11 DEF vars, walletVars
<1>12. QED BY <1>1, <1>5, <1>6, <1>7, <1>8, <1>9, <1>10, <1>11, StepKinds

\* No user ever has more base locked than it owns.
BaseCovered == \A u \in UserIds : users[u].base >= users[u].lockedBase
LEMMA BaseCovers == BaseInv /\ Funds /\ Backed => BaseCovered
<1> SUFFICES ASSUME BaseInv, Funds, Backed, NEW u \in UserIds
             PROVE  users[u].base >= users[u].lockedBase
  BY DEF BaseCovered
<1>1. users[u].lockedBase = BaseSum(orders, u)
  BY BackedFacts DEF Funds, FundsOf, UserIds
<1>2. users[u].base \in Int /\ BaseSum(orders, u) \in Int /\ BaseSum(orders, u) <= users[u].base
  BY BackedFacts, QtyModFacts
<1>3. QED BY <1>1, <1>2

\* A user whose balances cover its locks stays covered through every
\* submission, trade and cancel, its own and everybody else's; only withdrawing
\* quote may end that.  Prices are not negative, and all base that is ever
\* deposited fits the type of a quantity.
THEOREM LocksCovered == BaseFits /\ PriceMin >= 0 => (Spec => LocksStayCovered)
<1> SUFFICES ASSUME BaseFits, PriceMin >= 0 PROVE Spec => LocksStayCovered
  OBVIOUS
<1>1. OpTyped /\ BaseInv /\ BaseInv' /\ EngineOk /\ EngineOk' /\ Synced /\ Funds /\ Funds' /\ Backed'
      /\ Priced /\ [AnyStep]_vars
      => [\A u \in UserIds : Covered(u) /\ op.phase # "refused" => Covered(u)' \/ Withdraws(u)]_vars
  <2> SUFFICES ASSUME OpTyped, BaseInv, BaseInv', EngineOk, EngineOk', Synced, Funds, Funds', Backed',
                      Priced, [AnyStep]_vars, NEW u \in UserIds, Covered(u), op.phase # "refused",
                      ~Withdraws(u)
               PROVE  Covered(u)'
    OBVIOUS
  <2>1. users[u] \in User
    BY DEF BaseInv, Tables, UsersTyped
  <2>2. FreeQuote(users[u]) >= 0
    BY <2>1 DEF Covered, FreeQuote, User
  <2>3. u \in UserIds' /\ FreeQuote(users'[u]) >= 0
    BY <2>2, FreeStep
  <2>4. users'[u].base >= users'[u].lockedBase
    <3>1. (BaseInv /\ Funds /\ Backed => BaseCovered)'
      BY BaseCovers, PTL
    <3>2. QED BY <2>3, <3>1 DEF BaseCovered
  <2>5. users'[u].quote >= users'[u].lockedQuote
    <3>1. users'[u] \in User
      BY <2>3 DEF BaseInv, Tables, UsersTyped
    <3>2. QED BY <2>3, <3>1 DEF FreeQuote, User
  <2>6. QED BY <2>4, <2>5 DEF Covered
<1>2. QED BY <1>1, SpecIsAny, OpTypedAlways, EngineAlwaysOk, BaseAlways, SyncAlways, FundsAlways, BackedAlways,
             PricedAlways, PTL DEF AnySpec, LocksStayCovered
=============================================================================
