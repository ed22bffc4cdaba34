--------------------------- MODULE ArithmeticLemmas ---------------------------
(***************************************************************************)
(* Facts about the arithmetic that the models share and the provers do not *)
(* know: remainders by a modulus that is a parameter.                      *)
(***************************************************************************)
EXTENDS Integers, FiniteSets, Functions, FiniteSetTheorems, WellFoundedInduction, TLAPS

\* Unequal multiples of m are at least m apart.
LEMMA MultiplesApart ==
  ASSUME NEW m \in Nat, NEW p \in Int, NEW q \in Int, p < q
  PROVE  m * p + m <= m * q
  OBVIOUS

\* Quotient and remainder are the only ones.
LEMMA ModUnique ==
  ASSUME NEW m \in Nat \ {0}, NEW q \in Int, NEW r \in 0..m-1
  PROVE  (m * q + r) % m = r
<1> DEFINE x == m * q + r
           p == x \div m
           s == x % m
<1>1. x \in Int /\ m * q \in Int
  OBVIOUS
<1>2. p \in Int /\ s \in 0..m-1 /\ x = m * p + s /\ m * p \in Int
  BY <1>1
<1>3. m * q + r = m * p + s
  BY <1>2
<1> SUFFICES s = r
  OBVIOUS
<1> HIDE DEF x, p, s
<1>4. CASE p < q
  <2>1. m * p + m <= m * q
    BY <1>2, <1>4, MultiplesApart
  <2>2. QED BY <1>1, <1>2, <1>3, <2>1
<1>5. CASE q < p
  <2>1. m * q + m <= m * p
    BY <1>2, <1>5, MultiplesApart
  <2>2. QED BY <1>1, <1>2, <1>3, <2>1
<1>6. CASE p = q
  BY <1>1, <1>2, <1>3, <1>6
<1>7. QED BY <1>2, <1>4, <1>5, <1>6

\* Adding a multiple of the modulus changes no remainder.
LEMMA ModShift ==
  ASSUME NEW m \in Nat \ {0}, NEW a \in Int, NEW k \in Int
  PROVE  (a + m * k) % m = a % m
<1>1. a \div m \in Int /\ a % m \in 0..m-1 /\ a = m * (a \div m) + (a % m)
  OBVIOUS
<1> DEFINE p == a \div m
           s == a % m
<1> HIDE DEF p, s
<1>2. m * p + m * k = m * (p + k) /\ p + k \in Int /\ m * p \in Int /\ m * k \in Int
  BY <1>1 DEF p
<1>3. a + m * k = m * (p + k) + s
  BY <1>1, <1>2 DEF p, s
<1>4. (m * (p + k) + s) % m = s
  BY <1>1, <1>2, ModUnique DEF s
<1>5. QED BY <1>3, <1>4 DEF s

\* A remainder may be taken before or after adding b.
LEMMA ModAdd ==
  ASSUME NEW m \in Nat \ {0}, NEW a \in Int, NEW b \in Int
  PROVE  ((a % m) + b) % m = (a + b) % m
<1> DEFINE p == a \div m
           s == a % m
<1>1. p \in Int /\ s \in Int /\ a = m * p + s
  OBVIOUS
<1> HIDE DEF p, s
<1>2. m * p \in Int
  BY <1>1
<1>3. a + b = (s + b) + m * p
  BY <1>1, <1>2
<1>4. ((s + b) + m * p) % m = (s + b) % m
  <2>1. s + b \in Int
    BY <1>1
  <2>2. QED BY <1>1, <2>1, ModShift
<1>5. QED BY <1>3, <1>4 DEF s

LEMMA ModSub ==
  ASSUME NEW m \in Nat \ {0}, NEW a \in Int, NEW b \in Int
  PROVE  ((a % m) - b) % m = (a - b) % m
<1>1. -b \in Int /\ a % m \in Int
  OBVIOUS
<1>2. ((a % m) + (-b)) % m = (a + (-b)) % m
  BY <1>1, ModAdd
<1>3. (a % m) + (-b) = (a % m) - b /\ a + (-b) = a - b
  BY <1>1
<1>4. QED BY <1>2, <1>3

\* A number in range is its own remainder.
LEMMA ModSmall ==
  ASSUME NEW m \in Nat \ {0}, NEW r \in 0..m-1
  PROVE  r % m = r
<1>1. (m * 0 + r) % m = r
  BY ModUnique
<1>2. m * 0 + r = r
  OBVIOUS
<1>3. QED BY <1>1, <1>2

LEMMA ModRange ==
  ASSUME NEW m \in Nat \ {0}, NEW a \in Int
  PROVE  a % m \in 0..m-1
  OBVIOUS
------------------------------------------------------------------------------
(***************************************************************************)
(* Sums over finite sets.  The library's SumFunctionOnSet takes elements   *)
(* out of the set one by one, in the order that CHOOSE gives; the facts    *)
(* below say that the order does not matter.                               *)
(***************************************************************************)
\* Every nonempty set of naturals has a least element: this stands in for induction.
LEMMA LeastNatural ==
  ASSUME NEW S \in SUBSET Nat, S # {}
  PROVE  \E x \in S : \A y \in S : x =< y
<1>1. PICK x \in S : \A y \in S : ~ (<<y, x>> \in OpToRel(<, Nat))
  BY NatLessThanWellFounded, WFMin
<1>2. \A y \in S : ~(y < x)
  BY <1>1 DEF OpToRel
<1>3. QED BY <1>2

Picked(s) == CHOOSE x \in s : TRUE

LEMMA PickedIn == ASSUME NEW s, s # {} PROVE Picked(s) \in s
  BY DEF Picked

\* h gives the sum of f over every set of D.
Sums(f, D, h) ==
  h = [s \in D |-> IF s = {} THEN 0 ELSE f[Picked(s)] + h[s \ {Picked(s)}]]

LEMMA SumUnfolds ==
  ASSUME NEW f, NEW S
  PROVE  SumFunctionOnSet(f, S) = (CHOOSE h : Sums(f, SUBSET S, h))[S]
  BY DEF SumFunctionOnSet, FoldFunctionOnSet, MapThenFoldSet, Sums, Picked

\* Taking elements out of a finite set comes to an end.
LEMMA SumsExist ==
  ASSUME NEW f, NEW S, IsFiniteSet(S)
  PROVE  \E h : Sums(f, SUBSET S, h)
<1> DEFINE Sub(n) == {t \in SUBSET S : Cardinality(t) <= n}
           Bad == {n \in Nat : ~\E h : Sums(f, Sub(n), h)}
<1>1. ASSUME NEW t \in SUBSET S
      PROVE  /\ IsFiniteSet(t) /\ Cardinality(t) \in Nat
             /\ t # {} => Cardinality(t \ {Picked(t)}) = Cardinality(t) - 1 /\ Cardinality(t) # 0
  <2>1. IsFiniteSet(t) /\ Cardinality(t) \in Nat
    BY FS_Subset, FS_CardinalityType
  <2>2. ASSUME t # {} PROVE Cardinality(t \ {Picked(t)}) = Cardinality(t) - 1 /\ Cardinality(t) # 0
    BY <2>1, <2>2, PickedIn, FS_RemoveElement, FS_EmptySet
  <2>3. QED BY <2>1, <2>2
<1>2. Bad = {}
  <2> SUFFICES ASSUME Bad # {} PROVE FALSE
    OBVIOUS
  <2>1. PICK n \in Bad : \A m \in Bad : n =< m
    <3>1. Bad \in SUBSET Nat
      OBVIOUS
    <3> HIDE DEF Bad
    <3>2. QED BY <3>1, LeastNatural
  <2>2. n \in Nat /\ ~\E h : Sums(f, Sub(n), h)
    OBVIOUS
  <2>3. CASE n = 0
    <3>1. ASSUME NEW s \in Sub(n) PROVE s = {}
      <4>1. s \in SUBSET S /\ Cardinality(s) <= 0
        BY <2>3
      <4>2. Cardinality(s) \in Nat
        BY <1>1, <4>1
      <4>3. Cardinality(s) = 0
        BY <4>1, <4>2
      <4>4. QED BY <1>1, <4>1, <4>3
    <3>2. Sums(f, Sub(n), [s \in Sub(n) |-> 0])
      BY <3>1 DEF Sums
    <3>3. QED BY <2>2, <3>2
  <2>4. CASE n # 0
    <3>1. n - 1 \in Nat /\ n - 1 \notin Bad
      <4>1. n - 1 \in Nat /\ ~(n =< n - 1)
        BY <2>2, <2>4
      <4> HIDE DEF Bad
      <4>2. QED BY <2>1, <4>1
    <3>2. PICK g : Sums(f, Sub(n - 1), g)
      BY <3>1
    <3> DEFINE h == [s \in Sub(n) |-> IF s = {} THEN 0 ELSE f[Picked(s)] + g[s \ {Picked(s)}]]
    <3>3. ASSUME NEW s \in Sub(n), s # {} PROVE h[s \ {Picked(s)}] = g[s \ {Picked(s)}]
      <4> DEFINE t == s \ {Picked(s)}
      <4>1. t \in Sub(n - 1) /\ t \in Sub(n)
        BY <1>1, <2>2, <3>3
      <4>2. g[t] = IF t = {} THEN 0 ELSE f[Picked(t)] + g[t \ {Picked(t)}]
        BY <3>2, <4>1 DEF Sums
      <4> HIDE DEF t
      <4>3. h[t] = g[t]
        BY <4>1, <4>2
      <4>4. QED BY <4>3 DEF t
    <3>4. Sums(f, Sub(n), h)
      BY <3>3 DEF Sums
    <3>5. QED BY <2>2, <3>4
  <2>5. QED BY <2>3, <2>4
<1>3. Cardinality(S) \in Nat /\ Sub(Cardinality(S)) = SUBSET S
  <2>1. Cardinality(S) \in Nat
    BY <1>1
  <2>2. \A t \in SUBSET S : Cardinality(t) <= Cardinality(S)
    BY FS_Subset
  <2>3. QED BY <2>1, <2>2
<1>4. \E h : Sums(f, Sub(Cardinality(S)), h)
  BY <1>2, <1>3
<1>5. QED BY <1>3, <1>4

\* No two functions give the sums of one function.
LEMMA SumsUnique ==
  ASSUME NEW f, NEW S, IsFiniteSet(S), NEW g, NEW h,
         Sums(f, SUBSET S, g), Sums(f, SUBSET S, h)
  PROVE  \A s \in SUBSET S : g[s] = h[s]
<1> DEFINE D == {Cardinality(s) : s \in {t \in SUBSET S : g[t] # h[t]}}
<1>1. \A t \in SUBSET S : IsFiniteSet(t) /\ Cardinality(t) \in Nat
  BY FS_Subset, FS_CardinalityType
<1>2. CASE D # {}
  <2>1. D \in SUBSET Nat
    BY <1>1
  <2>2. PICK n \in D : \A m \in D : n =< m
    <3> HIDE DEF D
    <3>1. QED BY <1>2, <2>1, LeastNatural
  <2>3. PICK s \in SUBSET S : g[s] # h[s] /\ Cardinality(s) = n
    OBVIOUS
  <2>4. /\ g[s] = IF s = {} THEN 0 ELSE f[Picked(s)] + g[s \ {Picked(s)}]
        /\ h[s] = IF s = {} THEN 0 ELSE f[Picked(s)] + h[s \ {Picked(s)}]
    BY DEF Sums
  <2>5. s # {} /\ g[s \ {Picked(s)}] # h[s \ {Picked(s)}]
    BY <2>3, <2>4
  <2> DEFINE t == s \ {Picked(s)}
  <2>6. t \in SUBSET S /\ Cardinality(t) = n - 1
    BY <1>1, <2>3, <2>5, PickedIn, FS_RemoveElement
  <2>7. n \in Nat /\ Cardinality(t) \in D
    BY <2>1, <2>5, <2>6
  <2> HIDE DEF t, D
  <2>8. QED BY <2>2, <2>6, <2>7
<1>3. CASE D = {}
  BY <1>3
<1>4. QED BY <1>2, <1>3

\* Sums over a set are what the sums over a larger one say.
LEMMA SumIs ==
  ASSUME NEW f, NEW S, IsFiniteSet(S), NEW h, Sums(f, SUBSET S, h), NEW T \in SUBSET S
  PROVE  SumFunctionOnSet(f, T) = h[T]
<1> DEFINE g == [s \in SUBSET T |-> h[s]]
           c == CHOOSE x : Sums(f, SUBSET T, x)
<1>1. IsFiniteSet(T)
  BY FS_Subset
<1>2. Sums(f, SUBSET T, g)
  <2>1. ASSUME NEW s \in SUBSET T
        PROVE  g[s] = IF s = {} THEN 0 ELSE f[Picked(s)] + g[s \ {Picked(s)}]
    <3>1. h[s] = IF s = {} THEN 0 ELSE f[Picked(s)] + h[s \ {Picked(s)}]
      BY DEF Sums
    <3>2. g[s] = h[s] /\ g[s \ {Picked(s)}] = h[s \ {Picked(s)}]
      OBVIOUS
    <3>3. QED BY <3>1, <3>2
  <2>2. g = [s \in SUBSET T |-> g[s]]
    OBVIOUS
  <2> HIDE DEF g
  <2>3. QED BY <2>1, <2>2 DEF Sums
<1>3. Sums(f, SUBSET T, c)
  BY <1>2
<1> HIDE DEF c
<1>4. c[T] = g[T]
  <2> HIDE DEF g
  <2>1. QED BY <1>1, <1>2, <1>3, SumsUnique
<1>5. QED BY <1>4, SumUnfolds DEF c

LEMMA SumEmpty ==
  ASSUME NEW f, NEW S, S = {}
  PROVE  SumFunctionOnSet(f, S) = 0
<1>1. IsFiniteSet(S)
  BY FS_EmptySet
<1>2. PICK h : Sums(f, SUBSET S, h)
  BY <1>1, SumsExist
<1>3. h[S] = 0
  BY <1>2 DEF Sums
<1>4. SumFunctionOnSet(f, S) = h[S]
  BY <1>1, <1>2, SumIs
<1>5. QED BY <1>3, <1>4

LEMMA SumPicked ==
  ASSUME NEW f, NEW S, IsFiniteSet(S), S # {}
  PROVE  SumFunctionOnSet(f, S) = f[Picked(S)] + SumFunctionOnSet(f, S \ {Picked(S)})
<1>1. PICK h : Sums(f, SUBSET S, h)
  BY SumsExist
<1>2. h[S] = f[Picked(S)] + h[S \ {Picked(S)}]
  BY <1>1 DEF Sums
<1>3. QED BY <1>1, <1>2, SumIs

\* Every element may be taken out first, and the sum is an integer.
LEMMA SumTake ==
  ASSUME NEW S, IsFiniteSet(S), NEW f, \A x \in S : f[x] \in Int
  PROVE  /\ SumFunctionOnSet(f, S) \in Int
         /\ \A a \in S : SumFunctionOnSet(f, S) = f[a] + SumFunctionOnSet(f, S \ {a})
<1> DEFINE Sum(T) == SumFunctionOnSet(f, T)
           Good(T) == Sum(T) \in Int /\ \A a \in T : Sum(T) = f[a] + Sum(T \ {a})
           D == {Cardinality(s) : s \in {t \in SUBSET S : ~Good(t)}}
<1>1. \A t \in SUBSET S : IsFiniteSet(t) /\ Cardinality(t) \in Nat
  BY FS_Subset, FS_CardinalityType
<1>2. ASSUME D # {} PROVE FALSE
  <2>1. D \in SUBSET Nat
    BY <1>1
  <2>2. PICK n \in D : \A m \in D : n =< m
    <3> HIDE DEF D
    <3>1. QED BY <1>2, <2>1, LeastNatural
  <2>3. PICK T \in SUBSET S : ~Good(T) /\ Cardinality(T) = n
    OBVIOUS
  <2>4. ASSUME NEW x \in T PROVE Good(T \ {x})
    <3> DEFINE U == T \ {x}
    <3>1. U \in SUBSET S /\ Cardinality(U) = n - 1
      BY <1>1, <2>3, FS_RemoveElement
    <3>2. n \in Nat /\ ~(n =< Cardinality(U))
      BY <2>1, <3>1
    <3>3. Cardinality(U) \notin D
      <4> HIDE DEF D, U
      <4>1. QED BY <2>2, <3>2
    <3>4. QED BY <3>1, <3>3
  <2>5. CASE T = {}
    BY <2>3, <2>5, SumEmpty
  <2>6. CASE T # {}
    <3> DEFINE p == Picked(T)
    <3>1. p \in T /\ f[p] \in Int
      BY <2>6, PickedIn
    <3>2. IsFiniteSet(T) /\ Sum(T) = f[p] + Sum(T \ {p})
      BY <1>1, <2>6, SumPicked
    <3> HIDE DEF p
    <3>3. Sum(T \ {p}) \in Int
      BY <2>4, <3>1
    <3>4. ASSUME NEW a \in T PROVE Sum(T) = f[a] + Sum(T \ {a})
      <4>1. CASE a = p
        BY <3>2, <4>1
      <4>2. CASE a # p
        <5>1. a \in T \ {p} /\ p \in T \ {a} /\ (T \ {p}) \ {a} = (T \ {a}) \ {p}
          BY <3>1, <4>2
        <5>2. Sum(T \ {p}) = f[a] + Sum((T \ {p}) \ {a})
          BY <2>4, <3>1, <5>1
        <5>3. Sum(T \ {a}) = f[p] + Sum((T \ {a}) \ {p}) /\ Sum(T \ {a}) \in Int
          BY <2>4, <5>1
        <5>4. f[a] \in Int /\ Sum((T \ {p}) \ {a}) \in Int
          <6> DEFINE U == T \ {p}
                     n1 == Cardinality(U \ {a})
          <6>1. f[a] \in Int
            OBVIOUS
          <6>2. IsFiniteSet(U) /\ Cardinality(U) = n - 1 /\ U \in SUBSET S
            BY <1>1, <2>3, <3>1, FS_RemoveElement
          <6>3. n1 = n - 2 /\ U \ {a} \in SUBSET S
            <7>1. Cardinality(U \ {a}) = Cardinality(U) - 1
              BY <5>1, <6>2, FS_RemoveElement
            <7>2. n \in Int
              BY <2>1
            <7>3. QED BY <6>2, <7>1, <7>2
          <6>4. n \in Nat /\ ~(n =< n1)
            BY <2>1, <6>3
          <6>5. n1 \notin D
            <7> HIDE DEF D, n1
            <7>1. QED BY <2>2, <6>4
          <6>6. Good(U \ {a})
            BY <6>3, <6>5
          <6>7. QED BY <6>1, <6>6
        <5> DEFINE r == Sum((T \ {p}) \ {a})
        <5>5. Sum(T \ {a}) = f[p] + r
          BY <5>1, <5>3
        <5>6. Sum(T) = f[p] + (f[a] + r)
          BY <3>2, <5>2
        <5>7. f[a] \in Int /\ f[p] \in Int /\ r \in Int
          BY <3>1, <5>4
        <5> HIDE DEF r, Sum
        <5>8. f[p] + (f[a] + r) = f[a] + (f[p] + r)
          BY <5>7
        <5>9. QED BY <5>5, <5>6, <5>8
      <4>3. QED BY <4>1, <4>2
    <3>5. Sum(T) \in Int
      <4> HIDE DEF Sum
      <4>1. QED BY <3>1, <3>2, <3>3
    <3>6. QED BY <2>3, <3>4, <3>5
  <2>7. QED BY <2>5, <2>6
<1>3. Good(S)
  <2>1. S \in SUBSET S
    OBVIOUS
  <2>2. QED BY <1>2, <2>1
<1>4. QED BY <1>3

\* The sum depends on f on the set only.
LEMMA SumSame ==
  ASSUME NEW S, IsFiniteSet(S), NEW f, NEW g, \A x \in S : f[x] = g[x]
  PROVE  SumFunctionOnSet(f, S) = SumFunctionOnSet(g, S)
<1>1. PICK h : Sums(f, SUBSET S, h)
  BY SumsExist
<1>2. Sums(g, SUBSET S, h)
  <2>1. \A s \in SUBSET S : s # {} => f[Picked(s)] = g[Picked(s)]
    BY PickedIn
  <2>2. \A s \in SUBSET S :
          h[s] = IF s = {} THEN 0 ELSE g[Picked(s)] + h[s \ {Picked(s)}]
    BY <1>1, <2>1 DEF Sums
  <2>3. h = [s \in SUBSET S |-> h[s]]
    BY <1>1 DEF Sums
  <2>4. QED BY <2>2, <2>3 DEF Sums
<1>3. S \in SUBSET S
  OBVIOUS
<1>4. SumFunctionOnSet(f, S) = h[S]
  BY <1>1, <1>3, SumIs
<1>5. SumFunctionOnSet(g, S) = h[S]
  BY <1>2, <1>3, SumIs
<1>6. QED BY <1>4, <1>5

\* A new element adds its value.
LEMMA SumAdd ==
  ASSUME NEW S, IsFiniteSet(S), NEW f, \A x \in S : f[x] \in Int,
         NEW a, a \notin S, f[a] \in Int
  PROVE  SumFunctionOnSet(f, S \cup {a}) = SumFunctionOnSet(f, S) + f[a]
<1> DEFINE T == S \cup {a}
<1>1. IsFiniteSet(T) /\ T \ {a} = S /\ a \in T /\ \A x \in T : f[x] \in Int
  BY FS_AddElement
<1> HIDE DEF T
<1>2. SumFunctionOnSet(f, T) = f[a] + SumFunctionOnSet(f, T \ {a})
  BY <1>1, SumTake
<1>3. SumFunctionOnSet(f, S) \in Int
  BY SumTake
<1>4. SumFunctionOnSet(f, T) = f[a] + SumFunctionOnSet(f, S)
  BY <1>1, <1>2
<1> DEFINE r == SumFunctionOnSet(f, S)
<1> HIDE DEF r
<1>5. f[a] + r = r + f[a]
  BY <1>3 DEF r
<1>6. QED BY <1>4, <1>5 DEF T, r

\* A changed value changes the sum by as much.
LEMMA SumChange ==
  ASSUME NEW S, IsFiniteSet(S), NEW f, NEW g, \A x \in S : f[x] \in Int, \A x \in S : g[x] \in Int,
         NEW a \in S, \A x \in S : x # a => f[x] = g[x]
  PROVE  SumFunctionOnSet(g, S) = (SumFunctionOnSet(f, S) - f[a]) + g[a]
<1> DEFINE T == S \ {a}
<1>1. IsFiniteSet(T) /\ T \subseteq S
  BY FS_RemoveElement
<1>2. SumFunctionOnSet(f, S) = f[a] + SumFunctionOnSet(f, T)
  BY SumTake
<1>3. SumFunctionOnSet(g, S) = g[a] + SumFunctionOnSet(g, T)
  BY SumTake
<1>4. SumFunctionOnSet(f, T) = SumFunctionOnSet(g, T)
  BY <1>1, SumSame
<1>5. SumFunctionOnSet(f, T) \in Int /\ f[a] \in Int /\ g[a] \in Int
  <2>1. \A x \in T : f[x] \in Int
    OBVIOUS
  <2> HIDE DEF T
  <2>2. QED BY <1>1, <2>1, SumTake
<1> HIDE DEF T
<1>6. QED BY <1>2, <1>3, <1>4, <1>5

\* A sum of n values between 0 and b is between 0 and n * b.
LEMMA SumBounds ==
  ASSUME NEW S, IsFiniteSet(S), NEW b \in Nat, NEW f, \A x \in S : f[x] \in 0..b
  PROVE  SumFunctionOnSet(f, S) \in 0..Cardinality(S) * b
<1> DEFINE Good(T) == SumFunctionOnSet(f, T) \in 0..Cardinality(T) * b
           D == {Cardinality(s) : s \in {t \in SUBSET S : ~Good(t)}}
<1>1. \A t \in SUBSET S : IsFiniteSet(t) /\ Cardinality(t) \in Nat
  BY FS_Subset, FS_CardinalityType
<1>2. ASSUME D # {} PROVE FALSE
  <2>1. D \in SUBSET Nat
    BY <1>1
  <2>2. PICK n \in D : \A m \in D : n =< m
    <3> HIDE DEF D
    <3>1. QED BY <1>2, <2>1, LeastNatural
  <2>3. PICK T \in SUBSET S : ~Good(T) /\ Cardinality(T) = n
    OBVIOUS
  <2>4. CASE T = {}
    <3>1. SumFunctionOnSet(f, T) = 0 /\ Cardinality(T) = 0
      BY <2>4, SumEmpty, FS_EmptySet
    <3>2. QED BY <2>3, <3>1
  <2>5. CASE T # {}
    <3>1. PICK a \in T : TRUE
      BY <2>5
    <3> DEFINE U == T \ {a}
    <3>2. IsFiniteSet(T) /\ U \in SUBSET S /\ Cardinality(U) = n - 1 /\ n \in Nat
      BY <1>1, <2>1, <2>3, FS_RemoveElement
    <3>3. Good(U)
      <4>1. ~(n =< Cardinality(U))
        BY <3>2
      <4>2. Cardinality(U) \notin D
        <5> HIDE DEF D, U
        <5>1. QED BY <2>2, <4>1
      <4>3. QED BY <3>2, <4>2
    <3>4. SumFunctionOnSet(f, T) = f[a] + SumFunctionOnSet(f, U)
      <4>1. \A x \in T : f[x] \in Int
        OBVIOUS
      <4>2. QED BY <3>2, <4>1, SumTake
    <3>5. f[a] \in 0..b /\ (n - 1) * b + b = n * b /\ (n - 1) * b \in Int
      <4>1. n \in Int /\ b \in Int
        BY <3>2
      <4>2. QED BY <4>1
    <3>6. SumFunctionOnSet(f, U) \in 0..(n - 1) * b
      BY <3>2, <3>3
    <3> HIDE DEF U
    <3>7. SumFunctionOnSet(f, T) \in 0..n * b
      BY <3>4, <3>5, <3>6
    <3>8. QED BY <2>3, <3>7
  <2>6. QED BY <2>4, <2>5
<1>3. Good(S)
  <2>1. S \in SUBSET S
    OBVIOUS
  <2>2. QED BY <1>2, <2>1
<1>4. QED BY <1>3

\* Among naturals, a positive value makes a positive sum.
LEMMA SumPositive ==
  ASSUME NEW S, IsFiniteSet(S), NEW b \in Nat, NEW f, \A x \in S : f[x] \in 0..b,
         NEW a \in S, f[a] > 0
  PROVE  SumFunctionOnSet(f, S) > 0
<1> DEFINE T == S \ {a}
<1>1. IsFiniteSet(T) /\ \A x \in T : f[x] \in 0..b
  BY FS_RemoveElement
<1> HIDE DEF T
<1>2. SumFunctionOnSet(f, T) \in 0..Cardinality(T) * b
  BY <1>1, SumBounds
<1>3. SumFunctionOnSet(f, S) = f[a] + SumFunctionOnSet(f, T)
  BY SumTake DEF T
<1>4. f[a] \in Int
  OBVIOUS
<1>5. Cardinality(T) * b \in Int
  <2>1. Cardinality(T) \in Nat
    BY <1>1, FS_CardinalityType
  <2>2. QED BY <2>1
<1>6. QED BY <1>2, <1>3, <1>4, <1>5

LEMMA SumZero ==
  ASSUME NEW S, IsFiniteSet(S), NEW f, \A x \in S : f[x] = 0
  PROVE  SumFunctionOnSet(f, S) = 0
<1>1. \A x \in S : f[x] \in 0..0
  OBVIOUS
<1>2. 0 \in Nat /\ Cardinality(S) \in Nat
  BY FS_CardinalityType
<1>3. SumFunctionOnSet(f, S) \in 0..Cardinality(S) * 0
  BY <1>1, <1>2, SumBounds
<1>4. QED BY <1>2, <1>3

\* What is zero does not count.
LEMMA SumRestrict ==
  ASSUME NEW T, IsFiniteSet(T), NEW S \in SUBSET T, NEW f, \A x \in T : f[x] \in Int,
         \A x \in T \ S : f[x] = 0
  PROVE  SumFunctionOnSet(f, T) = SumFunctionOnSet(f, S)
<1> DEFINE Good(X) == SumFunctionOnSet(f, S \cup X) = SumFunctionOnSet(f, S)
           D == {Cardinality(s) : s \in {t \in SUBSET (T \ S) : ~Good(t)}}
<1>1. \A t \in SUBSET T : IsFiniteSet(t) /\ Cardinality(t) \in Nat
  BY FS_Subset, FS_CardinalityType
<1>2. ASSUME D # {} PROVE FALSE
  <2>1. D \in SUBSET Nat
    BY <1>1
  <2>2. PICK n \in D : \A m \in D : n =< m
    <3> HIDE DEF D
    <3>1. QED BY <1>2, <2>1, LeastNatural
  <2>3. PICK X \in SUBSET (T \ S) : ~Good(X) /\ Cardinality(X) = n
    OBVIOUS
  <2>4. X # {}
    BY <2>3
  <2>5. PICK a \in X : TRUE
    BY <2>4
  <2> DEFINE Y == X \ {a}
  <2>6. IsFiniteSet(X) /\ Y \in SUBSET (T \ S) /\ Cardinality(Y) = n - 1 /\ n \in Nat
    BY <1>1, <2>1, <2>3, <2>5, FS_RemoveElement
  <2>7. Good(Y)
    <3>1. ~(n =< Cardinality(Y))
      BY <2>6
    <3>2. Cardinality(Y) \notin D
      <4> HIDE DEF D, Y
      <4>1. QED BY <2>2, <3>1
    <3>3. QED BY <2>6, <3>2
  <2> DEFINE U == S \cup Y
  <2>8. U \in SUBSET T /\ a \notin U /\ f[a] = 0 /\ S \cup X = U \cup {a}
    BY <2>5, <2>6
  <2>9. IsFiniteSet(U) /\ \A x \in U : f[x] \in Int
    BY <1>1, <2>8
  <2> HIDE DEF U
  <2>10. /\ SumFunctionOnSet(f, U \cup {a}) = SumFunctionOnSet(f, U) + f[a]
         /\ SumFunctionOnSet(f, U) \in Int
    <3>1. f[a] \in Int
      BY <2>8
    <3>2. a \notin U
      BY <2>8
    <3>3. SumFunctionOnSet(f, U \cup {a}) = SumFunctionOnSet(f, U) + f[a]
      BY ONLY <2>9, <3>1, <3>2, SumAdd
    <3>4. SumFunctionOnSet(f, U) \in Int
      BY ONLY <2>9, SumTake
    <3>5. QED BY <3>3, <3>4
  <2>11. SumFunctionOnSet(f, U) = SumFunctionOnSet(f, S)
    BY <2>7 DEF U
  <2>12. SumFunctionOnSet(f, S \cup X) = SumFunctionOnSet(f, U)
    <3>1. SumFunctionOnSet(f, S \cup X) = SumFunctionOnSet(f, U) + f[a]
      BY <2>8, <2>10
    <3>2. QED BY <2>8, <2>10, <3>1
  <2>13. QED BY <2>3, <2>11, <2>12
<1>3. Good(T \ S)
  <2>1. T \ S \in SUBSET (T \ S)
    OBVIOUS
  <2>2. QED BY <1>2, <2>1
<1>4. QED BY <1>3
=============================================================================
