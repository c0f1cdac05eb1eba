--------------------------- MODULE Pricing_proofs ---------------------------
(* A buyer pays what was shown and gets back what was paid, for any prices,  *)
(* discounts, quantities and edits.  The money is in three sums: of the      *)
(* shares of the tickets, of the line items of a session, of the refunds.    *)
EXTENDS Pricing, FiniteSetTheorems, FunctionTheorems, TLAPS

-----------------------------------------------------------------------------
(* What a sum is.  MapThenSumSet is a recursive function over the subsets of *)
(* its set: one equation, Adds, of which it is some solution. Induction over *)
(* finite sets that its laws need is written out with the smallest set that  *)
(* breaks them (SmallestSubset).                                             *)

Pick(s) == CHOOSE x \in s : TRUE

\* g adds up f over every subset of S, taking the elements as CHOOSE gives them.
Adds(g, f, S) ==
    g = [s \in SUBSET S |-> IF s = {} THEN 0 ELSE f[Pick(s)] + g[s \ {Pick(s)}]]

\* PaidFor is such a sum, of the shares of a quote.
Sum(f, S) == MapThenSumSet(LAMBDA x : f[x], S)

\* Of any sets of parts of a finite set, one has no part of its own among them.
LEMMA SmallestSubset ==
    ASSUME NEW S, IsFiniteSet(S), NEW T, T \subseteq SUBSET S, T # {}
    PROVE  \E x \in T : \A y \in T : y \subseteq x => y = x
<1>1. IsWellFoundedOn(StrictSubsetOrdering(S), SUBSET S)
  BY FS_StrictSubsetOrderingWellFounded, FS_FiniteSubsetsOfFinite
<1>2. PICK x \in T : \A y \in T : ~ (<<y, x>> \in StrictSubsetOrdering(S))
  BY <1>1, WFMin
<1> QED BY <1>2 DEF StrictSubsetOrdering

\* If the equation has a solution, a sum is what one of them says.
LEMMA SumIs ==
    ASSUME NEW f, NEW S, NEW g, Adds(g, f, S)
    PROVE  \E h : Adds(h, f, S) /\ Sum(f, S) = h[S]
BY DEF Sum, MapThenSumSet, MapThenFoldSet, Adds, Pick

\* Whole cents and the rest.
LEMMA Division ==
    ASSUME NEW d \in Nat, NEW n \in Nat \ {0}
    PROVE  /\ d \div n \in Nat /\ d % n \in 0 .. (n - 1)
           /\ d = n * (d \div n) + (d % n)
OBVIOUS

LEMMA Picked == ASSUME NEW s, s # {} PROVE Pick(s) \in s
BY DEF Pick

LEMMA AddsAt ==
    ASSUME NEW f, NEW S, NEW g, Adds(g, f, S), NEW s \in SUBSET S
    PROVE  g[s] = IF s = {} THEN 0 ELSE f[Pick(s)] + g[s \ {Pick(s)}]
BY DEF Adds

\* Two solutions agree wherever both are defined.
LEMMA AddsAgree ==
    ASSUME NEW f, NEW S, NEW T, IsFiniteSet(S),
           NEW g, NEW h, Adds(g, f, S), Adds(h, f, T),
           NEW s, s \subseteq S, s \subseteq T
    PROVE  g[s] = h[s]
<1> DEFINE bad == {r \in SUBSET S : r \subseteq T /\ g[r] # h[r]}
<1>1. SUFFICES ASSUME bad # {} PROVE FALSE
  OBVIOUS
<1>2. bad \subseteq SUBSET S
  OBVIOUS
<1>3. \E x \in bad : \A y \in bad : y \subseteq x => y = x
  <2> HIDE DEF bad
  <2> QED BY <1>1, <1>2, SmallestSubset
<1>4. PICK x \in bad : \A y \in bad : y \subseteq x => y = x
  BY <1>3
<1>5. x \in SUBSET S /\ x \in SUBSET T /\ g[x] # h[x]
  BY <1>4
<1>6. x # {}
  BY <1>5, AddsAt
<1>7. Pick(x) \in x
  BY <1>6, Picked
<1>8. g[x \ {Pick(x)}] = h[x \ {Pick(x)}]
  BY <1>4, <1>7
<1> HIDE DEF bad
<1> QED BY <1>5, <1>6, <1>8, AddsAt

\* There is a solution: the smallest set without one would get it from the
\* solutions of its parts.
LEMMA AddsExists ==
    ASSUME NEW f, NEW S, IsFiniteSet(S)
    PROVE  \E g : Adds(g, f, S)
<1> DEFINE bad == {s \in SUBSET S : ~ \E g : Adds(g, f, s)}
<1>1. SUFFICES ASSUME bad # {} PROVE FALSE
  OBVIOUS
<1>a. bad \subseteq SUBSET S
  OBVIOUS
<1>b. \E x \in bad : \A y \in bad : y \subseteq x => y = x
  <2> HIDE DEF bad
  <2> QED BY <1>1, <1>a, SmallestSubset
<1>2. PICK x \in bad : \A y \in bad : y \subseteq x => y = x
  BY <1>b
<1> DEFINE G(y) == CHOOSE g : Adds(g, f, y)
           h == [y \in SUBSET x |-> IF y = {} THEN 0
                                    ELSE f[Pick(y)] + G(y \ {Pick(y)})[y \ {Pick(y)}]]
<1>3. ASSUME NEW y \in SUBSET x, y # x PROVE Adds(G(y), f, y) /\ IsFiniteSet(y)
  <2>1. y \in SUBSET S /\ y \notin bad
    BY <1>2, <1>3
  <2> QED BY <2>1, FS_Subset
<1>4. ASSUME NEW z \in SUBSET x, z # x PROVE h[z] = G(z)[z]
  <2>1. CASE z = {}
    <3>1. h[z] = 0
      BY <2>1
    <3>2. Adds(G(z), f, z)
      BY <1>3, <1>4
    <3> HIDE DEF G
    <3>3. G(z)[z] = 0
      BY <3>2, <2>1, AddsAt
    <3> QED BY <3>1, <3>3
  <2>2. CASE z # {}
    <3> DEFINE q == Pick(z)
               w == z \ {q}
    <3>1. q \in z /\ w \in SUBSET x /\ w # x
      BY <2>2, Picked
    <3>2. Adds(G(z), f, z) /\ Adds(G(w), f, w) /\ IsFiniteSet(w)
      BY <1>3, <1>4, <3>1
    <3>3. h[z] = f[q] + G(w)[w]
      BY <1>4, <2>2
    <3> HIDE DEF G
    <3>4. G(z)[z] = f[q] + G(z)[w]
      BY <3>2, <2>2, AddsAt
    <3>5. G(z)[w] = G(w)[w]
      <4>1. w \subseteq z /\ w \subseteq w
        OBVIOUS
      <4> HIDE DEF w
      <4>2. G(w)[w] = G(z)[w]
        BY <3>2, <4>1, AddsAgree
      <4> QED BY <4>2
    <3> QED BY <3>3, <3>4, <3>5
  <2> QED BY <2>1, <2>2
<1>5. ASSUME NEW y \in SUBSET x
      PROVE  h[y] = IF y = {} THEN 0 ELSE f[Pick(y)] + h[y \ {Pick(y)}]
  <2>1. CASE y = {}
    BY <2>1
  <2>2. CASE y # {}
    <3>1. Pick(y) \in y
      BY <2>2, Picked
    <3>2. y \ {Pick(y)} \in SUBSET x /\ y \ {Pick(y)} # x
      BY <3>1
    <3>3. h[y \ {Pick(y)}] = G(y \ {Pick(y)})[y \ {Pick(y)}]
      BY <1>4, <3>2
    <3> HIDE DEF G
    <3>4. h[y] = f[Pick(y)] + G(y \ {Pick(y)})[y \ {Pick(y)}]
      BY <2>2
    <3> HIDE DEF h
    <3> QED BY <2>2, <3>3, <3>4
  <2> QED BY <2>1, <2>2
<1>6. h = [y \in SUBSET x |-> h[y]]
  OBVIOUS
<1> HIDE DEF h
<1>7. Adds(h, f, x)
  BY <1>5, <1>6 DEF Adds
<1> QED BY <1>2, <1>7

\* All sums over parts of a set are values of one solution.
LEMMA SumValue ==
    ASSUME NEW f, NEW S, IsFiniteSet(S)
    PROVE  \E g : Adds(g, f, S) /\ \A s \in SUBSET S : Sum(f, s) = g[s]
<1>1. PICK g : Adds(g, f, S)
  BY AddsExists
<1>2. ASSUME NEW s \in SUBSET S PROVE Sum(f, s) = g[s]
  <2>1. IsFiniteSet(s)
    BY FS_Subset
  <2>2. PICK k : Adds(k, f, s)
    BY <2>1, AddsExists
  <2>3. PICK h : Adds(h, f, s) /\ Sum(f, s) = h[s]
    BY <2>2, SumIs
  <2>4. h[s] = g[s]
    BY <1>1, <2>1, <2>3, AddsAgree
  <2> QED BY <2>3, <2>4
<1> QED BY <1>1, <1>2

-----------------------------------------------------------------------------
(* Laws of sums of natural numbers: order does not matter, disjoint parts    *)
(* add, a part is no more than the whole, equal terms multiply.              *)

LEMMA SumEmpty == ASSUME NEW f PROVE Sum(f, {}) = 0
<1>1. PICK g : Adds(g, f, {}) /\ \A s \in SUBSET {} : Sum(f, s) = g[s]
  BY SumValue, FS_EmptySet
<1> QED BY <1>1, AddsAt

LEMMA SumPick ==
    ASSUME NEW f, NEW S, IsFiniteSet(S), S # {}
    PROVE  /\ Pick(S) \in S
           /\ Sum(f, S) = f[Pick(S)] + Sum(f, S \ {Pick(S)})
<1>1. PICK g : Adds(g, f, S) /\ \A s \in SUBSET S : Sum(f, s) = g[s]
  BY SumValue
<1>2. Sum(f, S) = g[S] /\ Sum(f, S \ {Pick(S)}) = g[S \ {Pick(S)}]
  BY <1>1
<1> QED BY <1>1, <1>2, AddsAt, Picked

LEMMA SumNat ==
    ASSUME NEW f, NEW S, IsFiniteSet(S), \A i \in S : f[i] \in Nat
    PROVE  Sum(f, S) \in Nat
<1> DEFINE bad == {s \in SUBSET S : Sum(f, s) \notin Nat}
<1>1. SUFFICES ASSUME bad # {} PROVE FALSE
  OBVIOUS
<1>2. bad \subseteq SUBSET S
  OBVIOUS
<1>3. \E x \in bad : \A y \in bad : y \subseteq x => y = x
  <2> HIDE DEF bad
  <2> QED BY <1>1, <1>2, SmallestSubset
<1>4. PICK x \in bad : \A y \in bad : y \subseteq x => y = x
  BY <1>3
<1>5. x \in SUBSET S /\ IsFiniteSet(x) /\ Sum(f, x) \notin Nat
  BY <1>4, FS_Subset
<1>6. x # {}
  BY <1>5, SumEmpty
<1>7. Pick(x) \in x /\ Sum(f, x) = f[Pick(x)] + Sum(f, x \ {Pick(x)})
  BY <1>5, <1>6, SumPick
<1>8. Sum(f, x \ {Pick(x)}) \in Nat
  BY <1>4, <1>7
<1> QED BY <1>5, <1>7, <1>8

LEMMA SumStep ==
    ASSUME NEW f, NEW S, IsFiniteSet(S), \A i \in S : f[i] \in Nat, NEW i \in S
    PROVE  Sum(f, S) = f[i] + Sum(f, S \ {i})
<1> DEFINE bad == {s \in SUBSET S : \E j \in s : Sum(f, s) # f[j] + Sum(f, s \ {j})}
<1>1. SUFFICES ASSUME bad # {} PROVE FALSE
  OBVIOUS
<1>2. bad \subseteq SUBSET S
  OBVIOUS
<1>3. \E x \in bad : \A y \in bad : y \subseteq x => y = x
  <2> HIDE DEF bad
  <2> QED BY <1>1, <1>2, SmallestSubset
<1>4. PICK x \in bad : \A y \in bad : y \subseteq x => y = x
  BY <1>3
<1>5. x \in SUBSET S /\ IsFiniteSet(x)
  BY <1>4, FS_Subset
<1>6. PICK j \in x : Sum(f, x) # f[j] + Sum(f, x \ {j})
  BY <1>4
<1> DEFINE p == Pick(x)
<1>7. p \in x /\ Sum(f, x) = f[p] + Sum(f, x \ {p})
  BY <1>5, <1>6, SumPick
<1>8. p # j
  BY <1>6, <1>7
<1>9. x \ {p} \notin bad /\ x \ {j} \notin bad
  BY <1>4, <1>6, <1>7
<1>10. Sum(f, x \ {p}) = f[j] + Sum(f, (x \ {p}) \ {j})
  BY <1>5, <1>6, <1>8, <1>9
<1>11. Sum(f, x \ {j}) = f[p] + Sum(f, (x \ {j}) \ {p})
  BY <1>5, <1>7, <1>8, <1>9
<1>12. (x \ {p}) \ {j} = (x \ {j}) \ {p} /\ IsFiniteSet((x \ {p}) \ {j})
  BY <1>5, FS_Subset
<1> HIDE DEF p, bad
<1>13. Sum(f, (x \ {p}) \ {j}) \in Nat /\ f[j] \in Nat /\ f[p] \in Nat
  BY <1>5, <1>6, <1>7, <1>12, SumNat
<1> QED BY <1>6, <1>7, <1>10, <1>11, <1>12, <1>13

LEMMA SumUnion ==
    ASSUME NEW f, NEW S, NEW T, IsFiniteSet(S), IsFiniteSet(T),
           \A i \in S \union T : f[i] \in Nat, S \intersect T = {}
    PROVE  Sum(f, S \union T) = Sum(f, S) + Sum(f, T)
<1> DEFINE bad == {s \in SUBSET T : Sum(f, S \union s) # Sum(f, S) + Sum(f, s)}
<1>1. SUFFICES ASSUME bad # {} PROVE FALSE
  OBVIOUS
<1>2. bad \subseteq SUBSET T
  OBVIOUS
<1>3. \E x \in bad : \A y \in bad : y \subseteq x => y = x
  <2> HIDE DEF bad
  <2> QED BY <1>1, <1>2, SmallestSubset
<1>4. PICK x \in bad : \A y \in bad : y \subseteq x => y = x
  BY <1>3
<1>5. x \in SUBSET T /\ IsFiniteSet(x) /\ Sum(f, S \union x) # Sum(f, S) + Sum(f, x)
  BY <1>4, FS_Subset
<1>6. Sum(f, S) \in Nat
  BY SumNat
<1>7. x # {}
  <2>1. SUFFICES ASSUME x = {} PROVE FALSE
    OBVIOUS
  <2>2. S \union x = S
    BY <2>1
  <2>3. Sum(f, S \union x) = Sum(f, S)
    BY <2>2, Zenon
  <2>4. Sum(f, x) = 0
    BY <2>1, SumEmpty, Zenon
  <2>5. Sum(f, S) + Sum(f, x) = Sum(f, S)
    BY <1>6, <2>4
  <2> QED BY <1>5, <2>3, <2>5
<1>8. PICK i \in x : TRUE
  BY <1>7
<1> DEFINE y == x \ {i}
<1>9. /\ y \notin bad /\ IsFiniteSet(y) /\ IsFiniteSet(S \union x)
      /\ (S \union x) \ {i} = S \union y
  BY <1>4, <1>5, <1>8, FS_Subset, FS_Union
<1>10. Sum(f, S \union y) = Sum(f, S) + Sum(f, y)
  BY <1>5, <1>9
<1>11. Sum(f, x) = f[i] + Sum(f, y)
  BY <1>5, <1>8, SumStep
<1>12. Sum(f, S \union x) = f[i] + Sum(f, S \union y)
  <2> HIDE DEF y
  <2> QED BY <1>5, <1>8, <1>9, SumStep
<1>13. Sum(f, y) \in Nat /\ f[i] \in Nat
  BY <1>5, <1>8, <1>9, SumNat
<1> HIDE DEF y, bad
<1> QED BY <1>5, <1>6, <1>10, <1>11, <1>12, <1>13

LEMMA SumPart ==
    ASSUME NEW f, NEW S, IsFiniteSet(S), \A i \in S : f[i] \in Nat, NEW T \in SUBSET S
    PROVE  Sum(f, T) <= Sum(f, S) /\ Sum(f, T) \in Nat /\ Sum(f, S) \in Nat
<1>1. IsFiniteSet(T) /\ IsFiniteSet(S \ T) /\ T \union (S \ T) = S
  BY FS_Subset
<1>2. Sum(f, S) = Sum(f, T) + Sum(f, S \ T)
  BY <1>1, SumUnion
<1>3. Sum(f, T) \in Nat /\ Sum(f, S \ T) \in Nat
  BY <1>1, SumNat
<1> QED BY <1>2, <1>3

LEMMA SumOne ==
    ASSUME NEW f, NEW i, f[i] \in Nat PROVE Sum(f, {i}) = f[i]
<1>1. Sum(f, {i}) = f[i] + Sum(f, {i} \ {i})
  BY FS_Singleton, SumStep
<1> QED BY <1>1, SumEmpty, {i} \ {i} = {}

LEMMA SumOfEqual ==
    ASSUME NEW f, NEW S, IsFiniteSet(S), NEW c \in Nat, \A i \in S : f[i] = c
    PROVE  Sum(f, S) = c * Cardinality(S)
<1> DEFINE bad == {s \in SUBSET S : Sum(f, s) # c * Cardinality(s)}
<1>1. SUFFICES ASSUME bad # {} PROVE FALSE
  OBVIOUS
<1>2. bad \subseteq SUBSET S
  OBVIOUS
<1>3. \E x \in bad : \A y \in bad : y \subseteq x => y = x
  <2> HIDE DEF bad
  <2> QED BY <1>1, <1>2, SmallestSubset
<1>4. PICK x \in bad : \A y \in bad : y \subseteq x => y = x
  BY <1>3
<1>5. x \in SUBSET S /\ IsFiniteSet(x) /\ Sum(f, x) # c * Cardinality(x)
  BY <1>4, FS_Subset
<1>6. x # {}
  BY <1>5, SumEmpty, FS_EmptySet
<1>7. PICK i \in x : TRUE
  BY <1>6
<1> DEFINE y == x \ {i}
<1>8. y \notin bad /\ y \in SUBSET S
  BY <1>4, <1>5, <1>7
<1>9. /\ Sum(f, y) = c * Cardinality(y) /\ f[i] = c
      /\ Sum(f, x) = f[i] + Sum(f, y)
  BY <1>5, <1>7, <1>8, SumStep
<1>10. /\ Cardinality(x) \in Nat /\ Cardinality(x) # 0
       /\ Cardinality(y) = Cardinality(x) - 1
  BY <1>5, <1>6, <1>7, FS_RemoveElement, FS_CardinalityType, FS_EmptySet
<1> HIDE DEF y, bad
<1> QED BY <1>5, <1>9, <1>10

-----------------------------------------------------------------------------
(* The shares of a quote: each is at least a cent and at most the price, and *)
(* together they are the total, whatever does not divide.                    *)

Kinds == {"none", "fixed", "percentage"}

TermRows == [quantity : 1 .. MaxQuantity, unit : Prices, version : Nat, kind : Kinds, value : Nat]

LEMMA Bounds ==
    /\ Scale \in Nat \ {0} /\ Points \subseteq Nat /\ FixedValues \subseteq Nat
    /\ Prices \subseteq Nat /\ MaxQuantity \in Nat \ {0} /\ MinPaid \in Nat
    /\ MaxQuantity <= MinPaid
BY MoneyAssumption

\* As many numbers as ordinals of tickets.
LEMMA SpanSize ==
    ASSUME NEW a \in Nat, NEW b \in Nat, a <= b
    PROVE  IsFiniteSet(a .. (b - 1)) /\ Cardinality(a .. (b - 1)) = b - a
<1>1. a \in Int /\ b - 1 \in Int
  OBVIOUS
<1>2. /\ IsFiniteSet(a .. (b - 1))
      /\ Cardinality(a .. (b - 1)) = IF a > b - 1 THEN 0 ELSE (b - 1) - a + 1
  BY <1>1, FS_Interval, Zenon
<1> QED BY <1>2

LEMMA Amounts ==
    ASSUME NEW t \in TermRows, Payable(t)
    PROVE  /\ t.quantity \in Nat \ {0} /\ t.unit \in Nat
           /\ Discount(t) \in Nat /\ Total(t) \in Nat /\ t.quantity <= Total(t)
           /\ Total(t) = t.unit * t.quantity - Discount(t)
<1>1. t.quantity \in Nat \ {0} /\ t.unit \in Nat /\ t.value \in Nat /\ t.quantity <= MinPaid
  <2>1. t.quantity \in 1 .. MaxQuantity /\ t.unit \in Prices /\ t.value \in Nat
    BY DEF TermRows
  <2>2. t.unit \in Nat
    BY <2>1, Bounds
  <2>3. t.quantity \in Nat \ {0}
    BY <2>1, Bounds
  <2>4. t.quantity <= MinPaid
    BY <2>1, Bounds
  <2> QED BY <2>1, <2>2, <2>3, <2>4
<1>2. Subtotal(t) \in Nat
  BY <1>1 DEF Subtotal
<1>3. Subtotal(t) * t.value \in Nat /\ Scale \in Nat \ {0}
  BY <1>1, <1>2, Bounds
<1>4. (Subtotal(t) * t.value) \div Scale \in Nat
  BY <1>3, Division
<1>5. Least(t.value, Subtotal(t)) \in Nat
  BY <1>1, <1>2 DEF Least
<1>6. Discount(t) \in Nat
  BY <1>4, <1>5 DEF Discount, TermRows, Kinds
<1>7. Total(t) >= MinPaid /\ MinPaid \in Nat
  BY Bounds DEF Payable
<1>8. Total(t) = Subtotal(t) - Discount(t) /\ Total(t) \in Int
  BY <1>2, <1>6 DEF Total
<1> QED BY <1>1, <1>6, <1>7, <1>8 DEF Subtotal

Shared(t) == Discount(t) \div t.quantity
Rest(t) == Discount(t) % t.quantity

\* The least total is not below the number of tickets, so that a cent of every
\* ticket remains.
LEMMA ShareBounds ==
    ASSUME NEW t \in TermRows, Payable(t)
    PROVE  /\ Shared(t) \in Nat /\ Rest(t) \in 0 .. (t.quantity - 1)
           /\ Discount(t) = t.quantity * Shared(t) + Rest(t)
           /\ Shared(t) + (IF Rest(t) > 0 THEN 1 ELSE 0) <= t.unit - 1
<1> DEFINE n == t.quantity
           d == Discount(t)
           q == Shared(t)
           r == Rest(t)
<1>1. n \in Nat \ {0} /\ t.unit \in Nat /\ d \in Nat /\ n <= t.unit * n - d
  BY Amounts
<1>2. q \in Nat /\ r \in 0 .. (n - 1) /\ d = n * q + r
  BY <1>1, Division DEF Shared, Rest
<1> HIDE DEF n, d, q, r
<1>3. q + 1 <= t.unit
  <2>1. SUFFICES ASSUME t.unit <= q PROVE FALSE
    BY <1>1, <1>2
  <2>2. t.unit * n <= q * n
    BY <2>1, <1>1, <1>2
  <2> QED BY <2>2, <1>1, <1>2
<1>4. r > 0 => q + 2 <= t.unit
  <2>1. SUFFICES ASSUME r > 0, t.unit = q + 1 PROVE FALSE
    BY <1>1, <1>2, <1>3
  <2>2. t.unit * n = q * n + n
    BY <2>1, <1>1, <1>2
  <2> QED BY <2>1, <2>2, <1>1, <1>2
<1>5. q + (IF r > 0 THEN 1 ELSE 0) <= t.unit - 1
  BY <1>1, <1>2, <1>3, <1>4
<1> QED BY <1>2, <1>5 DEF n, d, q, r

LEMMA ShareOfTicket ==
    ASSUME NEW t \in TermRows, Payable(t), NEW i \in 0 .. (t.quantity - 1)
    PROVE  /\ Allocations(t)[i] \in 1 .. t.unit
           /\ Allocations(t)[i] = t.unit - Shared(t) - (IF i < Rest(t) THEN 1 ELSE 0)
<1>1. t.unit \in Nat /\ t.quantity \in Nat
  BY Amounts
<1>2. Allocations(t)[i] = t.unit - (Shared(t) + (IF i < Rest(t) THEN 1 ELSE 0))
  BY DEF Allocations, DiscountShare, Shared, Rest
<1> QED BY <1>1, <1>2, ShareBounds

\* The first tickets carry a cent more of the discount.
LEMMA SharesAddUp ==
    ASSUME NEW t \in TermRows, Payable(t)
    PROVE  Sum(Allocations(t), 0 .. (t.quantity - 1)) = Total(t)
<1> DEFINE f == Allocations(t)
           n == t.quantity
           low == 0 .. (Rest(t) - 1)
           high == Rest(t) .. (n - 1)
<1>1. /\ n \in Nat \ {0} /\ t.unit \in Nat /\ Discount(t) \in Nat
      /\ Total(t) = t.unit * n - Discount(t)
  BY Amounts
<1>2. /\ Shared(t) \in Nat /\ Rest(t) \in 0 .. (n - 1)
      /\ Discount(t) = n * Shared(t) + Rest(t)
      /\ Shared(t) + (IF Rest(t) > 0 THEN 1 ELSE 0) <= t.unit - 1
  BY ShareBounds
<1>3. /\ low \union high = 0 .. (n - 1) /\ low \intersect high = {}
      /\ IsFiniteSet(low) /\ IsFiniteSet(high)
      /\ Cardinality(low) = Rest(t) /\ Cardinality(high) = n - Rest(t)
  <2>1. low \union high = 0 .. (n - 1) /\ low \intersect high = {}
    BY <1>1, <1>2
  <2>2. 0 \in Nat /\ Rest(t) \in Nat /\ 0 <= Rest(t) /\ Rest(t) <= n
    BY <1>1, <1>2
  <2>3. IsFiniteSet(low) /\ Cardinality(low) = Rest(t) - 0
    BY <2>2, SpanSize
  <2>4. IsFiniteSet(high) /\ Cardinality(high) = n - Rest(t)
    BY <1>1, <2>2, SpanSize
  <2>5. Rest(t) - 0 = Rest(t)
    BY <2>2
  <2> QED BY <2>1, <2>3, <2>4, <2>5
<1>4. \A i \in low \union high : f[i] \in Nat
  BY <1>1, <1>3, ShareOfTicket
<1>5. \A i \in low : f[i] = t.unit - Shared(t) - 1
  <2>1. SUFFICES ASSUME NEW i \in low PROVE f[i] = t.unit - Shared(t) - 1
    OBVIOUS
  <2>2. i \in 0 .. (n - 1) /\ i < Rest(t)
    BY <2>1, <1>1, <1>2
  <2> QED BY <2>2, ShareOfTicket
<1>6. \A i \in high : f[i] = t.unit - Shared(t)
  BY <1>1, <1>2, <1>3, ShareOfTicket
<1> HIDE DEF f, low, high
<1>7. Sum(f, 0 .. (n - 1)) = Sum(f, low) + Sum(f, high)
  BY <1>3, <1>4, SumUnion
<1>8. Sum(f, high) = (t.unit - Shared(t)) * (n - Rest(t))
  <2>1. t.unit - Shared(t) \in Nat
    BY <1>1, <1>2
  <2> QED BY <2>1, <1>3, <1>6, SumOfEqual
<1>9. Sum(f, low) = (t.unit - Shared(t) - 1) * Rest(t)
  <2>1. t.unit - Shared(t) - 1 \in Nat
    BY <1>1, <1>2
  <2> QED BY <2>1, <1>3, <1>5, SumOfEqual
<1> HIDE DEF n
<1>10. ASSUME NEW u \in Int, NEW s \in Int, NEW k \in Int, NEW r \in Int
       PROVE  (u - s - 1) * r + (u - s) * (k - r) = u * k - (k * s + r)
  OBVIOUS
<1>11. Sum(f, 0 .. (n - 1)) = t.unit * n - (n * Shared(t) + Rest(t))
  BY <1>1, <1>2, <1>7, <1>8, <1>9, <1>10
<1>12. Sum(f, 0 .. (n - 1)) = Total(t)
  BY <1>1, <1>2, <1>11
<1> QED BY <1>12 DEF f, n

-----------------------------------------------------------------------------
(* The other two sums, over the line items of a session and over the refunds, *)
(* are sums of functions too.                                                *)

Costs(L) == [l \in L |-> l.unit * l.count]

AddsCosts(g, L) ==
    g = [s \in SUBSET L |-> IF s = {} THEN 0
                            ELSE (Pick(s).unit * Pick(s).count) + g[s \ {Pick(s)}]]

LEMMA AmountIsSum ==
    ASSUME NEW q, IsFiniteSet(LineItems(q))
    PROVE  AmountTotal(q) = Sum(Costs(LineItems(q)), LineItems(q))
<1> DEFINE L == LineItems(q)
<1> HIDE DEF L
<1>1. ASSUME NEW g PROVE AddsCosts(g, L) <=> Adds(g, Costs(L), L)
  <2>1. ASSUME NEW s \in SUBSET L, s # {}
        PROVE  Costs(L)[Pick(s)] = Pick(s).unit * Pick(s).count
    BY <2>1, Picked DEF Costs
  <2>2. [s \in SUBSET L |-> IF s = {} THEN 0
                            ELSE (Pick(s).unit * Pick(s).count) + g[s \ {Pick(s)}]]
        = [s \in SUBSET L |-> IF s = {} THEN 0 ELSE Costs(L)[Pick(s)] + g[s \ {Pick(s)}]]
    BY <2>1
  <2> QED BY <2>2 DEF AddsCosts, Adds
<1>2. IsFiniteSet(L)
  BY DEF L
<1>3. PICK g : AddsCosts(g, L)
  BY <1>1, <1>2, AddsExists
<1>4. \E h : AddsCosts(h, L) /\ AmountTotal(q) = h[L]
  BY <1>3 DEF AmountTotal, MapThenSumSet, MapThenFoldSet, AddsCosts, Pick, L
<1>5. PICK h : AddsCosts(h, L) /\ AmountTotal(q) = h[L]
  BY <1>4
<1>6. Adds(h, Costs(L), L)
  BY <1>1, <1>5
<1>7. PICK k : Adds(k, Costs(L), L) /\ Sum(Costs(L), L) = k[L]
  BY <1>6, SumIs
<1>8. h[L] = k[L]
  BY <1>2, <1>6, <1>7, AddsAgree
<1> QED BY <1>5, <1>7, <1>8 DEF L

Asked(R) == [r \in R |-> r.asked]

AskedSum(R) == MapThenSumSet(LAMBDA r : r.asked, R)

AddsAsked(g, R) ==
    g = [s \in SUBSET R |-> IF s = {} THEN 0 ELSE Pick(s).asked + g[s \ {Pick(s)}]]

LEMMA AskedIsSum ==
    ASSUME NEW R, IsFiniteSet(R)
    PROVE  AskedSum(R) = Sum(Asked(R), R)
<1>1. ASSUME NEW g PROVE AddsAsked(g, R) <=> Adds(g, Asked(R), R)
  <2>1. ASSUME NEW s \in SUBSET R, s # {}
        PROVE  Asked(R)[Pick(s)] = Pick(s).asked
    BY <2>1, Picked DEF Asked
  <2>2. [s \in SUBSET R |-> IF s = {} THEN 0 ELSE Pick(s).asked + g[s \ {Pick(s)}]]
        = [s \in SUBSET R |-> IF s = {} THEN 0 ELSE Asked(R)[Pick(s)] + g[s \ {Pick(s)}]]
    BY <2>1
  <2> QED BY <2>2 DEF AddsAsked, Adds
<1>2. PICK g : AddsAsked(g, R)
  BY <1>1, AddsExists
<1>3. \E h : AddsAsked(h, R) /\ AskedSum(R) = h[R]
  BY <1>2 DEF AskedSum, MapThenSumSet, MapThenFoldSet, AddsAsked, Pick
<1>4. PICK h : AddsAsked(h, R) /\ AskedSum(R) = h[R]
  BY <1>3
<1>5. Adds(h, Asked(R), R)
  BY <1>1, <1>4
<1>6. PICK k : Adds(k, Asked(R), R) /\ Sum(Asked(R), R) = k[R]
  BY <1>5, SumIs
<1>7. h[R] = k[R]
  BY <1>5, <1>6, AddsAgree
<1> QED BY <1>4, <1>6, <1>7

\* The line item that a ticket of the quote is counted in.
ItemOf(q, i) ==
    [unit |-> q.paid[i], count |-> Cardinality({j \in DOMAIN q.paid : q.paid[j] = q.paid[i]})]

\* Grouping the tickets by what they cost changes nothing of what they cost.
LEMMA LineItemsAddUp ==
    ASSUME NEW q, IsFiniteSet(DOMAIN q.paid), \A i \in DOMAIN q.paid : q.paid[i] \in Nat
    PROVE  AmountTotal(q) = Sum(q.paid, DOMAIN q.paid)
<1> DEFINE D == DOMAIN q.paid
           L == LineItems(q)
           item == [i \in D |-> ItemOf(q, i)]
           Of(S) == {i \in D : item[i] \in S}
<1>1. L = {item[i] : i \in D}
  BY DEF LineItems, ItemOf
<1>2. IsFiniteSet(L)
  <2> HIDE DEF L, item
  <2>1. item \in [D -> L] /\ \A l \in L : \E i \in D : item[i] = l
    <3>1. item \in [D -> {item[i] : i \in D}]
      BY DEF item
    <3> QED BY <1>1, <3>1
  <2>2. item \in Surjection(D, L)
    BY <2>1 DEF Surjection
  <2> QED BY <2>2, FS_Surjection
<1>3. ASSUME NEW i \in D
      PROVE  /\ item[i].unit = q.paid[i]
             /\ item[i].count = Cardinality({j \in D : q.paid[j] = q.paid[i]})
             /\ item[i].count \in Nat
             /\ \A j \in D : item[j] = item[i] <=> q.paid[j] = q.paid[i]
  <2>1. IsFiniteSet({j \in D : q.paid[j] = q.paid[i]})
    BY FS_Subset, {j \in D : q.paid[j] = q.paid[i]} \in SUBSET D
  <2> QED BY <2>1, FS_CardinalityType DEF ItemOf
<1>4. \A l \in L : Costs(L)[l] = l.unit * l.count /\ Costs(L)[l] \in Nat
  <2>1. SUFFICES ASSUME NEW l \in L PROVE l.unit * l.count \in Nat
    BY DEF Costs
  <2>2. PICK i \in D : l = item[i]
    BY <1>1
  <2>3. l.unit \in Nat /\ l.count \in Nat
    BY <1>3, <2>2
  <2> QED BY <2>3
<1> HIDE DEF L, item
<1>5. Sum(Costs(L), L) = Sum(q.paid, Of(L))
  <2> DEFINE bad == {S \in SUBSET L : Sum(Costs(L), S) # Sum(q.paid, Of(S))}
  <2>1. SUFFICES ASSUME bad # {} PROVE FALSE
    OBVIOUS
  <2>2. bad \subseteq SUBSET L
    OBVIOUS
  <2>3. \E S \in bad : \A T \in bad : T \subseteq S => T = S
    <3> HIDE DEF bad
    <3> QED BY <1>2, <2>1, <2>2, SmallestSubset
  <2>4. PICK S \in bad : \A T \in bad : T \subseteq S => T = S
    BY <2>3
  <2>5. S \in SUBSET L /\ IsFiniteSet(S) /\ Sum(Costs(L), S) # Sum(q.paid, Of(S))
    BY <1>2, <2>4, FS_Subset
  <2>6. S # {}
    <3>1. Of({}) = {}
      OBVIOUS
    <3> QED BY <2>5, <3>1, SumEmpty
  <2>7. PICK l \in S : TRUE
    BY <2>6
  <2>8. PICK i \in D : l = item[i]
    BY <1>1, <2>5
  <2> DEFINE rest == Of(S \ {l})
             same == {j \in D : q.paid[j] = q.paid[i]}
  <2>9. Of(S) = rest \union same /\ rest \intersect same = {}
    BY <1>3, <2>7, <2>8
  <2>10. IsFiniteSet(rest) /\ IsFiniteSet(same)
    BY FS_Subset, rest \in SUBSET D, same \in SUBSET D
  <2>11. Sum(Costs(L), S \ {l}) = Sum(q.paid, rest)
    BY <2>4, <2>5, <2>7
  <2>12. Sum(Costs(L), S) = (l.unit * l.count) + Sum(Costs(L), S \ {l})
    <3>1. \A k \in S : Costs(L)[k] \in Nat
      BY <1>4, <2>5
    <3>2. Costs(L)[l] = l.unit * l.count
      BY <1>4, <2>5
    <3> QED BY <2>5, <3>1, <3>2, SumStep
  <2>13. Sum(q.paid, same) = l.unit * l.count
    <3>1. \A j \in same : q.paid[j] = q.paid[i]
      OBVIOUS
    <3>2. l.unit = q.paid[i] /\ l.count = Cardinality(same) /\ q.paid[i] \in Nat
      BY <1>3, <2>8
    <3> HIDE DEF same
    <3> QED BY <2>10, <3>1, <3>2, SumOfEqual
  <2>14. /\ Sum(q.paid, rest \union same) = Sum(q.paid, rest) + Sum(q.paid, same)
         /\ Sum(q.paid, rest) \in Nat /\ Sum(q.paid, same) \in Nat
    <3>1. \A j \in rest \union same : q.paid[j] \in Nat
      OBVIOUS
    <3> HIDE DEF rest, same
    <3> QED BY <2>9, <2>10, <3>1, SumUnion, SumNat
  <2> HIDE DEF rest, same, bad, Of
  <2> QED BY <2>5, <2>9, <2>11, <2>12, <2>13, <2>14
<1>6. Of(L) = D
  BY <1>1
<1> QED BY <1>2, <1>5, <1>6, AmountIsSum DEF L

\* Refunds of disjoint selections ask for what their tickets cost together.
LEMMA RefundsAddUp ==
    ASSUME NEW f, NEW D, IsFiniteSet(D), \A i \in D : f[i] \in Nat,
           NEW R, IsFiniteSet(R),
           \A r \in R : r.tickets \subseteq D /\ r.asked = Sum(f, r.tickets),
           \A r, s \in R : r # s => r.tickets \intersect s.tickets = {}
    PROVE  AskedSum(R) = Sum(f, UNION {r.tickets : r \in R})
<1> DEFINE In(S) == UNION {r.tickets : r \in S}
           bad == {S \in SUBSET R : Sum(Asked(R), S) # Sum(f, In(S))}
<1>1. SUFFICES bad = {}
  BY AskedIsSum
<1>2. SUFFICES ASSUME bad # {} PROVE FALSE
  OBVIOUS
<1>3. bad \subseteq SUBSET R
  OBVIOUS
<1>4. \E S \in bad : \A T \in bad : T \subseteq S => T = S
  <2> HIDE DEF bad
  <2> QED BY <1>2, <1>3, SmallestSubset
<1>5. PICK S \in bad : \A T \in bad : T \subseteq S => T = S
  BY <1>4
<1>6. S \in SUBSET R /\ IsFiniteSet(S) /\ Sum(Asked(R), S) # Sum(f, In(S))
  BY <1>5, FS_Subset
<1>7. S # {}
  <2>1. In({}) = {}
    OBVIOUS
  <2> QED BY <1>6, <2>1, SumEmpty
<1>8. PICK r \in S : TRUE
  BY <1>7
<1> DEFINE rest == In(S \ {r})
<1>9. In(S) = rest \union r.tickets
  BY <1>8
<1>10. rest \intersect r.tickets = {}
  BY <1>6, <1>8
<1>11. rest \in SUBSET D /\ r.tickets \in SUBSET D /\ r \in R
  BY <1>6, <1>8
<1>12. IsFiniteSet(rest) /\ IsFiniteSet(r.tickets)
  <2> HIDE DEF rest
  <2> QED BY <1>11, FS_Subset
<1>13. Sum(Asked(R), S \ {r}) = Sum(f, rest)
  BY <1>5, <1>6, <1>8
<1>14. \A q \in R : Asked(R)[q] = q.asked /\ q.asked \in Nat
  <2>1. SUFFICES ASSUME NEW q \in R PROVE q.asked \in Nat
    BY DEF Asked
  <2>2. q.tickets \in SUBSET D
    OBVIOUS
  <2>3. IsFiniteSet(q.tickets) /\ \A i \in q.tickets : f[i] \in Nat
    BY <2>2, FS_Subset
  <2> QED BY <2>3, SumNat
<1>15. Sum(Asked(R), S) = Asked(R)[r] + Sum(Asked(R), S \ {r})
  BY <1>6, <1>8, <1>14, SumStep
<1>16. Asked(R)[r] = Sum(f, r.tickets)
  BY <1>11, <1>14
<1>17. /\ Sum(f, rest \union r.tickets) = Sum(f, rest) + Sum(f, r.tickets)
       /\ Sum(f, rest) \in Nat /\ Sum(f, r.tickets) \in Nat
  <2> HIDE DEF rest
  <2>1. \A i \in rest \union r.tickets : f[i] \in Nat
    BY <1>11
  <2> QED BY <1>10, <1>12, <2>1, SumUnion, SumNat
<1> HIDE DEF rest, In, bad
<1> QED BY <1>6, <1>9, <1>13, <1>15, <1>16, <1>17

-----------------------------------------------------------------------------
(* The inductive invariant.                                                  *)

OfferRows == [version : Nat, kind : {"fixed", "percentage"}, value : Nat, open : BOOLEAN]

ShownRows ==
    [quantity : 1 .. MaxQuantity, unit : Prices, coded : BOOLEAN, total : Nat \union {None},
     revision : (Nat \X Nat \X Nat \X Kinds \X Nat) \union {None}]

\* What a revision was computed from.
TermsOf(rev) ==
    [quantity |-> rev[1], unit |-> rev[2], version |-> rev[3], kind |-> rev[4], value |-> rev[5]]

MoneyType ==
    /\ tier \in Prices /\ offer \in OfferRows
    /\ shown = None \/ shown \in ShownRows

\* A total on the screen is the one of the terms its revision names.
ShownIsPriced ==
    shown # None /\ shown.total # None =>
        LET t == TermsOf(shown.revision)
        IN  t \in TermRows /\ shown.revision = Revision(t) /\ shown.total = Total(t)

\* A quote is computed from payable terms, and shows the total of the screen.
QuoteIsPayable ==
    quote # None =>
        /\ quote.terms \in TermRows /\ Payable(quote.terms)
        /\ quote = PriceQuote(quote.terms)
        /\ quote.total = shown.total

\* The session asks for the total of the quote; only a charged cart is issued.
ChargedIsQuoted ==
    /\ charged # 0 => quote # None /\ charged = quote.total
    /\ issued => charged # 0

\* Refunds ask for what their own tickets cost, and share no ticket.
RefundRows ==
    /\ IsFiniteSet(refunds)
    /\ \A r \in refunds :
          /\ r \in [tickets : SUBSET Tickets, asked : Nat, recorded : Nat \union {None}]
          /\ r.tickets # {} /\ r.asked = Sum(quote.paid, r.tickets)
          /\ r.recorded \in {None, r.asked}
    /\ \A r, s \in refunds : r # s => r.tickets \intersect s.tickets = {}

MoneyInv == MoneyType /\ ShownIsPriced /\ QuoteIsPayable /\ ChargedIsQuoted /\ RefundRows

LEMMA PaidForIsSum == ASSUME NEW S PROVE PaidFor(S) = Sum(quote.paid, S)
BY DEF PaidFor, Sum

LEMMA QuotedShares ==
    ASSUME QuoteIsPayable, quote # None
    PROVE  /\ DOMAIN quote.paid = 0 .. (quote.terms.quantity - 1)
           /\ IsFiniteSet(DOMAIN quote.paid)
           /\ \A i \in DOMAIN quote.paid :
                 quote.paid[i] \in 1 .. quote.terms.unit /\ quote.paid[i] \in Nat
           /\ quote.total \in Nat \ {0} /\ quote.total = Total(quote.terms)
           /\ Sum(quote.paid, DOMAIN quote.paid) = quote.total
<1> DEFINE t == quote.terms
<1>1. t \in TermRows /\ Payable(t) /\ quote = PriceQuote(t)
  BY DEF QuoteIsPayable
<1>2. quote.total = Total(t) /\ quote.paid = Allocations(t)
  BY <1>1 DEF PriceQuote
<1>3. DOMAIN quote.paid = 0 .. (t.quantity - 1)
  BY <1>2 DEF Allocations
<1> HIDE DEF t
<1>4. Total(t) \in Nat \ {0} /\ t.unit \in Nat /\ t.quantity \in Nat
  BY <1>1, Amounts
<1>5. IsFiniteSet(DOMAIN quote.paid)
  BY <1>3, <1>4, SpanSize
<1>6. \A i \in DOMAIN quote.paid : quote.paid[i] \in 1 .. t.unit
  BY <1>1, <1>2, <1>3, ShareOfTicket
<1>7. Sum(quote.paid, DOMAIN quote.paid) = quote.total
  BY <1>1, <1>2, <1>3, SharesAddUp
<1> QED BY <1>2, <1>3, <1>4, <1>5, <1>6, <1>7 DEF t

-----------------------------------------------------------------------------
(* One lemma per action.                                                     *)

Bought == QuoteIsPayable /\ ChargedIsQuoted /\ RefundRows

LEMMA InitMoney == Init => MoneyInv
<1> SUFFICES ASSUME Init PROVE MoneyInv
  OBVIOUS
<1>1. MoneyType
  <2>1. PICK kind \in {"fixed", "percentage"}, v \in Nat :
           offer = [version |-> 1, kind |-> kind, value |-> v, open |-> TRUE]
    <3>1. CASE \E v \in FixedValues :
                 offer = [version |-> 1, kind |-> "fixed", value |-> v, open |-> TRUE]
      BY <3>1, Bounds
    <3>2. CASE \E v \in Points \ {Scale} :
                 offer = [version |-> 1, kind |-> "percentage", value |-> v, open |-> TRUE]
      BY <3>2, Bounds
    <3> QED BY <3>1, <3>2 DEF Init
  <2>2. offer \in OfferRows
    BY <2>1 DEF OfferRows
  <2> QED BY <2>2 DEF Init, MoneyType
<1>2. ShownIsPriced /\ QuoteIsPayable /\ ChargedIsQuoted
  BY DEF Init, ShownIsPriced, QuoteIsPayable, ChargedIsQuoted
<1>3. RefundRows
  BY FS_EmptySet DEF Init, RefundRows
<1> QED BY <1>1, <1>2, <1>3 DEF MoneyInv

\* A step of the organizers, or of the screen before there is a quote.
LEMMA BoughtStays ==
    ASSUME Bought, UNCHANGED <<quote, charged, issued, refunds>>,
           quote # None => shown' = shown
    PROVE  Bought'
<1>1. QuoteIsPayable'
  BY DEF Bought, QuoteIsPayable
<1>2. ChargedIsQuoted'
  BY DEF Bought, ChargedIsQuoted
<1>3. RefundRows'
  BY DEF Bought, RefundRows, Tickets
<1> QED BY <1>1, <1>2, <1>3 DEF Bought

\* What a preview or a preparation computes a price from.
LEMMA OfferTerms ==
    ASSUME MoneyType, NEW n \in 1 .. MaxQuantity, NEW unit \in Prices, NEW coded \in BOOLEAN
    PROVE  Terms(n, unit, IF coded THEN offer ELSE NoOffer) \in TermRows
<1>1. offer.version \in Nat /\ offer.kind \in Kinds /\ offer.value \in Nat
  BY DEF MoneyType, OfferRows, Kinds
<1> QED BY <1>1 DEF Terms, NoOffer, TermRows, Kinds

\* Equal revisions mean equal terms.
LEMMA RevisionNames ==
    ASSUME NEW t \in TermRows
    PROVE  /\ TermsOf(Revision(t)) = t
           /\ Revision(t) \in Nat \X Nat \X Nat \X Kinds \X Nat
<1>1. /\ t.quantity \in 1 .. MaxQuantity /\ t.unit \in Prices /\ t.version \in Nat
      /\ t.kind \in Kinds /\ t.value \in Nat
      /\ t = [quantity |-> t.quantity, unit |-> t.unit, version |-> t.version,
              kind |-> t.kind, value |-> t.value]
  BY DEF TermRows
<1>2. t.quantity \in Nat /\ t.unit \in Nat
  BY <1>1, Bounds
<1> QED BY <1>1, <1>2 DEF Revision, TermsOf

LEMMA OrganizersStep ==
    ASSUME MoneyInv,
           \/ \E p \in Prices : SaveTicketTier(p)
           \/ \E v \in FixedValues, open \in BOOLEAN : SaveOffer("fixed", v, open)
           \/ \E v \in Points, open \in BOOLEAN : SaveOffer("percentage", v, open)
           \/ OfferCloses
    PROVE  MoneyInv'
<1>1. UNCHANGED <<shown, quote, charged, issued, refunds>>
  BY DEF SaveTicketTier, SaveOffer, OfferCloses
<1>2. MoneyType'
  <2>1. tier \in Prices /\ offer \in OfferRows
    BY DEF MoneyInv, MoneyType
  <2>2. tier' \in Prices /\ offer' \in OfferRows
    <3>1. ASSUME NEW p \in Prices, SaveTicketTier(p)
          PROVE  tier' \in Prices /\ offer' \in OfferRows
      BY <2>1, <3>1 DEF SaveTicketTier
    <3>2. ASSUME NEW kind \in {"fixed", "percentage"}, NEW v \in Nat, NEW open \in BOOLEAN,
                 SaveOffer(kind, v, open)
          PROVE  tier' \in Prices /\ offer' \in OfferRows
      BY <2>1, <3>2 DEF SaveOffer, OfferRows
    <3>3. ASSUME OfferCloses PROVE tier' \in Prices /\ offer' \in OfferRows
      BY <2>1, <3>3 DEF OfferCloses, OfferRows
    <3>4. FixedValues \subseteq Nat /\ Points \subseteq Nat
      BY Bounds
    <3> QED BY <3>1, <3>2, <3>3, <3>4
  <2> QED BY <1>1, <2>2 DEF MoneyInv, MoneyType
<1>3. ShownIsPriced'
  BY <1>1 DEF MoneyInv, ShownIsPriced
<1> QED BY <1>1, <1>2, <1>3, BoughtStays DEF MoneyInv, Bought

LEMMA ReadTierStep ==
    ASSUME MoneyInv, NEW n \in 1 .. MaxQuantity, NEW coded \in BOOLEAN, ReadTier(n, coded)
    PROVE  MoneyInv'
<1>1. shown' \in ShownRows /\ shown'.total = None
  BY DEF ReadTier, ShownRows, MoneyInv, MoneyType
<1>2. MoneyType' /\ ShownIsPriced'
  BY <1>1 DEF ReadTier, MoneyInv, MoneyType, ShownIsPriced
<1> QED BY <1>2, BoughtStays DEF ReadTier, MoneyInv, Bought

LEMMA ReadOfferStep ==
    ASSUME MoneyInv, ReadOffer
    PROVE  MoneyInv'
<1> DEFINE o == IF shown.coded THEN offer ELSE NoOffer
           t == Terms(shown.quantity, shown.unit, o)
           new == [shown EXCEPT !.total = Total(t), !.revision = Revision(t)]
<1>1. shown \in ShownRows
  BY DEF ReadOffer, MoneyInv, MoneyType
<1>2. shown.quantity \in 1 .. MaxQuantity /\ shown.unit \in Prices /\ shown.coded \in BOOLEAN
  BY <1>1 DEF ShownRows
<1>3. t \in TermRows
  BY <1>2, OfferTerms DEF MoneyInv
<1>4. shown' = IF o.open /\ Payable(t) THEN new ELSE None
  BY DEF ReadOffer
<1> HIDE DEF t, o
<1>5. ASSUME shown' # None
      PROVE  shown' \in ShownRows /\ shown'.revision = Revision(t) /\ shown'.total = Total(t)
  <2>1. Payable(t) /\ shown' = new
    BY <1>4, <1>5
  <2>2. Total(t) \in Nat /\ Revision(t) \in Nat \X Nat \X Nat \X Kinds \X Nat
    BY <1>3, <2>1, Amounts, RevisionNames
  <2> QED BY <1>1, <2>1, <2>2 DEF ShownRows
<1>6. MoneyType'
  BY <1>5 DEF ReadOffer, MoneyInv, MoneyType
<1>7. ShownIsPriced'
  BY <1>3, <1>5, RevisionNames DEF ShownIsPriced
<1> QED BY <1>6, <1>7, BoughtStays DEF ReadOffer, MoneyInv, Bought

LEMMA PrepareStep ==
    ASSUME MoneyInv, PreparePricedGuestCart
    PROVE  MoneyInv'
<1> DEFINE o == IF shown.coded THEN offer ELSE NoOffer
           t == Terms(shown.quantity, tier, o)
           s == TermsOf(shown.revision)
<1>1. /\ shown \in ShownRows /\ tier \in Prices
      /\ UNCHANGED <<tier, offer, shown, charged, issued, refunds>>
  BY DEF PreparePricedGuestCart, MoneyInv, MoneyType
<1>2. shown.quantity \in 1 .. MaxQuantity /\ shown.coded \in BOOLEAN
  BY <1>1 DEF ShownRows
<1>3. t \in TermRows
  BY <1>1, <1>2, OfferTerms DEF MoneyInv
<1>4. Payable(t) /\ Revision(t) = shown.revision /\ quote' = PriceQuote(t)
  BY DEF PreparePricedGuestCart
<1>5. shown.revision = Revision(s) /\ shown.total = Total(s) /\ s \in TermRows
  BY DEF PreparePricedGuestCart, MoneyInv, ShownIsPriced
<1> HIDE DEF t, o
<1>6. shown.total = Total(t)
  BY <1>3, <1>4, <1>5, RevisionNames
<1>7. charged = 0 /\ ~ issued /\ Tickets = {} /\ Tickets' = {}
  BY <1>1 DEF PreparePricedGuestCart, MoneyInv, ChargedIsQuoted, Tickets
<1>8. QuoteIsPayable'
  BY <1>1, <1>3, <1>4, <1>6 DEF QuoteIsPayable, PriceQuote
<1>9. ChargedIsQuoted'
  BY <1>1, <1>7 DEF ChargedIsQuoted
<1>10. RefundRows'
  <2>1. refunds = {}
    BY <1>7 DEF MoneyInv, RefundRows
  <2> QED BY <2>1, <1>1, FS_EmptySet DEF RefundRows
<1>11. MoneyType' /\ ShownIsPriced'
  BY <1>1 DEF MoneyInv, MoneyType, ShownIsPriced
<1> QED BY <1>8, <1>9, <1>10, <1>11 DEF MoneyInv

LEMMA BeginStep ==
    ASSUME MoneyInv, BeginPricedGuestPayment
    PROVE  MoneyInv'
<1>1. quote # None /\ charged = 0 /\ charged' = AmountTotal(quote)
      /\ UNCHANGED <<tier, offer, shown, quote, issued, refunds>>
  BY DEF BeginPricedGuestPayment
<1>3. AmountTotal(quote) = quote.total
  BY <1>1, QuotedShares, LineItemsAddUp DEF MoneyInv
<1>4. MoneyType' /\ ShownIsPriced' /\ QuoteIsPayable'
  BY <1>1 DEF MoneyInv, MoneyType, ShownIsPriced, QuoteIsPayable
<1>5. ChargedIsQuoted'
  BY <1>1, <1>3 DEF MoneyInv, ChargedIsQuoted
<1>6. RefundRows'
  BY <1>1 DEF MoneyInv, RefundRows, Tickets
<1> QED BY <1>4, <1>5, <1>6 DEF MoneyInv

LEMMA FinalizeStep ==
    ASSUME MoneyInv, FinalizePaid
    PROVE  MoneyInv'
<1>1. charged # 0 /\ ~ issued /\ issued' = TRUE
      /\ UNCHANGED <<tier, offer, shown, quote, charged, refunds>>
  BY DEF FinalizePaid
<1>2. MoneyType' /\ ShownIsPriced' /\ QuoteIsPayable'
  BY <1>1 DEF MoneyInv, MoneyType, ShownIsPriced, QuoteIsPayable
<1>3. ChargedIsQuoted'
  BY <1>1 DEF MoneyInv, ChargedIsQuoted
<1>4. RefundRows'
  <2>1. Tickets = {}
    BY <1>1 DEF Tickets
  <2>2. refunds = {}
    BY <2>1 DEF MoneyInv, RefundRows
  <2> QED BY <1>1, <2>2, FS_EmptySet DEF RefundRows
<1> QED BY <1>2, <1>3, <1>4 DEF MoneyInv

\* Who has tickets has paid what the quote says.
LEMMA Bills ==
    ASSUME MoneyInv, issued
    PROVE  /\ quote # None /\ QuoteIsPayable /\ Tickets = DOMAIN quote.paid
           /\ charged = quote.total
BY DEF MoneyInv, ChargedIsQuoted, Tickets

LEMMA ClaimStep ==
    ASSUME MoneyInv, NEW S \in SUBSET Tickets, ClaimRefund(S)
    PROVE  MoneyInv'
<1> DEFINE amount == ReadQuotedRefundAmount(S)
           new == [tickets |-> S, asked |-> amount, recorded |-> None]
<1>1. /\ S # {} /\ S \intersect Claimed = {} /\ amount # None
      /\ refunds' = refunds \union {new}
      /\ UNCHANGED <<tier, offer, shown, quote, charged, issued>>
  BY DEF ClaimRefund
<1>2. issued /\ S \in SUBSET DOMAIN quote.paid
  BY <1>1 DEF Tickets
<1>3. amount = Sum(quote.paid, S) /\ amount \in Nat
  <2>1. amount = Sum(quote.paid, S)
    BY <1>1, PaidForIsSum DEF ReadQuotedRefundAmount
  <2>2. IsFiniteSet(DOMAIN quote.paid) /\ \A i \in DOMAIN quote.paid : quote.paid[i] \in Nat
    BY <1>2, Bills, QuotedShares
  <2> HIDE DEF amount
  <2> QED BY <1>2, <2>1, <2>2, SumPart
<1> HIDE DEF amount
<1>4. MoneyType' /\ ShownIsPriced' /\ QuoteIsPayable' /\ ChargedIsQuoted'
  BY <1>1 DEF MoneyInv, MoneyType, ShownIsPriced, QuoteIsPayable, ChargedIsQuoted
<1>5. RefundRows'
  <2>1. Tickets' = Tickets /\ RefundRows
    BY <1>1 DEF Tickets, MoneyInv
  <2>2. IsFiniteSet(refunds')
    BY <1>1, <2>1, FS_AddElement DEF RefundRows
  <2>3. \A r \in refunds' :
           /\ r \in [tickets : SUBSET Tickets, asked : Nat, recorded : Nat \union {None}]
           /\ r.tickets # {} /\ r.asked = Sum(quote.paid, r.tickets)
           /\ r.recorded \in {None, r.asked}
    BY <1>1, <1>3, <2>1 DEF RefundRows
  <2>4. \A r \in refunds : r.tickets \intersect S = {}
    BY <1>1 DEF Claimed
  <2>5. \A r, s \in refunds' : r # s => r.tickets \intersect s.tickets = {}
    BY <1>1, <2>1, <2>4 DEF RefundRows
  <2>6. quote' = quote
    BY <1>1
  <2> QED BY <2>1, <2>2, <2>3, <2>5, <2>6 DEF RefundRows
<1> QED BY <1>4, <1>5 DEF MoneyInv

LEMMA ReverseStep ==
    ASSUME MoneyInv, NEW r \in refunds, ReverseRefundedTickets(r)
    PROVE  MoneyInv'
<1> DEFINE amount == PaidFor(r.tickets)
           new == [r EXCEPT !.recorded = amount]
<1>1. /\ refunds' = (refunds \ {r}) \union {new}
      /\ UNCHANGED <<tier, offer, shown, quote, charged, issued>>
  BY DEF ReverseRefundedTickets
<1>2. /\ r \in [tickets : SUBSET Tickets, asked : Nat, recorded : Nat \union {None}]
      /\ r.tickets # {} /\ r.asked = Sum(quote.paid, r.tickets)
  BY DEF MoneyInv, RefundRows
<1>3. amount = r.asked
  BY <1>2, PaidForIsSum
<1> HIDE DEF amount
<1>4. /\ new \in [tickets : SUBSET Tickets, asked : Nat, recorded : Nat \union {None}]
      /\ new.tickets = r.tickets /\ new.asked = r.asked /\ new.recorded = r.asked
  BY <1>2, <1>3
<1> HIDE DEF new
<1>5. MoneyType' /\ ShownIsPriced' /\ QuoteIsPayable' /\ ChargedIsQuoted'
  BY <1>1 DEF MoneyInv, MoneyType, ShownIsPriced, QuoteIsPayable, ChargedIsQuoted
<1>6. RefundRows'
  <2>1. Tickets' = Tickets /\ RefundRows /\ quote' = quote
    BY <1>1 DEF Tickets, MoneyInv
  <2>2. IsFiniteSet(refunds')
    BY <1>1, <2>1, FS_AddElement, FS_RemoveElement DEF RefundRows
  <2>3. \A s \in refunds' :
           /\ s \in [tickets : SUBSET Tickets, asked : Nat, recorded : Nat \union {None}]
           /\ s.tickets # {} /\ s.asked = Sum(quote.paid, s.tickets)
           /\ s.recorded \in {None, s.asked}
    BY <1>1, <1>2, <1>4, <2>1 DEF RefundRows
  <2>4. \A q, s \in refunds' : q # s => q.tickets \intersect s.tickets = {}
    BY <1>1, <1>4, <2>1 DEF RefundRows
  <2> QED BY <2>1, <2>2, <2>3, <2>4 DEF RefundRows
<1> QED BY <1>5, <1>6 DEF MoneyInv

-----------------------------------------------------------------------------
(* Theorems.                                                                 *)

\* Every reachable state has a payable quote that its buyer saw, a charge of its
\* total, and refunds of disjoint selections for what their tickets cost, whatever
\* organizers edit in between.
THEOREM MoneyInvariant == Spec => []MoneyInv
<1>1. ASSUME MoneyInv, [Next]_vars PROVE MoneyInv'
  <2>1. CASE UNCHANGED vars
    BY <1>1, <2>1, BoughtStays
       DEF vars, MoneyInv, MoneyType, ShownIsPriced, Bought
  <2>2. CASE Next
    BY <1>1, <2>2, OrganizersStep, ReadTierStep, ReadOfferStep, PrepareStep, BeginStep,
       FinalizeStep, ClaimStep, ReverseStep DEF Next
  <2> QED BY <1>1, <2>1, <2>2
<1> QED BY InitMoney, <1>1, PTL DEF Spec

\* The charge is the total last shown, for all prices, discounts and edits: equal
\* revisions mean equal terms (ticket_price_revision), and the line items of the
\* session add up to the total of the quote (buildSessionForm).
THEOREM PaysTheShownTotal == Spec => []PaysWhatWasShown
<1>1. MoneyInv => PaysWhatWasShown
  BY DEF MoneyInv, QuoteIsPayable, ChargedIsQuoted, PaysWhatWasShown
<1> QED BY <1>1, MoneyInvariant, PTL

\* Refunds of whatever selections never exceed the payment, use it up with the
\* last ticket, and leave every ticket a share that can still be refunded
\* (read_quoted_refund_amount, ticket_quote_allocations).
THEOREM RefundsAddUpToPayment == Spec => []RefundsMatchPayment
<1>1. ASSUME MoneyInv, issued
      PROVE  /\ AskedSum(refunds) <= charged
             /\ Claimed = Tickets => AskedSum(refunds) = charged
             /\ \A i \in Tickets \ Claimed :
                   ReadQuotedRefundAmount({i}) \in 1 .. quote.terms.unit
  <2> DEFINE D == DOMAIN quote.paid
  <2>1. /\ quote # None /\ Tickets = D /\ charged = quote.total
        /\ IsFiniteSet(D) /\ Sum(quote.paid, D) = quote.total
        /\ \A i \in D : quote.paid[i] \in 1 .. quote.terms.unit /\ quote.paid[i] \in Nat
        /\ quote.total \in Nat
    BY <1>1, Bills, QuotedShares
  <2>2. /\ IsFiniteSet(refunds)
        /\ \A r \in refunds : r.tickets \subseteq D /\ r.asked = Sum(quote.paid, r.tickets)
        /\ \A r, s \in refunds : r # s => r.tickets \intersect s.tickets = {}
    BY <1>1, <2>1 DEF MoneyInv, RefundRows
  <2> HIDE DEF D
  <2>3. AskedSum(refunds) = Sum(quote.paid, Claimed) /\ Claimed \in SUBSET D
    BY <2>1, <2>2, RefundsAddUp DEF Claimed
  <2>4. Sum(quote.paid, Claimed) <= Sum(quote.paid, D)
    BY <2>1, <2>3, SumPart
  <2>5. ASSUME NEW i \in Tickets \ Claimed
        PROVE  ReadQuotedRefundAmount({i}) \in 1 .. quote.terms.unit
    <3>1. i \in D /\ quote.paid[i] \in 1 .. quote.terms.unit /\ quote.paid[i] \in Nat
      BY <2>1
    <3>2. PaidFor({i}) = quote.paid[i]
      BY <3>1, PaidForIsSum, SumOne
    <3>3. {i} \intersect Reversed = {}
      BY DEF Reversed, Claimed
    <3>4. PaidFor({i}) <= quote.total
      BY <2>1, <3>1, SumPart, PaidForIsSum, {i} \in SUBSET D
    <3> QED BY <3>1, <3>2, <3>3, <3>4 DEF ReadQuotedRefundAmount
  <2> QED BY <2>1, <2>3, <2>4, <2>5
<1>2. MoneyInv => RefundsMatchPayment
  <2>1. MoneyInv => \A r \in refunds : r.recorded \in {None, r.asked}
    BY DEF MoneyInv, RefundRows
  <2> QED BY <1>1, <2>1 DEF RefundsMatchPayment, AskedSum
<1> QED BY <1>2, MoneyInvariant, PTL

=============================================================================
