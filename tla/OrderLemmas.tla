----------------------------- MODULE OrderLemmas -----------------------------
(***************************************************************************)
(* Facts about finite ordered sets that the proofs about the graph need:   *)
(* something comes first, and n things come first when there are n.  An    *)
(* order is a set of pairs, so that the facts can be cited for any.  And   *)
(* facts about numbers that the proofs about bytes need.                   *)
(***************************************************************************)
EXTENDS Integers, FiniteSets, FiniteSetTheorems, WellFoundedInduction, TLAPS

\* R is an order on S, by its strict part.
Orders(R, S) == /\ \A x \in S : <<x, x>> \notin R
                /\ \A x, y, z \in S : <<x, y>> \in R /\ <<y, z>> \in R => <<x, z>> \in R

\* ... in which any two are comparable.
OrdersAll(R, S) == Orders(R, S) /\ \A x, y \in S : x = y \/ <<x, y>> \in R \/ <<y, x>> \in R

\* What comes before x.
Preceding(x, R, S) == {y \in S : <<y, x>> \in R}

\* The first n.
FirstFew(n, R, S) == {x \in S : Cardinality(Preceding(x, R, S)) < n}

\* A set of natural numbers that is not empty has a least one.
LEMMA LeastNat ==
    ASSUME NEW T \in SUBSET Nat, T # {}
    PROVE  \E n \in T : \A m \in T : n <= m
<1> DEFINE R == OpToRel(<, Nat)
<1>1. \A m, n \in Nat : <<m, n>> \in R <=> m < n BY DEF OpToRel
<1>2. IsWellFoundedOn(R, Nat) BY NatLessThanWellFounded
<1> HIDE DEF R
<1>3. PICK n \in T : \A m \in T : ~(<<m, n>> \in R) BY <1>2, WFMin
<1>4. \A m \in T : n <= m
  <2> TAKE m \in T
  <2>1. n \in Nat /\ m \in Nat OBVIOUS
  <2>2. ~(m < n) BY <1>1, <1>3, <2>1
  <2> QED BY <2>1, <2>2
<1> QED BY <1>4

\* Sets of what comes before are finite, and grow along the order.
LEMMA PrecedingGrow ==
    ASSUME NEW S, IsFiniteSet(S), NEW R, Orders(R, S)
    PROVE  /\ \A x \in S : /\ IsFiniteSet(Preceding(x, R, S))
                           /\ Cardinality(Preceding(x, R, S)) \in 0 .. (Cardinality(S) - 1)
           /\ \A x, y \in S : <<x, y>> \in R =>
                Cardinality(Preceding(x, R, S)) < Cardinality(Preceding(y, R, S))
<1>1. \A x \in S : Preceding(x, R, S) \in SUBSET S /\ x \notin Preceding(x, R, S) BY DEF Preceding, Orders
<1>2. ASSUME NEW x \in S
      PROVE  /\ IsFiniteSet(Preceding(x, R, S))
             /\ Cardinality(Preceding(x, R, S)) \in 0 .. (Cardinality(S) - 1)
  <2> DEFINE U == Preceding(x, R, S)
  <2>1. U \in SUBSET S /\ U # S BY <1>1
  <2> HIDE DEF U
  <2>2. IsFiniteSet(U) /\ Cardinality(U) <= Cardinality(S) /\ Cardinality(S) # Cardinality(U)
    BY <2>1, FS_Subset
  <2>3. Cardinality(U) \in Nat /\ Cardinality(S) \in Nat BY <2>2, FS_CardinalityType
  <2> QED BY <2>2, <2>3 DEF U
<1>3. ASSUME NEW x \in S, NEW y \in S, <<x, y>> \in R
      PROVE  Cardinality(Preceding(x, R, S)) < Cardinality(Preceding(y, R, S))
  <2> DEFINE U == Preceding(x, R, S)
             V == Preceding(y, R, S)
  <2>1. U \in SUBSET V /\ x \in V /\ x \notin U BY <1>3 DEF Preceding, Orders
  <2>2. IsFiniteSet(V) BY <1>2
  <2> HIDE DEF U, V
  <2>3. Cardinality(U) <= Cardinality(V) /\ Cardinality(U) # Cardinality(V) /\ IsFiniteSet(U)
    BY <2>1, <2>2, FS_Subset
  <2>4. Cardinality(U) \in Nat /\ Cardinality(V) \in Nat BY <2>2, <2>3, FS_CardinalityType
  <2> QED BY <2>3, <2>4 DEF U, V
<1> QED BY <1>2, <1>3

\* In a finite set that is not empty something has nothing before it.
LEMMA SomethingFirst ==
    ASSUME NEW S, IsFiniteSet(S), S # {}, NEW R, Orders(R, S)
    PROVE  \E x \in S : \A y \in S : <<y, x>> \notin R
<1> DEFINE ranks == {Cardinality(Preceding(x, R, S)) : x \in S}
<1>1. \A x \in S : Cardinality(Preceding(x, R, S)) \in Nat BY PrecedingGrow
<1>2. ranks \in SUBSET Nat BY <1>1
<1>3. ranks # {} OBVIOUS
<1> HIDE DEF ranks
<1>4. PICK n \in ranks : \A m \in ranks : n <= m BY <1>2, <1>3, LeastNat
<1>5. PICK x \in S : n = Cardinality(Preceding(x, R, S)) BY DEF ranks
<1>6. ASSUME NEW y \in S, <<y, x>> \in R PROVE FALSE
  <2>1. Cardinality(Preceding(y, R, S)) < Cardinality(Preceding(x, R, S)) BY <1>6, PrecedingGrow
  <2>2. n <= Cardinality(Preceding(y, R, S)) BY <1>4 DEF ranks
  <2> QED BY <2>1, <2>2, <1>1, <1>5
<1> QED BY <1>6

\* The positions of a totally ordered finite set are 0, 1, 2 and so on.
LEMMA Positions ==
    ASSUME NEW S, IsFiniteSet(S), NEW R, OrdersAll(R, S)
    PROVE  [x \in S |-> Cardinality(Preceding(x, R, S))] \in Bijection(S, 0 .. (Cardinality(S) - 1))
<1> DEFINE n == Cardinality(S)
           T == 0 .. (n - 1)
           rank == [x \in S |-> Cardinality(Preceding(x, R, S))]
<1>1. rank \in [S -> T] BY PrecedingGrow DEF OrdersAll
<1>2. ASSUME NEW x \in S, NEW y \in S, x # y PROVE rank[x] # rank[y]
  <2>1. rank[x] \in Int /\ rank[y] \in Int BY <1>1
  <2>2. <<x, y>> \in R \/ <<y, x>> \in R BY <1>2 DEF OrdersAll
  <2>3. rank[x] < rank[y] \/ rank[y] < rank[x] BY <2>2, PrecedingGrow DEF OrdersAll
  <2> QED BY <2>1, <2>3
<1>3. rank \in Injection(S, T) BY <1>1, <1>2 DEF Injection, IsInjective
<1>4. n \in Nat BY FS_CardinalityType
<1>5. IsFiniteSet(T) /\ Cardinality(T) = n BY <1>4, FS_Interval, 0 \in Int, n - 1 \in Int
<1> HIDE DEF T, rank
<1>6. rank \in Surjection(S, T) BY <1>3, <1>5, FS_Injection
<1>7. rank \in Bijection(S, T) BY <1>3, <1>6 DEF Bijection
<1> QED BY <1>7 DEF rank, T

\* There are n first ones, or they are all there are.
LEMMA FewAreFew ==
    ASSUME NEW S, IsFiniteSet(S), NEW R, OrdersAll(R, S), NEW n \in Nat
    PROVE  /\ IsFiniteSet(FirstFew(n, R, S))
           /\ n <= Cardinality(S) => Cardinality(FirstFew(n, R, S)) = n
           /\ Cardinality(S) <= n => FirstFew(n, R, S) = S
<1> DEFINE rank == [x \in S |-> Cardinality(Preceding(x, R, S))]
           few == FirstFew(n, R, S)
<1>1. few \in SUBSET S BY DEF FirstFew
<1>2. IsFiniteSet(few) BY <1>1, FS_Subset
<1>3. Cardinality(S) \in Nat BY FS_CardinalityType
<1>4. rank \in Bijection(S, 0 .. (Cardinality(S) - 1)) BY Positions
<1>5. /\ \A x \in S : rank[x] \in 0 .. (Cardinality(S) - 1) /\ (x \in few <=> rank[x] < n)
      /\ \A x, y \in S : rank[x] = rank[y] => x = y
      /\ \A m \in 0 .. (Cardinality(S) - 1) : \E x \in S : rank[x] = m
  <2>1. \A x \in S : x \in few <=> rank[x] < n BY DEF FirstFew
  <2> HIDE DEF rank, few
  <2> QED BY <2>1, <1>4 DEF Bijection, Injection, Surjection, IsInjective
<1>6. ASSUME n <= Cardinality(S) PROVE Cardinality(few) = n
  <2> DEFINE T == 0 .. (n - 1)
             f == [x \in few |-> rank[x]]
  <2>1. \A x \in few : f[x] = rank[x] OBVIOUS
  <2>2. f \in [few -> T]
    <3>1. \A x \in few : rank[x] \in T BY <1>1, <1>3, <1>5
    <3> QED BY <3>1
  <2> HIDE DEF f, few, rank
  <2>3. \A x, y \in few : f[x] = f[y] => x = y BY <1>1, <1>5, <2>1
  <2>4. \A m \in T : \E x \in few : f[x] = m
    <3> TAKE m \in T
    <3>1. m \in 0 .. (Cardinality(S) - 1) /\ m < n BY <1>3, <1>6
    <3>2. PICK x \in S : rank[x] = m BY <1>5, <3>1
    <3> QED BY <1>5, <2>1, <3>1, <3>2
  <2>5. f \in Injection(few, T) /\ f \in Surjection(few, T)
    BY <2>2, <2>3, <2>4 DEF Injection, Surjection, IsInjective
  <2>6. IsFiniteSet(T) /\ Cardinality(T) = n BY FS_Interval, 0 \in Int, n - 1 \in Int
  <2> HIDE DEF T
  <2> QED BY <2>5, <2>6, FS_Injection
<1>7. ASSUME Cardinality(S) <= n PROVE few = S
  <2>1. \A x \in S : rank[x] < n BY <1>3, <1>5, <1>7
  <2> QED BY <2>1, <1>1, <1>5
<1> QED BY <1>2, <1>6, <1>7

-----------------------------------------------------------------------------
(* Recursion and division. *)

\* The values up to m of the function that starts with c and goes on by G.
UpTo(g, m, S, c, G) == g \in [0 .. m -> S] /\ \A n \in 0 .. m :
                         g[n] = IF n = 0 THEN c ELSE G[<<n, g[n - 1]>>]

\* They exist.
LEMMA SomeUpTo ==
    ASSUME NEW S, NEW c \in S, NEW G \in [Nat \X S -> S], NEW m \in Nat
    PROVE  \E g : UpTo(g, m, S, c, G)
<1> DEFINE Missing == {k \in Nat : ~\E g : UpTo(g, k, S, c, G)}
<1> SUFFICES ASSUME Missing # {} PROVE FALSE OBVIOUS
<1>1. PICK k \in Missing : \A o \in Missing : k <= o BY LeastNat
<1>2. CASE k = 0
  <2>1. UpTo([n \in 0 .. 0 |-> c], 0, S, c, G) BY DEF UpTo
  <2> QED BY <1>1, <1>2, <2>1
<1>3. CASE k # 0
  <2>1. k \in Nat /\ k - 1 \in Nat /\ k - 1 \notin Missing BY <1>1, <1>3
  <2>2. PICK g : UpTo(g, k - 1, S, c, G) BY <2>1
  <2> DEFINE h == [n \in 0 .. k |-> IF n = k THEN G[<<k, g[k - 1]>>] ELSE g[n]]
  <2>3. g \in [0 .. (k - 1) -> S] /\ g[k - 1] \in S BY <2>1, <2>2 DEF UpTo
  <2>4. G[<<k, g[k - 1]>>] \in S BY <2>1, <2>3
  <2>5. /\ h \in [0 .. k -> S] /\ h[k] = G[<<k, g[k - 1]>>]
        /\ \A n \in 0 .. (k - 1) : h[n] = g[n]
    BY <2>1, <2>3, <2>4
  <2> HIDE DEF h
  <2>6. ASSUME NEW n \in 0 .. k PROVE h[n] = IF n = 0 THEN c ELSE G[<<n, h[n - 1]>>]
    <3>1. CASE n = k BY <1>3, <2>1, <2>5, <3>1
    <3>2. CASE n # k
      <4>1. n \in 0 .. (k - 1) /\ (n = 0 \/ n - 1 \in 0 .. (k - 1)) BY <2>1, <3>2
      <4>2. g[n] = IF n = 0 THEN c ELSE G[<<n, g[n - 1]>>] BY <2>2, <4>1 DEF UpTo
      <4> QED BY <2>5, <4>1, <4>2
    <3> QED BY <3>1, <3>2
  <2>7. UpTo(h, k, S, c, G) BY <2>5, <2>6 DEF UpTo
  <2> QED BY <1>1, <2>7
<1> QED BY <1>2, <1>3

\* And agree.
LEMMA SameUpTo ==
    ASSUME NEW S, NEW c \in S, NEW G \in [Nat \X S -> S], NEW m \in Nat,
           NEW g, UpTo(g, m, S, c, G), NEW h, UpTo(h, m + 1, S, c, G)
    PROVE  g[m] = h[m]
<1> DEFINE Off == {n \in Nat : n <= m /\ g[n] # h[n]}
<1> SUFFICES ASSUME Off # {} PROVE FALSE OBVIOUS
<1>1. PICK n \in Off : \A o \in Off : n <= o BY LeastNat
<1>2. n \in Nat /\ n <= m /\ g[n] # h[n] BY <1>1
<1>3. n \in 0 .. m /\ n \in 0 .. (m + 1) BY <1>2
<1>4. /\ g[n] = IF n = 0 THEN c ELSE G[<<n, g[n - 1]>>]
      /\ h[n] = IF n = 0 THEN c ELSE G[<<n, h[n - 1]>>]
  BY <1>3 DEF UpTo
<1>5. n # 0 BY <1>2, <1>4
<1>6. n - 1 \in Nat /\ n - 1 <= m /\ n - 1 \notin Off BY <1>1, <1>2, <1>5
<1>7. g[n - 1] = h[n - 1] BY <1>6
<1> QED BY <1>2, <1>4, <1>5, <1>7

Steps(S) == [Nat \X S -> S]

Recursion(f, S, c, G) == /\ f \in [Nat -> S]
                         /\ \A n \in Nat : f[n] = IF n = 0 THEN c ELSE G[<<n, f[n - 1]>>]

\* A function of natural numbers may be defined by recursion: it exists.
LEMMA NatRecursion ==
    ASSUME NEW S, NEW c \in S, NEW G \in Steps(S)
    PROVE  \E f : Recursion(f, S, c, G)
<1> USE DEF Steps
<1> DEFINE part == [m \in Nat |-> CHOOSE g : UpTo(g, m, S, c, G)]
           f == [m \in Nat |-> part[m][m]]
<1>1. \A m \in Nat : UpTo(part[m], m, S, c, G) BY SomeUpTo
<1> HIDE DEF part
<1>2. ASSUME NEW m \in Nat PROVE part[m][m] = part[m + 1][m]
  <2> DEFINE g == part[m]
             h == part[m + 1]
  <2>1. m + 1 \in Nat OBVIOUS
  <2>2. UpTo(g, m, S, c, G) BY <1>1
  <2>3. UpTo(h, m + 1, S, c, G) BY <1>1, <2>1
  <2> HIDE DEF g, h
  <2>4. g[m] = h[m] BY <2>2, <2>3, SameUpTo
  <2> QED BY <2>4 DEF g, h
<1>3. f \in [Nat -> S]
  <2> SUFFICES ASSUME NEW m \in Nat PROVE part[m][m] \in S OBVIOUS
  <2>1. UpTo(part[m], m, S, c, G) /\ m \in 0 .. m BY <1>1
  <2> QED BY <2>1 DEF UpTo
<1>4. ASSUME NEW n \in Nat PROVE f[n] = IF n = 0 THEN c ELSE G[<<n, f[n - 1]>>]
  <2>1. UpTo(part[n], n, S, c, G) /\ n \in 0 .. n BY <1>1
  <2>2. f[n] = part[n][n] OBVIOUS
  <2>3. part[n][n] = IF n = 0 THEN c ELSE G[<<n, part[n][n - 1]>>] BY <2>1 DEF UpTo
  <2>4. CASE n = 0 BY <2>2, <2>3, <2>4
  <2>5. CASE n # 0
    <3>1. n - 1 \in Nat /\ (n - 1) + 1 = n BY <2>5
    <3>2. part[n][n - 1] = part[n - 1][n - 1] BY <3>1, <1>2
    <3>3. f[n - 1] = part[n - 1][n - 1] BY <3>1
    <3> QED BY <2>2, <2>3, <2>5, <3>2, <3>3
  <2> QED BY <2>4, <2>5
<1> HIDE DEF f
<1> QED BY <1>3, <1>4 DEF Recursion

\* Multiplication keeps the order, and one more is a factor more.
LEMMA Times ==
    ASSUME NEW c \in Nat, NEW a \in Nat, NEW b \in Nat
    PROVE  /\ c * a \in Nat /\ c * b \in Nat /\ c * (a + 1) = c * a + c
           /\ a <= b => c * a <= c * b
OBVIOUS

\* Division with a remainder.
LEMMA Division ==
    ASSUME NEW n \in Nat, NEW r \in Nat \ {0}
    PROVE  /\ n \div r \in Nat /\ n % r \in 0 .. (r - 1)
           /\ n = r * (n \div r) + (n % r)
OBVIOUS

\* Quotient and remainder are the only ones.
LEMMA Quotient ==
    ASSUME NEW r \in Nat \ {0}, NEW q \in Nat, NEW t \in 0 .. (r - 1)
    PROVE  (r * q + t) \div r = q /\ (r * q + t) % r = t
OBVIOUS

\* Dividing twice.
LEMMA DivideTwice ==
    ASSUME NEW n \in Nat, NEW r \in Nat \ {0}, NEW s \in Nat \ {0}
    PROVE  /\ (n \div r) \div s = n \div (r * s)
           /\ n % (r * s) = r * ((n \div r) % s) + (n % r)
<1>1. (n \div r) \div s = n \div (r * s) OBVIOUS
<1> DEFINE q == n \div r
           t == n % r
           q2 == q \div s
           t2 == q % s
<1>2. q \in Nat /\ t \in 0 .. (r - 1) /\ n = r * q + t BY Division
<1>3. q2 \in Nat /\ t2 \in 0 .. (s - 1) /\ q = s * q2 + t2 BY <1>2, Division
<1> HIDE DEF q, t, q2, t2
<1>4. r * q = r * s * q2 + r * t2 BY <1>2, <1>3
<1>5. r * t2 <= r * (s - 1) BY <1>3
<1>6. r * (s - 1) = r * s - r OBVIOUS
<1>7. r * t2 + t \in 0 .. (r * s - 1) BY <1>2, <1>3, <1>5, <1>6
<1>8. r * s \in Nat \ {0} OBVIOUS
<1>9. n = (r * s) * q2 + (r * t2 + t) BY <1>2, <1>3, <1>4
<1>10. n % (r * s) = r * t2 + t BY <1>3, <1>7, <1>8, <1>9, Quotient
<1> QED BY <1>1, <1>10 DEF t, t2, q
=============================================================================
