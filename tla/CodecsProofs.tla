---------------------------- MODULE CodecsProofs ----------------------------
(***************************************************************************)
(* What the codecs do, for bytes and words of any width: numbers, keys,    *)
(* vectors, nodes, bitmaps and metadata are read back as they were written,*)
(* and the order of the bytes of keys is the order of the numbers in them. *)
(* Then what the sums over bits amount to: the distances of quantized      *)
(* vectors, and the bytes the vector instructions of other hosts make.     *)
(***************************************************************************)
EXTENDS Codecs, OrderLemmas, SequenceTheorems

-----------------------------------------------------------------------------
(* Powers of two, and the weights of bytes. *)

\* Each is twice the one before.
LEMMA Powers == /\ Pow2[0] = 1
                /\ \A k \in Nat : Pow2[k] \in Nat \ {0} /\ Pow2[k + 1] = 2 * Pow2[k]
<1> DEFINE S == Nat \ {0}
           G == [p \in Nat \X S |-> 2 * p[2]]
           Doubles(f) == f = [k \in Nat |-> IF k = 0 THEN 1 ELSE 2 * f[k - 1]]
<1>1. G \in Steps(S) /\ 1 \in S BY DEF Steps
<1>2. \A n \in Nat, v \in S : G[<<n, v>>] = 2 * v OBVIOUS
<1> HIDE DEF G, S
<1>3. PICK f : Recursion(f, S, 1, G)
  BY <1>1, NatRecursion
<1>4. /\ f \in [Nat -> S]
      /\ \A n \in Nat : f[n] = IF n = 0 THEN 1 ELSE G[<<n, f[n - 1]>>]
  BY <1>3 DEF Recursion
<1>5. \A n \in Nat : n # 0 => G[<<n, f[n - 1]>>] = 2 * f[n - 1]
  <2> TAKE n \in Nat
  <2> HAVE n # 0
  <2>1. n - 1 \in Nat OBVIOUS
  <2>2. f[n - 1] \in S BY <1>4, <2>1
  <2> QED BY <1>2, <2>1, <2>2
<1>6. Doubles(f)
  <2> SUFFICES f = [k \in Nat |-> IF k = 0 THEN 1 ELSE 2 * f[k - 1]] OBVIOUS
  <2> QED BY <1>4, <1>5
<1>7. Doubles(Pow2)
  <2>1. Pow2 = CHOOSE g : Doubles(g) BY DEF Pow2
  <2> HIDE DEF Doubles
  <2> QED BY <1>6, <2>1
<1>8. Pow2[0] = 1 /\ \A k \in Nat : Pow2[k + 1] = 2 * Pow2[k]
  <2>1. \A k \in Nat : Pow2[k] = IF k = 0 THEN 1 ELSE 2 * Pow2[k - 1] BY <1>7
  <2>2. \A k \in Nat : k + 1 \in Nat /\ k + 1 # 0 /\ (k + 1) - 1 = k OBVIOUS
  <2> QED BY <2>1, <2>2
<1>9. \A k \in Nat : Pow2[k] \in S
  <2> USE DEF S
  <2> DEFINE Off == {k \in Nat : Pow2[k] \notin S}
  <2> SUFFICES ASSUME Off # {} PROVE FALSE OBVIOUS
  <2>1. PICK k \in Off : \A o \in Off : k <= o BY LeastNat
  <2>2. k # 0 BY <1>8, <2>1
  <2>3. k - 1 \in Nat /\ k - 1 \notin Off /\ (k - 1) + 1 = k BY <2>1, <2>2
  <2>4. Pow2[k] = 2 * Pow2[k - 1] BY <1>8, <2>3
  <2> QED BY <2>1, <2>3, <2>4
<1> QED BY <1>8, <1>9 DEF S

\* The power of a sum.
LEMMA PowerOfSum ==
    ASSUME NEW a \in Nat, NEW b \in Nat
    PROVE  Pow2[a + b] = Pow2[a] * Pow2[b]
<1> DEFINE Off == {k \in Nat : Pow2[a + k] # Pow2[a] * Pow2[k]}
<1> SUFFICES ASSUME Off # {} PROVE FALSE OBVIOUS
<1>1. PICK k \in Off : \A o \in Off : k <= o BY LeastNat
<1>2. k # 0 BY <1>1, Powers
<1>3. k - 1 \in Nat /\ k - 1 \notin Off BY <1>1, <1>2
<1> DEFINE j == k - 1
<1>4. j \in Nat /\ k = j + 1 /\ a + j \in Nat /\ a + k = (a + j) + 1 BY <1>1, <1>3
<1>5. Pow2[a + j] = Pow2[a] * Pow2[j] BY <1>3
<1> HIDE DEF j
<1>6. Pow2[a + k] = 2 * Pow2[a + j] /\ Pow2[k] = 2 * Pow2[j] BY <1>4, Powers
<1>7. Pow2[a] \in Nat /\ Pow2[j] \in Nat BY <1>4, Powers
<1>8. 2 * (Pow2[a] * Pow2[j]) = Pow2[a] * (2 * Pow2[j]) BY <1>7
<1> QED BY <1>1, <1>5, <1>6, <1>8

\* The weight of a byte is Radix times that of the one below.
LEMMA Weights ==
    /\ Radix \in Nat /\ Radix >= 4
    /\ Weight(0) = 1
    /\ \A k \in Nat : Weight(k) \in Nat \ {0} /\ Weight(k + 1) = Radix * Weight(k)
<1>1. Radix \in Nat /\ Radix >= 4
  <2> DEFINE j == BitsPerByte - 2
  <2>1. j \in Nat /\ BitsPerByte = 2 + j BY BitsAssumption
  <2>2. Pow2[1] = 2 /\ Pow2[2] = 4
    <3>1. Pow2[0 + 1] = 2 * Pow2[0] /\ Pow2[1 + 1] = 2 * Pow2[1] BY Powers
    <3> QED BY <3>1, Powers
  <2>3. Radix = Pow2[2] * Pow2[j] BY <2>1, PowerOfSum DEF Radix
  <2>4. Pow2[j] \in Nat \ {0} BY <2>1, Powers
  <2> QED BY <2>2, <2>3, <2>4
<1>2. Weight(0) = 1
  <2>1. BitsPerByte * 0 = 0 BY BitsAssumption
  <2> QED BY <2>1, Powers DEF Weight
<1>3. ASSUME NEW k \in Nat PROVE Weight(k) \in Nat \ {0} /\ Weight(k + 1) = Radix * Weight(k)
  <2>1. BitsPerByte \in Nat /\ BitsPerByte * k \in Nat BY BitsAssumption
  <2>2. BitsPerByte * (k + 1) = BitsPerByte + BitsPerByte * k BY BitsAssumption
  <2>3. Pow2[BitsPerByte + BitsPerByte * k] = Pow2[BitsPerByte] * Pow2[BitsPerByte * k]
    BY <2>1, PowerOfSum
  <2> QED BY <2>1, <2>2, <2>3, Powers DEF Weight, Radix
<1> QED BY <1>1, <1>2, <1>3

-----------------------------------------------------------------------------
(* Numbers as bytes. *)

Byte == 0 .. Radix - 1

\* The bytes of a number are numbers below Radix.
LEMMA BytesType ==
    ASSUME NEW n \in Nat, NEW k \in Nat
    PROVE  /\ BigEndian(n, k) \in Seq(Byte) /\ BigEndian(n, k) \in Seq(Nat)
           /\ Len(BigEndian(n, k)) = k
           /\ \A b \in 1 .. k : BigEndian(n, k)[b] = (n \div Weight(k - b)) % Radix
<1>1. ASSUME NEW b \in 1 .. k
      PROVE  (n \div Weight(k - b)) % Radix \in Byte
  <2>1. k - b \in Nat OBVIOUS
  <2>2. Weight(k - b) \in Nat \ {0} /\ Radix \in Nat \ {0} BY <2>1, Weights
  <2>3. n \div Weight(k - b) \in Nat BY <2>2, Division
  <2> QED BY <2>2, <2>3, Division DEF Byte
<1>2. Byte \in SUBSET Nat BY Weights DEF Byte
<1>3. BigEndian(n, k) \in [1 .. k -> Byte] BY <1>1 DEF BigEndian
<1>4. \A b \in 1 .. k : BigEndian(n, k)[b] = (n \div Weight(k - b)) % Radix BY DEF BigEndian
<1> HIDE DEF BigEndian
<1> DEFINE s == BigEndian(n, k)
<1>5. Byte \subseteq Nat /\ s \in [1 .. k -> Byte] BY <1>2, <1>3
<1> HIDE DEF s
<1>6. s \in Seq(Byte) /\ Len(s) = k
  <2>1. s \in Seq(Byte) BY <1>5
  <2> QED BY <1>5, <2>1
<1>7. s \in Seq(Nat)
  <2>1. s \in [1 .. k -> Nat] BY <1>5
  <2> QED BY <2>1
<1> QED BY <1>4, <1>6, <1>7 DEF s

\* In particular each of them.
LEMMA ByteAt ==
    ASSUME NEW n \in Nat, NEW k \in Nat, NEW b \in 1 .. k
    PROVE  BigEndian(n, k)[b] \in Byte
<1> DEFINE s == BigEndian(n, k)
<1>1. s \in Seq(Byte) /\ Len(s) = k BY BytesType
<1> HIDE DEF s
<1>2. s[b] \in Byte BY <1>1
<1> QED BY <1>2 DEF s

\* f folds a over the elements of p, sel[p] being the one that is taken last.
FoldOf(f, m, sel, r, a) ==
    f = [p \in SUBSET (1 .. m) |-> IF p = {} THEN 0 ELSE r * f[p \ {sel[p]}] + a[sel[p]]]

Digits(m) == [1 .. m -> Nat]

Selects(sel, m) == \A p \in SUBSET (1 .. m) : p # {} => sel[p] \in p

\* There is a function that a fold defines by recursion.
LEMMA FoldExists ==
    ASSUME NEW m \in Nat, NEW r \in Nat, NEW a \in Digits(m), NEW sel, Selects(sel, m)
    PROVE  \E f : FoldOf(f, m, sel, r, a)
<1> DEFINE D == 1 .. m
           P == SUBSET D
           T == [P -> Nat]
           Step(g) == [p \in P |-> IF p = {} THEN 0 ELSE r * g[p \ {sel[p]}] + a[sel[p]]]
           G == [v \in Nat \X T |-> Step(v[2])]
           zero == [p \in P |-> 0]
<1> USE DEF Selects, Digits
<1>1. \A p \in P : /\ IsFiniteSet(p) /\ Cardinality(p) \in Nat /\ Cardinality(p) <= m
                   /\ p # {} => Cardinality(p) # 0
  <2>1. IsFiniteSet(D) /\ Cardinality(D) = m BY FS_Interval, 1 \in Int
  <2> HIDE DEF D
  <2> QED BY <2>1, FS_Subset, FS_CardinalityType, FS_EmptySet
<1>2. ASSUME NEW p \in P, p # {}
      PROVE  p \ {sel[p]} \in P /\ Cardinality(p \ {sel[p]}) = Cardinality(p) - 1
  BY <1>1, <1>2, FS_RemoveElement
<1>3. ASSUME NEW g \in T PROVE Step(g) \in T
  <2> SUFFICES ASSUME NEW p \in P, p # {} PROVE r * g[p \ {sel[p]}] + a[sel[p]] \in Nat
    OBVIOUS
  <2>1. sel[p] \in D OBVIOUS
  <2> DEFINE low == g[p \ {sel[p]}]
             last == a[sel[p]]
  <2>2. low \in Nat
    <3> HIDE DEF P
    <3> QED BY <1>2
  <2>3. last \in Nat BY <2>1
  <2> HIDE DEF low, last
  <2>4. r * low + last \in Nat BY <2>2, <2>3
  <2> QED BY <2>4 DEF low, last
<1>5. zero \in T /\ G \in Steps(T)
  <2> HIDE DEF Step, P
  <2>1. zero \in T OBVIOUS
  <2>2. \A v \in Nat \X T : Step(v[2]) \in T BY <1>3
  <2> HIDE DEF T
  <2> QED BY <2>1, <2>2 DEF Steps
<1>6. PICK F : Recursion(F, T, zero, G)
  <2> HIDE DEF T, zero, G
  <2> QED BY <1>5, NatRecursion
<1>7. /\ F[0] = zero
      /\ \A n \in Nat : F[n] \in T /\ F[n + 1] = Step(F[n])
  <2> HIDE DEF Step, P, T, zero
  <2>1. /\ F \in [Nat -> T] /\ F[0] = zero
        /\ \A n \in Nat : n # 0 => F[n] = G[<<n, F[n - 1]>>]
    BY <1>6 DEF Recursion
  <2>2. ASSUME NEW n \in Nat PROVE F[n + 1] = Step(F[n])
    <3>1. n + 1 \in Nat /\ n + 1 # 0 /\ (n + 1) - 1 = n /\ F[n] \in T BY <2>1
    <3>2. F[n + 1] = G[<<n + 1, F[n]>>] BY <2>1, <3>1
    <3> QED BY <3>1, <3>2
  <2> QED BY <2>1, <2>2
<1> HIDE DEF G
<1>8. \A g \in T, p \in P : Step(g)[p] = IF p = {} THEN 0 ELSE r * g[p \ {sel[p]}] + a[sel[p]]
  OBVIOUS
<1>9. ASSUME NEW n \in Nat, NEW p \in P, Cardinality(p) <= n
      PROVE  F[n][p] = F[n + 1][p]
  <2> DEFINE Off == {o \in Nat : \E q \in P : Cardinality(q) <= o /\ F[o][q] # F[o + 1][q]}
  <2> SUFFICES Off = {} BY <1>9
  <2> SUFFICES ASSUME Off # {} PROVE FALSE OBVIOUS
  <2>1. PICK o \in Off : \A e \in Off : o <= e BY LeastNat
  <2>2. PICK q \in P : Cardinality(q) <= o /\ F[o][q] # F[o + 1][q] BY <2>1
  <2>3. o \in Nat /\ F[o] \in T /\ F[o + 1] = Step(F[o]) BY <1>7
  <2>4. q # {}
    <3> SUFFICES ASSUME q = {} PROVE FALSE OBVIOUS
    <3>1. F[o + 1][q] = 0 BY <1>8, <2>3
    <3>2. CASE o = 0 BY <1>7, <2>2, <3>1, <3>2
    <3>3. CASE o # 0
      <4>1. o - 1 \in Nat /\ (o - 1) + 1 = o BY <2>3, <3>3
      <4>2. F[o] = Step(F[o - 1]) /\ F[o - 1] \in T BY <1>7, <4>1
      <4>3. F[o][q] = 0 BY <1>8, <4>2
      <4> QED BY <2>2, <3>1, <4>3
    <3> QED BY <3>2, <3>3
  <2> DEFINE x == sel[q]
             t == q \ {x}
  <2>5. t \in P /\ Cardinality(t) = Cardinality(q) - 1 BY <1>2, <2>4
  <2>6. o - 1 \in Nat /\ (o - 1) + 1 = o /\ Cardinality(t) <= o - 1
    <3> DEFINE c == Cardinality(q)
               e == Cardinality(t)
    <3> HIDE DEF P, t
    <3>1. c \in Nat /\ c # 0 BY <1>1, <2>4
    <3>2. c <= o /\ e = c - 1 /\ o \in Nat BY <2>2, <2>3, <2>5
    <3> HIDE DEF c, e, Off
    <3>3. o - 1 \in Nat /\ (o - 1) + 1 = o /\ e <= o - 1 BY <3>1, <3>2
    <3> QED BY <3>3 DEF e
  <2> HIDE DEF x
  <2>9. o - 1 \notin Off BY <2>1, <2>6
  <2>10. F[o - 1][t] = F[o][t] BY <2>5, <2>6, <2>9
  <2>11. F[o] = Step(F[o - 1]) /\ F[o - 1] \in T BY <1>7, <2>6
  <2>12. F[o][q] = r * F[o - 1][t] + a[x] BY <1>8, <2>4, <2>11 DEF x
  <2>13. F[o + 1][q] = r * F[o][t] + a[x] BY <1>8, <2>3, <2>4 DEF x
  <2> QED BY <2>2, <2>10, <2>12, <2>13
<1>10. F[m] = Step(F[m])
  <2>1. F[m] \in T /\ F[m + 1] = Step(F[m]) /\ Step(F[m]) \in T BY <1>3, <1>7
  <2>2. \A p \in P : F[m][p] = F[m + 1][p] BY <1>1, <1>9
  <2> HIDE DEF P, Step
  <2> QED BY <2>1, <2>2
<1> QED BY <1>10 DEF FoldOf

\* The least and the greatest of some positions.
LEMMA Ends ==
    ASSUME NEW m \in Nat, NEW p \in SUBSET (1 .. m), p # {}
    PROVE  /\ Max(p) \in p /\ \A x \in p : x <= Max(p)
           /\ Min(p) \in p /\ \A x \in p : Min(p) <= x
<1>1. \E x \in p : \A y \in p : y <= x
  <2> DEFINE Off == {m - x : x \in p}
  <2>1. Off # {} /\ Off \subseteq Nat
    <3>1. \A x \in p : m - x \in Nat OBVIOUS
    <3> QED BY <3>1
  <2>2. PICK o \in Off : \A z \in Off : o <= z BY <2>1, LeastNat
  <2>3. PICK x \in p : o = m - x BY <2>2
  <2>4. ASSUME NEW y \in p PROVE y <= x
    <3>1. m - y \in Off OBVIOUS
    <3>2. m - x <= m - y BY <2>2, <2>3, <3>1
    <3>3. x \in Nat /\ y \in Nat OBVIOUS
    <3> QED BY <3>2, <3>3
  <2> QED BY <2>3, <2>4
<1>2. \E x \in p : \A y \in p : x <= y
  <2>1. p \subseteq Nat OBVIOUS
  <2> QED BY <2>1, LeastNat
<1> QED BY <1>1, <1>2 DEF Max, Min

\* Multiplying and adding.
LEMMA TimesPlus == \A r, x, y \in Nat : r * x + y \in Nat
OBVIOUS

\* A chain of values, each made from the one before, consists of numbers.
LEMMA ChainOfNats ==
    ASSUME NEW m \in Nat, NEW r \in Nat, NEW a \in [1 .. m -> Nat], NEW h, h[0] = 0,
           \A k \in 1 .. m : h[k] = r * h[k - 1] + a[k]
    PROVE  \A k \in 0 .. m : h[k] \in Nat
<1> DEFINE Off == {k \in Nat : k <= m /\ h[k] \notin Nat}
<1> SUFFICES ASSUME NEW q \in 0 .. m, h[q] \notin Nat PROVE FALSE OBVIOUS
<1>1. PICK k \in Off : \A o \in Off : k <= o
  <2>1. q \in Nat /\ q <= m OBVIOUS
  <2>2. q \in Off /\ Off \in SUBSET Nat BY <2>1
  <2> HIDE DEF Off
  <2>3. Off # {} BY <2>2
  <2> QED BY <2>2, <2>3, LeastNat
<1>2. k \in Nat /\ k <= m /\ h[k] \notin Nat OBVIOUS
<1>3. k # 0 BY <1>2
<1>4. k \in 1 .. m /\ k - 1 \in Nat /\ k - 1 <= m /\ ~(k <= k - 1) BY <1>2, <1>3
<1>7. k - 1 \notin Off
  <2> HIDE DEF Off
  <2> QED BY <1>1, <1>4
<1> DEFINE low == h[k - 1]
           last == a[k]
<1>8. low \in Nat /\ last \in Nat BY <1>4, <1>7
<1>5. h[k] = r * low + last BY <1>4
<1> HIDE DEF low, last
<1>6. r * low + last \in Nat BY <1>8, TimesPlus
<1> QED BY <1>2, <1>5, <1>6

\* What the fold of ReadBig computes, for the bytes up to each.
LEMMA Horner ==
    ASSUME NEW m \in Nat, NEW s \in [1 .. m -> Nat]
    PROVE  \E h \in [0 .. m -> Nat] : /\ h[0] = 0 /\ h[m] = ReadBig(s)
                                      /\ \A k \in 1 .. m : h[k] = Radix * h[k - 1] + s[k]
<1> DEFINE D == 1 .. m
           P == SUBSET D
           Step(g) == [p \in P |-> IF p = {} THEN 0 ELSE Radix * g[p \ {Max(p)}] + s[Max(p)]]
           sel == [p \in P |-> Max(p)]
<1>1. Radix \in Nat BY Weights
<1>2. ASSUME NEW p \in P, p # {} PROVE Max(p) \in p /\ \A x \in p : x <= Max(p)
  BY <1>2, Ends
<1>4. ReadBig(s) = (CHOOSE f : f = Step(f))[D]
  <2>1. DOMAIN s = D OBVIOUS
  <2> QED BY <2>1 DEF ReadBig, FoldLeft, MapThenFoldSet
<1>5. (\A p \in P : sel[p] = Max(p)) /\ Selects(sel, m) BY <1>2 DEF Selects
<1> HIDE DEF sel
<1>6. PICK f : FoldOf(f, m, sel, Radix, s)
  <2>1. s \in Digits(m) BY DEF Digits
  <2> QED BY <1>1, <1>5, <2>1, FoldExists
<1>10. f = Step(f)
  <2>1. f = [p \in P |-> IF p = {} THEN 0 ELSE Radix * f[p \ {sel[p]}] + s[sel[p]]]
    BY <1>6 DEF FoldOf
  <2> HIDE DEF P
  <2> QED BY <1>5, <2>1
<1> DEFINE c == CHOOSE g : g = Step(g)
           h == [k \in 0 .. m |-> c[1 .. k]]
<1>11. c = Step(c)
  <2> HIDE DEF Step
  <2> QED BY <1>10
<1> HIDE DEF c
<1>12. \A p \in P : c[p] = IF p = {} THEN 0 ELSE Radix * c[p \ {Max(p)}] + s[Max(p)]
  BY <1>11
<1>h. \A k \in 0 .. m : h[k] = c[1 .. k] OBVIOUS
<1>t. (\A k \in 0 .. m : h[k] \in Nat) => h \in [0 .. m -> Nat] OBVIOUS
<1> HIDE DEF h
<1>13. h[0] = 0
  <2>1. 1 .. 0 = {} /\ {} \in P /\ 0 \in 0 .. m OBVIOUS
  <2>2. c[{}] = 0 BY <1>12, <2>1
  <2> QED BY <1>h, <2>1, <2>2
<1>14. ASSUME NEW k \in 1 .. m PROVE h[k] = Radix * h[k - 1] + s[k]
  <2> DEFINE p == 1 .. k
  <2>1. p \in P /\ p # {} OBVIOUS
  <2>2. Max(p) = k
    <3>1. Max(p) \in p /\ \A x \in p : x <= Max(p) BY <1>2, <2>1
    <3> QED BY <3>1
  <2>3. p \ {k} = 1 .. (k - 1) OBVIOUS
  <2>4. c[p] = Radix * c[p \ {k}] + s[k] BY <1>12, <2>1, <2>2
  <2>5. k \in 0 .. m /\ k - 1 \in 0 .. m OBVIOUS
  <2> QED BY <1>h, <2>3, <2>4, <2>5
<1>15. h[m] = ReadBig(s) BY <1>4, <1>h, m \in 0 .. m DEF c
<1>16. h \in [0 .. m -> Nat] BY <1>1, <1>13, <1>14, <1>h, <1>t, ChainOfNats
<1> QED BY <1>13, <1>14, <1>15, <1>16

\* The bytes up to b make a number Radix times that of the bytes before, and byte b.
LEMMA ByteStep ==
    ASSUME NEW k \in Nat, NEW n \in Nat, NEW b \in 1 .. k
    PROVE  n \div Weight(k - b) = Radix * (n \div Weight(k - (b - 1))) + BigEndian(n, k)[b]
<1> DEFINE w == Weight(k - b)
           q == n \div w
           s == BigEndian(n, k)
<1>1. k - b \in Nat /\ k - (b - 1) = (k - b) + 1 /\ Radix \in Nat \ {0} BY Weights
<1>2. w \in Nat \ {0} /\ Weight(k - (b - 1)) = Radix * w BY <1>1, Weights
<1>3. s[b] = q % Radix BY BytesType
<1> HIDE DEF w, s
<1>4. n \div (Radix * w) = q \div Radix
  <2>1. (n \div w) \div Radix = n \div (w * Radix) BY <1>1, <1>2, DivideTwice
  <2>2. w * Radix = Radix * w BY <1>1, <1>2
  <2> QED BY <2>1, <2>2
<1>5. q \in Nat BY <1>2, Division
<1> HIDE DEF q
<1>6. q = Radix * (q \div Radix) + (q % Radix) BY <1>1, <1>5, Division
<1> QED BY <1>2, <1>3, <1>4, <1>6 DEF q, w, s

\* No bytes make nothing.
LEMMA NoByte ==
    ASSUME NEW k \in Nat, NEW n \in 0 .. Weight(k) - 1
    PROVE  n \div Weight(k - 0) = 0
<1> DEFINE w == Weight(k)
<1>1. w \in Nat \ {0} /\ n \in 0 .. w - 1 /\ k - 0 = k BY Weights
<1> HIDE DEF w
<1>2. n \div w = 0 BY <1>1
<1> QED BY <1>1, <1>2 DEF w

\* A number is read back as it was written.
LEMMA ReadsBack ==
    ASSUME NEW k \in Nat, NEW n \in 0 .. Weight(k) - 1
    PROVE  ReadBig(BigEndian(n, k)) = n
<1> DEFINE s == BigEndian(n, k)
<1>1. n \in Nat BY Weights
<1>2. s \in [1 .. k -> Nat]
  <2>1. s \in Seq(Nat) /\ Len(s) = k BY <1>1, BytesType
  <2> HIDE DEF s
  <2> QED BY <2>1
<1>3. \A b \in 1 .. k : n \div Weight(k - b) = Radix * (n \div Weight(k - (b - 1))) + s[b]
  BY <1>1, ByteStep
<1> HIDE DEF s
<1>4. PICK h \in [0 .. k -> Nat] : /\ h[0] = 0 /\ h[k] = ReadBig(s)
                                   /\ \A b \in 1 .. k : h[b] = Radix * h[b - 1] + s[b]
  BY <1>2, Horner
<1> DEFINE Off == {b \in Nat : b <= k /\ h[b] # n \div Weight(k - b)}
<1>5. Off = {}
  <2> SUFFICES ASSUME Off # {} PROVE FALSE OBVIOUS
  <2>1. PICK b \in Off : \A o \in Off : b <= o BY LeastNat
  <2>2. b # 0 BY <1>4, <2>1, NoByte
  <2>3. b - 1 \in Nat /\ b - 1 <= k /\ b - 1 \notin Off /\ b \in 1 .. k BY <2>1, <2>2
  <2>4. h[b - 1] = n \div Weight(k - (b - 1)) BY <2>3
  <2> QED BY <1>3, <1>4, <2>1, <2>3, <2>4
<1>6. h[k] = n
  <2>1. h[k] = n \div Weight(k - k) BY <1>5
  <2>2. k - k = 0 /\ n \div 1 = n OBVIOUS
  <2> QED BY <2>1, <2>2, Weights
<1> QED BY <1>4, <1>6 DEF s

\* Numbers whose first bytes are the same are the same that far.
LEMMA SameFirst ==
    ASSUME NEW k \in Nat, NEW n \in 0 .. Weight(k) - 1, NEW m \in 0 .. Weight(k) - 1,
           NEW p \in 0 .. k, \A b \in 1 .. p : BigEndian(n, k)[b] = BigEndian(m, k)[b]
    PROVE  n \div Weight(k - p) = m \div Weight(k - p)
<1> DEFINE s == BigEndian(n, k)
           t == BigEndian(m, k)
<1>1. \A b \in 1 .. k : n \div Weight(k - b) = Radix * (n \div Weight(k - (b - 1))) + s[b]
  BY ByteStep, Weights
<1>2. \A b \in 1 .. k : m \div Weight(k - b) = Radix * (m \div Weight(k - (b - 1))) + t[b]
  BY ByteStep, Weights
<1>3. \A b \in 1 .. p : s[b] = t[b] OBVIOUS
<1> HIDE DEF s, t
<1> DEFINE Off == {b \in Nat : b <= p /\ n \div Weight(k - b) # m \div Weight(k - b)}
<1> SUFFICES Off = {}
  <2>1. p \in Nat /\ p <= p /\ p \notin Off OBVIOUS
  <2> QED BY <2>1
<1> SUFFICES ASSUME Off # {} PROVE FALSE OBVIOUS
<1>4. PICK b \in Off : \A o \in Off : b <= o BY LeastNat
<1>5. b # 0
  <2>1. n \div Weight(k - 0) = 0 /\ m \div Weight(k - 0) = 0 BY NoByte
  <2> QED BY <1>4, <2>1
<1>6. b - 1 \in Nat /\ b - 1 <= p /\ b - 1 \notin Off /\ b \in 1 .. k /\ b \in 1 .. p BY <1>4, <1>5
<1>7. n \div Weight(k - (b - 1)) = m \div Weight(k - (b - 1)) BY <1>6
<1> QED BY <1>1, <1>2, <1>3, <1>4, <1>6, <1>7

\* The order of numbers is that of their bytes.
LEMMA BytesOrder ==
    ASSUME NEW k \in Nat, NEW n \in 0 .. Weight(k) - 1, NEW m \in 0 .. Weight(k) - 1,
           NEW p \in 1 .. k, \A b \in 1 .. p - 1 : BigEndian(n, k)[b] = BigEndian(m, k)[b],
           BigEndian(n, k)[p] < BigEndian(m, k)[p]
    PROVE  n < m
<1> DEFINE c == BigEndian(n, k)[p]
           d == BigEndian(m, k)[p]
           w == Weight(k - p)
           q == n \div w
           r == m \div w
           f == n \div Weight(k - (p - 1))
<1>1. k - p \in Nat /\ k - (p - 1) \in Nat /\ p - 1 \in 0 .. k OBVIOUS
<1>2. n \in Nat /\ m \in Nat /\ w \in Nat \ {0} /\ Weight(k - (p - 1)) \in Nat \ {0}
  BY <1>1, Weights
<1>3. f = m \div Weight(k - (p - 1)) BY <1>1, SameFirst
<1>4. q = Radix * f + c BY <1>2, ByteStep
<1>5. r = Radix * f + d BY <1>2, <1>3, ByteStep
<1>6. c \in Nat /\ d \in Nat /\ c < d
  <2>1. Byte \subseteq Nat BY Weights DEF Byte
  <2>2. c \in Byte /\ d \in Byte BY <1>2, ByteAt
  <2> QED BY <2>1, <2>2
<1>7. f \in Nat /\ q \in Nat /\ r \in Nat BY <1>2, Division
<1> HIDE DEF c, d, f
<1>8. q < r
  <2> HIDE DEF q, r
  <2>1. Radix * f \in Nat BY <1>7, Weights
  <2> QED BY <1>4, <1>5, <1>6, <2>1
<1> HIDE DEF w
<1>9. n = w * q + (n % w) /\ m = w * r + (m % w) /\ n % w \in 0 .. w - 1 /\ m % w \in Nat
  BY <1>2, Division
<1> HIDE DEF q, r
<1>10. w * (q + 1) <= w * r BY <1>2, <1>7, <1>8
<1>11. w * (q + 1) = w * q + w BY <1>2, <1>7
<1>12. w * q \in Nat /\ w * r \in Nat BY <1>2, <1>7
<1> QED BY <1>2, <1>9, <1>10, <1>11, <1>12

\* Numbers with the same bytes are the same.
LEMMA SameBytes ==
    ASSUME NEW k \in Nat, NEW n \in 0 .. Weight(k) - 1, NEW m \in 0 .. Weight(k) - 1,
           \A b \in 1 .. k : BigEndian(n, k)[b] = BigEndian(m, k)[b]
    PROVE  n = m
<1>1. n \div Weight(k - k) = m \div Weight(k - k) BY SameFirst
<1>2. k - k = 0 /\ n \div 1 = n /\ m \div 1 = m OBVIOUS
<1> QED BY <1>1, <1>2, Weights

-----------------------------------------------------------------------------
(* Keys. *)

\* The bytes r are those of s and then those of t.
Joins(r, s, t) == /\ r \in Seq(Byte) /\ Len(r) = Len(s) + Len(t)
                  /\ \A b \in 1 .. Len(s) : r[b] = s[b]
                  /\ \A b \in 1 .. Len(t) : r[Len(s) + b] = t[b]

\* That is what concatenation gives.
LEMMA Joined ==
    ASSUME NEW s \in Seq(Byte), NEW t \in Seq(Byte)
    PROVE  Joins(s \o t, s, t)
<1>1. Len(s) \in Nat /\ Len(t) \in Nat OBVIOUS
<1>2. \A b \in 1 .. Len(s) : b \in 1 .. Len(s) + Len(t) /\ b <= Len(s) BY <1>1
<1>3. \A b \in 1 .. Len(t) : /\ Len(s) + b \in 1 .. Len(s) + Len(t)
                             /\ ~(Len(s) + b <= Len(s)) /\ (Len(s) + b) - Len(s) = b
  BY <1>1
<1> QED BY <1>2, <1>3, ConcatProperties DEF Joins

\* What a key may hold.
AnyKey == [index : 0 .. Weight(2) - 1, mode : MetadataMode .. ItemMode,
           item : 0 .. Weight(4) - 1, layer : 0 .. Radix - 1]

\* Where the parts of a key are in its bytes.
LEMMA KeyParts ==
    ASSUME NEW k \in AnyKey
    PROVE  /\ KeyBytes(k) \in Seq(Byte) /\ Len(KeyBytes(k)) = 8
           /\ \A b \in 1 .. 2 : KeyBytes(k)[b] = BigEndian(k.index, 2)[b]
           /\ KeyBytes(k)[3] = k.mode
           /\ \A b \in 1 .. 4 : KeyBytes(k)[b + 3] = BigEndian(k.item, 4)[b]
           /\ KeyBytes(k)[8] = k.layer
<1> DEFINE x == BigEndian(k.index, 2)
           i == BigEndian(k.item, 4)
<1>1. k.index \in Nat /\ k.item \in Nat BY DEF AnyKey
<1>2. x \in Seq(Byte) /\ Len(x) = 2 /\ i \in Seq(Byte) /\ Len(i) = 4 BY <1>1, BytesType DEF Byte
<1>3. k.mode \in Byte /\ k.layer \in Byte
  BY Weights DEF AnyKey, Byte, MetadataMode, ItemMode
<1> DEFINE m == <<k.mode>>
           l == <<k.layer>>
<1>4. /\ m \in Seq(Byte) /\ Len(m) = 1 /\ m[1] = k.mode
      /\ l \in Seq(Byte) /\ Len(l) = 1 /\ l[1] = k.layer
  BY <1>3
<1> HIDE DEF x, i, m, l
<1> DEFINE s == x \o m
           t == s \o i
           u == t \o l
<1>5. KeyBytes(k) = u BY DEF KeyBytes, x, i, m, l
<1>6. Joins(s, x, m) BY <1>2, <1>4, Joined
<1> HIDE DEF s
<1>7. Joins(t, s, i) BY <1>2, <1>6, Joined DEF Joins
<1> HIDE DEF t
<1>8. Joins(u, t, l) BY <1>4, <1>7, Joined DEF Joins
<1> HIDE DEF u
<1>9. Len(s) = 3 /\ s[3] = k.mode /\ \A b \in 1 .. 2 : s[b] = x[b]
  BY <1>2, <1>4, <1>6, 2 + 1 = 3, 1 \in 1 .. 1 DEF Joins
<1>10. /\ Len(t) = 7 /\ \A b \in 1 .. 3 : t[b] = s[b]
       /\ \A b \in 1 .. 4 : t[b + 3] = i[b]
  <2>1. 3 + 4 = 7 /\ \A b \in 1 .. 4 : 3 + b = b + 3 OBVIOUS
  <2> QED BY <1>2, <1>7, <1>9, <2>1 DEF Joins
<1>11. u \in Seq(Byte) /\ Len(u) = 8 /\ u[8] = k.layer /\ \A b \in 1 .. 7 : u[b] = t[b]
  BY <1>4, <1>8, <1>10, 7 + 1 = 8, 1 \in 1 .. 1 DEF Joins
<1>12. \A b \in 1 .. 4 : u[b + 3] = i[b]
  <2>1. \A b \in 1 .. 4 : b + 3 \in 1 .. 7 OBVIOUS
  <2> QED BY <1>10, <1>11, <2>1
<1>13. \A b \in 1 .. 2 : u[b] = x[b] BY <1>9, <1>10, <1>11
<1>14. u[3] = k.mode BY <1>9, <1>10, <1>11
<1> QED BY <1>5, <1>11, <1>12, <1>13, <1>14 DEF x, i

\* A key is read back as it was written.
LEMMA KeyReadsBack ==
    ASSUME NEW k \in AnyKey
    PROVE  ReadKey(KeyBytes(k)) = k
<1> DEFINE s == KeyBytes(k)
           x == BigEndian(k.index, 2)
           i == BigEndian(k.item, 4)
<1>1. /\ s \in Seq(Byte) /\ Len(s) = 8 /\ s[3] = k.mode /\ s[8] = k.layer
      /\ \A b \in 1 .. 2 : s[b] = x[b]
      /\ \A b \in 1 .. 4 : s[b + 3] = i[b]
  BY KeyParts
<1>2. k.index \in Nat /\ k.item \in Nat BY DEF AnyKey
<1>3. x \in Seq(Nat) /\ Len(x) = 2 /\ i \in Seq(Nat) /\ Len(i) = 4 BY <1>2, BytesType
<1>4. ReadBig(x) = k.index /\ ReadBig(i) = k.item BY ReadsBack DEF AnyKey
<1> HIDE DEF s, x, i
<1>5. SubSeq(s, 1, 2) = x
  <2>1. SubSeq(s, 1, 2) = [b \in 1 .. 2 |-> s[b]] BY <1>1
  <2> QED BY <1>1, <1>3, <2>1
<1>6. SubSeq(s, 4, 7) = i
  <2>1. SubSeq(s, 4, 7) = [b \in 1 .. 4 |-> s[b + 3]] BY <1>1
  <2> QED BY <1>1, <1>3, <2>1
<1>7. ReadKey(s) = [index |-> k.index, mode |-> k.mode, item |-> k.item, layer |-> k.layer]
  BY <1>1, <1>4, <1>5, <1>6 DEF ReadKey
<1>8. k = [index |-> k.index, mode |-> k.mode, item |-> k.item, layer |-> k.layer] BY DEF AnyKey
<1> QED BY <1>7, <1>8 DEF s

\* What a prefix of bytes is.
LEMMA PrefixMeans ==
    ASSUME NEW p \in Seq(Byte), NEW s \in Seq(Byte)
    PROVE  IsPrefix(p, s) <=> Len(p) <= Len(s) /\ \A b \in 1 .. Len(p) : p[b] = s[b]
<1> DEFINE q == SubSeq(p, 1, Len(p))
           r == SubSeq(s, 1, Len(p))
<1>1. Len(p) \in Nat /\ Len(s) \in Nat OBVIOUS
<1>2. ASSUME Len(p) <= Len(s)
      PROVE  q = r <=> \A b \in 1 .. Len(p) : p[b] = s[b]
  <2>1. q = [b \in 1 .. Len(p) |-> p[b]] BY <1>1
  <2>2. r = [b \in 1 .. Len(p) |-> s[b]] BY <1>1, <1>2
  <2> HIDE DEF q, r
  <2> QED BY <2>1, <2>2
<1> QED BY <1>2 DEF IsPrefix

\* Prefix::all finds the keys of its index.
LEMMA FindsIndex ==
    ASSUME NEW k \in AnyKey, NEW x \in 0 .. Weight(2) - 1
    PROVE  IsPrefix(PrefixAll(x), KeyBytes(k)) <=> k.index = x
<1> DEFINE p == BigEndian(x, 2)
           q == BigEndian(k.index, 2)
           s == KeyBytes(k)
<1>1. x \in Nat /\ k.index \in 0 .. Weight(2) - 1 BY DEF AnyKey
<1>2. p \in Seq(Byte) /\ Len(p) = 2 BY <1>1, BytesType
<1>3. s \in Seq(Byte) /\ Len(s) = 8 /\ \A b \in 1 .. 2 : s[b] = q[b] BY KeyParts
<1>4. (\A b \in 1 .. 2 : p[b] = q[b]) => x = k.index BY <1>1, SameBytes
<1>5. x = k.index => p = q OBVIOUS
<1> HIDE DEF p, q, s
<1>6. IsPrefix(p, s) <=> \A b \in 1 .. 2 : p[b] = s[b]
  <2>1. Len(p) <= Len(s) BY <1>2, <1>3
  <2> QED BY <1>2, <1>3, <2>1, PrefixMeans
<1>7. IsPrefix(p, s) <=> k.index = x BY <1>3, <1>4, <1>5, <1>6
<1> QED BY <1>7 DEF PrefixAll, p, s

\* The other prefixes find the keys of an index and a kind.
LEMMA FindsMode ==
    ASSUME NEW k \in AnyKey, NEW x \in 0 .. Weight(2) - 1, NEW mode \in Byte
    PROVE  IsPrefix(PrefixOf(x, mode), KeyBytes(k)) <=> k.index = x /\ k.mode = mode
<1> DEFINE y == BigEndian(x, 2)
           q == BigEndian(k.index, 2)
           s == KeyBytes(k)
           m == <<mode>>
           p == y \o m
<1>1. x \in Nat /\ k.index \in 0 .. Weight(2) - 1 BY DEF AnyKey
<1>2. y \in Seq(Byte) /\ Len(y) = 2 BY <1>1, BytesType
<1>3. /\ s \in Seq(Byte) /\ Len(s) = 8 /\ s[3] = k.mode
      /\ \A b \in 1 .. 2 : s[b] = q[b]
  BY KeyParts
<1>4. (\A b \in 1 .. 2 : y[b] = q[b]) => x = k.index BY <1>1, SameBytes
<1>5. x = k.index => y = q OBVIOUS
<1>6. m \in Seq(Byte) /\ Len(m) = 1 /\ m[1] = mode OBVIOUS
<1> HIDE DEF y, q, s, m
<1>7. Joins(p, y, m) BY <1>2, <1>6, Joined
<1> HIDE DEF p
<1>8. p \in Seq(Byte) /\ Len(p) = 3 /\ p[3] = mode /\ \A b \in 1 .. 2 : p[b] = y[b]
  <2>1. p \in Seq(Byte) /\ Len(p) = Len(y) + Len(m) /\ \A b \in 1 .. Len(y) : p[b] = y[b]
    BY <1>7 DEF Joins
  <2>2. p[Len(y) + 1] = m[1]
    <3>1. 1 \in 1 .. Len(m) BY <1>6
    <3> QED BY <1>7, <3>1 DEF Joins
  <2> QED BY <1>2, <1>6, <2>1, <2>2, 2 + 1 = 3
<1>9. IsPrefix(p, s) <=> \A b \in 1 .. 3 : p[b] = s[b]
  <2>1. Len(p) <= Len(s) BY <1>3, <1>8
  <2>2. p \in Seq(Byte) /\ s \in Seq(Byte) /\ Len(p) = 3 BY <1>3, <1>8
  <2>3. IsPrefix(p, s) <=> Len(p) <= Len(s) /\ \A b \in 1 .. Len(p) : p[b] = s[b]
    BY <2>2, PrefixMeans
  <2> QED BY <2>1, <2>2, <2>3
<1>10. \A b \in 1 .. 3 : b \in 1 .. 2 \/ b = 3 OBVIOUS
<1>11. (\A b \in 1 .. 3 : p[b] = s[b]) <=> k.index = x /\ k.mode = mode
  BY <1>3, <1>4, <1>5, <1>8, <1>10
<1> QED BY <1>9, <1>11 DEF PrefixOf, p, s, y, m

-----------------------------------------------------------------------------
(* Pieces one after the other. *)

\* What lies at a place is what is read there.
LEMMA ReadsPiece ==
    ASSUME NEW s \in Seq(Byte), NEW t \in Seq(Byte), NEW a \in Nat, a + Len(t) <= Len(s),
           \A b \in 1 .. Len(t) : s[a + b] = t[b]
    PROVE  SubSeq(s, a + 1, a + Len(t)) = t
<1> DEFINE r == SubSeq(s, a + 1, a + Len(t))
<1>1. Len(s) \in Nat /\ Len(t) \in Nat OBVIOUS
<1>2. r = [b \in 1 .. (a + Len(t)) - (a + 1) + 1 |-> s[(a + 1) + b - 1]] BY <1>1
<1>3. (a + Len(t)) - (a + 1) + 1 = Len(t) /\ \A b \in 1 .. Len(t) : (a + 1) + b - 1 = a + b BY <1>1
<1> HIDE DEF r
<1>4. r = [b \in 1 .. Len(t) |-> t[b]] BY <1>2, <1>3
<1>5. r = t BY <1>4
<1> QED BY <1>5 DEF r

\* The n pieces of s, of w bytes each, are laid out in r.
Laid(r, s, n, w) == /\ r \in Seq(Byte) /\ Len(r) = w * n
                    /\ \A k \in 1 .. n, b \in 1 .. w : r[w * (k - 1) + b] = s[k][b]

\* One more.
LEMMA LaidOneMore ==
    ASSUME NEW w \in Nat, NEW n \in Nat, NEW r, NEW s, Laid(r, s, n, w),
           s[n + 1] \in Seq(Byte), Len(s[n + 1]) = w
    PROVE  Laid(r \o s[n + 1], s, n + 1, w)
<1> DEFINE t == s[n + 1]
           q == r \o t
           at == w * n
<1>1. t \in Seq(Byte) /\ Len(t) = w OBVIOUS
<1>2. r \in Seq(Byte) /\ Len(r) = at BY DEF Laid
<1>3. Joins(q, r, t) BY <1>1, <1>2, Joined
<1>4. at \in Nat /\ w * (n + 1) = at + w OBVIOUS
<1>5. ASSUME NEW k \in 1 .. n + 1, NEW b \in 1 .. w PROVE q[w * (k - 1) + b] = s[k][b]
  <2>1. CASE k = n + 1
    <3>1. w * (k - 1) = at BY <2>1
    <3> HIDE DEF q, t, at
    <3>2. q[at + b] = t[b] BY <1>1, <1>2, <1>3 DEF Joins
    <3> QED BY <2>1, <3>1, <3>2 DEF t
  <2>2. CASE k # n + 1
    <3>1. k \in 1 .. n /\ k - 1 \in Nat /\ k <= n BY <2>2
    <3>2. w * (k - 1) \in Nat /\ w * (k - 1) + w = w * k /\ w * k <= w * n BY <3>1
    <3>3. w * (k - 1) + b \in 1 .. at BY <3>2
    <3>4. r[w * (k - 1) + b] = s[k][b] BY <3>1 DEF Laid
    <3> HIDE DEF q, t, at
    <3> QED BY <1>2, <1>3, <3>3, <3>4 DEF Joins
  <2> QED BY <2>1, <2>2
<1>6. q \in Seq(Byte) /\ Len(q) = w * (n + 1)
  <2> HIDE DEF q, t, at
  <2> QED BY <1>1, <1>2, <1>3, <1>4 DEF Joins
<1> HIDE DEF q
<1>7. Laid(q, s, n + 1, w) BY <1>5, <1>6 DEF Laid
<1> QED BY <1>7 DEF q

\* That is what FlattenSeq does.
LEMMA Flat ==
    ASSUME NEW n \in Nat, NEW w \in Nat, NEW s \in [1 .. n -> Seq(Byte)],
           \A k \in 1 .. n : Len(s[k]) = w
    PROVE  Laid(FlattenSeq(s), s, n, w)
<1>1. s \in Seq(Seq(Byte)) /\ Len(s) = n OBVIOUS
<1>2. CASE n = 0
  <2>1. FlattenSeq(s) = s BY <1>1, <1>2 DEF FlattenSeq
  <2>2. s = <<>> /\ <<>> \in Seq(Byte) /\ Len(<<>>) = 0 BY <1>1, <1>2
  <2>3. w * 0 = 0 /\ 1 .. 0 = {} OBVIOUS
  <2> QED BY <1>2, <2>1, <2>2, <2>3 DEF Laid
<1>3. CASE n # 0
  <2> DEFINE T == Seq(Byte)
             D == 1 .. n
             Step(f) == [k \in D |-> IF k = 1 THEN s[k] ELSE f[k - 1] \o s[k]]
             G == [a \in Nat \X T |-> IF a[1] \in D THEN a[2] \o s[a[1]] ELSE a[2]]
             c == CHOOSE f : f = Step(f)
  <2>1. FlattenSeq(s) = c[n] BY <1>1, <1>3 DEF FlattenSeq
  <2>2. \A k \in D : s[k] \in T OBVIOUS
  <2>3. G \in Steps(T) /\ <<>> \in T
    <3>1. ASSUME NEW a \in Nat \X T PROVE (IF a[1] \in D THEN a[2] \o s[a[1]] ELSE a[2]) \in T
      <4>1. a[2] \in T OBVIOUS
      <4>2. CASE a[1] \in D BY <2>2, <4>1, <4>2, ConcatProperties
      <4> QED BY <4>1, <4>2
    <3>2. <<>> \in T OBVIOUS
    <3> HIDE DEF T, D
    <3> QED BY <3>1, <3>2 DEF Steps
  <2>4. PICK F : Recursion(F, T, <<>>, G)
    <3> HIDE DEF G, T
    <3> QED BY <2>3, NatRecursion
  <2>5. ASSUME NEW k \in D PROVE F[k] = IF k = 1 THEN s[k] ELSE F[k - 1] \o s[k]
    <3>1. k \in Nat /\ k # 0 /\ k - 1 \in Nat OBVIOUS
    <3> HIDE DEF D
    <3>2. F[k] = G[<<k, F[k - 1]>>] /\ F[0] = <<>> /\ F[k - 1] \in T
      <4> HIDE DEF G, T
      <4> QED BY <2>4, <3>1 DEF Recursion
    <3>3. F[k] = F[k - 1] \o s[k]
      <4> HIDE DEF T
      <4> QED BY <3>1, <3>2
    <3>4. CASE k = 1
      <4>1. s[k] \in Seq(Byte) BY <2>2
      <4>2. <<>> \o s[k] = s[k] BY <4>1, ConcatEmptySeq
      <4>3. F[k - 1] = <<>> BY <3>2, <3>4, 1 - 1 = 0
      <4> QED BY <3>3, <3>4, <4>2, <4>3
    <3> QED BY <3>3, <3>4
  <2> DEFINE g == [k \in D |-> F[k]]
  <2>6. g = Step(g)
    <3>1. ASSUME NEW k \in D, k # 1 PROVE g[k - 1] = F[k - 1]
      <4>1. k - 1 \in D BY <3>1
      <4> QED BY <4>1
    <3>2. \A k \in D : F[k] = IF k = 1 THEN s[k] ELSE g[k - 1] \o s[k] BY <2>5, <3>1
    <3> HIDE DEF D
    <3>3. \A k \in D : g[k] = F[k] OBVIOUS
    <3> QED BY <3>2
  <2> HIDE DEF g
  <2>7. c = Step(c)
    <3> HIDE DEF Step
    <3> QED BY <2>6
  <2> HIDE DEF c
  <2>8. \A k \in D : c[k] = IF k = 1 THEN s[k] ELSE c[k - 1] \o s[k] BY <2>7
  <2> DEFINE Off == {k \in Nat : k \in D /\ ~Laid(c[k], s, k, w)}
  <2> SUFFICES Off = {}
    <3>1. n \in D BY <1>3
    <3>2. Laid(c[n], s, n, w) BY <3>1
    <3> QED BY <2>1, <3>2
  <2> SUFFICES ASSUME Off # {} PROVE FALSE OBVIOUS
  <2>9. PICK k \in Off : \A o \in Off : k <= o BY LeastNat
  <2>10. k \in D /\ ~Laid(c[k], s, k, w) BY <2>9
  <2>11. s[k] \in Seq(Byte) /\ Len(s[k]) = w BY <2>10
  <2>12. CASE k = 1
    <3>1. c[k] = s[k] BY <2>8, <2>10, <2>12
    <3>2. w * 1 = w /\ \A b \in 1 .. w : w * (1 - 1) + b = b OBVIOUS
    <3>3. 1 .. 1 = {1} OBVIOUS
    <3>4. Laid(s[k], s, k, w) BY <2>11, <2>12, <3>2, <3>3 DEF Laid
    <3> QED BY <2>10, <3>1, <3>4
  <2>13. CASE k # 1
    <3>1. k - 1 \in D /\ k - 1 \in Nat /\ (k - 1) + 1 = k /\ k - 1 \notin Off
      BY <2>9, <2>10, <2>13
    <3>2. Laid(c[k - 1], s, k - 1, w) BY <3>1
    <3>3. Laid(c[k - 1] \o s[k], s, k, w) BY <2>11, <3>1, <3>2, LaidOneMore
    <3> QED BY <2>8, <2>10, <2>13, <3>3
  <2> QED BY <2>12, <2>13
<1> QED BY <1>2, <1>3

-----------------------------------------------------------------------------
(* Sets of ids. *)

\* The ids in ascending order: all of them, each once.
LEMMA AscendingIs ==
    ASSUME NEW S \in SUBSET Nat, IsFiniteSet(S)
    PROVE  /\ Ascending(S) \in [1 .. Cardinality(S) -> S]
           /\ \A x \in S : \E k \in 1 .. Cardinality(S) : Ascending(S)[k] = x
<1> DEFINE n == Cardinality(S)
           D == 1 .. n
           R == {p \in Nat \X Nat : p[1] < p[2]}
           rank == [x \in S |-> Cardinality(Preceding(x, R, S))]
           Sorted(s) == \A j, k \in D : j < k => s[j] < s[k]
<1>1. n \in Nat BY FS_CardinalityType
<1>2. \A x, y \in Nat : <<x, y>> \in R <=> x < y OBVIOUS
<1> HIDE DEF R
<1>3. OrdersAll(R, S) BY <1>2 DEF OrdersAll, Orders
<1>4. rank \in Bijection(S, 0 .. (n - 1)) BY <1>3, Positions
<1>5. \A x, y \in S : x < y => rank[x] < rank[y] BY <1>2, <1>3, PrecedingGrow DEF OrdersAll
<1> HIDE DEF rank
<1>6. /\ \A x \in S : rank[x] \in 0 .. (n - 1)
      /\ \A k \in 0 .. (n - 1) : \E x \in S : rank[x] = k
  BY <1>4 DEF Bijection, Injection, Surjection
<1> DEFINE f == [k \in D |-> CHOOSE x \in S : rank[x] = k - 1]
<1>7. \A k \in D : f[k] \in S /\ rank[f[k]] = k - 1
  <2>1. \A k \in D : k - 1 \in 0 .. (n - 1) BY <1>1
  <2> QED BY <1>6, <2>1
<1>8. f \in [D -> S]
  <2>1. \A k \in D : f[k] \in S BY <1>7
  <2> QED BY <2>1
<1> HIDE DEF f
<1>9. Sorted(f)
  <2> SUFFICES ASSUME NEW j \in D, NEW k \in D, j < k PROVE f[j] < f[k] OBVIOUS
  <2> DEFINE x == f[j]
             y == f[k]
  <2>1. x \in S /\ y \in S /\ rank[x] = j - 1 /\ rank[y] = k - 1 BY <1>7
  <2>2. j \in Int /\ k \in Int BY <1>1
  <2> HIDE DEF x, y
  <2>3. ~(y < x) /\ x # y BY <1>5, <2>1, <2>2
  <2>4. x \in Nat /\ y \in Nat BY <2>1
  <2>5. x < y BY <2>3, <2>4
  <2> QED BY <2>5 DEF x, y
<1> DEFINE s == Ascending(S)
<1>10. s \in [D -> S] /\ Sorted(s)
  <2>1. s = CHOOSE g \in [D -> S] : Sorted(g) BY DEF Ascending
  <2> HIDE DEF Sorted, D, s
  <2> QED BY <1>8, <1>9, <2>1
<1> HIDE DEF s
<1>11. s \in Injection(D, S)
  <2>1. ASSUME NEW j \in D, NEW k \in D, j # k PROVE s[j] # s[k]
    <3>1. j < k \/ k < j BY <1>1, <2>1
    <3>2. s[j] \in Nat /\ s[k] \in Nat BY <1>10
    <3> QED BY <1>10, <3>1, <3>2
  <2> QED BY <1>10, <2>1 DEF Injection, IsInjective
<1>12. s \in Surjection(D, S)
  <2>1. IsFiniteSet(D) /\ Cardinality(D) = n BY <1>1, FS_Interval, 1 \in Int
  <2> HIDE DEF D
  <2> QED BY <1>11, <2>1, FS_Injection
<1>13. \A x \in S : \E k \in D : s[k] = x BY <1>12 DEF Surjection
<1> QED BY <1>10, <1>13 DEF s

\* What the bytes of a set hold: how many ids there are, and the ids.
LEMMA BitmapParts ==
    ASSUME NEW S \in SUBSET Nat, IsFiniteSet(S)
    PROVE  /\ BitmapBytes(S) \in Seq(Byte) /\ Len(BitmapBytes(S)) = 4 + 4 * Cardinality(S)
           /\ \A b \in 1 .. 4 : BitmapBytes(S)[b] = BigEndian(Cardinality(S), 4)[b]
           /\ \A k \in 1 .. Cardinality(S), b \in 1 .. 4 :
                BitmapBytes(S)[4 * k + b] = BigEndian(Ascending(S)[k], 4)[b]
<1> DEFINE n == Cardinality(S)
           h == BigEndian(n, 4)
           s == [k \in 1 .. n |-> BigEndian(Ascending(S)[k], 4)]
           t == FlattenSeq(s)
           r == h \o t
<1>1. n \in Nat BY FS_CardinalityType
<1>2. h \in Seq(Byte) /\ Len(h) = 4 BY <1>1, BytesType
<1>3. \A k \in 1 .. n : s[k] = BigEndian(Ascending(S)[k], 4) /\ s[k] \in Seq(Byte) /\ Len(s[k]) = 4
  <2>1. \A k \in 1 .. n : Ascending(S)[k] \in Nat BY AscendingIs
  <2> QED BY <2>1, BytesType
<1>4. s \in [1 .. n -> Seq(Byte)]
  <2>1. \A k \in 1 .. n : BigEndian(Ascending(S)[k], 4) \in Seq(Byte) BY <1>3
  <2> QED BY <2>1
<1> HIDE DEF s, h
<1>5. Laid(t, s, n, 4) BY <1>1, <1>3, <1>4, Flat
<1> HIDE DEF t
<1>6. t \in Seq(Byte) /\ Len(t) = 4 * n BY <1>5 DEF Laid
<1>7. Joins(r, h, t) BY <1>2, <1>6, Joined
<1>8. BitmapBytes(S) = r BY DEF BitmapBytes, h, s, t
<1> HIDE DEF r
<1>9. r \in Seq(Byte) /\ Len(r) = 4 + 4 * n /\ \A b \in 1 .. 4 : r[b] = h[b]
  BY <1>2, <1>6, <1>7 DEF Joins
<1>10. ASSUME NEW k \in 1 .. n, NEW b \in 1 .. 4
       PROVE  r[4 * k + b] = BigEndian(Ascending(S)[k], 4)[b]
  <2>1. 4 * (k - 1) + b \in 1 .. 4 * n /\ 4 + (4 * (k - 1) + b) = 4 * k + b BY <1>1
  <2>2. r[4 * k + b] = t[4 * (k - 1) + b] BY <1>2, <1>6, <1>7, <2>1 DEF Joins
  <2>3. t[4 * (k - 1) + b] = s[k][b] BY <1>5 DEF Laid
  <2> QED BY <1>3, <2>2, <2>3
<1> QED BY <1>8, <1>9, <1>10 DEF h

\* A number written in too few bytes is read back as a smaller one.
LEMMA ReadsAtMost ==
    ASSUME NEW k \in Nat, NEW n \in Nat
    PROVE  ReadBig(BigEndian(n, k)) \in Nat /\ ReadBig(BigEndian(n, k)) <= n
<1> DEFINE s == BigEndian(n, k)
<1>1. s \in [1 .. k -> Nat]
  <2>1. s \in Seq(Nat) /\ Len(s) = k BY BytesType
  <2> HIDE DEF s
  <2> QED BY <2>1
<1>2. \A b \in 1 .. k : n \div Weight(k - b) = Radix * (n \div Weight(k - (b - 1))) + s[b]
  BY ByteStep
<1> HIDE DEF s
<1>3. PICK h \in [0 .. k -> Nat] : /\ h[0] = 0 /\ h[k] = ReadBig(s)
                                   /\ \A b \in 1 .. k : h[b] = Radix * h[b - 1] + s[b]
  BY <1>1, Horner
<1>4. \A b \in 0 .. k : n \div Weight(k - b) \in Nat
  <2>1. \A b \in 0 .. k : k - b \in Nat OBVIOUS
  <2>2. \A b \in 0 .. k : Weight(k - b) \in Nat \ {0} BY <2>1, Weights
  <2> QED BY <2>2, Division
<1> DEFINE Off == {b \in Nat : b <= k /\ ~(h[b] <= n \div Weight(k - b))}
<1>5. Off = {}
  <2> SUFFICES ASSUME Off # {} PROVE FALSE OBVIOUS
  <2>1. PICK b \in Off : \A o \in Off : b <= o BY LeastNat
  <2>2. b \in 0 .. k /\ ~(h[b] <= n \div Weight(k - b)) BY <2>1
  <2>3. b # 0
    <3> SUFFICES ASSUME b = 0 PROVE FALSE OBVIOUS
    <3>1. n \div Weight(k - b) \in Nat /\ h[b] = 0 BY <1>3, <1>4, <2>2
    <3> QED BY <2>2, <3>1
  <2>4. b - 1 \in Nat /\ b - 1 <= k /\ b - 1 \notin Off /\ b \in 1 .. k /\ b - 1 \in 0 .. k
    BY <2>1, <2>2, <2>3
  <2> DEFINE p == h[b - 1]
             q == n \div Weight(k - (b - 1))
             e == s[b]
  <2>5. p <= q BY <2>4
  <2>6. p \in Nat /\ q \in Nat /\ e \in Nat /\ Radix \in Nat BY <1>1, <1>3, <1>4, <2>4, Weights
  <2>7. h[b] = Radix * p + e /\ n \div Weight(k - b) = Radix * q + e BY <1>2, <1>3, <2>4
  <2> HIDE DEF p, q, e
  <2>8. Radix * p <= Radix * q /\ Radix * p \in Nat /\ Radix * q \in Nat BY <2>5, <2>6
  <2>9. Radix * p + e <= Radix * q + e BY <2>6, <2>8
  <2> QED BY <2>2, <2>7, <2>9
<1>6. h[k] <= n
  <2>1. h[k] <= n \div Weight(k - k) BY <1>5
  <2>2. k - k = 0 /\ n \div 1 = n OBVIOUS
  <2> QED BY <2>1, <2>2, Weights
<1> QED BY <1>3, <1>6 DEF s

\* What has been written as a set can be read as one.
LEMMA BitmapIs ==
    ASSUME NEW S \in SUBSET Nat, IsFiniteSet(S)
    PROVE  IsBitmap(BitmapBytes(S))
<1> DEFINE n == Cardinality(S)
           r == BitmapBytes(S)
           h == BigEndian(n, 4)
<1>1. n \in Nat BY FS_CardinalityType
<1>2. r \in Seq(Byte) /\ Len(r) = 4 + 4 * n /\ \A b \in 1 .. 4 : r[b] = h[b] BY BitmapParts
<1>3. h \in Seq(Byte) /\ Len(h) = 4 BY <1>1, BytesType
<1>4. ReadBig(h) \in Nat /\ ReadBig(h) <= n BY <1>1, ReadsAtMost
<1> HIDE DEF h, r, n
<1>5. SubSeq(r, 1, 4) = h
  <2>1. 0 + Len(h) <= Len(r) /\ \A b \in 1 .. Len(h) : r[0 + b] = h[b] BY <1>1, <1>2, <1>3
  <2>2. SubSeq(r, 0 + 1, 0 + Len(h)) = h BY <1>2, <1>3, <2>1, ReadsPiece
  <2> QED BY <1>3, <2>2
<1>6. BitmapCount(r) = ReadBig(h) BY <1>5 DEF BitmapCount
<1>7. Len(r) >= 4 /\ Len(r) >= 4 + 4 * ReadBig(h) BY <1>1, <1>2, <1>4
<1>8. IsBitmap(r) BY <1>6, <1>7 DEF IsBitmap
<1> QED BY <1>8 DEF r

-----------------------------------------------------------------------------
(* Vectors. *)

\* What PackWord computes, from the last coordinate to the first.
LEMMA PackWordIs ==
    ASSUME NEW codec \in Codec \ {"f32"}, NEW m \in Nat, NEW v \in [1 .. m -> Float]
    PROVE  \E h \in [0 .. m -> Nat] :
             /\ h[0] = 0 /\ h[m] = PackWord(codec, v)
             /\ \A k \in 1 .. m : h[k] = 2 * h[k - 1] + Bit(codec, v[(m - k) + 1])
<1> DEFINE D == 1 .. m
           P == SUBSET D
           a == [k \in D |-> Bit(codec, v[k])]
           Step(g) == [p \in P |-> IF p = {} THEN 0 ELSE 2 * g[p \ {Min(p)}] + Bit(codec, v[Min(p)])]
           sel == [p \in P |-> Min(p)]
<1>1. \A x : Bit(codec, x) \in {0, 1}
  <2>1. codec = "binary" \/ codec = "binary quantized" BY DEF Codec
  <2> QED BY <2>1 DEF Bit
<1>2. a \in Digits(m) BY <1>1 DEF Digits
<1>3. PackWord(codec, v) = (CHOOSE f : f = Step(f))[D]
  <2>1. DOMAIN v = D OBVIOUS
  <2> QED BY <2>1 DEF PackWord, FoldRight, MapThenFoldSet
<1>4. (\A p \in P : sel[p] = Min(p)) /\ Selects(sel, m) BY Ends DEF Selects
<1>5. \A p \in P : p # {} => Min(p) \in D BY Ends
<1> HIDE DEF sel
<1>6. PICK f : FoldOf(f, m, sel, 2, a) BY <1>2, <1>4, FoldExists
<1>7. f = Step(f)
  <2>1. f = [p \in P |-> IF p = {} THEN 0 ELSE 2 * f[p \ {sel[p]}] + a[sel[p]]] BY <1>6 DEF FoldOf
  <2>2. \A p \in P : p # {} => a[sel[p]] = Bit(codec, v[Min(p)]) BY <1>4, <1>5
  <2> HIDE DEF P, a
  <2> QED BY <1>4, <2>1, <2>2
<1> DEFINE c == CHOOSE g : g = Step(g)
           h == [k \in 0 .. m |-> c[(m - k) + 1 .. m]]
           e == [k \in 1 .. m |-> a[(m - k) + 1]]
<1>8. c = Step(c)
  <2> HIDE DEF Step
  <2> QED BY <1>7
<1> HIDE DEF c
<1>9. \A p \in P : c[p] = IF p = {} THEN 0 ELSE 2 * c[p \ {Min(p)}] + Bit(codec, v[Min(p)]) BY <1>8
<1>10. \A k \in 0 .. m : h[k] = c[(m - k) + 1 .. m] OBVIOUS
<1>11. (\A k \in 0 .. m : h[k] \in Nat) => h \in [0 .. m -> Nat] OBVIOUS
<1> HIDE DEF h
<1>12. h[0] = 0
  <2>1. (m - 0) + 1 .. m = {} /\ {} \in P /\ 0 \in 0 .. m OBVIOUS
  <2>2. c[{}] = 0 BY <1>9, <2>1
  <2> QED BY <1>10, <2>1, <2>2
<1>13. ASSUME NEW k \in 1 .. m PROVE h[k] = 2 * h[k - 1] + Bit(codec, v[(m - k) + 1])
  <2> DEFINE j == (m - k) + 1
             p == j .. m
  <2>1. j \in D /\ p \in P /\ p # {}
    <3>1. j \in D OBVIOUS
    <3> HIDE DEF j
    <3>2. p \subseteq D /\ j \in p BY <3>1
    <3> QED BY <3>1, <3>2
  <2>2. Min(p) = j
    <3>1. Min(p) \in p /\ \A x \in p : Min(p) <= x BY <2>1, Ends
    <3> QED BY <2>1, <3>1
  <2>3. p \ {j} = (m - (k - 1)) + 1 .. m OBVIOUS
  <2>4. c[p] = 2 * c[p \ {j}] + Bit(codec, v[j]) BY <1>9, <2>1, <2>2
  <2>5. k \in 0 .. m /\ k - 1 \in 0 .. m OBVIOUS
  <2> QED BY <1>10, <2>3, <2>4, <2>5
<1>14. h[m] = PackWord(codec, v)
  <2>1. (m - m) + 1 .. m = D /\ m \in 0 .. m OBVIOUS
  <2> QED BY <1>3, <1>10, <2>1 DEF c
<1>15. e \in [1 .. m -> Nat] /\ \A k \in 1 .. m : e[k] = Bit(codec, v[(m - k) + 1])
  <2>1. \A k \in 1 .. m : (m - k) + 1 \in D OBVIOUS
  <2>2. \A k \in 1 .. m : a[(m - k) + 1] = Bit(codec, v[(m - k) + 1]) BY <2>1
  <2> HIDE DEF a
  <2> QED BY <1>1, <2>2
<1> HIDE DEF e
<1>16. \A k \in 0 .. m : h[k] \in Nat
  <2> DEFINE two == 2
  <2>1. two \in Nat OBVIOUS
  <2>2. \A k \in 1 .. m : h[k] = two * h[k - 1] + e[k] BY <1>13, <1>15
  <2> HIDE DEF two
  <2> QED BY <1>12, <1>15, <2>1, <2>2, ChainOfNats
<1> QED BY <1>11, <1>12, <1>13, <1>14, <1>16

\* The bytes of a number in the order of the host.
LEMMA LittleType ==
    ASSUME NEW n \in Nat, NEW k \in Nat
    PROVE  Little(n, k) \in Seq(Byte) /\ Len(Little(n, k)) = k
<1> DEFINE s == BigEndian(n, k)
           r == [b \in 1 .. k |-> s[(k - b) + 1]]
<1>1. s \in Seq(Byte) /\ Len(s) = k BY BytesType
<1>2. Little(n, k) = r BY <1>1 DEF Little, Reverse
<1>3. \A b \in 1 .. k : s[(k - b) + 1] \in Byte
  <2>1. \A b \in 1 .. k : (k - b) + 1 \in 1 .. k OBVIOUS
  <2> QED BY <2>1, ByteAt
<1> HIDE DEF s
<1>4. r \in Seq(Byte) /\ Len(r) = k BY <1>3
<1> QED BY <1>2, <1>4

\* Powers grow.
LEMMA PowersGrow ==
    ASSUME NEW j \in Nat, NEW k \in Nat, j <= k
    PROVE  Pow2[j] <= Pow2[k]
<1> DEFINE e == k - j
<1>1. e \in Nat /\ k = j + e OBVIOUS
<1> HIDE DEF e
<1>2. Pow2[k] = Pow2[j] * Pow2[e] BY <1>1, PowerOfSum
<1> DEFINE a == Pow2[j]
           b == Pow2[e]
<1>3. a \in Nat /\ b \in Nat /\ b >= 1 BY <1>1, Powers
<1> HIDE DEF a, b
<1>4. a <= a * b BY <1>3
<1> QED BY <1>2, <1>4 DEF a, b

\* Dividing by two after or before.
LEMMA Halves ==
    ASSUME NEW n \in Nat, NEW r \in Nat \ {0}
    PROVE  n \div (r * 2) = (n \div r) \div 2 /\ n % (2 * r) = 2 * ((n \div 2) % r) + (n % 2)
<1> DEFINE two == 2
<1>1. two \in Nat \ {0} OBVIOUS
<1> HIDE DEF two
<1>2. n \div (r * two) = (n \div r) \div two BY <1>1, DivideTwice
<1>3. n % (two * r) = two * ((n \div two) % r) + (n % two) BY <1>1, DivideTwice
<1> QED BY <1>2, <1>3 DEF two

\* The word of m coordinates has a bit for each, the first one lowest, and none above.
LEMMA PackedBits ==
    ASSUME NEW codec \in Codec \ {"f32"}, NEW m \in Nat, NEW v \in [1 .. m -> Float]
    PROVE  /\ PackWord(codec, v) \in Nat /\ PackWord(codec, v) < Pow2[m]
           /\ \A k \in Nat : (PackWord(codec, v) \div Pow2[k]) % 2
                               = IF k < m THEN Bit(codec, v[k + 1]) ELSE 0
<1> DEFINE w == PackWord(codec, v)
           bit(k) == Bit(codec, v[k])
<1>1. PICK h \in [0 .. m -> Nat] :
         /\ h[0] = 0 /\ h[m] = w
         /\ \A k \in 1 .. m : h[k] = 2 * h[k - 1] + bit((m - k) + 1)
  BY PackWordIs
<1>2. \A k \in 1 .. m : bit(k) \in {0, 1}
  <2>1. codec = "binary" \/ codec = "binary quantized" BY DEF Codec
  <2> QED BY <2>1 DEF Bit
<1> HIDE DEF w, bit
<1>3. w \in Nat BY <1>1
<1>4. \A k \in 0 .. m : h[k] < Pow2[k]
  <2> DEFINE Off == {k \in Nat : k <= m /\ ~(h[k] < Pow2[k])}
  <2> SUFFICES Off = {} OBVIOUS
  <2> SUFFICES ASSUME Off # {} PROVE FALSE OBVIOUS
  <2>1. PICK k \in Off : \A o \in Off : k <= o BY LeastNat
  <2>2. k # 0
    <3>1. h[0] = 0 /\ Pow2[0] = 1 BY <1>1, Powers
    <3>2. 0 \notin Off BY <3>1
    <3> QED BY <2>1, <3>2
  <2>3. k \in 1 .. m /\ k - 1 \in Nat /\ k - 1 <= m /\ k - 1 \notin Off BY <2>1, <2>2
  <2> DEFINE low == h[k - 1]
             p == Pow2[k - 1]
             b == bit((m - k) + 1)
  <2>4. low < p /\ low \in Nat /\ p \in Nat
    <3>1. h[k - 1] < Pow2[k - 1] BY <2>3
    <3>2. k - 1 \in 0 .. m BY <2>3
    <3> QED BY <2>3, <3>1, <3>2, Powers
  <2>5. Pow2[k] = 2 * p
    <3>1. (k - 1) + 1 = k BY <2>3
    <3> QED BY <2>3, <3>1, Powers
  <2>6. b \in {0, 1}
    <3>1. (m - k) + 1 \in 1 .. m BY <2>3
    <3> QED BY <1>2, <3>1
  <2>7. h[k] = 2 * low + b BY <1>1, <2>3
  <2> HIDE DEF low, p, b
  <2>8. h[k] < Pow2[k] BY <2>4, <2>5, <2>6, <2>7
  <2> QED BY <2>1, <2>8
<1>5. \A k \in 0 .. m : w \div Pow2[k] = h[m - k]
  <2> DEFINE Same(k) == w \div Pow2[k] = h[m - k]
             Off == {k \in Nat : k <= m /\ ~Same(k)}
  <2> SUFFICES Off = {}
    <3> SUFFICES \A k \in 0 .. m : Same(k) OBVIOUS
    <3> HIDE DEF Same
    <3> QED OBVIOUS
  <2> SUFFICES ASSUME Off # {} PROVE FALSE OBVIOUS
  <2>1. PICK k \in Off : \A o \in Off : k <= o BY LeastNat
  <2>2. k # 0
    <3>1. w \div 1 = w /\ m - 0 = m BY <1>3
    <3> QED BY <1>1, <2>1, <3>1, Powers
  <2>3. k \in 1 .. m /\ k - 1 \in Nat /\ k - 1 <= m /\ k - 1 \notin Off BY <2>1, <2>2
  <2> DEFINE p == Pow2[k - 1]
             q == h[m - (k - 1)]
             r == h[m - k]
             b == bit((m - (m - (k - 1))) + 1)
  <2>4. w \div p = q /\ p \in Nat \ {0} BY <2>3, Powers
  <2>5. Pow2[k] = p * 2
    <3>1. (k - 1) + 1 = k BY <2>3
    <3>2. Pow2[k] = 2 * p BY <2>3, <3>1, Powers
    <3> QED BY <2>4, <3>2
  <2>6. q = 2 * r + b /\ b \in {0, 1} /\ r \in Nat
    <3>1. m - (k - 1) \in 1 .. m /\ (m - (k - 1)) - 1 = m - k /\ m - k \in 0 .. m BY <2>3
    <3>2. (m - (m - (k - 1))) + 1 \in 1 .. m BY <3>1
    <3> QED BY <1>1, <1>2, <3>1, <3>2
  <2> HIDE DEF p, q, r, b
  <2>7. w \div (p * 2) = (w \div p) \div 2 BY <1>3, <2>4, Halves
  <2>8. q \div 2 = r BY <2>6
  <2>9. w \div Pow2[k] = r BY <2>4, <2>5, <2>7, <2>8
  <2> QED BY <2>1, <2>9 DEF r
<1>6. ASSUME NEW k \in Nat, k < m PROVE (w \div Pow2[k]) % 2 = bit(k + 1)
  <2> DEFINE r == h[(m - k) - 1]
  <2>1. m - k \in 1 .. m /\ (m - (m - k)) + 1 = k + 1 /\ k \in 0 .. m /\ k + 1 \in 1 .. m
        /\ (m - k) - 1 \in 0 .. m
    BY <1>6
  <2>2. w \div Pow2[k] = 2 * r + bit(k + 1) /\ r \in Nat BY <1>1, <1>5, <2>1
  <2>3. bit(k + 1) \in {0, 1} BY <1>2, <2>1
  <2> HIDE DEF r
  <2> QED BY <2>2, <2>3
<1>7. ASSUME NEW k \in Nat, ~(k < m) PROVE (w \div Pow2[k]) % 2 = 0
  <2>1. Pow2[m] <= Pow2[k] /\ Pow2[k] \in Nat /\ Pow2[m] \in Nat
    <3>1. m <= k BY <1>7
    <3>2. Pow2[m] <= Pow2[k] BY <3>1, PowersGrow
    <3> QED BY <3>2, Powers
  <2>2. m \in 0 .. m OBVIOUS
  <2>3. w < Pow2[m] BY <1>1, <1>4, <2>2
  <2> DEFINE p == Pow2[k]
  <2>4. w < p /\ p \in Nat BY <1>3, <2>1, <2>3
  <2> HIDE DEF p
  <2>5. w \div p = 0 BY <1>3, <2>4
  <2> QED BY <2>5 DEF p
<1>8. w < Pow2[m]
  <2>1. m \in 0 .. m OBVIOUS
  <2> QED BY <1>1, <1>4, <2>1
<1> QED BY <1>3, <1>6, <1>7, <1>8 DEF w, bit

\* Bit q of byte p of a number is bit BitsPerByte * p + q of the number.
LEMMA BitOfByte ==
    ASSUME NEW n \in Nat, NEW p \in Nat, NEW q \in 0 .. BitsPerByte - 1
    PROVE  (((n \div Weight(p)) % Radix) \div Pow2[q]) % 2 = (n \div Pow2[BitsPerByte * p + q]) % 2
<1> DEFINE w == Weight(p)
           a == n \div w
           r == Pow2[q]
           e == (BitsPerByte - q) - 1
           t == Pow2[e]
           b == a \div r
<1>1. BitsPerByte \in Nat /\ q \in Nat /\ e \in Nat /\ BitsPerByte = q + (e + 1) BY BitsAssumption
<1>2. w \in Nat \ {0} /\ r \in Nat \ {0} /\ t \in Nat \ {0} BY <1>1, Weights, Powers
<1>3. Radix = r * (2 * t)
  <2>1. Pow2[q + (e + 1)] = Pow2[q] * Pow2[e + 1] BY <1>1, PowerOfSum
  <2>2. Pow2[e + 1] = 2 * t BY <1>1, Powers
  <2> QED BY <1>1, <2>1, <2>2 DEF Radix
<1>4. Pow2[BitsPerByte * p + q] = w * r
  <2>1. BitsPerByte * p \in Nat BY <1>1
  <2> QED BY <1>1, <2>1, PowerOfSum DEF Weight
<1> HIDE DEF w, r, e, t
<1>5. a \in Nat BY <1>2, Division
<1>6. n \div (w * r) = b BY <1>2, DivideTwice
<1> HIDE DEF a
<1>7. b \in Nat BY <1>2, <1>5, Division
<1>8. a % (r * (2 * t)) = r * (b % (2 * t)) + (a % r)
  <2>1. 2 * t \in Nat \ {0} BY <1>2
  <2> QED BY <1>2, <1>5, <2>1, DivideTwice
<1>9. (a % (r * (2 * t))) \div r = b % (2 * t)
  <2> DEFINE c == b % (2 * t)
             d == a % r
  <2>1. c \in Nat /\ d \in 0 .. r - 1
    <3>1. 2 * t \in Nat \ {0} BY <1>2
    <3> QED BY <1>2, <1>5, <1>7, <3>1, Division
  <2> HIDE DEF c, d
  <2>2. (r * c + d) \div r = c BY <1>2, <2>1, Quotient
  <2> QED BY <1>8, <2>2 DEF c, d
<1> HIDE DEF b
<1>10. (b % (2 * t)) % 2 = b % 2
  <2> DEFINE c == (b \div 2) % t
             d == b % 2
  <2>1. b % (2 * t) = 2 * c + d BY <1>2, <1>7, Halves
  <2>2. c \in Nat /\ d \in 0 .. 2 - 1
    <3>1. b \div 2 \in Nat BY <1>7
    <3> QED BY <1>2, <1>7, <3>1, Division
  <2> HIDE DEF c, d
  <2>3. (2 * c + d) % 2 = d BY <2>2
  <2> QED BY <2>1, <2>3 DEF d
<1> QED BY <1>3, <1>4, <1>6, <1>9, <1>10 DEF w, a, r

\* A byte of the host's order.
LEMMA LittleByte ==
    ASSUME NEW n \in Nat, NEW k \in Nat
    PROVE  /\ Little(n, k) \in Seq(Byte) /\ Len(Little(n, k)) = k
           /\ \A b \in 1 .. k : Little(n, k)[b] = (n \div Weight(b - 1)) % Radix
<1> DEFINE s == BigEndian(n, k)
<1>1. s \in Seq(Byte) /\ Len(s) = k BY BytesType
<1>2. Little(n, k) = [b \in 1 .. k |-> s[(k - b) + 1]] BY <1>1 DEF Little, Reverse
<1>3. \A b \in 1 .. k : s[(k - b) + 1] = (n \div Weight(b - 1)) % Radix
  <2>1. \A b \in 1 .. k : (k - b) + 1 \in 1 .. k /\ k - ((k - b) + 1) = b - 1 OBVIOUS
  <2> QED BY <2>1, BytesType
<1> HIDE DEF s
<1>4. \A b \in 1 .. k : Little(n, k)[b] = (n \div Weight(b - 1)) % Radix BY <1>2, <1>3
<1> QED BY <1>4, LittleType

\* And the number they are read as.
LEMMA LittleReadsBack ==
    ASSUME NEW k \in Nat, NEW n \in 0 .. Weight(k) - 1
    PROVE  ReadLittle(Little(n, k)) = n
<1> DEFINE s == BigEndian(n, k)
<1>1. n \in Nat BY Weights
<1>2. s \in Seq(Byte) /\ Len(s) = k BY <1>1, BytesType
<1>3. ReadBig(s) = n BY ReadsBack
<1>4. Little(n, k) = Reverse(s) BY DEF Little
<1> HIDE DEF s
<1>5. Reverse(Reverse(s)) = s
  <2> DEFINE r == [b \in 1 .. k |-> s[(k - b) + 1]]
  <2>1. Reverse(s) = r BY <1>2 DEF Reverse
  <2>2. Len(r) = k OBVIOUS
  <2>3. \A b \in 1 .. k : r[(k - b) + 1] = s[b]
    <3>1. \A b \in 1 .. k : (k - b) + 1 \in 1 .. k /\ (k - ((k - b) + 1)) + 1 = b OBVIOUS
    <3> QED BY <3>1
  <2> HIDE DEF r
  <2>4. Reverse(r) = [b \in 1 .. k |-> r[(k - b) + 1]] BY <2>2 DEF Reverse
  <2>5. Reverse(r) = [b \in 1 .. k |-> s[b]] BY <2>3, <2>4
  <2>6. [b \in 1 .. k |-> s[b]] = s BY <1>2
  <2> QED BY <2>1, <2>5, <2>6
<1> QED BY <1>3, <1>4, <1>5 DEF ReadLittle

\* A number of n bits is known by them.
LEMMA SameBits ==
    ASSUME NEW n \in Nat, NEW a \in 0 .. Pow2[n] - 1, NEW b \in 0 .. Pow2[n] - 1,
           \A k \in 0 .. n - 1 : (a \div Pow2[k]) % 2 = (b \div Pow2[k]) % 2
    PROVE  a = b
<1> DEFINE Off == {k \in 0 .. n : a % Pow2[k] # b % Pow2[k]}
<1>1. a \in Nat /\ b \in Nat /\ \A k \in Nat : Pow2[k] \in Nat \ {0} /\ Pow2[k + 1] = 2 * Pow2[k]
  BY Powers
<1>2. Off = {}
  <2> SUFFICES ASSUME Off # {} PROVE FALSE OBVIOUS
  <2>1. Off \subseteq Nat OBVIOUS
  <2>2. PICK k \in Off : \A o \in Off : k <= o BY <2>1, LeastNat
  <2>3. k # 0
    <3>1. a % 1 = 0 /\ b % 1 = 0 BY <1>1
    <3> QED BY <2>2, <3>1, Powers
  <2> DEFINE j == k - 1
             p == Pow2[j]
  <2>4. j \in 0 .. n - 1 /\ j \notin Off /\ k = j + 1 /\ j \in Nat BY <2>2, <2>3
  <2>5. a % p = b % p BY <2>4
  <2>6. (a \div p) % 2 = (b \div p) % 2 BY <2>4
  <2>7. p \in Nat \ {0} /\ Pow2[k] = p * 2 BY <1>1, <2>4
  <2> HIDE DEF j, p
  <2> DEFINE two == 2
  <2>8. two \in Nat \ {0} OBVIOUS
  <2> HIDE DEF two
  <2>9. \A c \in Nat : c % (p * two) = p * ((c \div p) % two) + (c % p) BY <2>7, <2>8, DivideTwice
  <2>10. a % (p * 2) = b % (p * 2) BY <1>1, <2>5, <2>6, <2>9 DEF two
  <2> QED BY <2>2, <2>7, <2>10
<1>3. a % Pow2[n] = b % Pow2[n] BY <1>2
<1>4. a % Pow2[n] = a /\ b % Pow2[n] = b
  <2> DEFINE p == Pow2[n]
  <2>1. p \in Nat \ {0} /\ a < p /\ b < p BY <1>1
  <2> HIDE DEF p
  <2>2. \A c \in Nat : c < p => c % p = c BY <2>1
  <2> QED BY <1>1, <2>1, <2>2 DEF p
<1> QED BY <1>3, <1>4

-----------------------------------------------------------------------------
(* Vectors as bytes. *)

\* The sizes there are.
LEMMA Sizes ==
    /\ BitsPerByte \in Nat \ {0} /\ WordBytes \in Nat \ {0} /\ WordBits \in Nat \ {0}
    /\ Weight(WordBytes) = Pow2[WordBits]
    /\ \A codec \in Codec : WordSize(codec) \in Nat \ {0} /\ ElementBytes(codec) \in Nat \ {0}
<1>1. BitsPerByte \in Nat \ {0} /\ WordBytes \in Nat \ {0} BY BitsAssumption, WordAssumption
<1>2. WordBits \in Nat \ {0} /\ BitsPerByte * WordBytes = WordBits BY <1>1 DEF WordBits
<1>3. Weight(WordBytes) = Pow2[WordBits] BY <1>2 DEF Weight
<1>4. \A codec \in Codec : WordSize(codec) \in Nat \ {0} /\ ElementBytes(codec) \in Nat \ {0}
  BY <1>1, <1>2 DEF WordSize, ElementBytes, FloatBytes
<1> QED BY <1>1, <1>2, <1>3, <1>4

\* As many as it takes, and no more.
LEMMA Ceiling ==
    ASSUME NEW n \in Nat, NEW w \in Nat \ {0}
    PROVE  /\ CeilDiv(n, w) \in Nat /\ n <= w * CeilDiv(n, w)
           /\ w * CeilDiv(n, w) < n + w
           /\ \A c \in 1 .. CeilDiv(n, w) : w * (c - 1) \in Nat /\ w * (c - 1) < n
<1> DEFINE s == n + w - 1
           c == s \div w
           t == s % w
<1>1. s \in Nat OBVIOUS
<1>2. c \in Nat /\ t \in 0 .. w - 1 /\ s = w * c + t
  <2> HIDE DEF s
  <2> QED BY <1>1, Division
<1> HIDE DEF c, t
<1>3. w * c \in Nat BY <1>2
<1>4. n <= w * c /\ w * c < n + w BY <1>2, <1>3
<1>5. ASSUME NEW k \in 1 .. c PROVE w * (k - 1) \in Nat /\ w * (k - 1) < n
  <2>1. k - 1 \in Nat /\ w * (k - 1) = w * k - w /\ w * (k - 1) \in Nat BY <1>2
  <2>2. w * k <= w * c /\ w * k \in Nat BY <1>2
  <2> QED BY <1>3, <1>4, <2>1, <2>2
<1> QED BY <1>2, <1>4, <1>5 DEF CeilDiv, c

\* A chunk is a word's worth of coordinates, or what is left of them.
LEMMA ChunkIs ==
    ASSUME NEW v \in Seq(Float), NEW c \in 1 .. CeilDiv(Len(v), WordBits)
    PROVE  \E m \in 1 .. WordBits :
             /\ Chunk(v, c) \in [1 .. m -> Float]
             /\ \A k \in 1 .. m : Chunk(v, c)[k] = v[WordBits * (c - 1) + k]
             /\ \A k \in 1 .. WordBits : k <= m <=> WordBits * (c - 1) + k <= Len(v)
<1> DEFINE n == Len(v)
           w == WordBits
           at == w * (c - 1)
           last == IF c * w < n THEN c * w ELSE n
           m == last - at
<1>1. w \in Nat \ {0} /\ n \in Nat /\ c \in 1 .. CeilDiv(n, w) BY Sizes
<1>2. at \in Nat /\ at < n /\ c \in Nat
  <2> HIDE DEF w, n
  <2> QED BY <1>1, Ceiling
<1> HIDE DEF w
<1>3. (c - 1) * w = at /\ c * w = at + w BY <1>1, <1>2
<1>4. Chunk(v, c) = SubSeq(v, at + 1, last) BY <1>3 DEF Chunk, w
<1> HIDE DEF at
<1>5. m \in 1 .. w /\ last \in Nat /\ last <= n /\ m <= w
      /\ \A k \in 1 .. w : k <= m <=> at + k <= n
  BY <1>1, <1>2, <1>3
<1> HIDE DEF last
<1> DEFINE s == SubSeq(v, at + 1, last)
<1>6. s = [k \in 1 .. m |-> v[at + k]]
  <2>1. s = [k \in 1 .. last - (at + 1) + 1 |-> v[(at + 1) + k - 1]] BY <1>1, <1>2, <1>5
  <2>2. last - (at + 1) + 1 = m /\ \A k \in 1 .. m : (at + 1) + k - 1 = at + k BY <1>2, <1>5
  <2> HIDE DEF s, m
  <2> QED BY <2>1, <2>2
<1>7. \A k \in 1 .. m : v[at + k] \in Float
  <2>1. \A k \in 1 .. m : at + k \in 1 .. n BY <1>1, <1>2, <1>5
  <2> HIDE DEF m
  <2> QED BY <2>1, ElementOfSeq
<1> HIDE DEF s, m
<1>8. s \in [1 .. m -> Float] /\ \A k \in 1 .. m : s[k] = v[at + k] BY <1>6, <1>7
<1> QED BY <1>4, <1>5, <1>8 DEF s, at, w

\* The number an element of the bytes stands for.
Word(codec, v, e) == IF codec = "f32" THEN v[e] ELSE PackWord(codec, Chunk(v, e))

Words(codec, n) == CeilDiv(n, WordSize(codec))

LittleWords(codec, v) ==
    [e \in 1 .. Words(codec, Len(v)) |-> Little(Word(codec, v, e), ElementBytes(codec))]

\* It fits into the element, and has the bits of the coordinates.
LEMMA WordIs ==
    ASSUME NEW codec \in Codec, NEW v \in Seq(Float), NEW e \in 1 .. Words(codec, Len(v))
    PROVE  /\ Word(codec, v, e) \in 0 .. Weight(ElementBytes(codec)) - 1
           /\ codec = "f32" => e \in 1 .. Len(v) /\ Word(codec, v, e) = v[e]
           /\ codec # "f32" => \A k \in 0 .. WordBits - 1 :
                LET at == WordBits * (e - 1) + (k + 1)
                IN  (Word(codec, v, e) \div Pow2[k]) % 2
                      = IF at <= Len(v) THEN Bit(codec, v[at]) ELSE 0
<1>1. CASE codec = "f32"
  <2>1. WordSize(codec) = 1 /\ ElementBytes(codec) = 4 BY <1>1 DEF WordSize, ElementBytes, FloatBytes
  <2>2. CeilDiv(Len(v), 1) = Len(v) BY DEF CeilDiv
  <2>3. e \in 1 .. Len(v) BY <2>1, <2>2 DEF Words
  <2>4. v[e] \in Float BY <2>3, ElementOfSeq
  <2>5. v[e] \in 0 .. 3 BY <2>4 DEF Float, Zero, One, NegZero, MinusOne
  <2>6. Weight(4) \in Nat /\ Weight(4) >= 4
    <3> DEFINE w == Weight(3)
    <3>1. w \in Nat \ {0} /\ Weight(3 + 1) = Radix * w /\ Radix \in Nat /\ Radix >= 4 BY Weights
    <3> HIDE DEF w
    <3>2. Radix * w >= 4 BY <3>1
    <3> QED BY <3>1, <3>2, 3 + 1 = 4
  <2> QED BY <1>1, <2>1, <2>3, <2>5, <2>6 DEF Word
<1>2. CASE codec # "f32"
  <2>1. WordSize(codec) = WordBits /\ ElementBytes(codec) = WordBytes
    BY <1>2 DEF WordSize, ElementBytes
  <2>2. e \in 1 .. CeilDiv(Len(v), WordBits) BY <2>1 DEF Words
  <2> DEFINE u == Chunk(v, e)
             at == WordBits * (e - 1)
  <2>3. PICK m \in 1 .. WordBits :
          /\ u \in [1 .. m -> Float]
          /\ \A k \in 1 .. m : u[k] = v[at + k]
          /\ \A k \in 1 .. WordBits : k <= m <=> at + k <= Len(v)
    BY <2>2, ChunkIs
  <2>4. Word(codec, v, e) = PackWord(codec, u) BY <1>2 DEF Word
  <2> HIDE DEF u, at
  <2> DEFINE w == PackWord(codec, u)
  <2>5. m \in Nat /\ m <= WordBits /\ WordBits \in Nat BY <2>3, Sizes
  <2>6. /\ w \in Nat /\ w < Pow2[m]
        /\ \A k \in Nat : (w \div Pow2[k]) % 2 = IF k < m THEN Bit(codec, u[k + 1]) ELSE 0
    BY <1>2, <2>3, <2>5, PackedBits
  <2> HIDE DEF w
  <2>7. Pow2[m] <= Pow2[WordBits] /\ Pow2[m] \in Nat /\ Pow2[WordBits] \in Nat
    <3>1. Pow2[m] <= Pow2[WordBits] BY <2>5, PowersGrow
    <3> QED BY <2>5, <3>1, Powers
  <2>8. w \in 0 .. Weight(ElementBytes(codec)) - 1
    <3>1. Weight(ElementBytes(codec)) = Pow2[WordBits] BY <2>1, Sizes
    <3> QED BY <2>6, <2>7, <3>1
  <2>9. ASSUME NEW k \in 0 .. WordBits - 1
        PROVE  (w \div Pow2[k]) % 2
                 = IF at + (k + 1) <= Len(v) THEN Bit(codec, v[at + (k + 1)]) ELSE 0
    <3>1. k \in Nat /\ k + 1 \in 1 .. WordBits /\ (k < m <=> k + 1 <= m) /\ (k < m => k + 1 \in 1 .. m)
      BY <2>5
    <3>2. (w \div Pow2[k]) % 2 = IF k < m THEN Bit(codec, u[k + 1]) ELSE 0 BY <2>6, <3>1
    <3>3. k + 1 <= m <=> at + (k + 1) <= Len(v) BY <2>3, <3>1
    <3>4. k < m => u[k + 1] = v[at + (k + 1)] BY <2>3, <3>1
    <3> QED BY <3>1, <3>2, <3>3, <3>4
  <2> QED BY <1>2, <2>4, <2>8, <2>9 DEF w, at
<1> QED BY <1>1, <1>2

\* The elements are laid out one after the other.
LEMMA SliceLaid ==
    ASSUME NEW codec \in Codec, NEW v \in Seq(Float)
    PROVE  /\ Words(codec, Len(v)) \in Nat
           /\ Laid(FromSlice(codec, v), LittleWords(codec, v), Words(codec, Len(v)), ElementBytes(codec))
<1> DEFINE n == Words(codec, Len(v))
           b == ElementBytes(codec)
           s == LittleWords(codec, v)
<1>1. b \in Nat /\ WordSize(codec) \in Nat \ {0} BY Sizes
<1>2. n \in Nat
  <2>1. Len(v) \in Nat OBVIOUS
  <2> QED BY <1>1, <2>1, Ceiling DEF Words
<1>3. ASSUME NEW e \in 1 .. n
      PROVE  Little(Word(codec, v, e), b) \in Seq(Byte) /\ Len(Little(Word(codec, v, e), b)) = b
  <2>1. Word(codec, v, e) \in 0 .. Weight(b) - 1 BY WordIs
  <2>2. Word(codec, v, e) \in Nat BY <2>1
  <2> QED BY <1>1, <2>2, LittleByte
<1>4. FromSlice(codec, v) = FlattenSeq(s)
  <2>1. CASE codec = "f32"
    <3>1. CeilDiv(Len(v), 1) = Len(v) BY DEF CeilDiv
    <3>2. n = Len(v) /\ b = FloatBytes BY <2>1, <3>1 DEF Words, WordSize, ElementBytes
    <3>3. s = [e \in 1 .. Len(v) |-> Little(v[e], FloatBytes)] BY <2>1, <3>2 DEF LittleWords, Word
    <3> QED BY <2>1, <3>3 DEF FromSlice
  <2>2. CASE codec # "f32"
    <3>1. n = CeilDiv(Len(v), WordBits) /\ b = WordBytes BY <2>2 DEF Words, WordSize, ElementBytes
    <3>2. s = [e \in 1 .. CeilDiv(Len(v), WordBits) |-> Little(PackWord(codec, Chunk(v, e)), WordBytes)]
      BY <2>2, <3>1 DEF LittleWords, Word
    <3> QED BY <2>2, <3>2 DEF FromSlice
  <2> QED BY <2>1, <2>2
<1>5. s \in [1 .. n -> Seq(Byte)] /\ \A e \in 1 .. n : Len(s[e]) = b
  <2> DEFINE f(e) == Little(Word(codec, v, e), b)
  <2>1. s = [e \in 1 .. n |-> f(e)] BY DEF LittleWords
  <2>2. \A e \in 1 .. n : f(e) \in Seq(Byte) /\ Len(f(e)) = b BY <1>3
  <2> HIDE DEF f, s, n, b
  <2> QED BY <2>1, <2>2
<1> HIDE DEF n, b, s
<1>6. Laid(FlattenSeq(s), s, n, b) BY <1>1, <1>2, <1>5, Flat
<1> QED BY <1>2, <1>4, <1>6 DEF n, b, s

\* Which of m rows of w a position is in.
LEMMA RowOf ==
    ASSUME NEW w \in Nat \ {0}, NEW m \in Nat, NEW n \in Nat, n < w * m
    PROVE  n \div w \in 0 .. m - 1 /\ n % w \in 0 .. w - 1 /\ n = w * (n \div w) + (n % w)
<1> DEFINE q == n \div w
           t == n % w
<1>1. q \in Nat /\ t \in 0 .. w - 1 /\ n = w * q + t BY Division
<1> HIDE DEF q, t
<1>2. q < m
  <2> SUFFICES ASSUME m <= q PROVE FALSE BY <1>1
  <2>1. w * m <= w * q /\ w * m \in Nat /\ w * q \in Nat BY <1>1
  <2> QED BY <1>1, <2>1
<1> QED BY <1>1, <1>2 DEF q, t

\* What is read of an element is the number it stands for.
LEMMA ElementIs ==
    ASSUME NEW codec \in Codec, NEW v \in Seq(Float), NEW e \in 0 .. Words(codec, Len(v)) - 1
    PROVE  Element(codec, FromSlice(codec, v), e) = Word(codec, v, e + 1)
<1> DEFINE n == Words(codec, Len(v))
           w == ElementBytes(codec)
           r == FromSlice(codec, v)
           s == LittleWords(codec, v)
           x == Word(codec, v, e + 1)
           t == Little(x, w)
           a == e * w
<1>1. w \in Nat \ {0} /\ n \in Nat BY Sizes, SliceLaid
<1>2. r \in Seq(Byte) /\ Len(r) = w * n /\ \A k \in 1 .. n, b \in 1 .. w : r[w * (k - 1) + b] = s[k][b]
  BY SliceLaid DEF Laid
<1>3. e + 1 \in 1 .. n /\ e \in Nat BY <1>1
<1>4. s[e + 1] = t BY <1>3 DEF LittleWords
<1>5. x \in 0 .. Weight(w) - 1 BY <1>3, WordIs
<1>6. t \in Seq(Byte) /\ Len(t) = w
  <2>1. x \in Nat BY <1>5
  <2> QED BY <1>1, <2>1, LittleByte
<1>7. ReadLittle(t) = x BY <1>1, <1>5, LittleReadsBack
<1> HIDE DEF n, w, r, s, x, t
<1>8. a \in Nat /\ w * ((e + 1) - 1) = a /\ (e + 1) * w = a + w /\ a + w <= w * n
  <2>1. a \in Nat /\ w * ((e + 1) - 1) = a /\ (e + 1) * w = a + w /\ a + w = w * (e + 1) BY <1>1, <1>3
  <2>2. w * (e + 1) <= w * n BY <1>1, <1>3
  <2> QED BY <2>1, <2>2
<1>9. \A b \in 1 .. w : r[a + b] = t[b]
  <2>1. \A b \in 1 .. w : r[w * ((e + 1) - 1) + b] = s[e + 1][b] BY <1>2, <1>3
  <2> QED BY <1>4, <1>8, <2>1
<1> HIDE DEF a
<1>10. SubSeq(r, a + 1, a + Len(t)) = t BY <1>2, <1>6, <1>8, <1>9, ReadsPiece
<1>11. Element(codec, r, e) = ReadLittle(SubSeq(r, a + 1, a + w)) BY <1>8 DEF Element, w, a
<1> QED BY <1>6, <1>7, <1>10, <1>11 DEF r, x

\* What comes back of a vector: what the codec keeps of it, and padding.
Back(codec, v) ==
    [k \in 1 .. WordSize(codec) * Words(codec, Len(v)) |->
       IF codec = "f32" THEN v[k]
       ELSE OfBit(codec, IF k <= Len(v) THEN Bit(codec, v[k]) ELSE 0)]

\* How much that is.
LEMMA SliceFits ==
    ASSUME NEW codec \in Codec, NEW v \in Seq(Float)
    PROVE  /\ FromSlice(codec, v) \in Seq(Byte) /\ Fits(codec, FromSlice(codec, v))
           /\ VectorLen(codec, FromSlice(codec, v)) = WordSize(codec) * Words(codec, Len(v))
<1> DEFINE n == Words(codec, Len(v))
           w == ElementBytes(codec)
           r == FromSlice(codec, v)
           z == WordSize(codec)
<1>1. w \in Nat \ {0} /\ n \in Nat /\ z \in Nat BY Sizes, SliceLaid
<1>2. r \in Seq(Byte) /\ Len(r) = w * n BY SliceLaid DEF Laid
<1>3. Fits(codec, r) <=> Len(r) % w = 0 BY DEF Fits
<1>4. VectorLen(codec, r) = (Len(r) \div w) * z BY DEF VectorLen
<1> HIDE DEF n, w, r, z
<1>5. (w * n) \div w = n /\ (w * n) % w = 0
  <2>1. (w * n + 0) \div w = n /\ (w * n + 0) % w = 0 BY <1>1, Quotient
  <2>2. w * n + 0 = w * n BY <1>1
  <2> QED BY <2>1, <2>2
<1>6. n * z = z * n BY <1>1
<1> QED BY <1>2, <1>3, <1>4, <1>5, <1>6 DEF r, z, n

\* The bit of a coordinate, none beyond the last one.
BitOf(codec, v, k) == IF k <= Len(v) THEN Bit(codec, v[k]) ELSE 0

\* Vectors of as many words and the same bits have the same bytes.
LEMMA SameSlice ==
    ASSUME NEW codec \in Codec \ {"f32"}, NEW v \in Seq(Float), NEW u \in Seq(Float),
           Words(codec, Len(v)) = Words(codec, Len(u)),
           \A k \in 1 .. WordBits * Words(codec, Len(v)) : BitOf(codec, v, k) = BitOf(codec, u, k)
    PROVE  FromSlice(codec, v) = FromSlice(codec, u)
<1> DEFINE n == Words(codec, Len(v))
<1>1. n \in Nat /\ WordBits \in Nat \ {0} BY SliceLaid, Sizes
<1>2. WordSize(codec) = WordBits /\ ElementBytes(codec) = WordBytes BY DEF WordSize, ElementBytes
<1>3. Weight(ElementBytes(codec)) = Pow2[WordBits] BY <1>2, Sizes
<1>4. ASSUME NEW e \in 1 .. n PROVE PackWord(codec, Chunk(v, e)) = PackWord(codec, Chunk(u, e))
  <2> DEFINE a == Word(codec, v, e)
             b == Word(codec, u, e)
  <2>1. a \in 0 .. Pow2[WordBits] - 1 /\ b \in 0 .. Pow2[WordBits] - 1
    <3>1. e \in 1 .. Words(codec, Len(v)) /\ e \in 1 .. Words(codec, Len(u)) OBVIOUS
    <3> QED BY <1>3, <3>1, WordIs
  <2>2. ASSUME NEW k \in 0 .. WordBits - 1
        PROVE  (a \div Pow2[k]) % 2 = (b \div Pow2[k]) % 2
    <3> DEFINE at == WordBits * (e - 1) + (k + 1)
    <3>1. at \in 1 .. WordBits * n
      <4> DEFINE w == WordBits
      <4>1. w \in Nat \ {0} /\ k \in 0 .. w - 1 /\ e \in 1 .. n BY <1>1
      <4>2. at = w * (e - 1) + (k + 1) OBVIOUS
      <4> HIDE DEF w, n, at
      <4>3. w * (e - 1) = w * e - w /\ w * e \in Nat /\ w * (e - 1) \in Nat /\ w * e <= w * n /\ w * n \in Nat
        BY <1>1, <4>1
      <4> QED BY <4>1, <4>2, <4>3 DEF w
    <3>2. (a \div Pow2[k]) % 2 = BitOf(codec, v, at) BY WordIs DEF BitOf
    <3>3. (b \div Pow2[k]) % 2 = BitOf(codec, u, at) BY WordIs DEF BitOf
    <3> HIDE DEF at, a, b
    <3> QED BY <3>1, <3>2, <3>3
  <2> HIDE DEF a, b
  <2>3. a = b BY <1>1, <2>1, <2>2, SameBits
  <2> QED BY <2>3 DEF a, b, Word
<1>5. n = CeilDiv(Len(v), WordBits) /\ n = CeilDiv(Len(u), WordBits) BY <1>2 DEF Words
<1> DEFINE row(x) == [e \in 1 .. n |-> Little(PackWord(codec, Chunk(x, e)), WordBytes)]
<1>6. row(v) = row(u) BY <1>4
<1>7. FromSlice(codec, v) = FlattenSeq(row(v)) /\ FromSlice(codec, u) = FlattenSeq(row(u))
  BY <1>5 DEF FromSlice
<1> QED BY <1>6, <1>7

\* A byte of the vector has the bits of BitsPerByte coordinates.
LEMMA SliceByte ==
    ASSUME NEW codec \in Codec \ {"f32"}, NEW v \in Seq(Float),
           NEW j \in 0 .. WordBytes * Words(codec, Len(v)) - 1
    PROVE  /\ FromSlice(codec, v)[j + 1] \in 0 .. Radix - 1
           /\ \A q \in 0 .. BitsPerByte - 1 :
                (FromSlice(codec, v)[j + 1] \div Pow2[q]) % 2 = BitOf(codec, v, (BitsPerByte * j + q) + 1)
<1> DEFINE n == Words(codec, Len(v))
           r == FromSlice(codec, v)
           s == LittleWords(codec, v)
           B == BitsPerByte
           w == WordBytes
           e == j \div w
           p == j % w
           x == Word(codec, v, e + 1)
           byte == r[j + 1]
<1>1. n \in Nat /\ WordSize(codec) = WordBits /\ ElementBytes(codec) = WordBytes
  BY SliceLaid DEF WordSize, ElementBytes
<1>2. \A k \in 1 .. n, b \in 1 .. WordBytes : r[WordBytes * (k - 1) + b] = s[k][b]
  BY <1>1, SliceLaid DEF Laid
<1>3. B \in Nat \ {0} /\ w \in Nat \ {0} /\ WordBits \in Nat /\ w * n \in Nat BY <1>1, Sizes
<1>4. e \in 0 .. n - 1 /\ p \in 0 .. w - 1 /\ j = w * e + p
  <2>1. j \in Nat /\ j < w * n BY <1>3
  <2> HIDE DEF w, n
  <2> QED BY <1>1, <1>3, <2>1, RowOf
<1>5. e + 1 \in 1 .. n /\ p + 1 \in 1 .. w /\ (e + 1) - 1 = e /\ (p + 1) - 1 = p BY <1>1, <1>3, <1>4
<1>6. byte = s[e + 1][p + 1]
  <2>1. w * ((e + 1) - 1) + (p + 1) = j + 1
    <3> HIDE DEF e, p, w
    <3>1. w * e \in Nat /\ p \in Nat BY <1>3, <1>4
    <3> QED BY <1>4, <1>5, <3>1
  <2> QED BY <1>2, <1>5, <2>1
<1>7. x \in Nat
  <2>1. x \in 0 .. Weight(WordBytes) - 1 BY <1>1, <1>5, WordIs
  <2> QED BY <2>1
<1>8. s[e + 1] = Little(x, w) BY <1>1, <1>5 DEF LittleWords
<1>9. byte = (x \div Weight(p)) % Radix
  <2> HIDE DEF x, e, p, byte
  <2>1. Little(x, w)[p + 1] = (x \div Weight((p + 1) - 1)) % Radix BY <1>3, <1>5, <1>7, LittleByte
  <2> QED BY <1>5, <1>6, <1>8, <2>1
<1>10. byte \in 0 .. Radix - 1
  <2> DEFINE a == x \div Weight(p)
  <2>1. p \in Nat BY <1>4
  <2>2. Weight(p) \in Nat \ {0} /\ Radix \in Nat \ {0}
    <3>1. \A k \in Nat : Weight(k) \in Nat \ {0} BY Weights
    <3>2. Radix \in Nat \ {0} BY Weights
    <3> HIDE DEF p
    <3> QED BY <2>1, <3>1, <3>2
  <2>3. a \in Nat
    <3> HIDE DEF x, p
    <3> QED BY <1>7, <2>2, Division
  <2> HIDE DEF a
  <2>4. a % Radix \in 0 .. Radix - 1 BY <2>2, <2>3, Division
  <2> QED BY <1>9, <2>4 DEF a
<1>11. ASSUME NEW q \in 0 .. B - 1 PROVE (byte \div Pow2[q]) % 2 = BitOf(codec, v, (B * j + q) + 1)
  <2> DEFINE f == B * p + q
  <2>1. (byte \div Pow2[q]) % 2 = (x \div Pow2[f]) % 2
    <3> HIDE DEF x, p, byte
    <3> QED BY <1>4, <1>7, <1>9, BitOfByte
  <2>2. f \in 0 .. WordBits - 1 /\ WordBits * e + (f + 1) = (B * j + q) + 1
    <3> HIDE DEF e, p, w
    <3>1. B * p \in Nat /\ q \in Nat /\ B * (w * e) \in Nat /\ w * e \in Nat /\ p \in Nat BY <1>3, <1>4
    <3>2. B * j = B * (w * e) + B * p BY <1>3, <1>4, <3>1
    <3>3. WordBits * e = B * (w * e) /\ WordBits = B * w BY <1>3, <1>4 DEF WordBits, w
    <3>4. B * p + B <= B * w
      <4>1. B * (p + 1) <= B * w BY <1>3, <1>4
      <4>2. B * (p + 1) = B * p + B BY <1>3, <3>1
      <4> QED BY <4>1, <4>2
    <3>5. f \in 0 .. WordBits - 1
      <4> DEFINE a == B * p
                 c == B * w
      <4>1. a \in Nat /\ c \in Int /\ a + B <= c /\ WordBits = c /\ f = a + q BY <1>3, <3>1, <3>3, <3>4
      <4> HIDE DEF a, c, f
      <4> QED BY <1>3, <1>11, <4>1
    <3>6. WordBits * e + (f + 1) = (B * j + q) + 1
      <4> DEFINE a == B * p
                 c == B * (w * e)
      <4>1. a \in Nat /\ c \in Nat /\ B * j = c + a /\ WordBits * e = c /\ f = a + q
        BY <3>1, <3>2, <3>3
      <4> HIDE DEF a, c, f
      <4> QED BY <3>1, <4>1
    <3> QED BY <3>5, <3>6
  <2> DEFINE at == WordBits * ((e + 1) - 1) + (f + 1)
  <2>3. (x \div Pow2[f]) % 2 = BitOf(codec, v, at)
    <3>1. (x \div Pow2[f]) % 2 = IF at <= Len(v) THEN Bit(codec, v[at]) ELSE 0
      <4> HIDE DEF f
      <4> QED BY <1>5, <2>2, WordIs
    <3> HIDE DEF at, x
    <3> QED BY <3>1 DEF BitOf
  <2>4. at = (B * j + q) + 1
    <3> HIDE DEF f, e
    <3> QED BY <1>5, <2>2
  <2> HIDE DEF at, x, f, byte
  <2> QED BY <2>1, <2>3, <2>4
<1> QED BY <1>10, <1>11

\* By iter.
LEMMA IterIs ==
    ASSUME NEW codec \in Codec, NEW v \in Seq(Float)
    PROVE  Iter(codec, FromSlice(codec, v)) = Back(codec, v)
<1> DEFINE n == Words(codec, Len(v))
           z == WordSize(codec)
           r == FromSlice(codec, v)
           at(k) == Element(codec, r, (k - 1) \div z)
           got(k) == IF codec = "f32" THEN at(k)
                     ELSE OfBit(codec, (at(k) \div Pow2[(k - 1) % WordBits]) % 2)
           back(k) == IF codec = "f32" THEN v[k]
                      ELSE OfBit(codec, IF k <= Len(v) THEN Bit(codec, v[k]) ELSE 0)
<1>1. z \in Nat \ {0} /\ n \in Nat BY Sizes, SliceLaid
<1>2. Iter(codec, r) = [k \in 1 .. z * n |-> got(k)] BY SliceFits DEF Iter
<1>3. ASSUME NEW k \in 1 .. z * n PROVE got(k) = back(k)
  <2> DEFINE e == (k - 1) \div z
             q == (k - 1) % z
  <2>1. e \in 0 .. n - 1 /\ q \in 0 .. z - 1 /\ k - 1 = z * e + q
    <3>1. z * n \in Nat BY <1>1
    <3>2. k - 1 \in Nat /\ k - 1 < z * n BY <3>1
    <3> HIDE DEF z, n
    <3> QED BY <1>1, <3>2, RowOf
  <2>2. at(k) = Word(codec, v, e + 1) BY <2>1, ElementIs
  <2>3. e + 1 \in 1 .. n
    <3> HIDE DEF e, n
    <3> QED BY <1>1, <2>1
  <2>4. CASE codec = "f32"
    <3>1. z = 1 BY <2>4 DEF WordSize
    <3>2. e + 1 = k BY <1>1, <2>1, <3>1
    <3>3. Word(codec, v, e + 1) = v[e + 1] BY <2>4 DEF Word
    <3> QED BY <2>2, <2>4, <3>2, <3>3
  <2>5. CASE codec # "f32"
    <3>1. z = WordBits BY <2>5 DEF WordSize
    <3>2. (Word(codec, v, e + 1) \div Pow2[q]) % 2
            = IF WordBits * ((e + 1) - 1) + (q + 1) <= Len(v)
              THEN Bit(codec, v[WordBits * ((e + 1) - 1) + (q + 1)]) ELSE 0
      BY <2>1, <2>3, <2>5, <3>1, WordIs
    <3>3. WordBits * ((e + 1) - 1) + (q + 1) = k
      <4> HIDE DEF e, q
      <4>1. (e + 1) - 1 = e /\ k - 1 = WordBits * e + q BY <2>1, <3>1
      <4> DEFINE a == WordBits * e
      <4>2. a \in Nat /\ q \in Nat BY <1>1, <2>1, <3>1
      <4> HIDE DEF a
      <4>3. a + (q + 1) = k BY <4>1, <4>2 DEF a
      <4> QED BY <4>1, <4>3 DEF a
    <3> QED BY <2>2, <2>5, <3>1, <3>2, <3>3
  <2> QED BY <2>4, <2>5
<1> HIDE DEF got, back
<1>4. Iter(codec, r) = [k \in 1 .. z * n |-> back(k)] BY <1>2, <1>3
<1> QED BY <1>4 DEF Back, back, z, n, r

\* And by to_vec, a byte at a time.
LEMMA ToVecIs ==
    ASSUME NEW codec \in Codec, NEW v \in Seq(Float)
    PROVE  ToVec(codec, FromSlice(codec, v)) = Back(codec, v)
<1>1. CASE codec = "f32" BY <1>1, IterIs DEF ToVec
<1>2. CASE codec # "f32"
  <2> DEFINE n == Words(codec, Len(v))
             r == FromSlice(codec, v)
             byte(k) == r[(k - 1) \div BitsPerByte + 1]
             got(k) == Lane(codec, byte(k), (k - 1) % BitsPerByte)
             back(k) == OfBit(codec, IF k <= Len(v) THEN Bit(codec, v[k]) ELSE 0)
  <2>1. n \in Nat /\ WordSize(codec) = WordBits /\ ElementBytes(codec) = WordBytes
    BY <1>2, SliceLaid DEF WordSize, ElementBytes
  <2>2. ToVec(codec, r) = [k \in 1 .. WordBits * n |-> got(k)] BY <1>2, <2>1, SliceFits DEF ToVec
  <2>4. ASSUME NEW k \in 1 .. WordBits * n PROVE got(k) = back(k)
    <3> DEFINE B == BitsPerByte
               w == WordBytes
               j == (k - 1) \div B
               q == (k - 1) % B
    <3>1. B \in Nat \ {0} /\ w \in Nat \ {0} /\ WordBits \in Nat BY Sizes
    <3>2. WordBits * n = B * (w * n) /\ w * n \in Nat /\ WordBits * n \in Nat BY <2>1, <3>1 DEF WordBits
    <3>3. j \in 0 .. w * n - 1 /\ q \in 0 .. B - 1 /\ k - 1 = B * j + q
      <4>1. k - 1 \in Nat /\ k - 1 < B * (w * n) BY <3>2
      <4> HIDE DEF B, w, n
      <4> QED BY <3>1, <3>2, <4>1, RowOf
    <3>4. (byte(k) \div Pow2[q]) % 2 = BitOf(codec, v, k)
      <4>1. codec \in Codec \ {"f32"} BY <1>2
      <4>2. (r[j + 1] \div Pow2[q]) % 2 = BitOf(codec, v, (B * j + q) + 1)
        <5> HIDE DEF r, j, q
        <5> QED BY <3>3, <4>1, SliceByte DEF r
      <4>3. (B * j + q) + 1 = k
        <5> HIDE DEF j, q
        <5> QED BY <3>3
      <4> QED BY <4>2, <4>3
    <3>5. BitOf(codec, v, k) \in {0, 1}
      <4>1. codec = "binary" \/ codec = "binary quantized" BY <1>2 DEF Codec
      <4> QED BY <4>1 DEF Bit, BitOf
    <3> HIDE DEF byte, q
    <3>6. got(k) = OfBit(codec, IF (byte(k) \div Pow2[q]) % 2 = 0 THEN 0 ELSE 1) BY DEF Lane, q
    <3> QED BY <3>4, <3>5, <3>6 DEF BitOf
  <2> HIDE DEF got, back
  <2>5. ToVec(codec, r) = [k \in 1 .. WordBits * n |-> back(k)] BY <2>2, <2>4
  <2> QED BY <1>2, <2>1, <2>5 DEF Back, back, n, r
<1> QED BY <1>1, <1>2

-----------------------------------------------------------------------------
(* Nodes. *)

\* An item is read as the vector it was written with.
LEMMA ItemIs ==
    ASSUME NEW d \in Distance, NEW u \in Seq(Byte), Fits(CodecOf[d], u)
    PROVE  ReadNode(d, ItemNode(d, u)) = [kind |-> "item", vector |-> u]
<1> DEFINE h == HeaderBytes[d]
           tag == <<NodeTag>>
           z == [b \in 1 .. h |-> 0]
           s == tag \o z
           r == s \o u
<1>1. h \in Nat BY DistanceAssumption
<1>2. 0 \in Byte BY Weights DEF Byte
<1>3. tag \in Seq(Byte) /\ Len(tag) = 1 /\ tag[1] = 0 BY <1>2 DEF NodeTag
<1>4. z \in Seq(Byte) /\ Len(z) = h BY <1>1, <1>2
<1>5. ItemNode(d, u) = r BY DEF ItemNode
<1> HIDE DEF tag, z
<1>6. Joins(s, tag, z) BY <1>3, <1>4, Joined
<1> HIDE DEF s
<1>7. s \in Seq(Byte) /\ Len(s) = 1 + h /\ s[1] = 0 BY <1>3, <1>4, <1>6, 1 \in 1 .. 1 DEF Joins
<1>8. Joins(r, s, u) BY <1>7, Joined
<1> HIDE DEF r, h
<1>9. Len(u) \in Nat OBVIOUS
<1>10. r \in Seq(Byte) /\ Len(r) = (1 + h) + Len(u) /\ \A b \in 1 .. Len(u) : r[(1 + h) + b] = u[b]
  BY <1>7, <1>8 DEF Joins
<1>11. r[1] = 0
  <2>1. 1 \in 1 .. Len(s) BY <1>1, <1>7
  <2> QED BY <1>7, <1>8, <2>1 DEF Joins
<1>12. SubSeq(r, (1 + h) + 1, (1 + h) + Len(u)) = u
  <2>1. 1 + h \in Nat /\ (1 + h) + Len(u) <= Len(r) BY <1>1, <1>9, <1>10
  <2> QED BY <1>10, <2>1, ReadsPiece
<1>13. (1 + h) + 1 = 2 + h /\ ~(Len(r) - 1 < h) /\ Len(r) # 0 BY <1>1, <1>9, <1>10
<1>14. SubSeq(r, 2 + h, Len(r)) = u BY <1>10, <1>12, <1>13
<1>15. r # <<>>
  <2>1. Len(<<>>) = 0 OBVIOUS
  <2> QED BY <1>13, <2>1
<1>16. ReadNode(d, r) = [kind |-> "item", vector |-> u]
  <2>1. r[1] = NodeTag BY <1>11 DEF NodeTag
  <2> DEFINE y == SubSeq(r, 2 + HeaderBytes[d], Len(r))
  <2>2. ~(Len(r) - 1 < HeaderBytes[d]) BY <1>13 DEF h
  <2>3. ReadNode(d, r) = IF Fits(CodecOf[d], y) THEN [kind |-> "item", vector |-> y] ELSE NodeError
    BY <1>15, <2>1, <2>2 DEF ReadNode, NodeTag, LinksTag
  <2>4. y = u BY <1>14 DEF h
  <2> HIDE DEF y
  <2> QED BY <2>3, <2>4
<1> QED BY <1>5, <1>16

\* Links are links.
LEMMA LinksAre ==
    ASSUME NEW d, NEW S \in SUBSET Nat, IsFiniteSet(S)
    PROVE  ReadNode(d, LinksNode(S)).kind = "links"
<1> DEFINE tag == <<LinksTag>>
           t == BitmapBytes(S)
           r == tag \o t
<1>1. t \in Seq(Byte) /\ IsBitmap(t) BY BitmapParts, BitmapIs
<1>2. 1 \in Byte BY Weights DEF Byte
<1>3. tag \in Seq(Byte) /\ Len(tag) = 1 /\ tag[1] = 1 BY <1>2 DEF LinksTag
<1>4. LinksNode(S) = r BY DEF LinksNode
<1> HIDE DEF t, tag
<1>5. Joins(r, tag, t) BY <1>1, <1>3, Joined
<1> HIDE DEF r
<1>6. r \in Seq(Byte) /\ Len(r) = 1 + Len(t) /\ r[1] = 1 /\ \A b \in 1 .. Len(t) : r[1 + b] = t[b]
  BY <1>3, <1>5, 1 \in 1 .. 1 DEF Joins
<1>7. Len(t) \in Nat BY <1>1
<1>8. r # <<>>
  <2>1. Len(<<>>) = 0 OBVIOUS
  <2> QED BY <1>6, <1>7, <2>1
<1>9. Tail(r) = t
  <2>1. SubSeq(r, 1 + 1, 1 + Len(t)) = t BY <1>1, <1>6, <1>7, ReadsPiece
  <2>2. /\ Tail(r) \in Seq(Byte) /\ Len(Tail(r)) = Len(r) - 1
        /\ \A b \in 1 .. Len(r) - 1 : Tail(r)[b] = r[b + 1]
    BY <1>6, <1>8, HeadTailProperties
  <2>3. Len(r) - 1 = Len(t) /\ \A b \in 1 .. Len(t) : b + 1 = 1 + b BY <1>6, <1>7
  <2>4. Len(Tail(r)) = Len(t) /\ \A b \in 1 .. Len(Tail(r)) : Tail(r)[b] = t[b] BY <1>6, <2>2, <2>3
  <2> QED BY <1>1, <2>2, <2>4, SeqEqual
<1>10. ReadNode(d, r) = [kind |-> "links", ids |-> ReadBitmap(t)]
  BY <1>1, <1>6, <1>8, <1>9, 0 # 1 DEF ReadNode, NodeTag, LinksTag
<1> QED BY <1>4, <1>10

\* What starts with another tag is no node.
LEMMA NoNode ==
    ASSUME NEW d, NEW r, r # <<>>, r[1] \notin {0, 1}
    PROVE  ReadNode(d, r) = NodeError
BY DEF ReadNode, NodeTag, LinksTag

\* The first of some bytes and others.
LEMMA FirstOf ==
    ASSUME NEW s \in Seq(Byte), NEW t \in Seq(Byte), Len(s) >= 1
    PROVE  s \o t \in Seq(Byte) /\ Len(s \o t) >= 1 /\ (s \o t)[1] = s[1]
<1> DEFINE r == s \o t
<1>1. Joins(r, s, t) BY Joined
<1>2. Len(s) \in Nat /\ Len(t) \in Nat OBVIOUS
<1> HIDE DEF r
<1>3. r \in Seq(Byte) /\ Len(r) >= 1 /\ r[1] = s[1] BY <1>1, <1>2 DEF Joins
<1> QED BY <1>3 DEF r

\* The version is too long to panic when it is read as a node.
LEMMA VersionIsNoNode ==
    ASSUME NEW d \in Distance
    PROVE  ReadNode(d, VersionBytes(0, 1, 0)).kind # "panic"
<1> DEFINE a == BigEndian(0, 4)
           b == BigEndian(1, 4)
           s == a \o b
           r == s \o a
<1>1. a \in Seq(Byte) /\ Len(a) = 4 /\ b \in Seq(Byte) /\ Len(b) = 4 BY BytesType
<1>2. a[1] = 0
  <2> DEFINE w == Weight(4 - 1)
  <2>1. a[1] = (0 \div w) % Radix BY BytesType, 1 \in 1 .. 4
  <2>2. w \in Nat \ {0} /\ Radix \in Nat \ {0} BY Weights, 4 - 1 \in Nat
  <2> HIDE DEF w, a
  <2>3. 0 \div w = 0 /\ 0 % Radix = 0 BY <2>2
  <2> QED BY <2>1, <2>3
<1>3. VersionBytes(0, 1, 0) = r BY DEF VersionBytes
<1> HIDE DEF a, b
<1>4. Joins(s, a, b) BY <1>1, Joined
<1> HIDE DEF s
<1>5. s \in Seq(Byte) /\ Len(s) = 8 /\ s[1] = 0 BY <1>1, <1>2, <1>4, 1 \in 1 .. 4, 4 + 4 = 8 DEF Joins
<1>6. Joins(r, s, a) BY <1>1, <1>5, Joined
<1> HIDE DEF r
<1>7. r \in Seq(Byte) /\ Len(r) = 12 /\ r[1] = 0 BY <1>1, <1>5, <1>6, 1 \in 1 .. 8, 8 + 4 = 12 DEF Joins
<1>8. r # <<>>
  <2>1. Len(<<>>) = 0 /\ Len(r) # 0 BY <1>7
  <2> QED BY <2>1
<1>9. ~(Len(r) - 1 < HeaderBytes[d])
  <2>1. HeaderBytes[d] \in 0 .. 8 BY DistanceAssumption
  <2>2. Len(r) = 12 BY <1>7
  <2> QED BY <2>1, <2>2
<1> DEFINE u == SubSeq(r, 2 + HeaderBytes[d], Len(r))
<1>10. ReadNode(d, r) = IF Fits(CodecOf[d], u) THEN [kind |-> "item", vector |-> u] ELSE NodeError
  <2>1. r[1] = NodeTag BY <1>7 DEF NodeTag
  <2> QED BY <1>8, <1>9, <2>1 DEF ReadNode, NodeTag, LinksTag
<1> HIDE DEF u
<1>11. ReadNode(d, r).kind \in {"item", "error"} BY <1>10 DEF NodeError
<1> QED BY <1>3, <1>11

-----------------------------------------------------------------------------
(* Metadata. *)

Id == 0 .. Weight(4) - 1

\* A bitmap of the machine is shorter than four bytes can say.
AnyMetadata == {m \in [dist : Distance, dims : Id, items : SUBSET Id, eps : Seq(Id), top : Byte] :
                  4 + 4 * Cardinality(m.items) \in Id}

\* A set of ids is read back as it was written.
LEMMA BitmapReadsBack ==
    ASSUME NEW S \in SUBSET Id, 4 + 4 * Cardinality(S) \in Id
    PROVE  /\ S \in SUBSET Nat /\ IsFiniteSet(S) /\ Cardinality(S) \in Nat
           /\ ReadBitmap(BitmapBytes(S)) = S
<1> DEFINE n == Cardinality(S)
           r == BitmapBytes(S)
           h == BigEndian(n, 4)
           s == Ascending(S)
<1>1. Weight(4) \in Nat \ {0} BY Weights
<1>2. IsFiniteSet(Id) BY <1>1, FS_Interval, 0 \in Int DEF Id
<1>3. S \in SUBSET Nat /\ IsFiniteSet(S)
  <2>1. IsFiniteSet(S) BY <1>2, FS_Subset
  <2> QED BY <1>1, <2>1 DEF Id
<1>4. n \in Nat BY <1>3, FS_CardinalityType
<1>5. n \in 0 .. Weight(4) - 1 BY <1>1, <1>4 DEF Id
<1>6. /\ r \in Seq(Byte) /\ Len(r) = 4 + 4 * n /\ \A b \in 1 .. 4 : r[b] = h[b]
      /\ \A k \in 1 .. n, b \in 1 .. 4 : r[4 * k + b] = BigEndian(s[k], 4)[b]
  BY <1>3, BitmapParts
<1>7. h \in Seq(Byte) /\ Len(h) = 4 /\ ReadBig(h) = n BY <1>4, <1>5, BytesType, ReadsBack
<1>8. s \in [1 .. n -> S] /\ \A x \in S : \E k \in 1 .. n : s[k] = x BY <1>3, AscendingIs
<1> HIDE DEF r, h, n, s
<1>9. BitmapCount(r) = n
  <2>1. 0 + Len(h) <= Len(r) /\ \A b \in 1 .. Len(h) : r[0 + b] = h[b] BY <1>4, <1>6, <1>7
  <2>2. SubSeq(r, 0 + 1, 0 + Len(h)) = h BY <1>6, <1>7, <2>1, ReadsPiece
  <2>3. SubSeq(r, 1, 4) = h BY <1>7, <2>2
  <2> QED BY <1>7, <2>3 DEF BitmapCount
<1>10. ASSUME NEW k \in 1 .. n PROVE ReadBig(SubSeq(r, 4 * k + 1, 4 * k + 4)) = s[k]
  <2> DEFINE t == BigEndian(s[k], 4)
             a == 4 * k
  <2>1. s[k] \in 0 .. Weight(4) - 1 BY <1>8 DEF Id
  <2>2. t \in Seq(Byte) /\ Len(t) = 4
    <3>1. s[k] \in Nat BY <2>1
    <3> QED BY <3>1, BytesType
  <2>3. ReadBig(t) = s[k] BY <2>1, ReadsBack
  <2>4. \A b \in 1 .. 4 : r[a + b] = t[b] BY <1>6
  <2> HIDE DEF t
  <2>5. a \in Nat /\ a + 4 <= Len(r)
    <3>1. k \in Nat /\ k <= n BY <1>4
    <3> QED BY <1>4, <1>6, <3>1
  <2> HIDE DEF a
  <2>6. r \in Seq(Byte) BY <1>6
  <2>7. a + Len(t) <= Len(r) /\ \A b \in 1 .. Len(t) : r[a + b] = t[b] BY <2>2, <2>4, <2>5
  <2>8. SubSeq(r, a + 1, a + Len(t)) = t BY <2>2, <2>5, <2>6, <2>7, ReadsPiece
  <2>9. SubSeq(r, a + 1, a + 4) = t BY <2>2, <2>8
  <2> QED BY <2>3, <2>9 DEF a
<1>11. ReadBitmap(r) = {s[k] : k \in 1 .. n}
  <2>1. ReadBitmap(r) = {ReadBig(SubSeq(r, 4 * k + 1, 4 * k + 4)) : k \in 1 .. n}
    BY <1>9 DEF ReadBitmap
  <2> QED BY <1>10, <2>1
<1>12. ReadBitmap(r) = S BY <1>8, <1>11
<1> QED BY <1>3, <1>4, <1>12 DEF r, n

HeadLen(m) == (Len(NameOf[m.dist]) + 9) + Len(BitmapBytes(m.items))

\* The bytes r begin with all of m but its entry points and its height.
Heads(r, m) ==
    /\ r \in Seq(Byte) /\ Len(r) >= HeadLen(m)
    /\ LET n == Len(NameOf[m.dist])
           t == BitmapBytes(m.items)
       IN  /\ \A b \in 1 .. n : r[b] = NameOf[m.dist][b]
           /\ r[n + 1] = 0
           /\ \A b \in 1 .. 4 : r[(n + 1) + b] = BigEndian(m.dims, 4)[b]
           /\ \A b \in 1 .. 4 : r[(n + 5) + b] = BigEndian(Len(t), 4)[b]
           /\ \A b \in 1 .. Len(t) : r[(n + 9) + b] = t[b]

\* A name has no zero in it.
LEMMA Names ==
    ASSUME NEW d \in Distance
    PROVE  /\ NameOf[d] \in Seq(Byte) /\ Len(NameOf[d]) \in Nat \ {0}
           /\ \A b \in 1 .. Len(NameOf[d]) : NameOf[d][b] \in 2 .. Radix - 1
<1> DEFINE s == NameOf[d]
           T == 2 .. Radix - 1
<1>1. s \in Seq(T) /\ s # <<>> BY DistanceAssumption
<1>2. T \subseteq Byte BY Weights DEF Byte
<1> HIDE DEF s, T
<1>3. s \in Seq(Byte) BY <1>1, <1>2, SeqMonotonic
<1>4. Len(s) \in Nat \ {0} BY <1>1, EmptySeq
<1>5. \A b \in 1 .. Len(s) : s[b] \in T BY <1>1, ElementOfSeq
<1> QED BY <1>3, <1>4, <1>5 DEF s, T

\* So much is read back.
LEMMA HeadReadsBack ==
    ASSUME NEW m \in AnyMetadata, NEW r, Heads(r, m)
    PROVE  LET tail == SubSeq(r, HeadLen(m) + 1, Len(r))
           IN  ReadMetadata(r) = [dist |-> m.dist, dims |-> m.dims, items |-> m.items,
                                  eps |-> ReadItemIds(Front(tail)),
                                  top |-> IF tail = <<>> THEN 0 ELSE Last(tail)]
<1> DEFINE name == NameOf[m.dist]
           n == Len(name)
           t == BitmapBytes(m.items)
           size == Len(t)
           dims4 == BigEndian(m.dims, 4)
           size4 == BigEndian(size, 4)
<1>1. m.dist \in Distance /\ m.dims \in Id /\ m.items \in SUBSET Id
      /\ 4 + 4 * Cardinality(m.items) \in Id
  BY DEF AnyMetadata
<1>2. name \in Seq(Byte) /\ n \in Nat \ {0} /\ \A b \in 1 .. n : name[b] \in 2 .. Radix - 1
  BY <1>1, Names
<1>3. ReadBitmap(t) = m.items /\ t \in Seq(Byte) /\ size \in Id
  <2>1. m.items \in SUBSET Nat /\ IsFiniteSet(m.items) BY <1>1, BitmapReadsBack
  <2>2. t \in Seq(Byte) /\ size = 4 + 4 * Cardinality(m.items) BY <2>1, BitmapParts
  <2> QED BY <1>1, <2>2, BitmapReadsBack
<1>4. size \in Nat /\ m.dims \in Nat BY <1>1, <1>3 DEF Id
<1>5. /\ dims4 \in Seq(Byte) /\ Len(dims4) = 4 /\ ReadBig(dims4) = m.dims
      /\ size4 \in Seq(Byte) /\ Len(size4) = 4 /\ ReadBig(size4) = size
  BY <1>1, <1>3, <1>4, BytesType, ReadsBack DEF Id
<1>6. /\ r \in Seq(Byte) /\ Len(r) >= (n + 9) + size /\ Len(r) \in Nat
      /\ \A b \in 1 .. n : r[b] = name[b]
      /\ r[n + 1] = 0
      /\ \A b \in 1 .. Len(dims4) : r[(n + 1) + b] = dims4[b]
      /\ \A b \in 1 .. Len(size4) : r[(n + 5) + b] = size4[b]
      /\ \A b \in 1 .. Len(t) : r[(n + 9) + b] = t[b]
  <2>1. /\ r \in Seq(Byte) /\ Len(r) >= HeadLen(m)
        /\ \A b \in 1 .. n : r[b] = name[b]
        /\ r[n + 1] = 0
        /\ \A b \in 1 .. 4 : r[(n + 1) + b] = dims4[b]
        /\ \A b \in 1 .. 4 : r[(n + 5) + b] = size4[b]
        /\ \A b \in 1 .. Len(t) : r[(n + 9) + b] = t[b]
    BY DEF Heads
  <2>2. HeadLen(m) = (n + 9) + size BY DEF HeadLen
  <2> HIDE DEF n, size, t, dims4, size4, name
  <2>3. Len(r) \in Nat BY <2>1
  <2> QED BY <1>5, <2>1, <2>2, <2>3
<1>7. HeadLen(m) = (n + 9) + size BY DEF HeadLen
<1>8. \A d \in Distance : NameOf[d] = name <=> d = m.dist BY <1>1, DistanceAssumption
<1> HIDE DEF n, size, t, dims4, size4, name
<1>9. SelectInSeq(r, LAMBDA c : c = 0) = n + 1
  <2> DEFINE I == {i \in 1 .. Len(r) : r[i] = 0}
  <2>1. I \in SUBSET (1 .. Len(r)) OBVIOUS
  <2>2. n + 1 \in I
    <3>1. n + 1 \in 1 .. Len(r) BY <1>2, <1>4, <1>6
    <3> QED BY <1>6, <3>1
  <2>6. \A b \in 1 .. n : b \notin I
    <3> TAKE b \in 1 .. n
    <3>1. name[b] # 0 BY <1>2
    <3> QED BY <1>6, <3>1
  <2> HIDE DEF I
  <2>7. I # {} BY <2>2
  <2>3. Min(I) \in I /\ \A i \in I : Min(I) <= i BY <1>6, <2>1, <2>7, Ends
  <2>4. Min(I) = n + 1
    <3> DEFINE least == Min(I)
    <3>1. least \in 1 .. Len(r) /\ least <= n + 1 /\ least \notin 1 .. n BY <2>1, <2>2, <2>3, <2>6
    <3> HIDE DEF least
    <3>2. least = n + 1 BY <1>2, <1>6, <3>1
    <3> QED BY <3>2 DEF least
  <2>5. SelectInSeq(r, LAMBDA c : c = 0) = IF I # {} THEN Min(I) ELSE 0 BY DEF SelectInSeq, I
  <2> QED BY <2>7, <2>4, <2>5
<1>10. SubSeq(r, 1, (n + 1) - 1) = name
  <2>1. 0 + Len(name) <= Len(r) /\ \A b \in 1 .. Len(name) : r[0 + b] = name[b]
    BY <1>2, <1>4, <1>6 DEF n
  <2>2. SubSeq(r, 0 + 1, 0 + Len(name)) = name BY <1>2, <1>6, <2>1, ReadsPiece
  <2>3. 0 + Len(name) = (n + 1) - 1 BY <1>2 DEF n
  <2> QED BY <2>2, <2>3
<1>11. SubSeq(r, (n + 1) + 1, (n + 1) + 4) = dims4
  <2>1. n + 1 \in Nat /\ (n + 1) + Len(dims4) <= Len(r) BY <1>2, <1>4, <1>5, <1>6
  <2>2. SubSeq(r, (n + 1) + 1, (n + 1) + Len(dims4)) = dims4 BY <1>5, <1>6, <2>1, ReadsPiece
  <2> QED BY <1>5, <2>2
<1>12. SubSeq(r, ((n + 1) + 4) + 1, ((n + 1) + 4) + 4) = size4
  <2>1. (n + 1) + 4 = n + 5 /\ n + 5 \in Nat /\ (n + 5) + Len(size4) <= Len(r)
    BY <1>2, <1>4, <1>5, <1>6
  <2>2. SubSeq(r, (n + 5) + 1, (n + 5) + Len(size4)) = size4 BY <1>5, <1>6, <2>1, ReadsPiece
  <2> QED BY <1>5, <2>1, <2>2
<1>13. SubSeq(r, ((n + 1) + 4) + 5, (((n + 1) + 4) + 4) + size) = t
  <2>1. /\ ((n + 1) + 4) + 5 = (n + 9) + 1 /\ (((n + 1) + 4) + 4) + size = (n + 9) + size
        /\ n + 9 \in Nat
    BY <1>2, <1>4
  <2>2. (n + 9) + Len(t) <= Len(r) /\ \A b \in 1 .. Len(t) : r[(n + 9) + b] = t[b]
    BY <1>6 DEF size
  <2>3. SubSeq(r, (n + 9) + 1, (n + 9) + Len(t)) = t BY <1>3, <1>6, <2>1, <2>2, ReadsPiece
  <2> QED BY <2>1, <2>3 DEF size
<1>14. (((n + 1) + 4) + 5) + size = HeadLen(m) + 1 BY <1>2, <1>4, <1>7
<1> DEFINE nul == n + 1
           at == nul + 4
           tail == SubSeq(r, at + 5 + size, Len(r))
           d == CHOOSE x \in Distance : NameOf[x] = SubSeq(r, 1, nul - 1)
<1>15. d = m.dist
  <2>1. d = CHOOSE x \in Distance : NameOf[x] = name BY <1>10
  <2>2. \A x \in Distance : NameOf[x] = name <=> x = m.dist BY <1>8
  <2> HIDE DEF d
  <2> QED BY <1>1, <2>1, <2>2
<1>16. ReadMetadata(r) = [dist  |-> d,
                          dims  |-> ReadBig(SubSeq(r, nul + 1, at)),
                          items |-> ReadBitmap(SubSeq(r, at + 5, at + 4 + size)),
                          eps   |-> ReadItemIds(Front(tail)),
                          top   |-> IF tail = <<>> THEN 0 ELSE Last(tail)]
  <2>1. ReadBig(SubSeq(r, at + 1, at + 4)) = size BY <1>5, <1>12
  <2> QED BY <1>9, <2>1 DEF ReadMetadata
<1> QED BY <1>3, <1>5, <1>11, <1>13, <1>14, <1>15, <1>16

\* All of the metadata but its entry points and its height.
HeadBytes(m) ==
    NameOf[m.dist] \o <<0>> \o BigEndian(m.dims, 4)
    \o BigEndian(Len(BitmapBytes(m.items)), 4) \o BitmapBytes(m.items)

EntryBytes(m) == FlattenSeq([n \in 1 .. Len(m.eps) |-> Little(m.eps[n], 4)])

\* What the metadata consists of.
LEMMA MetadataTypes ==
    ASSUME NEW m \in AnyMetadata
    PROVE  /\ m.dist \in Distance /\ m.dims \in Nat /\ m.top \in Byte
           /\ m.eps \in Seq(Id) /\ Len(m.eps) \in Nat
           /\ BitmapBytes(m.items) \in Seq(Byte) /\ Len(BitmapBytes(m.items)) \in Nat
<1>1. /\ m.dist \in Distance /\ m.dims \in Id /\ m.top \in Byte /\ m.eps \in Seq(Id)
      /\ m.items \in SUBSET Id /\ 4 + 4 * Cardinality(m.items) \in Id
  BY DEF AnyMetadata
<1>2. BitmapBytes(m.items) \in Seq(Byte) BY <1>1, BitmapReadsBack, BitmapParts
<1>3. m.dims \in Nat BY <1>1 DEF Id
<1> QED BY <1>1, <1>2, <1>3

\* The entry points lie one after the other, and are read back.
LEMMA EntriesReadBack ==
    ASSUME NEW m \in AnyMetadata
    PROVE  EntryBytes(m) \in Seq(Byte) /\ ReadItemIds(EntryBytes(m)) = m.eps
<1> DEFINE n == Len(m.eps)
           s == [k \in 1 .. n |-> Little(m.eps[k], 4)]
           r == EntryBytes(m)
<1>1. n \in Nat /\ m.eps \in Seq(Id) BY MetadataTypes
<1>2. ASSUME NEW k \in 1 .. n
      PROVE  /\ Little(m.eps[k], 4) \in Seq(Byte) /\ Len(Little(m.eps[k], 4)) = 4
             /\ ReadLittle(Little(m.eps[k], 4)) = m.eps[k]
  <2>1. m.eps[k] \in Id BY <1>1, ElementOfSeq
  <2>2. m.eps[k] \in 0 .. Weight(4) - 1 /\ m.eps[k] \in Nat BY <2>1 DEF Id
  <2> QED BY <2>2, LittleByte, LittleReadsBack
<1>3. s \in [1 .. n -> Seq(Byte)] /\ \A k \in 1 .. n : Len(s[k]) = 4
  <2> DEFINE f(k) == Little(m.eps[k], 4)
  <2>1. s = [k \in 1 .. n |-> f(k)] OBVIOUS
  <2>2. \A k \in 1 .. n : f(k) \in Seq(Byte) /\ Len(f(k)) = 4 BY <1>2
  <2> HIDE DEF f, s, n
  <2> QED BY <2>1, <2>2
<1>4. \A k \in 1 .. n : s[k] = Little(m.eps[k], 4) OBVIOUS
<1>5. r = FlattenSeq(s) BY DEF EntryBytes
<1> HIDE DEF n, s, r
<1>6. Laid(r, s, n, 4) BY <1>1, <1>3, <1>5, Flat
<1>7. r \in Seq(Byte) /\ Len(r) = 4 * n
      /\ \A k \in 1 .. n, b \in 1 .. 4 : r[4 * (k - 1) + b] = s[k][b]
  BY <1>6 DEF Laid
<1>8. Len(r) \div 4 = n BY <1>1, <1>7
<1>9. ASSUME NEW k \in 1 .. n PROVE ReadLittle(SubSeq(r, 4 * k - 3, 4 * k)) = m.eps[k]
  <2> DEFINE t == s[k]
             a == 4 * (k - 1)
  <2>1. t \in Seq(Byte) /\ Len(t) = 4 BY <1>3
  <2>2. \A b \in 1 .. 4 : r[a + b] = t[b] BY <1>7
  <2>3. a \in Nat /\ a + 4 <= Len(r) /\ a + 1 = 4 * k - 3 /\ a + 4 = 4 * k
    BY <1>1, <1>7
  <2> HIDE DEF a, t
  <2>4. SubSeq(r, a + 1, a + Len(t)) = t BY <1>7, <2>1, <2>2, <2>3, ReadsPiece
  <2>5. SubSeq(r, 4 * k - 3, 4 * k) = t BY <2>1, <2>3, <2>4
  <2> QED BY <1>2, <1>4, <2>5 DEF t
<1>10. ReadItemIds(r) = [k \in 1 .. n |-> m.eps[k]] BY <1>8, <1>9 DEF ReadItemIds
<1>11. m.eps = [k \in 1 .. n |-> m.eps[k]] BY <1>1 DEF n
<1> QED BY <1>7, <1>10, <1>11 DEF r

\* The head is a head.
LEMMA HeadIs ==
    ASSUME NEW m \in AnyMetadata
    PROVE  Heads(HeadBytes(m), m) /\ Len(HeadBytes(m)) = HeadLen(m)
<1> DEFINE name == NameOf[m.dist]
           zero == <<0>>
           dims4 == BigEndian(m.dims, 4)
           t == BitmapBytes(m.items)
           size4 == BigEndian(Len(t), 4)
           n == Len(name)
           p == name \o zero
           q == p \o dims4
           s == q \o size4
           r == s \o t
<1>1. name \in Seq(Byte) /\ n \in Nat BY MetadataTypes, Names
<1>2. dims4 \in Seq(Byte) /\ Len(dims4) = 4 BY MetadataTypes, BytesType
<1>3. t \in Seq(Byte) /\ Len(t) \in Nat BY MetadataTypes
<1>4. size4 \in Seq(Byte) /\ Len(size4) = 4 BY <1>3, BytesType
<1>5. zero \in Seq(Byte) /\ Len(zero) = 1 /\ zero[1] = 0
  <2>1. 0 \in Byte BY Weights DEF Byte
  <2> QED BY <2>1
<1>6. HeadBytes(m) = r BY DEF HeadBytes
<1>7. HeadLen(m) = (n + 9) + Len(t) BY DEF HeadLen
<1>8. Heads(r, m) <=> /\ r \in Seq(Byte) /\ Len(r) >= HeadLen(m)
                      /\ \A b \in 1 .. n : r[b] = name[b]
                      /\ r[n + 1] = 0
                      /\ \A b \in 1 .. 4 : r[(n + 1) + b] = dims4[b]
                      /\ \A b \in 1 .. 4 : r[(n + 5) + b] = size4[b]
                      /\ \A b \in 1 .. Len(t) : r[(n + 9) + b] = t[b]
  BY DEF Heads
<1> HIDE DEF name, zero, dims4, t, size4
<1>9. Joins(p, name, zero) BY <1>1, <1>5, Joined
<1> HIDE DEF p
<1>10. p \in Seq(Byte) /\ Len(p) = n + 1 BY <1>5, <1>9 DEF Joins
<1>11. Joins(q, p, dims4) BY <1>2, <1>10, Joined
<1> HIDE DEF q
<1>12. q \in Seq(Byte) /\ Len(q) = n + 5 BY <1>1, <1>2, <1>10, <1>11 DEF Joins
<1>13. Joins(s, q, size4) BY <1>4, <1>12, Joined
<1> HIDE DEF s
<1>14. s \in Seq(Byte) /\ Len(s) = n + 9 BY <1>1, <1>4, <1>12, <1>13 DEF Joins
<1>15. Joins(r, s, t) BY <1>3, <1>14, Joined
<1> HIDE DEF r
<1>16. r \in Seq(Byte) /\ Len(r) = HeadLen(m) /\ \A b \in 1 .. Len(t) : r[(n + 9) + b] = t[b]
  BY <1>7, <1>14, <1>15 DEF Joins
<1>17. \A b \in 1 .. n + 9 : r[b] = s[b] BY <1>14, <1>15 DEF Joins
<1>18. \A b \in 1 .. n + 5 : s[b] = q[b] BY <1>12, <1>13 DEF Joins
<1>19. \A b \in 1 .. n + 1 : q[b] = p[b] BY <1>10, <1>11 DEF Joins
<1> HIDE DEF n
<1>20. \A b \in 1 .. 4 : r[(n + 5) + b] = size4[b]
  <2>1. \A b \in 1 .. 4 : s[(n + 5) + b] = size4[b] BY <1>4, <1>12, <1>13 DEF Joins
  <2>2. \A b \in 1 .. 4 : (n + 5) + b \in 1 .. n + 9 BY <1>1
  <2> QED BY <1>17, <2>1, <2>2
<1>21. \A b \in 1 .. 4 : r[(n + 1) + b] = dims4[b]
  <2>1. \A b \in 1 .. 4 : q[(n + 1) + b] = dims4[b] BY <1>2, <1>10, <1>11 DEF Joins
  <2>2. \A b \in 1 .. 4 : (n + 1) + b \in 1 .. n + 9 /\ (n + 1) + b \in 1 .. n + 5 BY <1>1
  <2> QED BY <1>17, <1>18, <2>1, <2>2
<1>22. \A b \in 1 .. n + 1 : r[b] = p[b]
  <2>1. \A b \in 1 .. n + 1 : b \in 1 .. n + 9 /\ b \in 1 .. n + 5 BY <1>1
  <2> QED BY <1>17, <1>18, <1>19, <2>1
<1>23. r[n + 1] = 0
  <2>1. p[n + 1] = 0 BY <1>5, <1>9, 1 \in 1 .. 1 DEF Joins, n
  <2>2. n + 1 \in 1 .. n + 1 BY <1>1
  <2> QED BY <1>22, <2>1, <2>2
<1>24. \A b \in 1 .. n : r[b] = name[b]
  <2>1. \A b \in 1 .. n : p[b] = name[b] BY <1>9 DEF Joins, n
  <2>2. \A b \in 1 .. n : b \in 1 .. n + 1 BY <1>1
  <2> QED BY <1>22, <2>1, <2>2
<1>25. HeadLen(m) \in Nat BY <1>1, <1>3, <1>7
<1>26. Len(r) >= HeadLen(m) BY <1>16, <1>25
<1> QED BY <1>6, <1>8, <1>16, <1>20, <1>21, <1>23, <1>24, <1>26

\* And stays one when something follows it.
LEMMA HeadGrows ==
    ASSUME NEW m \in AnyMetadata, NEW t \in Seq(Byte)
    PROVE  /\ Heads(HeadBytes(m) \o t, m)
           /\ SubSeq(HeadBytes(m) \o t, HeadLen(m) + 1, Len(HeadBytes(m) \o t)) = t
<1> DEFINE h == HeadBytes(m)
           r == h \o t
           n == Len(NameOf[m.dist])
           z == Len(BitmapBytes(m.items))
<1>1. h \in Seq(Byte) /\ Len(h) = HeadLen(m) /\ Heads(h, m)
  <2>1. Heads(h, m) /\ Len(h) = HeadLen(m) BY HeadIs
  <2>2. h \in Seq(Byte) BY <2>1 DEF Heads
  <2> QED BY <2>1, <2>2
<1>2. HeadLen(m) = (n + 9) + z /\ n \in Nat /\ z \in Nat BY MetadataTypes, Names DEF HeadLen
<1> HIDE DEF h
<1>3. Joins(r, h, t) BY <1>1, Joined
<1> HIDE DEF r
<1>4. /\ r \in Seq(Byte) /\ Len(r) = HeadLen(m) + Len(t)
      /\ \A b \in 1 .. HeadLen(m) : r[b] = h[b]
      /\ \A b \in 1 .. Len(t) : r[HeadLen(m) + b] = t[b]
  BY <1>1, <1>3 DEF Joins
<1>5. Len(t) \in Nat /\ HeadLen(m) \in Nat
  <2>1. HeadLen(m) \in Nat
    <3> HIDE DEF n, z
    <3> QED BY <1>2
  <2> QED BY <2>1
<1>6. SubSeq(r, HeadLen(m) + 1, HeadLen(m) + Len(t)) = t
  <2> DEFINE a == HeadLen(m)
  <2>1. a \in Nat /\ a + Len(t) <= Len(r) /\ \A b \in 1 .. Len(t) : r[a + b] = t[b] BY <1>4, <1>5
  <2> HIDE DEF a
  <2>2. SubSeq(r, a + 1, a + Len(t)) = t BY <1>4, <2>1, ReadsPiece
  <2> QED BY <2>2 DEF a
<1>7. Heads(r, m)
  <2>1. /\ \A b \in 1 .. n : b \in 1 .. HeadLen(m)
        /\ n + 1 \in 1 .. HeadLen(m)
        /\ \A b \in 1 .. 4 : (n + 1) + b \in 1 .. HeadLen(m) /\ (n + 5) + b \in 1 .. HeadLen(m)
        /\ \A b \in 1 .. z : (n + 9) + b \in 1 .. HeadLen(m)
    <3> HIDE DEF n, z
    <3> QED BY <1>2
  <2>2. /\ \A b \in 1 .. n : h[b] = NameOf[m.dist][b]
        /\ h[n + 1] = 0
        /\ \A b \in 1 .. 4 : h[(n + 1) + b] = BigEndian(m.dims, 4)[b]
        /\ \A b \in 1 .. 4 : h[(n + 5) + b] = BigEndian(z, 4)[b]
        /\ \A b \in 1 .. z : h[(n + 9) + b] = BitmapBytes(m.items)[b]
    BY <1>1 DEF Heads
  <2>3. Len(r) >= HeadLen(m) BY <1>4, <1>5
  <2>4. /\ \A b \in 1 .. n : r[b] = NameOf[m.dist][b]
        /\ r[n + 1] = 0
        /\ \A b \in 1 .. 4 : r[(n + 1) + b] = BigEndian(m.dims, 4)[b]
        /\ \A b \in 1 .. 4 : r[(n + 5) + b] = BigEndian(z, 4)[b]
        /\ \A b \in 1 .. z : r[(n + 9) + b] = BitmapBytes(m.items)[b]
    <3> HIDE DEF n, z
    <3> QED BY <1>4, <2>1, <2>2
  <2> QED BY <1>4, <2>3, <2>4 DEF Heads
<1> QED BY <1>4, <1>6, <1>7 DEF r, h

\* The last of some bytes, and those before it.
LEMMA OneMore ==
    ASSUME NEW s \in Seq(Byte), NEW c \in Byte
    PROVE  /\ s \o <<c>> \in Seq(Byte) /\ s \o <<c>> # <<>>
           /\ Front(s \o <<c>>) = s /\ Last(s \o <<c>>) = c
<1> DEFINE t == <<c>>
           r == s \o t
<1>1. t \in Seq(Byte) /\ Len(t) = 1 /\ t[1] = c /\ Len(s) \in Nat OBVIOUS
<1> HIDE DEF t
<1>2. Joins(r, s, t) BY <1>1, Joined
<1> HIDE DEF r
<1>3. r \in Seq(Byte) /\ Len(r) = Len(s) + 1 /\ r[Len(s) + 1] = c /\ \A b \in 1 .. Len(s) : r[b] = s[b]
  BY <1>1, <1>2, 1 \in 1 .. 1 DEF Joins
<1>4. SubSeq(r, 1, Len(s)) = s
  <2>1. 0 + Len(s) <= Len(r) /\ \A b \in 1 .. Len(s) : r[0 + b] = s[b] BY <1>1, <1>3
  <2>2. SubSeq(r, 0 + 1, 0 + Len(s)) = s BY <1>3, <2>1, ReadsPiece
  <2>3. 0 + Len(s) = Len(s) BY <1>1
  <2> QED BY <2>2, <2>3
<1>5. r # <<>>
  <2>1. Len(<<>>) = 0 /\ Len(r) # 0 BY <1>1, <1>3
  <2> QED BY <2>1
<1>6. Len(r) - 1 = Len(s) BY <1>1, <1>3
<1> QED BY <1>3, <1>4, <1>5, <1>6 DEF Front, Last, r, t

\* Metadata is read back as it was written, and of arroy's, without a height, the items.
LEMMA MetadataIsRead ==
    ASSUME NEW m \in AnyMetadata
    PROVE  /\ MetadataBytes(m) \in Seq(Byte) /\ ReadMetadata(MetadataBytes(m)) = m
           /\ ReadMetadata(Front(MetadataBytes(m))).items = m.items
           /\ \A d : /\ ReadNode(d, MetadataBytes(m)).kind = "error"
                     /\ ReadNode(d, Front(MetadataBytes(m))).kind = "error"
<1> DEFINE h == HeadBytes(m)
           e == EntryBytes(m)
           r == h \o e
           tail == e \o <<m.top>>
<1>1. e \in Seq(Byte) /\ ReadItemIds(e) = m.eps /\ m.top \in Byte BY EntriesReadBack, MetadataTypes
<1>2. h \in Seq(Byte)
  <2>1. Heads(h, m) BY HeadIs
  <2> QED BY <2>1 DEF Heads
<1>3. MetadataBytes(m) = r \o <<m.top>> BY DEF MetadataBytes, HeadBytes, EntryBytes
<1> HIDE DEF h, e
<1>4. r \in Seq(Byte) BY <1>1, <1>2
<1>5. MetadataBytes(m) \in Seq(Byte) /\ Front(MetadataBytes(m)) = r BY <1>1, <1>3, <1>4, OneMore
<1>6. tail \in Seq(Byte) /\ tail # <<>> /\ Front(tail) = e /\ Last(tail) = m.top BY <1>1, OneMore
<1>7. r \o <<m.top>> = h \o tail
  <2>1. <<m.top>> \in Seq(Byte) BY <1>1
  <2> QED BY <1>1, <1>2, <2>1, ConcatAssociative
<1> HIDE DEF tail
<1>8. /\ Heads(MetadataBytes(m), m)
      /\ SubSeq(MetadataBytes(m), HeadLen(m) + 1, Len(MetadataBytes(m))) = tail
  BY <1>3, <1>6, <1>7, HeadGrows DEF h
<1>9. Heads(r, m) BY <1>1, HeadGrows DEF h
<1> HIDE DEF r
<1>10. ReadMetadata(MetadataBytes(m)) = [dist |-> m.dist, dims |-> m.dims, items |-> m.items,
                                         eps |-> m.eps, top |-> m.top]
  BY <1>1, <1>6, <1>8, HeadReadsBack
<1>11. m = [dist |-> m.dist, dims |-> m.dims, items |-> m.items, eps |-> m.eps, top |-> m.top]
  BY DEF AnyMetadata
<1>12. ReadMetadata(r).items = m.items BY <1>9, HeadReadsBack
<1>13. ASSUME NEW s, Heads(s, m), NEW d PROVE ReadNode(d, s).kind = "error"
  <2> DEFINE name == NameOf[m.dist]
  <2>1. Len(name) \in Nat \ {0} /\ \A b \in 1 .. Len(name) : name[b] \in 2 .. Radix - 1
    BY MetadataTypes, Names
  <2>2. 1 \in 1 .. Len(name) BY <2>1
  <2>3. s[1] = name[1] BY <1>13, <2>2 DEF Heads
  <2>4. s[1] \notin {0, 1}
    <3>1. s[1] \in 2 .. Radix - 1 BY <2>1, <2>2, <2>3
    <3> QED BY <3>1
  <2>5. s # <<>>
    <3>1. HeadLen(m) >= 1 /\ HeadLen(m) \in Nat
      <4> DEFINE n == Len(name)
                 z == Len(BitmapBytes(m.items))
      <4>1. HeadLen(m) = (n + 9) + z /\ z \in Nat /\ n \in Nat BY <2>1, MetadataTypes DEF HeadLen
      <4> HIDE DEF n, z
      <4> QED BY <4>1
    <3>2. Len(s) >= HeadLen(m) /\ Len(<<>>) = 0 BY <1>13 DEF Heads
    <3> QED BY <3>1, <3>2
  <2> QED BY <2>4, <2>5, NoNode DEF NodeError
<1>14. /\ ReadMetadata(MetadataBytes(m)) = m
       /\ ReadMetadata(Front(MetadataBytes(m))).items = m.items
  BY <1>5, <1>10, <1>11, <1>12
<1> QED BY <1>5, <1>8, <1>9, <1>13, <1>14

-----------------------------------------------------------------------------
(* Sums over positions. *)

\* The element that SumFunction takes next.
Pick(p) == CHOOSE x \in p : TRUE

SumStep(c, D, a) == [p \in SUBSET D |-> IF p = {} THEN 0 ELSE a[Pick(p)] + c[p \ {Pick(p)}]]

Sum(f, D, a) == /\ f \in [SUBSET D -> Int] /\ f[{}] = 0
                /\ \A p \in SUBSET D : \A x \in p : f[p] = a[x] + f[p \ {x}]

\* There are sums, whatever is taken next.
LEMMA Sums ==
    ASSUME NEW n \in Nat, NEW D \in SUBSET (0 .. n), NEW a \in [D -> Int]
    PROVE  \E f : Sum(f, D, a)
<1> DEFINE P == SUBSET D
           T == [P -> Int]
           add(k, p) == IF k \in p THEN a[k] ELSE 0
           Add(g, k) == [p \in P |-> g[p] + add(k, p)]
           G == [v \in Nat \X T |-> Add(v[2], v[1] - 1)]
           zero == [p \in P |-> 0]
<1>1. \A k, p : p \in P => add(k, p) \in Int
  <2> SUFFICES ASSUME NEW k, NEW p \in P PROVE add(k, p) \in Int OBVIOUS
  <2>1. k \in p => k \in D OBVIOUS
  <2>2. k \in D => a[k] \in Int OBVIOUS
  <2>3. 0 \in Int OBVIOUS
  <2> QED BY <2>1, <2>2, <2>3
<1>2. \A g, k : g \in T => Add(g, k) \in T
  <2> HIDE DEF P, add
  <2> QED BY <1>1
<1>3. zero \in T /\ G \in Steps(T)
  <2> HIDE DEF P
  <2>1. zero \in T OBVIOUS
  <2> HIDE DEF T, Add
  <2>2. \A v \in Nat \X T : Add(v[2], v[1] - 1) \in T BY <1>2
  <2> QED BY <2>1, <2>2 DEF Steps
<1>4. PICK F : Recursion(F, T, zero, G)
  <2> HIDE DEF T, zero, G
  <2> QED BY <1>3, NatRecursion
<1>5. /\ F[0] = zero
      /\ \A k \in Nat : F[k] \in T /\ F[k + 1] = Add(F[k], k)
  <2> HIDE DEF Add, P, T, zero
  <2>1. /\ F \in [Nat -> T] /\ F[0] = zero
        /\ \A k \in Nat : k # 0 => F[k] = G[<<k, F[k - 1]>>]
    BY <1>4 DEF Recursion
  <2>2. ASSUME NEW k \in Nat PROVE F[k + 1] = Add(F[k], k)
    <3>1. k + 1 \in Nat /\ k + 1 # 0 /\ (k + 1) - 1 = k /\ F[k] \in T BY <2>1
    <3>2. F[k + 1] = G[<<k + 1, F[k]>>] BY <2>1, <3>1
    <3> QED BY <3>1, <3>2
  <2> QED BY <2>1, <2>2
<1> HIDE DEF G
<1>6. \A k \in Nat, p \in P : F[k][p] \in Int /\ F[k + 1][p] = F[k][p] + add(k, p)
  <2> HIDE DEF add
  <2> QED BY <1>5
<1>7. \A p \in P : F[0][p] = 0 BY <1>5
<1>8. ASSUME NEW p \in P, NEW x \in p, NEW k \in Nat
      PROVE  F[k][p] = F[k][p \ {x}] + IF x < k THEN a[x] ELSE 0
  <2> DEFINE q == p \ {x}
             upTo(o) == IF x < o THEN a[x] ELSE 0
             Off == {o \in Nat : F[o][p] # F[o][q] + upTo(o)}
  <2> SUFFICES ASSUME Off # {} PROVE FALSE OBVIOUS
  <2>1. PICK o \in Off : \A e \in Off : o <= e BY LeastNat
  <2>2. p \in P /\ q \in P /\ x \in Nat /\ a[x] \in Int OBVIOUS
  <2>3. o # 0
    <3>1. F[0][p] = 0 /\ F[0][q] = 0 /\ upTo(0) = 0 BY <1>7, <2>2
    <3> QED BY <2>1, <3>1
  <2> DEFINE e == o - 1
  <2>4. e \in Nat /\ e \notin Off /\ o = e + 1
    <3>1. o \in Nat /\ o # 0 BY <2>1, <2>3
    <3> HIDE DEF Off
    <3>2. e \in Nat /\ o = e + 1 /\ ~(o <= e) BY <3>1
    <3>3. e \notin Off BY <2>1, <3>2
    <3> QED BY <3>2, <3>3
  <2>5. F[e][p] = F[e][q] + upTo(e)
    <3> HIDE DEF e, q, upTo
    <3> QED BY <2>4
  <2> HIDE DEF e
  <2>6. F[o][p] = F[e][p] + add(e, p) /\ F[o][q] = F[e][q] + add(e, q)
    <3> HIDE DEF add, q, P
    <3> QED BY <1>6, <2>2, <2>4
  <2>7. F[e][p] \in Int /\ F[e][q] \in Int
    <3> HIDE DEF q, P
    <3> QED BY <1>6, <2>2, <2>4
  <2>8. upTo(e) + add(e, p) = add(e, q) + upTo(o)
    <3>1. CASE e = x
      <4>1. upTo(e) = 0 /\ upTo(o) = a[x] /\ add(e, p) = a[x] /\ add(e, q) = 0 BY <2>2, <2>4, <3>1
      <4> QED BY <2>2, <4>1
    <3>2. CASE e # x
      <4>1. (x < e <=> x < o) /\ (e \in p <=> e \in q) BY <2>2, <2>4, <3>2
      <4>2. add(e, p) = add(e, q) /\ upTo(e) = upTo(o) BY <4>1
      <4>3. add(e, p) \in Int /\ upTo(e) \in Int BY <1>1, <2>2
      <4> HIDE DEF add, upTo
      <4> QED BY <4>2, <4>3
    <3> QED BY <3>1, <3>2
  <2>9. upTo(e) \in Int /\ upTo(o) \in Int /\ add(e, p) \in Int /\ add(e, q) \in Int BY <1>1, <2>2
  <2>10. F[o][p] # F[o][q] + upTo(o) BY <2>1
  <2> HIDE DEF add, upTo, q, Off
  <2> QED BY <2>5, <2>6, <2>7, <2>8, <2>9, <2>10
<1> DEFINE f == F[n + 1]
<1>9. f \in T
  <2>1. n + 1 \in Nat OBVIOUS
  <2> HIDE DEF T, Add, zero
  <2> QED BY <1>5, <2>1
<1>10. f[{}] = 0
  <2> DEFINE Off == {k \in Nat : F[k][{}] # 0}
  <2> SUFFICES Off = {} OBVIOUS
  <2> SUFFICES ASSUME Off # {} PROVE FALSE OBVIOUS
  <2>1. PICK o \in Off : \A e \in Off : o <= e BY LeastNat
  <2>2. {} \in P OBVIOUS
  <2>3. o # 0 BY <1>7, <2>1, <2>2
  <2>4. o - 1 \in Nat /\ o - 1 \notin Off /\ (o - 1) + 1 = o BY <2>1, <2>3
  <2>5. F[o][{}] = F[o - 1][{}] + add(o - 1, {}) BY <1>6, <2>2, <2>4
  <2>6. add(o - 1, {}) = 0 OBVIOUS
  <2> QED BY <2>1, <2>4, <2>5, <2>6
<1>11. ASSUME NEW p \in P, NEW x \in p PROVE f[p] = a[x] + f[p \ {x}]
  <2>1. x \in Nat /\ x < n + 1 /\ a[x] \in Int /\ p \ {x} \in P BY <1>11
  <2>2. f[p] = f[p \ {x}] + a[x]
    <3>1. n + 1 \in Nat OBVIOUS
    <3> DEFINE m == n + 1
    <3>2. F[m][p] = F[m][p \ {x}] + IF x < m THEN a[x] ELSE 0
      <4> HIDE DEF P, m
      <4> QED BY <1>8, <3>1 DEF m
    <3> QED BY <2>1, <3>2
  <2>3. f[p \ {x}] \in Int BY <1>9, <2>1
  <2> HIDE DEF f
  <2> QED BY <2>1, <2>2, <2>3
<1> HIDE DEF f
<1> QED BY <1>9, <1>10, <1>11 DEF Sum

\* What MapThenSumSet takes for the sums are the sums.
LEMMA SumsAreThese ==
    ASSUME NEW n \in Nat, NEW D \in SUBSET (0 .. n), NEW a \in [D -> Int], NEW f, Sum(f, D, a)
    PROVE  /\ f = SumStep(f, D, a)
           /\ \A c : c = SumStep(c, D, a) => c[D] = f[D]
<1>1. \A p \in SUBSET D : p # {} => Pick(p) \in p BY DEF Pick
<1>2. f = SumStep(f, D, a)
  <2>1. \A p \in SUBSET D : f[p] = IF p = {} THEN 0 ELSE a[Pick(p)] + f[p \ {Pick(p)}]
    BY <1>1 DEF Sum
  <2>2. DOMAIN f = SUBSET D /\ f = [p \in SUBSET D |-> f[p]] BY DEF Sum
  <2> QED BY <2>1, <2>2 DEF SumStep
<1>3. ASSUME NEW c, c = SumStep(c, D, a) PROVE c[D] = f[D]
  <2> DEFINE Off == {k \in Nat : \E p \in SUBSET D : Cardinality(p) = k /\ c[p] # f[p]}
  <2>1. \A p \in SUBSET D : IsFiniteSet(p) /\ Cardinality(p) \in Nat
    <3>1. IsFiniteSet(0 .. n) BY FS_Interval, 0 \in Int
    <3> QED BY <3>1, FS_Subset, FS_CardinalityType
  <2> SUFFICES ASSUME c[D] # f[D] PROVE FALSE OBVIOUS
  <2>2. Off # {} /\ Off \subseteq Nat
    <3>1. D \in SUBSET D OBVIOUS
    <3>2. Cardinality(D) \in Off BY <2>1, <3>1
    <3> QED BY <3>2
  <2>3. PICK k \in Off : \A o \in Off : k <= o BY <2>2, LeastNat
  <2>4. PICK p \in SUBSET D : Cardinality(p) = k /\ c[p] # f[p] BY <2>3
  <2>5. /\ c[p] = IF p = {} THEN 0 ELSE a[Pick(p)] + c[p \ {Pick(p)}]
        /\ f[p] = IF p = {} THEN 0 ELSE a[Pick(p)] + f[p \ {Pick(p)}]
    BY <1>2, <1>3 DEF SumStep
  <2>6. p # {} BY <2>4, <2>5
  <2> DEFINE q == p \ {Pick(p)}
  <2>7. q \in SUBSET D /\ Cardinality(q) = k - 1 /\ k \in Nat
    BY <1>1, <2>1, <2>4, <2>6, FS_RemoveElement
  <2>8. Cardinality(q) \in Nat BY <2>1, <2>7
  <2>9. Cardinality(q) \notin Off
    <3> DEFINE e == Cardinality(q)
    <3>1. e = k - 1 /\ k \in Nat BY <2>7
    <3> HIDE DEF e, Off
    <3>2. ~(k <= e) BY <3>1
    <3> QED BY <2>3, <3>2 DEF e
  <2>10. c[q] = f[q] BY <2>7, <2>8, <2>9
  <2> QED BY <2>4, <2>5, <2>6, <2>10
<1> QED BY <1>2, <1>3

\* The sums of a from position lo up to each of the next n.
Chained(lo, n, a, total) ==
    \E h \in [0 .. n -> Int] :
      /\ h[0] = 0 /\ h[n] = total
      /\ \A k \in 1 .. n : h[k] = h[k - 1] + a[lo + k - 1]

\* A sum over positions in a row is what adding them up one after the other gives.
LEMMA SumChain ==
    ASSUME NEW lo \in Nat, NEW n \in Nat, NEW a \in [lo .. lo + n - 1 -> Int],
           NEW f, Sum(f, lo .. lo + n - 1, a)
    PROVE  Chained(lo, n, a, f[lo .. lo + n - 1])
<1> DEFINE D == lo .. lo + n - 1
           h == [k \in 0 .. n |-> f[lo .. lo + k - 1]]
<1>1. \A k \in 0 .. n : lo .. lo + k - 1 \in SUBSET D OBVIOUS
<1>2. \A p \in SUBSET D : f[p] \in Int BY DEF Sum
<1>3. h \in [0 .. n -> Int]
  <2> HIDE DEF D
  <2> QED BY <1>1, <1>2
<1>4. h[0] = 0 /\ h[n] = f[D]
  <2>1. lo .. lo + 0 - 1 = {} /\ 0 \in 0 .. n /\ n \in 0 .. n OBVIOUS
  <2>2. f[{}] = 0 BY DEF Sum
  <2> QED BY <2>1, <2>2
<1>5. ASSUME NEW k \in 1 .. n PROVE h[k] = h[k - 1] + a[lo + k - 1]
  <2> DEFINE p == lo .. lo + k - 1
             x == lo + k - 1
  <2>1. p \in SUBSET D /\ x \in p /\ p \ {x} = lo .. lo + (k - 1) - 1 OBVIOUS
  <2>2. f[p] = a[x] + f[p \ {x}] BY <2>1 DEF Sum
  <2>3. k \in 0 .. n /\ k - 1 \in 0 .. n OBVIOUS
  <2>4. h[k] = f[p] /\ h[k - 1] = f[p \ {x}] BY <2>1, <2>3
  <2>5. f[p \ {x}] \in Int /\ a[x] \in Int BY <1>3, <2>1, <2>3, <2>4
  <2> HIDE DEF h, p, x
  <2> QED BY <2>2, <2>4, <2>5 DEF x
<1> HIDE DEF h
<1> QED BY <1>3, <1>4, <1>5 DEF Chained

\* What SumFunction adds up.
LEMMA Summed ==
    ASSUME NEW lo \in Nat, NEW n \in Nat, NEW a \in [lo .. lo + n - 1 -> Int]
    PROVE  Chained(lo, n, a, SumFunction(a))
<1> DEFINE D == lo .. lo + n - 1
           Step(g) == [p \in SUBSET D |-> IF p = {} THEN 0 ELSE a[Pick(p)] + g[p \ {Pick(p)}]]
           c == CHOOSE g : g = Step(g)
<1>1. D \in SUBSET (0 .. lo + n) /\ lo + n \in Nat /\ DOMAIN a = D OBVIOUS
<1>2. SumFunction(a) = c[D]
  <2>1. SumFunction(a) = MapThenFoldSet(+, 0, LAMBDA i : a[i], LAMBDA s : CHOOSE x \in s : TRUE, D)
    BY <1>1 DEF SumFunction, SumFunctionOnSet, FoldFunctionOnSet
  <2> QED BY <2>1 DEF MapThenFoldSet, Pick
<1>3. \A g : Step(g) = SumStep(g, D, a) BY DEF SumStep
<1> HIDE DEF Step, D
<1>4. a \in [D -> Int] BY DEF D
<1>5. PICK f : Sum(f, D, a) BY <1>1, <1>4, Sums
<1>6. f = SumStep(f, D, a) /\ \A g : g = SumStep(g, D, a) => g[D] = f[D]
  <2> DEFINE top == lo + n
  <2>1. top \in Nat /\ D \in SUBSET (0 .. top) BY <1>1
  <2> HIDE DEF top
  <2> QED BY <1>4, <1>5, <2>1, SumsAreThese
<1>7. c = SumStep(c, D, a) BY <1>3, <1>6
<1> HIDE DEF c
<1>8. Chained(lo, n, a, f[lo .. lo + n - 1]) BY <1>5, SumChain DEF D
<1> QED BY <1>2, <1>6, <1>7, <1>8 DEF D

-----------------------------------------------------------------------------
(* Sums of bits, and of positions that differ. *)

\* The bits of a number, each at its place, add up to it.
LEMMA BitsAddUp ==
    ASSUME NEW n \in Nat, NEW x \in 0 .. Pow2[n] - 1, NEW h, h[0] = 0,
           \A k \in 1 .. n : h[k] = h[k - 1] + ((x \div Pow2[k - 1]) % 2) * Pow2[k - 1]
    PROVE  h[n] = x
<1>1. x \in Nat /\ \A k \in Nat : Pow2[k] \in Nat \ {0} /\ Pow2[k + 1] = 2 * Pow2[k] BY Powers
<1> DEFINE Off == {k \in 0 .. n : h[k] # x % Pow2[k]}
<1>2. Off = {}
  <2> SUFFICES ASSUME Off # {} PROVE FALSE OBVIOUS
  <2>1. Off \subseteq Nat OBVIOUS
  <2>2. PICK k \in Off : \A o \in Off : k <= o BY <2>1, LeastNat
  <2>3. k # 0
    <3>1. x % 1 = 0 BY <1>1
    <3> QED BY <2>2, <3>1, Powers
  <2> DEFINE j == k - 1
             p == Pow2[j]
             b == (x \div p) % 2
  <2>4. j \in Nat /\ j \in 0 .. n /\ j \notin Off /\ k = j + 1 /\ k \in 1 .. n BY <2>2, <2>3
  <2>5. h[j] = x % p BY <2>4
  <2>6. h[k] = h[j] + b * p BY <2>4
  <2>7. p \in Nat \ {0} /\ Pow2[k] = p * 2 BY <1>1, <2>4
  <2>8. h[k] # x % Pow2[k] BY <2>2
  <2> HIDE DEF j, p
  <2> DEFINE two == 2
  <2>9. two \in Nat \ {0} OBVIOUS
  <2> HIDE DEF two
  <2>10. x % (p * two) = p * ((x \div p) % two) + (x % p) BY <1>1, <2>7, <2>9, DivideTwice
  <2>11. x % (p * 2) = p * b + (x % p) BY <2>10 DEF two
  <2>12. b \in Nat /\ x % p \in Nat
    <3> DEFINE y == x \div p
    <3>1. y \in Nat /\ x % p \in Nat
      <4>1. x \in Nat BY <1>1
      <4>2. y \in Nat /\ x % p \in 0 .. p - 1 BY <2>7, <4>1, Division
      <4> HIDE DEF y
      <4> QED BY <2>7, <4>2
    <3> HIDE DEF y
    <3>2. y % 2 \in Nat BY <3>1
    <3> QED BY <3>1, <3>2 DEF y
  <2> HIDE DEF b
  <2>13. b * p = p * b /\ p * b \in Nat BY <2>7, <2>12
  <2> QED BY <2>5, <2>6, <2>7, <2>8, <2>11, <2>12, <2>13
<1>3. h[n] = x % Pow2[n] BY <1>2
<1> DEFINE q == Pow2[n]
<1>4. q \in Nat \ {0} /\ x < q BY <1>1
<1> HIDE DEF q
<1>5. x % q = x
  <2>1. x \in 0 .. q - 1 BY <1>1, <1>4
  <2>2. (q * 0 + x) % q = x BY <1>4, <2>1, Quotient
  <2>3. q * 0 + x = x BY <1>1, <1>4
  <2> QED BY <2>2, <2>3
<1> QED BY <1>3, <1>5 DEF q

\* How many of the first n positions are in S.
UpToIn(S, n) == Cardinality(S \cap (1 .. n))

\* One position more.
LEMMA OnePosition ==
    ASSUME NEW S, NEW n \in Nat
    PROVE  /\ UpToIn(S, n) \in Nat /\ UpToIn(S, 0) = 0
           /\ UpToIn(S, n + 1) = UpToIn(S, n) + (IF n + 1 \in S THEN 1 ELSE 0)
<1>1. \A m \in Nat : IsFiniteSet(S \cap (1 .. m))
  <2> TAKE m \in Nat
  <2>1. IsFiniteSet(1 .. m) BY FS_Interval, 1 \in Int
  <2> QED BY <2>1, FS_Subset
<1>2. UpToIn(S, n) \in Nat BY <1>1, FS_CardinalityType DEF UpToIn
<1>3. UpToIn(S, 0) = 0
  <2>1. S \cap (1 .. 0) = {} OBVIOUS
  <2> QED BY <2>1, FS_EmptySet DEF UpToIn
<1>4. CASE n + 1 \in S
  <2>1. S \cap (1 .. n + 1) = (S \cap (1 .. n)) \cup {n + 1} BY <1>4
  <2>2. n + 1 \notin S \cap (1 .. n) OBVIOUS
  <2>3. Cardinality((S \cap (1 .. n)) \cup {n + 1}) = Cardinality(S \cap (1 .. n)) + 1
    BY <1>1, <2>2, FS_AddElement
  <2> QED BY <1>2, <1>3, <1>4, <2>1, <2>3 DEF UpToIn
<1>5. CASE n + 1 \notin S
  <2>1. S \cap (1 .. n + 1) = S \cap (1 .. n) BY <1>5
  <2> QED BY <1>2, <1>3, <1>5, <2>1 DEF UpToIn
<1> QED BY <1>4, <1>5

\* A chain that adds t for each position, and d more for those in S.
LEMMA Weighted ==
    ASSUME NEW n \in Nat, NEW S, NEW d \in Int, NEW t \in Int, NEW h, h[0] = 0,
           \A k \in 1 .. n : h[k] = h[k - 1] + (t + (IF k \in S THEN d ELSE 0))
    PROVE  h[n] = t * n + d * UpToIn(S, n)
<1> DEFINE Off == {k \in 0 .. n : h[k] # t * k + d * UpToIn(S, k)}
<1> SUFFICES ASSUME Off # {} PROVE FALSE OBVIOUS
<1>1. Off \subseteq Nat OBVIOUS
<1>2. PICK k \in Off : \A o \in Off : k <= o BY <1>1, LeastNat
<1>3. k # 0
  <2>1. UpToIn(S, 0) = 0 /\ t * 0 = 0 /\ d * 0 = 0 BY OnePosition
  <2> QED BY <1>2, <2>1
<1> DEFINE j == k - 1
           c == UpToIn(S, j)
           e == UpToIn(S, k)
<1>4. j \in Nat /\ j \in 0 .. n /\ j \notin Off /\ k = j + 1 /\ k \in 1 .. n BY <1>2, <1>3
<1>5. h[j] = t * j + d * c BY <1>4
<1>6. h[k] = h[j] + (t + (IF k \in S THEN d ELSE 0)) BY <1>4
<1>7. h[k] # t * k + d * e BY <1>2
<1> HIDE DEF Off
<1>8. c \in Nat /\ e = c + (IF k \in S THEN 1 ELSE 0) BY <1>4, OnePosition
<1> HIDE DEF j, c, e
<1>9. t * k = t * j + t /\ t * j \in Int BY <1>4
<1>10. d * (c + 1) = d * c + d /\ d * c \in Int /\ d * (c + 0) = d * c BY <1>8
<1>11. d * e = d * c + (IF k \in S THEN d ELSE 0) BY <1>8, <1>10
<1> QED BY <1>5, <1>6, <1>7, <1>9, <1>10, <1>11

\* How many of the positions of block number k, from 1, are in S.
InBlock(S, w, k) == Cardinality({j \in 0 .. w - 1 : w * (k - 1) + (j + 1) \in S})

\* A chain that counts the positions of one block after the other.
Counts(h, n, S, w) == h[0] = 0 /\ \A k \in 1 .. n : h[k] = h[k - 1] + InBlock(S, w, k)

\* Counted block by block, the first k blocks have the positions of S up to their end.
LEMMA Blocks ==
    ASSUME NEW w \in Nat \ {0}, NEW n \in Nat, NEW S, NEW h, Counts(h, n, S, w)
    PROVE  \A k \in 0 .. n : h[k] = UpToIn(S, w * k)
<1> DEFINE Off == {k \in 0 .. n : h[k] # UpToIn(S, w * k)}
<1> SUFFICES ASSUME Off # {} PROVE FALSE OBVIOUS
<1>1. Off \subseteq Nat OBVIOUS
<1>2. PICK k \in Off : \A o \in Off : k <= o BY <1>1, LeastNat
<1>3. k # 0
  <2>1. UpToIn(S, 0) = 0 /\ w * 0 = 0 BY OnePosition
  <2>2. h[0] = 0 BY DEF Counts
  <2> QED BY <1>2, <2>1, <2>2
<1> DEFINE i == k - 1
           at == w * i
           B == {j \in 0 .. w - 1 : at + (j + 1) \in S}
<1>4. i \in Nat /\ i \in 0 .. n /\ i \notin Off /\ k = i + 1 /\ k \in 1 .. n BY <1>2, <1>3
<1>5. h[i] = UpToIn(S, at) BY <1>4
<1>6. h[k] = h[i] + Cardinality(B) BY <1>4 DEF Counts, InBlock
<1>7. h[k] # UpToIn(S, w * k) BY <1>2
<1> HIDE DEF i, Off
<1>8. at \in Nat /\ w * k = at + w BY <1>4
<1> HIDE DEF at
<1> DEFINE C == {t \in at + 1 .. at + w : t \in S}
           f == [j \in B |-> at + (j + 1)]
<1>9. IsFiniteSet(B) /\ Cardinality(B) \in Nat
  <2>1. IsFiniteSet(0 .. w - 1) BY FS_Interval, 0 \in Int, w - 1 \in Int
  <2>2. B \subseteq 0 .. w - 1 OBVIOUS
  <2> QED BY <2>1, <2>2, FS_Subset, FS_CardinalityType
<1>10. f \in Bijection(B, C)
  <2>1. \A j \in B : j \in Int /\ 0 <= j /\ j <= w - 1 /\ at + (j + 1) \in S OBVIOUS
  <2>2. f \in [B -> C]
    <3>1. \A j \in B : at + (j + 1) \in C BY <1>8, <2>1
    <3> HIDE DEF B, C
    <3> QED BY <3>1
  <2>3. \A j, m \in B : f[j] = f[m] => j = m
    <3> HIDE DEF B
    <3> QED BY <1>8, <2>1
  <2>4. \A t \in C : \E j \in B : f[j] = t
    <3> TAKE t \in C
    <3>1. t - at - 1 \in B /\ at + ((t - at - 1) + 1) = t BY <1>8
    <3> HIDE DEF B
    <3> QED BY <3>1
  <2> HIDE DEF B, C, f
  <2> QED BY <2>2, <2>3, <2>4 DEF Bijection, Injection, Surjection, IsInjective
<1>11. IsFiniteSet(C) /\ Cardinality(C) = Cardinality(B)
  <2> HIDE DEF B, C, f
  <2> QED BY <1>9, <1>10, FS_Bijection DEF ExistsBijection
<1>12. S \cap (1 .. at + w) = (S \cap (1 .. at)) \cup C /\ (S \cap (1 .. at)) \cap C = {}
  BY <1>8
<1>13. IsFiniteSet(S \cap (1 .. at))
  <2>1. IsFiniteSet(1 .. at) BY <1>8, FS_Interval, 1 \in Int
  <2> QED BY <2>1, FS_Subset
<1>14. UpToIn(S, at + w) = UpToIn(S, at) + Cardinality(B)
  <2> DEFINE L == S \cap (1 .. at)
  <2>1. IsFiniteSet(L) /\ L \cap C = {} BY <1>12, <1>13
  <2> HIDE DEF L, C, B
  <2>2. Cardinality(L \cup C) = Cardinality(L) + Cardinality(C) - Cardinality(L \cap C)
    BY <1>11, <2>1, FS_Union
  <2>3. Cardinality(L \cap C) = 0 BY <2>1, FS_EmptySet
  <2>4. Cardinality(L) \in Nat BY <2>1, FS_CardinalityType
  <2> QED BY <1>9, <1>11, <1>12, <2>2, <2>3, <2>4 DEF UpToIn, L
<1> QED BY <1>5, <1>6, <1>7, <1>8, <1>14

\* Sums of blocks count positions.
Blocked(a, lo, n, S, w) == \A k \in 1 .. n : a[lo + k - 1] = InBlock(S, w, k)

\* A sum of what every block has counts the positions of all blocks.
LEMMA BlockSum ==
    ASSUME NEW lo \in Nat, NEW n \in Nat, NEW w \in Nat \ {0}, NEW S,
           NEW a \in [lo .. lo + n - 1 -> Int],
           Blocked(a, lo, n, S, w)
    PROVE  SumFunction(a) = UpToIn(S, w * n)
<1> DEFINE total == SumFunction(a)
<1>1. Chained(lo, n, a, total) BY Summed
<1> HIDE DEF total
<1>2. PICK h \in [0 .. n -> Int] :
        /\ h[0] = 0 /\ h[n] = total
        /\ \A k \in 1 .. n : h[k] = h[k - 1] + a[lo + k - 1]
  BY <1>1 DEF Chained
<1>3. Counts(h, n, S, w) BY <1>2 DEF Counts, Blocked
<1>4. \A k \in 0 .. n : h[k] = UpToIn(S, w * k) BY <1>3, Blocks
<1>5. h[n] = UpToIn(S, w * n)
  <2>1. n \in 0 .. n OBVIOUS
  <2> QED BY <1>4, <2>1
<1> QED BY <1>2, <1>5 DEF total

\* Sums of t for each position, and of d more for those in S.
Stepped(a, t, d, S) == \A k \in DOMAIN a : a[k] = t + (IF k \in S THEN d ELSE 0)

\* A sum of two values, by whether a position is in S, counts the positions in S.
LEMMA WeightedSum ==
    ASSUME NEW n \in Nat, NEW S, NEW t \in Int, NEW d \in Int, NEW a \in [1 .. n -> Int],
           Stepped(a, t, d, S)
    PROVE  SumFunction(a) = t * n + d * UpToIn(S, n)
<1> DEFINE total == SumFunction(a)
           lo == 1
<1>1. lo \in Nat /\ 1 .. n = lo .. lo + n - 1 OBVIOUS
<1>2. Chained(lo, n, a, total)
  <2> HIDE DEF lo
  <2>1. a \in [lo .. lo + n - 1 -> Int] BY <1>1
  <2> QED BY <1>1, <2>1, Summed
<1> HIDE DEF total
<1>3. PICK h \in [0 .. n -> Int] :
        /\ h[0] = 0 /\ h[n] = total
        /\ \A k \in 1 .. n : h[k] = h[k - 1] + a[lo + k - 1]
  BY <1>2 DEF Chained
<1>4. \A k \in 1 .. n : h[k] = h[k - 1] + (t + (IF k \in S THEN d ELSE 0))
  <2> TAKE k \in 1 .. n
  <2>1. lo + k - 1 = k OBVIOUS
  <2>2. h[k] = h[k - 1] + a[k] BY <1>3, <2>1
  <2> QED BY <2>2 DEF Stepped
<1>5. h[n] = t * n + d * UpToIn(S, n)
  <2>1. h[0] = 0 BY <1>3
  <2> HIDE DEF lo
  <2> QED BY <1>4, <2>1, Weighted
<1> QED BY <1>3, <1>5 DEF total

\* Sums of t for each position, and of e for what others add up.
Affine(b, t, e, a) == \A k \in DOMAIN a : b[k] = t + e * a[k]

\* A sum commutes with a factor and an offset.
LEMMA AffineSum ==
    ASSUME NEW lo \in Nat, NEW n \in Nat, NEW t \in Int, NEW e \in Int,
           NEW a \in [lo .. lo + n - 1 -> Int], NEW b \in [lo .. lo + n - 1 -> Int],
           Affine(b, t, e, a)
    PROVE  SumFunction(b) = t * n + e * SumFunction(a)
<1> DEFINE s == SumFunction(a)
           r == SumFunction(b)
<1>1. Chained(lo, n, a, s) /\ Chained(lo, n, b, r) BY Summed
<1> HIDE DEF s, r
<1>2. PICK g \in [0 .. n -> Int] :
        /\ g[0] = 0 /\ g[n] = s
        /\ \A k \in 1 .. n : g[k] = g[k - 1] + a[lo + k - 1]
  BY <1>1 DEF Chained
<1>3. PICK h \in [0 .. n -> Int] :
        /\ h[0] = 0 /\ h[n] = r
        /\ \A k \in 1 .. n : h[k] = h[k - 1] + b[lo + k - 1]
  BY <1>1 DEF Chained
<1> DEFINE Off == {k \in 0 .. n : h[k] # t * k + e * g[k]}
<1>4. Off = {}
  <2> SUFFICES ASSUME Off # {} PROVE FALSE OBVIOUS
  <2>1. Off \subseteq Nat OBVIOUS
  <2>2. PICK k \in Off : \A o \in Off : k <= o BY <2>1, LeastNat
  <2>3. k # 0
    <3>1. t * 0 = 0 /\ e * 0 = 0 OBVIOUS
    <3> QED BY <1>2, <1>3, <2>2, <3>1
  <2> DEFINE j == k - 1
             x == a[lo + k - 1]
  <2>4. j \in Nat /\ j \in 0 .. n /\ j \notin Off /\ k = j + 1 /\ k \in 1 .. n BY <2>2, <2>3
  <2>5. lo + k - 1 \in lo .. lo + n - 1 BY <2>4
  <2>6. x \in Int /\ b[lo + k - 1] = t + e * x BY <2>5 DEF Affine
  <2>7. h[j] = t * j + e * g[j] BY <2>4
  <2>8. h[k] = h[j] + (t + e * x) BY <1>3, <2>4, <2>6
  <2>9. g[k] = g[j] + x BY <1>2, <2>4
  <2>10. h[k] # t * k + e * g[k] /\ g[j] \in Int BY <2>2, <2>4
  <2> HIDE DEF j, x, Off
  <2>11. t * k = t * j + t /\ t * j \in Int BY <2>4
  <2>12. e * (g[j] + x) = e * g[j] + e * x /\ e * g[j] \in Int /\ e * x \in Int BY <2>6, <2>10
  <2> DEFINE p == e * x
             q == e * g[j]
             m == t * j
  <2>13. /\ p \in Int /\ q \in Int /\ m \in Int
         /\ h[k] = (m + q) + (t + p) /\ h[k] # (m + t) + (q + p)
    BY <2>7, <2>8, <2>9, <2>10, <2>11, <2>12
  <2> HIDE DEF p, q, m
  <2> QED BY <2>13
<1>5. h[n] = t * n + e * g[n]
  <2>1. n \in 0 .. n OBVIOUS
  <2>2. \A k \in 0 .. n : h[k] = t * k + e * g[k] BY <1>4
  <2> HIDE DEF Off
  <2> QED BY <2>1, <2>2
<1> QED BY <1>2, <1>3, <1>5 DEF s, r

-----------------------------------------------------------------------------
(* Distances of quantized vectors. *)

\* Where the bits of two vectors differ.
DiffersAt(codec, u, v) == {t \in 1 .. Len(u) : Bit(codec, u[t]) # Bit(codec, v[t])}

\* They do not differ in the padding.
LEMMA BitsDiffer ==
    ASSUME NEW codec, NEW u \in Seq(Float), NEW v \in Seq(Float), Len(u) = Len(v),
           NEW t \in Nat \ {0}
    PROVE  BitOf(codec, u, t) # BitOf(codec, v, t) <=> t \in DiffersAt(codec, u, v)
<1>1. CASE t <= Len(u)
  <2>1. t \in 1 .. Len(u) BY <1>1
  <2> QED BY <1>1, <2>1 DEF BitOf, DiffersAt
<1>2. CASE ~(t <= Len(u))
  <2>1. t \notin 1 .. Len(u) BY <1>2
  <2> QED BY <1>2, <2>1 DEF BitOf, DiffersAt
<1> QED BY <1>1, <1>2

\* A byte has no higher bits.
LEMMA HighBits ==
    ASSUME NEW x \in 0 .. Radix - 1, NEW k \in Nat, k >= BitsPerByte
    PROVE  (x \div Pow2[k]) % 2 = 0
<1> DEFINE p == Pow2[k]
           r == Pow2[BitsPerByte]
<1>1. BitsPerByte \in Nat /\ BitsPerByte <= k BY Sizes
<1>2. r <= p /\ p \in Nat \ {0} /\ r \in Nat \ {0} BY <1>1, PowersGrow, Powers
<1>3. x \in 0 .. r - 1 BY DEF Radix
<1> HIDE DEF p, r
<1>4. x \div p = 0 BY <1>2, <1>3
<1> QED BY <1>4 DEF p

\* What counting the bits of two bytes that differ counts.
LEMMA ByteXor ==
    ASSUME NEW codec \in Codec \ {"f32"}, NEW u \in Seq(Float), NEW v \in Seq(Float), Len(u) = Len(v),
           NEW j \in 0 .. WordBytes * Words(codec, Len(u)) - 1
    PROVE  XorOnes(FromSlice(codec, u)[j + 1], FromSlice(codec, v)[j + 1])
             = InBlock(DiffersAt(codec, u, v), BitsPerByte, j + 1)
<1> DEFINE a == FromSlice(codec, u)[j + 1]
           b == FromSlice(codec, v)[j + 1]
           B == BitsPerByte
           S == DiffersAt(codec, u, v)
<1>1. /\ a \in 0 .. Radix - 1
      /\ \A q \in 0 .. B - 1 : (a \div Pow2[q]) % 2 = BitOf(codec, u, (B * j + q) + 1)
  BY SliceByte
<1>2. /\ b \in 0 .. Radix - 1
      /\ \A q \in 0 .. B - 1 : (b \div Pow2[q]) % 2 = BitOf(codec, v, (B * j + q) + 1)
  <2>1. j \in 0 .. WordBytes * Words(codec, Len(v)) - 1 OBVIOUS
  <2> QED BY <2>1, SliceByte
<1>3. B \in Nat \ {0} /\ WordBits \in Nat /\ B <= WordBits
  <2>1. B \in Nat \ {0} /\ WordBytes \in Nat \ {0} BY Sizes
  <2>2. WordBytes * B >= B /\ WordBytes * B \in Nat BY <2>1
  <2> QED BY <2>1, <2>2 DEF WordBits
<1>4. j \in Nat
  <2>1. WordBytes * Words(codec, Len(u)) \in Int
    <3>1. Words(codec, Len(u)) \in Nat /\ WordBytes \in Nat BY SliceLaid, Sizes
    <3> QED BY <3>1
  <2> QED BY <2>1
<1> HIDE DEF a, b, S
<1> DEFINE at == B * j
<1>5. at \in Nat BY <1>3, <1>4
<1>6. ASSUME NEW k \in 0 .. WordBits - 1
      PROVE  (a \div Pow2[k]) % 2 # (b \div Pow2[k]) % 2 <=> k \in 0 .. B - 1 /\ at + (k + 1) \in S
  <2>1. CASE k \in 0 .. B - 1
    <3> DEFINE t == (at + k) + 1
    <3>1. t \in Nat \ {0} /\ at + (k + 1) = t
      <4> HIDE DEF at
      <4> QED BY <1>3, <1>5, <2>1
    <3>2. (a \div Pow2[k]) % 2 = BitOf(codec, u, t) /\ (b \div Pow2[k]) % 2 = BitOf(codec, v, t)
      BY <1>1, <1>2, <2>1
    <3> HIDE DEF t
    <3>3. BitOf(codec, u, t) # BitOf(codec, v, t) <=> t \in S BY <3>1, BitsDiffer DEF S
    <3> QED BY <2>1, <3>1, <3>2, <3>3
  <2>2. CASE k \notin 0 .. B - 1
    <3>1. k \in Nat /\ k >= B BY <1>3, <2>2
    <3>2. (a \div Pow2[k]) % 2 = 0 /\ (b \div Pow2[k]) % 2 = 0 BY <1>1, <1>2, <3>1, HighBits
    <3> QED BY <2>2, <3>2
  <2> QED BY <2>1, <2>2
<1>7. 0 .. B - 1 \subseteq 0 .. WordBits - 1 BY <1>3
<1> DEFINE differ(k) == (a \div Pow2[k]) % 2 # (b \div Pow2[k]) % 2
           in(k) == at + (k + 1) \in S
<1>8. \A k \in 0 .. WordBits - 1 : differ(k) <=> k \in 0 .. B - 1 /\ in(k) BY <1>6
<1>9. {k \in 0 .. WordBits - 1 : differ(k)} = {k \in 0 .. B - 1 : in(k)}
  <2> HIDE DEF differ, in, B
  <2> QED BY <1>7, <1>8
<1>10. BitsPerByte * ((j + 1) - 1) = at BY <1>4
<1> HIDE DEF at
<1> QED BY <1>9, <1>10 DEF XorOnes, InBlock, a, b, S

\* There are none beyond the last one.
LEMMA AllPositions ==
    ASSUME NEW n \in Nat, NEW m \in Nat, n <= m, NEW S, S \subseteq 1 .. n
    PROVE  UpToIn(S, m) = UpToIn(S, n)
<1>1. S \cap (1 .. m) = S \cap (1 .. n) OBVIOUS
<1> QED BY <1>1 DEF UpToIn

\* How many numbers of one word may differ.
LEMMA XorOnesIs == \A a, b : XorOnes(a, b) \in Nat
<1> TAKE a, b
<1> DEFINE all == 0 .. WordBits - 1
           some == {k \in all : (a \div Pow2[k]) % 2 # (b \div Pow2[k]) % 2}
<1>1. IsFiniteSet(all)
  <2>1. WordBits - 1 \in Int BY Sizes
  <2> QED BY <2>1, FS_Interval, 0 \in Int
<1>2. some \subseteq all OBVIOUS
<1> HIDE DEF all
<1>3. IsFiniteSet(some) BY <1>1, <1>2, FS_Subset
<1> HIDE DEF some
<1>4. Cardinality(some) \in Nat BY <1>3, FS_CardinalityType
<1> QED BY <1>4 DEF XorOnes, some, all

\* How long the vectors are.
LEMMA SameLength ==
    ASSUME NEW codec \in Codec \ {"f32"}, NEW u \in Seq(Float)
    PROVE  /\ Words(codec, Len(u)) \in Nat
           /\ Len(FromSlice(codec, u)) = WordBytes * Words(codec, Len(u))
           /\ WordBytes * Words(codec, Len(u)) \in Nat
           /\ WordBits * Words(codec, Len(u)) \in Nat
           /\ Len(u) <= WordBits * Words(codec, Len(u))
           /\ BitsPerByte * (WordBytes * Words(codec, Len(u))) = WordBits * Words(codec, Len(u))
<1> DEFINE m == Words(codec, Len(u))
<1>1. WordSize(codec) = WordBits /\ ElementBytes(codec) = WordBytes BY DEF WordSize, ElementBytes
<1>2. m \in Nat /\ Len(FromSlice(codec, u)) = WordBytes * m BY <1>1, SliceLaid DEF Laid
<1>3. BitsPerByte \in Nat /\ WordBytes \in Nat /\ WordBits \in Nat \ {0} BY Sizes
<1>4. Len(u) <= WordBits * m
  <2>1. Len(u) \in Nat OBVIOUS
  <2> QED BY <1>1, <1>3, <2>1, Ceiling DEF Words
<1> HIDE DEF m
<1>5. WordBytes * m \in Nat /\ WordBits * m \in Nat BY <1>2, <1>3
<1>6. BitsPerByte * (WordBytes * m) = WordBits * m BY <1>2, <1>3 DEF WordBits
<1> QED BY <1>2, <1>4, <1>5, <1>6 DEF m

\* Byte by byte, the bits that differ are those of the coordinates.
LEMMA DifferingBitsIs ==
    ASSUME NEW codec \in Codec \ {"f32"}, NEW u \in Seq(Float), NEW v \in Seq(Float), Len(u) = Len(v)
    PROVE  DifferingBits(FromSlice(codec, u), FromSlice(codec, v))
             = UpToIn(DiffersAt(codec, u, v), Len(u))
<1> DEFINE a == FromSlice(codec, u)
           b == FromSlice(codec, v)
           S == DiffersAt(codec, u, v)
           len == WordBytes * Words(codec, Len(u))
           c == [k \in 1 .. len |-> XorOnes(a[k], b[k])]
           B == BitsPerByte
           lo == 1
<1>1. /\ len \in Nat /\ Len(a) = len /\ B \in Nat \ {0}
      /\ Len(u) <= WordBits * Words(codec, Len(u)) /\ B * len = WordBits * Words(codec, Len(u))
      /\ B * len \in Nat
  <2>1. B * len = WordBits * Words(codec, Len(u)) /\ WordBits * Words(codec, Len(u)) \in Nat
    BY SameLength
  <2> QED BY <2>1, SameLength, Sizes
<1>2. DifferingBits(a, b) = SumFunction(c) BY <1>1 DEF DifferingBits
<1>3. ASSUME NEW k \in 1 .. len PROVE c[lo + k - 1] = InBlock(S, B, k)
  <2> DEFINE j == k - 1
  <2>1. j \in 0 .. len - 1 /\ j + 1 = k /\ lo + k - 1 = k BY <1>1
  <2> HIDE DEF j
  <2>2. XorOnes(a[j + 1], b[j + 1]) = InBlock(S, B, j + 1) BY <2>1, ByteXor
  <2>3. c[k] = XorOnes(a[k], b[k]) OBVIOUS
  <2> HIDE DEF c, a, b
  <2> QED BY <2>1, <2>2, <2>3
<1>4. c \in [lo .. lo + len - 1 -> Int]
  <2>1. lo .. lo + len - 1 = 1 .. len BY <1>1
  <2>2. \A k \in 1 .. len : XorOnes(a[k], b[k]) \in Int BY XorOnesIs
  <2> HIDE DEF a, b, len, lo
  <2> QED BY <2>1, <2>2
<1>5. lo \in Nat OBVIOUS
<1> HIDE DEF c, lo, B, len
<1>6. SumFunction(c) = UpToIn(S, B * len)
  <2> HIDE DEF S
  <2>1. Blocked(c, lo, len, S, B) BY <1>3 DEF Blocked
  <2> QED BY <1>1, <1>4, <1>5, <2>1, BlockSum
<1>7. UpToIn(S, B * len) = UpToIn(S, Len(u))
  <2>1. S \subseteq 1 .. Len(u) /\ Len(u) \in Nat BY DEF DiffersAt
  <2>2. Len(u) <= B * len BY <1>1
  <2> HIDE DEF S
  <2> QED BY <1>1, <2>1, <2>2, AllPositions
<1> QED BY <1>2, <1>6, <1>7

\* The dot product is the bits of the bytes but for twice those that differ.
LEMMA DotQuantizedIs ==
    ASSUME NEW codec \in Codec \ {"f32"}, NEW u \in Seq(Float), NEW v \in Seq(Float), Len(u) = Len(v)
    PROVE  DotQuantized(FromSlice(codec, u), FromSlice(codec, v))
             = WordBits * Words(codec, Len(u)) - 2 * UpToIn(DiffersAt(codec, u, v), Len(u))
<1> DEFINE a == FromSlice(codec, u)
           b == FromSlice(codec, v)
           len == WordBytes * Words(codec, Len(u))
           c == [k \in 1 .. len |-> XorOnes(a[k], b[k])]
           d == [k \in 1 .. len |-> BitsPerByte - 2 * XorOnes(a[k], b[k])]
           lo == 1
           e == -2
<1>1. len \in Nat /\ Len(a) = len /\ BitsPerByte \in Nat BY SameLength, Sizes
<1>2. DifferingBits(a, b) = SumFunction(c) BY <1>1 DEF DifferingBits
<1>3. DotQuantized(a, b) = SumFunction(d) BY <1>1 DEF DotQuantized
<1>4. \A k \in 1 .. len : XorOnes(a[k], b[k]) \in Nat BY XorOnesIs
<1>5. lo .. lo + len - 1 = 1 .. len /\ lo \in Nat /\ e \in Int BY <1>1
<1> DEFINE x(k) == XorOnes(a[k], b[k])
<1>6. c = [k \in 1 .. len |-> x(k)] /\ d = [k \in 1 .. len |-> BitsPerByte - 2 * x(k)]
      /\ \A k \in 1 .. len : x(k) \in Nat
  BY <1>4
<1> HIDE DEF x, len, a, b, c, d
<1>7. c \in [1 .. len -> Int] /\ d \in [1 .. len -> Int] /\ \A k \in 1 .. len : d[k] = BitsPerByte + e * c[k]
  BY <1>1, <1>6
<1>8. /\ c \in [lo .. lo + len - 1 -> Int] /\ d \in [lo .. lo + len - 1 -> Int]
      /\ Affine(d, BitsPerByte, e, c)
  BY <1>5, <1>7 DEF Affine
<1> HIDE DEF lo, e
<1>9. SumFunction(d) = BitsPerByte * len + e * SumFunction(c) 
  <2>1. BitsPerByte \in Int BY <1>1
  <2> QED BY <1>1, <1>5, <1>8, <2>1, AffineSum
<1>10. BitsPerByte * len = WordBits * Words(codec, Len(u)) BY SameLength DEF len
<1>11. SumFunction(c) = UpToIn(DiffersAt(codec, u, v), Len(u)) BY <1>2, DifferingBitsIs DEF a, b
<1> DEFINE s == UpToIn(DiffersAt(codec, u, v), Len(u))
           m == WordBits * Words(codec, Len(u))
<1>12. s \in Nat /\ m \in Nat
  <2>1. Len(u) \in Nat OBVIOUS
  <2> QED BY <2>1, OnePosition, SameLength
<1>13. DotQuantized(a, b) = m + e * s BY <1>3, <1>9, <1>10, <1>11
<1> HIDE DEF s, m
<1>14. m + e * s = m - 2 * s BY <1>12 DEF e
<1> QED BY <1>13, <1>14 DEF s, m, a, b

\* A vector differs from itself nowhere: the square of its norm is the number of its bits.
LEMMA NormSquaredIs ==
    ASSUME NEW codec \in Codec \ {"f32"}, NEW u \in Seq(Float)
    PROVE  NormSquared(FromSlice(codec, u)) = WordBits * Words(codec, Len(u))
<1> DEFINE m == WordBits * Words(codec, Len(u))
           s == UpToIn(DiffersAt(codec, u, u), Len(u))
<1>1. Len(u) \in Nat OBVIOUS
<1>2. m \in Nat BY SameLength
<1>3. s = 0
  <2>1. DiffersAt(codec, u, u) = {} BY DEF DiffersAt
  <2>2. DiffersAt(codec, u, u) \cap 1 .. Len(u) = {} BY <2>1
  <2> QED BY <2>2, FS_EmptySet DEF UpToIn
<1>4. DotQuantized(FromSlice(codec, u), FromSlice(codec, u)) = m - 2 * s BY DotQuantizedIs
<1> HIDE DEF m, s
<1>5. DotQuantized(FromSlice(codec, u), FromSlice(codec, u)) = m BY <1>2, <1>3, <1>4
<1> QED BY <1>5 DEF NormSquared, m

\* The coordinates of a vector are the bits of its words.
LEMMA VectorLenIs ==
    ASSUME NEW codec \in Codec \ {"f32"}, NEW u \in Seq(Float)
    PROVE  VectorLen(codec, FromSlice(codec, u)) = WordBits * Words(codec, Len(u))
<1> DEFINE n == Words(codec, Len(u))
           w == WordBytes
<1>1. ElementBytes(codec) = w /\ WordSize(codec) = WordBits BY DEF ElementBytes, WordSize
<1>2. n \in Nat /\ Len(FromSlice(codec, u)) = w * n /\ w \in Nat \ {0} /\ WordBits \in Nat
  BY SameLength, Sizes
<1>3. VectorLen(codec, FromSlice(codec, u)) = ((w * n) \div w) * WordBits
  BY <1>1, <1>2 DEF VectorLen
<1> HIDE DEF n, w
<1>4. (w * n + 0) \div w = n /\ w * n + 0 = w * n BY <1>2, Quotient
<1>5. n * WordBits = WordBits * n BY <1>2
<1> QED BY <1>3, <1>4, <1>5 DEF n

\* Word by word, the bits that differ are those of the coordinates.
LEMMA HammingBitsIs ==
    ASSUME NEW codec, codec = "binary", NEW u \in Seq(Float), NEW v \in Seq(Float), Len(u) = Len(v)
    PROVE  HammingBits(FromSlice(codec, u), FromSlice(codec, v))
             = UpToIn(DiffersAt(codec, u, v), Len(u))
<1> DEFINE a == FromSlice(codec, u)
           b == FromSlice(codec, v)
           S == DiffersAt(codec, u, v)
           n == Words(codec, Len(u))
           x(e) == Element("binary", a, e)
           y(e) == Element("binary", b, e)
           lo == 0
           c == [e \in lo .. lo + n - 1 |-> XorOnes(x(e), y(e))]
<1>1. codec \in Codec \ {"f32"} BY DEF Codec
<1>2. WordSize(codec) = WordBits /\ ElementBytes(codec) = WordBytes
  BY <1>1 DEF WordSize, ElementBytes
<1>3. n \in Nat /\ Len(a) = WordBytes * n /\ WordBytes \in Nat \ {0} /\ WordBits \in Nat \ {0}
  BY <1>1, SameLength, Sizes
<1>4. Len(a) \div WordBytes = n /\ lo .. lo + n - 1 = 0 .. n - 1
  <2> DEFINE w == WordBytes
  <2> HIDE DEF n, w
  <2>1. (w * n + 0) \div w = n /\ w * n + 0 = w * n BY <1>3, Quotient DEF w
  <2> QED BY <1>3, <2>1 DEF w
<1>5. HammingBits(a, b) = SumFunction(c) BY <1>4 DEF HammingBits
<1>6. ASSUME NEW k \in 1 .. n PROVE c[lo + k - 1] = InBlock(S, WordBits, k)
  <2> DEFINE e == k - 1
             at == WordBits * e
  <2>1. e \in 0 .. n - 1 /\ e + 1 = k /\ lo + k - 1 = e /\ e \in lo .. lo + n - 1 BY <1>3
  <2>2. x(e) = Word(codec, u, k) /\ y(e) = Word(codec, v, k)
    <3> HIDE DEF e
    <3>1. e \in 0 .. Words(codec, Len(u)) - 1 /\ e \in 0 .. Words(codec, Len(v)) - 1 /\ codec \in Codec
      BY <1>1, <2>1
    <3>2. Element(codec, a, e) = Word(codec, u, e + 1) BY <3>1, ElementIs
    <3>3. Element(codec, b, e) = Word(codec, v, e + 1) BY <3>1, ElementIs
    <3> QED BY <2>1, <3>2, <3>3
  <2> DEFINE p == Word(codec, u, k)
             q == Word(codec, v, k)
  <2>3. ASSUME NEW i \in 0 .. WordBits - 1
        PROVE  (p \div Pow2[i]) % 2 # (q \div Pow2[i]) % 2 <=> at + (i + 1) \in S
    <3> DEFINE t == WordBits * (k - 1) + (i + 1)
    <3>1. (p \div Pow2[i]) % 2 = BitOf(codec, u, t) BY <1>1, WordIs DEF BitOf
    <3>2. (q \div Pow2[i]) % 2 = BitOf(codec, v, t) BY <1>1, WordIs DEF BitOf
    <3>3. t \in Nat \ {0} /\ t = at + (i + 1)
      <4>1. at \in Nat BY <1>3, <2>1
      <4> HIDE DEF at
      <4>2. t = at + (i + 1) BY DEF at
      <4> HIDE DEF t
      <4> QED BY <1>3, <4>1, <4>2
    <3> HIDE DEF t, p, q
    <3>4. BitOf(codec, u, t) # BitOf(codec, v, t) <=> t \in S BY <3>3, BitsDiffer
    <3> QED BY <3>1, <3>2, <3>3, <3>4
  <2> DEFINE differ(i) == (p \div Pow2[i]) % 2 # (q \div Pow2[i]) % 2
             in(i) == at + (i + 1) \in S
  <2>4. {i \in 0 .. WordBits - 1 : differ(i)} = {i \in 0 .. WordBits - 1 : in(i)}
    <3>1. \A i \in 0 .. WordBits - 1 : differ(i) <=> in(i) BY <2>3
    <3> HIDE DEF differ, in
    <3> QED BY <3>1
  <2>5. XorOnes(p, q) = InBlock(S, WordBits, k) BY <2>4 DEF XorOnes, InBlock
  <2>6. c[e] = XorOnes(x(e), y(e)) BY <2>1
  <2> HIDE DEF c, x, y, p, q, e, S
  <2> QED BY <2>1, <2>2, <2>5, <2>6 DEF p, q
<1>7. c \in [lo .. lo + n - 1 -> Int]
  <2>1. \A e \in lo .. lo + n - 1 : XorOnes(x(e), y(e)) \in Int BY XorOnesIs
  <2> HIDE DEF x, y, lo, n
  <2> QED BY <2>1
<1>8. lo \in Nat OBVIOUS
<1> HIDE DEF c, lo, n
<1>9. SumFunction(c) = UpToIn(S, WordBits * n)
  <2> HIDE DEF S
  <2>1. Blocked(c, lo, n, S, WordBits) BY <1>6 DEF Blocked
  <2> QED BY <1>3, <1>7, <1>8, <2>1, BlockSum
<1>10. UpToIn(S, WordBits * n) = UpToIn(S, Len(u))
  <2>1. S \subseteq 1 .. Len(u) /\ Len(u) \in Nat BY DEF DiffersAt
  <2>2. WordBits * n \in Nat /\ Len(u) <= WordBits * n BY <1>1, SameLength DEF n
  <2> HIDE DEF S
  <2> QED BY <2>1, <2>2, AllPositions
<1> QED BY <1>5, <1>9, <1>10

-----------------------------------------------------------------------------
(* The vector instructions of other hosts. *)

\* Byte number i, lane by lane.
Lanes(codec, v, i) == SumFunction([k \in 0 .. BitsPerByte - 1 |->
                                     NeonBit(codec, v[i * BitsPerByte + k + 1]) * Pow2[k]])

\* The lanes of a byte add up to the number that has their bits.
LEMMA NeonByte ==
    ASSUME NEW codec \in Codec \ {"f32"}, NEW v, NEW i, NEW y \in 0 .. Radix - 1,
           \A q \in 0 .. BitsPerByte - 1 :
             (y \div Pow2[q]) % 2 = NeonBit(codec, v[i * BitsPerByte + q + 1])
    PROVE  Lanes(codec, v, i) = y
<1> DEFINE n == BitsPerByte
           D == 0 .. n - 1
           term(k) == NeonBit(codec, v[i * BitsPerByte + k + 1]) * Pow2[k]
           a == [k \in D |-> term(k)]
           total == SumFunction(a)
<1>1. n \in Nat \ {0} BY Sizes
<1>2. Lanes(codec, v, i) = total BY DEF Lanes
<1>3. \A k \in D : term(k) \in Int
  <2> TAKE k \in D
  <2>1. NeonBit(codec, v[i * BitsPerByte + k + 1]) \in {0, 1}
    <3>1. codec = "binary" \/ codec = "binary quantized" BY DEF Codec
    <3> QED BY <3>1 DEF NeonBit
  <2>2. k \in Nat /\ Pow2[k] \in Nat BY <1>1, Powers
  <2> QED BY <2>1, <2>2
<1>4. a \in [D -> Int]
  <2> HIDE DEF term, D
  <2> QED BY <1>3
<1>5. Chained(0, n, a, total)
  <2> DEFINE lo == 0
  <2>1. lo \in Nat /\ n \in Nat /\ D = lo .. lo + n - 1 BY <1>1
  <2> HIDE DEF lo, n, D, a
  <2>2. a \in [lo .. lo + n - 1 -> Int] BY <1>4, <2>1
  <2>3. Chained(lo, n, a, SumFunction(a)) BY <2>1, <2>2, Summed
  <2> QED BY <2>3 DEF lo
<1> HIDE DEF total, a
<1>6. PICK h \in [0 .. n -> Int] :
        /\ h[0] = 0 /\ h[n] = total
        /\ \A k \in 1 .. n : h[k] = h[k - 1] + a[0 + k - 1]
  BY <1>5 DEF Chained
<1> HIDE DEF D, term
<1>7. ASSUME NEW k \in 1 .. n PROVE h[k] = h[k - 1] + ((y \div Pow2[k - 1]) % 2) * Pow2[k - 1]
  <2> DEFINE q == k - 1
  <2>1. q \in 0 .. BitsPerByte - 1 /\ 0 + k - 1 = q BY <1>1
  <2>2. a[q] = term(q) BY <2>1 DEF a, D
  <2>3. (y \div Pow2[q]) % 2 = NeonBit(codec, v[i * BitsPerByte + q + 1]) BY <2>1
  <2>4. h[k] = h[k - 1] + a[q] BY <1>6, <2>1
  <2> HIDE DEF q
  <2> QED BY <2>2, <2>3, <2>4 DEF term, q
<1>8. h[n] = y
  <2>1. y \in 0 .. Pow2[n] - 1 BY DEF Radix
  <2> QED BY <1>1, <1>6, <1>7, <2>1, BitsAddUp
<1> QED BY <1>2, <1>6, <1>8

\* How many it takes.
LEMMA CeilingIs ==
    ASSUME NEW d \in Nat \ {0}, NEW q \in Nat, NEW t \in 0 .. d
    PROVE  CeilDiv(d * q + t, d) = IF t = 0 THEN q ELSE q + 1
<1>1. d * q \in Nat /\ d * (q + 1) = d * q + d OBVIOUS
<1>2. CASE t = 0
  <2>1. (d * q + (d - 1)) \div d = q BY Quotient
  <2>2. d * q + t + d - 1 = d * q + (d - 1) BY <1>1, <1>2
  <2> QED BY <1>2, <2>1, <2>2 DEF CeilDiv
<1>3. CASE t # 0
  <2>1. t - 1 \in 0 .. d - 1 BY <1>3
  <2>2. (d * (q + 1) + (t - 1)) \div d = q + 1 BY <2>1, Quotient
  <2>3. d * q + t + d - 1 = d * (q + 1) + (t - 1) BY <1>1
  <2> QED BY <1>3, <2>2, <2>3 DEF CeilDiv
<1> QED BY <1>2, <1>3

\* They allot as many bytes.
LEMMA NeonLenIs ==
    ASSUME WordBytes = BitsPerByte, NEW n \in Nat
    PROVE  NeonLen(n) = WordBytes * CeilDiv(n, WordBits)
<1> DEFINE w == WordBytes
           whole == n \div w
           r == n % w
           q == whole \div w
           t == whole % w
           d == w * w
<1>1. w \in Nat \ {0} BY Sizes
<1>2. whole \in Nat /\ r \in 0 .. w - 1 /\ n = w * whole + r
  <2> HIDE DEF w
  <2> QED BY <1>1, Division
<1>3. q \in Nat /\ t \in 0 .. w - 1 /\ whole = w * q + t
  <2> HIDE DEF w, whole
  <2> QED BY <1>1, <1>2, Division
<1>4. d \in Nat \ {0} /\ WordBits = d
  <2>1. WordBits = w * w BY DEF WordBits
  <2> HIDE DEF w
  <2> QED BY <1>1, <2>1
<1>5. NeonLen(n) = IF t = 0 /\ r # 0 THEN whole + w ELSE CeilDiv(whole, w) * w BY DEF NeonLen
<1> HIDE DEF w, whole, r, q, t
<1> DEFINE s == w * t + r
<1>6. n = d * q + s /\ s \in 0 .. d /\ (s = 0 <=> t = 0 /\ r = 0)
  <2>1. w * t \in Nat /\ w * q \in Nat /\ w * (w * q) = d * q /\ d * q \in Nat BY <1>1, <1>3
  <2>2. w * (w * q + t) = w * (w * q) + w * t BY <1>1, <1>3, <2>1
  <2>3. n = d * q + w * t + r BY <1>2, <1>3, <2>1, <2>2
  <2>4. w * t <= w * (w - 1) /\ w * (w - 1) = w * w - w BY <1>1, <1>3
  <2>5. w * t = 0 <=> t = 0 BY <1>1, <1>3
  <2> DEFINE e == w * t
             f == d * q
             g == w * w
  <2>6. e \in Nat /\ f \in Nat /\ g \in Nat /\ n = f + e + r /\ e <= g - w /\ (e = 0 <=> t = 0) /\ d = g
    BY <1>1, <2>1, <2>3, <2>4, <2>5
  <2> HIDE DEF e, f, g, d
  <2>7. n = f + (e + r) /\ e + r \in 0 .. g /\ (e + r = 0 <=> t = 0 /\ r = 0) BY <1>1, <1>2, <2>6
  <2> QED BY <2>6, <2>7 DEF e, f, g, d
<1> HIDE DEF d
<1>7. CeilDiv(n, d) = IF s = 0 THEN q ELSE q + 1
  <2> HIDE DEF s
  <2> QED BY <1>3, <1>4, <1>6, CeilingIs
<1>8. CeilDiv(whole, w) = IF t = 0 THEN q ELSE q + 1
  <2>1. t \in 0 .. w BY <1>1, <1>3
  <2>2. CeilDiv(w * q + t, w) = IF t = 0 THEN q ELSE q + 1 BY <1>1, <1>3, <2>1, CeilingIs
  <2> QED BY <1>3, <2>2
<1> HIDE DEF s
<1>9. w * (q + 1) = w * q + w /\ (q + 1) * w = w * q + w /\ q * w = w * q BY <1>1, <1>3
<1>10. t = 0 => whole + w = w * q + w
  <2> DEFINE e == w * q
  <2>1. e \in Nat /\ whole = e + t BY <1>1, <1>3
  <2> HIDE DEF e
  <2>2. t = 0 => whole + w = e + w BY <1>1, <2>1
  <2> QED BY <2>2 DEF e
<1> QED BY <1>3, <1>4, <1>5, <1>6, <1>7, <1>8, <1>9, <1>10 DEF w

\* They store what the portable code stores where their lanes have its bits.
LEMMA NeonSame ==
    ASSUME WordBytes = BitsPerByte, NEW codec \in Codec \ {"f32"}, NEW v \in Seq(Float),
           \A k \in 1 .. Len(v) : NeonBit(codec, v[k]) = Bit(codec, v[k])
    PROVE  FromSliceNeon(codec, v) = FromSlice(codec, v)
<1> DEFINE n == Len(v)
           w == WordBytes
           whole == n \div w
           m == n % w
           rest == SubSeq(v, whole * w + 1, n)
           lanes(i) == Lanes(codec, v, i)
           neon(b) == IF b <= whole THEN lanes(b - 1)
                      ELSE IF b = whole + 1 THEN PackWord(codec, rest) ELSE 0
           r == FromSlice(codec, v)
           len == WordBytes * Words(codec, n)
<1>1. w \in Nat \ {0} /\ n \in Nat BY Sizes
<1>2. whole \in Nat /\ m \in 0 .. w - 1 /\ n = w * whole + m
  <2> HIDE DEF w, n
  <2> QED BY <1>1, Division
<1>3. len \in Nat /\ NeonLen(n) = len /\ r \in Seq(Byte) /\ Len(r) = len
  <2>1. WordSize(codec) = WordBits /\ ElementBytes(codec) = WordBytes BY DEF WordSize, ElementBytes
  <2>2. NeonLen(n) = WordBytes * CeilDiv(n, WordBits) BY <1>1, NeonLenIs
  <2>3. Words(codec, n) \in Nat /\ r \in Seq(Byte) /\ Len(r) = len BY <2>1, SliceLaid DEF Laid
  <2>4. len \in Nat BY <2>3
  <2> QED BY <2>1, <2>2, <2>3, <2>4 DEF Words
<1>4. FromSliceNeon(codec, v) = [b \in 1 .. len |-> neon(b)] BY <1>3 DEF FromSliceNeon, Lanes
<1>5. ASSUME NEW b \in 1 .. len PROVE neon(b) = r[b]
  <2> DEFINE j == b - 1
             y == r[b]
             bit(q) == BitOf(codec, v, (w * j + q) + 1)
  <2>1. j \in 0 .. len - 1 /\ j + 1 = b /\ j \in Nat BY <1>3
  <2>2. y \in 0 .. Radix - 1 /\ \A q \in 0 .. w - 1 : (y \div Pow2[q]) % 2 = bit(q)
    <3> HIDE DEF j
    <3> QED BY <2>1, SliceByte
  <2>3. \A x \in 0 .. Radix - 1 : (\A q \in 0 .. w - 1 : (x \div Pow2[q]) % 2 = bit(q)) => x = y
    <3> TAKE x \in 0 .. Radix - 1
    <3> HAVE \A q \in 0 .. w - 1 : (x \div Pow2[q]) % 2 = bit(q)
    <3> HIDE DEF y, bit
    <3>1. \A q \in 0 .. w - 1 : (x \div Pow2[q]) % 2 = (y \div Pow2[q]) % 2 BY <2>2
    <3> QED BY <1>1, <2>2, <3>1, SameBits DEF Radix
  <2>4. CASE b <= whole
    <3>1. ASSUME NEW q \in 0 .. w - 1 PROVE bit(q) = NeonBit(codec, v[j * BitsPerByte + q + 1])
      <4> DEFINE k == (w * j + q) + 1
      <4>1. k \in 1 .. n /\ k = j * BitsPerByte + q + 1
        <5>1. w * j \in Nat /\ w * (j + 1) = w * j + w /\ w * (j + 1) <= w * whole /\ w * j = j * w
          <6>1. w \in Nat /\ j \in Nat /\ whole \in Nat /\ j + 1 \in Nat /\ j + 1 <= whole
            BY <1>1, <1>2, <2>1, <2>4
          <6> HIDE DEF w, j, whole
          <6>2. w * j = j * w BY <6>1
          <6> QED BY <6>1, <6>2, Times
        <5>2. w * whole \in Nat BY <1>1, <1>2
        <5> HIDE DEF w, j, whole, n, m
        <5>3. w * j + q + 1 <= n /\ q \in Nat BY <1>1, <1>2, <5>1, <5>2
        <5> QED BY <1>1, <5>1, <5>3 DEF w
      <4>2. bit(q) = Bit(codec, v[k]) BY <4>1 DEF BitOf
      <4> HIDE DEF bit, k, j
      <4> QED BY <4>1, <4>2
    <3>2. lanes(j) = y
      <4> HIDE DEF bit, y, j
      <4>1. \A q \in 0 .. w - 1 : (y \div Pow2[q]) % 2 = NeonBit(codec, v[j * BitsPerByte + q + 1])
        BY <2>2, <3>1
      <4>2. \A q \in 0 .. BitsPerByte - 1 :
              (y \div Pow2[q]) % 2 = NeonBit(codec, v[j * BitsPerByte + q + 1])
        BY <4>1
      <4>3. y \in 0 .. Radix - 1 BY <2>2
      <4> QED BY <4>2, <4>3, NeonByte
    <3> HIDE DEF lanes, y
    <3> QED BY <2>4, <3>2 DEF y
  <2>5. CASE b = whole + 1
    <3> DEFINE x == PackWord(codec, rest)
    <3>1. rest \in [1 .. m -> Float] /\ \A k \in 1 .. m : rest[k] = v[w * j + k]
      <4>1. j = whole /\ whole * w = w * whole /\ w * whole \in Nat BY <1>1, <1>2, <2>1, <2>5
      <4> DEFINE at == whole * w
      <4>2. at \in Nat /\ n = at + m /\ at = w * j BY <1>2, <4>1
      <4>3. rest = [k \in 1 .. m |-> v[at + k]]
        <5> HIDE DEF at, m, n
        <5>1. rest = [k \in 1 .. n - (at + 1) + 1 |-> v[(at + 1) + k - 1]] BY <1>1, <4>2 DEF at, n
        <5>2. n - (at + 1) + 1 = m /\ \A k \in 1 .. m : (at + 1) + k - 1 = at + k BY <1>1, <1>2, <4>2
        <5> HIDE DEF rest
        <5> QED BY <5>1, <5>2
      <4>4. \A k \in 1 .. m : v[at + k] \in Float
        <5>1. \A k \in 1 .. m : at + k \in 1 .. n BY <1>2, <4>2
        <5> HIDE DEF at, m
        <5> QED BY <5>1, ElementOfSeq
      <4> HIDE DEF rest, at, m, j
      <4> QED BY <4>2, <4>3, <4>4
    <3>2. /\ x \in Nat /\ x < Pow2[m]
          /\ \A k \in Nat : (x \div Pow2[k]) % 2 = IF k < m THEN Bit(codec, rest[k + 1]) ELSE 0
      <4>1. m \in Nat /\ rest \in [1 .. m -> Float] BY <1>2, <3>1
      <4> HIDE DEF rest, m
      <4>2. PackWord(codec, rest) \in Nat /\ PackWord(codec, rest) < Pow2[m] BY <4>1, PackedBits
      <4>3. \A k \in Nat : (PackWord(codec, rest) \div Pow2[k]) % 2
                            = IF k < m THEN Bit(codec, rest[k + 1]) ELSE 0
        BY <4>1, PackedBits
      <4> QED BY <4>2, <4>3
    <3>3. x \in 0 .. Radix - 1
      <4>1. m \in Nat /\ w \in Nat /\ m <= w BY <1>1, <1>2
      <4>2. Pow2[m] <= Pow2[w] /\ Pow2[m] \in Nat /\ Pow2[w] \in Nat
        <5> HIDE DEF m, w
        <5> QED BY <4>1, PowersGrow, Powers
      <4> HIDE DEF x, m
      <4> QED BY <3>2, <4>2 DEF Radix
    <3>4. ASSUME NEW q \in 0 .. w - 1 PROVE (x \div Pow2[q]) % 2 = bit(q)
      <4>1. q \in Nat /\ (q < m <=> (w * j + q) + 1 <= n)
        <5>1. j = whole /\ w * whole \in Nat BY <1>1, <1>2, <2>1, <2>5
        <5> HIDE DEF w, j, whole, m, n
        <5> QED BY <1>1, <1>2, <5>1
      <4>2. q < m => rest[q + 1] = v[(w * j + q) + 1]
        <5>1. w * j \in Nat BY <1>1, <2>1
        <5> DEFINE at == w * j
        <5> HIDE DEF at, rest, m
        <5>2. q < m => q + 1 \in 1 .. m /\ at + (q + 1) = (at + q) + 1 BY <1>2, <4>1, <5>1 DEF at, m
        <5>3. \A k \in 1 .. m : rest[k] = v[at + k] BY <3>1 DEF at
        <5>4. q < m => rest[q + 1] = v[(at + q) + 1] BY <5>2, <5>3
        <5> QED BY <5>4 DEF at
      <4> HIDE DEF x, rest, m, j
      <4> QED BY <3>2, <4>1, <4>2 DEF BitOf
    <3>5. x = y
      <4> HIDE DEF x, y, bit
      <4> QED BY <2>3, <3>3, <3>4
    <3>6. ~(b <= whole) BY <1>2, <2>5
    <3> HIDE DEF x, y, lanes, rest, whole
    <3> QED BY <2>5, <3>5, <3>6 DEF x, y
  <2>6. CASE b > whole + 1
    <3>1. 0 \in 0 .. Radix - 1
      <4>1. Radix \in Nat /\ Radix >= 4 BY Weights
      <4> QED BY <4>1
    <3>2. ASSUME NEW q \in 0 .. w - 1 PROVE (0 \div Pow2[q]) % 2 = bit(q)
      <4>1. 0 \div Pow2[q] = 0
        <5>1. Pow2[q] \in Nat \ {0} BY Powers
        <5> DEFINE p == Pow2[q]
        <5> HIDE DEF p
        <5>2. p \in Nat \ {0} => 0 \div p = 0 OBVIOUS
        <5> QED BY <5>1, <5>2 DEF p
      <4>2. bit(q) = 0
        <5>1. j >= whole + 1 /\ j \in Nat BY <1>2, <2>1, <2>6
        <5>2. w * j >= w * (whole + 1) /\ w * (whole + 1) = w * whole + w /\ w * whole \in Nat /\ w * j \in Nat
          <6>1. w \in Nat /\ whole \in Nat /\ whole + 1 \in Nat /\ whole + 1 <= j /\ j \in Nat
            BY <1>1, <1>2, <5>1
          <6> HIDE DEF w, j, whole
          <6> QED BY <6>1, Times
        <5>3. ~((w * j + q) + 1 <= n)
          <6> HIDE DEF w, j, whole, n, m
          <6> QED BY <1>1, <1>2, <5>2
        <5> QED BY <5>3 DEF BitOf
      <4> QED BY <4>1, <4>2
    <3>3. y = 0
      <4> HIDE DEF y, bit
      <4> QED BY <2>3, <3>1, <3>2
    <3>4. ~(b <= whole) /\ b # whole + 1 BY <1>2, <2>6
    <3> HIDE DEF y, lanes, rest, whole
    <3> QED BY <3>3, <3>4 DEF y
  <2> HIDE DEF neon, r, whole
  <2>7. b <= whole \/ b = whole + 1 \/ b > whole + 1 BY <1>2
  <2> QED BY <2>4, <2>5, <2>6, <2>7 DEF neon, r
<1> HIDE DEF neon, r, len
<1>6. r = [b \in 1 .. len |-> r[b]] BY <1>3
<1> QED BY <1>4, <1>5, <1>6 DEF r
=============================================================================
