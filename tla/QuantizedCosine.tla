--------------------------- MODULE QuantizedCosine ---------------------------
(***************************************************************************)
(* The binary quantized cosine distance in single precision                *)
(* (src/distance/binary_quantized_cosine.rs), and the order in which a     *)
(* search puts distances (src/ordered_float.rs).  A query has the vector   *)
(* of one item and differs from another in some bits.  Positive floats are *)
(* exact: a significand of 24 bits and an exponent, every operation        *)
(* rounded to the nearest, ties to even.                                   *)
(***************************************************************************)
EXTENDS Integers

CONSTANTS WordBits,    \* bits of a quantized word, an even number
          MaxWords     \* bound: words of a vector, of less than 2 ^ 16 bits

VARIABLES words,       \* words of each vector
          differing    \* bits in which the other item differs from the query

-----------------------------------------------------------------------------
(* Single precision: the number sig * 2 ^ exp. *)

Unit == 2 ^ 24
Half == 2 ^ 23

Float == [sig : Half .. Unit - 1, exp : Int]

OfNat(n) == LET k == CHOOSE j \in 0 .. 23 : n * 2 ^ j \in Half .. Unit - 1
            IN  [sig |-> n * 2 ^ k, exp |-> -k]

Rounded(sig, up, exp) == IF ~up THEN [sig |-> sig, exp |-> exp]
                         ELSE IF sig + 1 = Unit THEN [sig |-> Half, exp |-> exp + 1]
                         ELSE [sig |-> sig + 1, exp |-> exp]

Odd(n) == n % 2 = 1

\* The product of two significands as <<high, low>> in base Unit.
Product(a, b) ==
    LET ah == a \div 4096
        al == a % 4096
        bh == b \div 4096
        bl == b % 4096
        mid == ah * bl + al * bh
        low == (mid % 4096) * 4096 + al * bl
    IN  <<ah * bh + mid \div 4096 + low \div Unit, low % Unit>>

AtMost(p, q) == p[1] < q[1] \/ (p[1] = q[1] /\ p[2] <= q[2])

Times(x, y) ==
    LET p == Product(x.sig, y.sig)
        big == p[1] >= Half
        sig == IF big THEN p[1] ELSE 2 * p[1] + p[2] \div Half
        low == IF big THEN p[2] ELSE (2 * p[2]) % Unit
    IN  Rounded(sig, low > Half \/ (low = Half /\ Odd(sig)),
                x.exp + y.exp + IF big THEN 24 ELSE 23)

\* f32::sqrt: the root of sig shifted by 23 or 24 bits, found bit by bit.
Sqrt(x) ==
    LET k == IF Odd(x.exp) THEN 23 ELSE 24
        n == IF k = 24 THEN <<x.sig, 0>> ELSE <<x.sig \div 2, (x.sig % 2) * Half>>
        root[b \in 0 .. 24] ==
            IF b = 24 THEN 0
            ELSE LET high == root[b + 1]
                     next == high + 2 ^ b
                 IN  IF AtMost(Product(next, next), n) THEN next ELSE high
        r == root[0]
        square == Product(r, r)
        middle == <<square[1] + (square[2] + r) \div Unit, (square[2] + r) % Unit>>
    IN  Rounded(r, ~AtMost(n, middle), (x.exp - k) \div 2)

\* Division, a digit at a time: quotient and remainder after n digits.
Over(x, y) ==
    LET less  == x.sig < y.sig
        first == IF less THEN 2 * x.sig ELSE x.sig
        digits[n \in 1 .. 24] ==
            IF n = 1 THEN <<1, first - y.sig>>
            ELSE LET d == digits[n - 1]
                     r == 2 * d[2]
                 IN  IF r >= y.sig THEN <<2 * d[1] + 1, r - y.sig>> ELSE <<2 * d[1], r>>
        sig  == digits[24][1]
        rest == 2 * digits[24][2]
    IN  Rounded(sig, rest > y.sig \/ (rest = y.sig /\ Odd(sig)),
                x.exp - y.exp - IF less THEN 24 ELSE 23)

Less(x, y) == x.exp < y.exp \/ (x.exp = y.exp /\ x.sig < y.sig)

-----------------------------------------------------------------------------
(* The distance. *)

\* dot_product_binary_quantized of two vectors that differ in some bits.
Dot(bits) == OfNat(WordBits * words - 2 * bits)

Norm == Sqrt(Dot(0))

\* pq / (pn * qn), not clamped to 1.
Cos(bits) == Over(Dot(bits), Times(Norm, Norm))

\* (1.0 - cos) / 2.0 has the sign bit.
Negative(bits) == Less(OfNat(1), Cos(bits))

\* OrderedFloat compares the bits of the distances: those with the sign bit are the larger.
Before(a, b) == IF Negative(a) = Negative(b)
                THEN IF Negative(a) THEN Less(Cos(a), Cos(b)) ELSE Less(Cos(b), Cos(a))
                ELSE Negative(b)

-----------------------------------------------------------------------------
Init == /\ words \in 1 .. MaxWords
        /\ differing = 0

\* The other item differs in one more bit, and not in half of them.
Differ == /\ 2 * (differing + 1) < WordBits * words
          /\ differing' = differing + 1
          /\ UNCHANGED words

Spec == Init /\ [][Differ]_<<words, differing>>

-----------------------------------------------------------------------------
\* "Since distance metrics satisfy d(x,x)=0 and d(x,y)>0 for x!=y we don't need to operate
\* on the full range of f32's": the item that is the query comes before every other.
ItselfComesFirst == differing > 0 => Before(0, differing)
=============================================================================
