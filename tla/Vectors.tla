------------------------------ MODULE Vectors ------------------------------
(***************************************************************************)
(* Vectors as bytes (src/unaligned_vector/) and the distances of quantized *)
(* vectors (src/distance/), on a machine scaled down: a byte has BitsPer-  *)
(* Byte bits and a word WordBytes bytes.  Of a coordinate only its sign    *)
(* and whether it is zero are told apart: that is all that quantizing      *)
(* keeps.  Hosts are little-endian.                                        *)
(***************************************************************************)
EXTENDS Integers, SequencesExt

CONSTANTS BitsPerByte,   \* 8
          WordBytes      \* size_of::<u64>()

ASSUME BitsAssumption == BitsPerByte \in Nat /\ BitsPerByte >= 2
ASSUME WordAssumption == WordBytes \in Nat \ {0}

Pow2[k \in Nat] == IF k = 0 THEN 1 ELSE 2 * Pow2[k - 1]

Radix == Pow2[BitsPerByte]

\* The weight of byte number k, from the lowest.
Weight(k) == Pow2[BitsPerByte * k]

WordBits == WordBytes * BitsPerByte

\* The bytes of an unsigned integer of k bytes, and the integer of some bytes.
BigEndian(n, k) == [b \in 1 .. k |-> (n \div Weight(k - b)) % Radix]
ReadBig(bytes)  == FoldLeft(LAMBDA n, b : Radix * n + b, 0, bytes)

Little(n, k) == Reverse(BigEndian(n, k))
ReadLittle(bytes) == ReadBig(Reverse(bytes))

CeilDiv(a, b) == (a + b - 1) \div b

-----------------------------------------------------------------------------
(* Coordinates: the sign bit of an f32, and one bit for the rest of it. *)

Zero == 0
One == 1
NegZero == 2
MinusOne == 3
Float == {Zero, One, NegZero, MinusOne}

FloatBytes == 4

IsSignPositive(x) == x < NegZero

\* bits < 0x8000_0000 && bits > 0
IsPositive(x) == x < NegZero /\ x > 0

Codec == {"f32", "binary", "binary quantized"}

\* The bit a quantized codec keeps of a coordinate, and the coordinate of a bit.
Bit(codec, x) ==
    CASE codec = "binary"           -> IF IsPositive(x) THEN 1 ELSE 0
      [] codec = "binary quantized" -> IF IsSignPositive(x) THEN 1 ELSE 0

OfBit(codec, bit) ==
    CASE codec = "binary"           -> IF bit = 1 THEN One ELSE Zero
      [] codec = "binary quantized" -> IF bit = 1 THEN One ELSE MinusOne

\* UnalignedVectorCodec::word_size: coordinates per element, and bytes per element.
WordSize(codec)  == IF codec = "f32" THEN 1 ELSE WordBits
ElementBytes(codec) == IF codec = "f32" THEN FloatBytes ELSE WordBytes

-----------------------------------------------------------------------------
(* from_slice and from_vec. *)

\* Mutant: from the first to the last.
PackWord_forward(codec, chunk) ==
    FoldLeft(LAMBDA word, x : 2 * word + Bit(codec, x), 0, chunk)

\* The coordinates of a chunk from the last to the first, each shifted in from the right.
PackWord(codec, chunk) ==
    FoldRight(LAMBDA x, word : 2 * word + Bit(codec, x), chunk, 0)

Chunk(v, c) == SubSeq(v, (c - 1) * WordBits + 1,
                      IF c * WordBits < Len(v) THEN c * WordBits ELSE Len(v))

FromSlice(codec, v) ==
    IF codec = "f32"
    THEN FlattenSeq([k \in 1 .. Len(v) |-> Little(v[k], FloatBytes)])
    ELSE FlattenSeq([c \in 1 .. CeilDiv(Len(v), WordBits) |->
                       Little(PackWord(codec, Chunk(v, c)), WordBytes)])

\* Mutant: a whole number of words is taken to hold everything.
NeonLen_exact(n) == CeilDiv(n \div WordBytes, WordBytes) * WordBytes

\* Of n coordinates, WordBytes to the byte: the bytes, up to the next word.
NeonLen(n) ==
    LET whole == n \div WordBytes
    IN  IF whole % WordBytes = 0 /\ n % WordBytes # 0 THEN whole + WordBytes
        ELSE CeilDiv(whole, WordBytes) * WordBytes

\* A lane of vcgtzq, or of vcltzq and vmvnq.
NeonBit(codec, x) ==
    CASE codec = "binary"           -> IF x = One THEN 1 ELSE 0
      [] codec = "binary quantized" -> IF x = MinusOne THEN 0 ELSE 1

\* from_slice_neon: whole bytes by lanes, and what remains as in from_slice_non_optimized.
FromSliceNeon(codec, v) ==
    LET whole == Len(v) \div WordBytes
        rest  == SubSeq(v, whole * WordBytes + 1, Len(v))
        byte(i) == SumFunction([k \in 0 .. BitsPerByte - 1 |->
                                  NeonBit(codec, v[i * BitsPerByte + k + 1]) * Pow2[k]])
    IN  [b \in 1 .. NeonLen(Len(v)) |->
           IF b <= whole THEN byte(b - 1)
           ELSE IF b = whole + 1 THEN PackWord(codec, rest)
           ELSE 0]

-----------------------------------------------------------------------------
(* Reading vectors back. *)

\* from_bytes does not return SizeMismatch.
Fits(codec, bytes) == Len(bytes) % ElementBytes(codec) = 0

VectorLen(codec, bytes) == (Len(bytes) \div ElementBytes(codec)) * WordSize(codec)

\* Element number e of the bytes, from 0.
Element(codec, bytes, e) ==
    ReadLittle(SubSeq(bytes, e * ElementBytes(codec) + 1, (e + 1) * ElementBytes(codec)))

\* iter: one word after the other, its bits from the lowest.
Iter(codec, bytes) ==
    [k \in 1 .. VectorLen(codec, bytes) |->
       LET word == Element(codec, bytes, (k - 1) \div WordSize(codec))
       IN  IF codec = "f32" THEN word
           ELSE OfBit(codec, (word \div Pow2[(k - 1) % WordBits]) % 2)]

\* What the mask of bit k leaves of a byte selects one of two constants.
Lane(codec, byte, k) == OfBit(codec, IF (byte \div Pow2[k]) % 2 = 0 THEN 0 ELSE 1)

\* to_vec: the vector instructions take a byte at a time.
ToVec(codec, bytes) ==
    IF codec = "f32" THEN Iter(codec, bytes)
    ELSE [k \in 1 .. VectorLen(codec, bytes) |->
            Lane(codec, bytes[(k - 1) \div BitsPerByte + 1], (k - 1) % BitsPerByte)]

\* Writer::item_vector, Reader::item_vector and ItemIter: only the dimensions count.
Truncated(v, dims) == SubSeq(v, 1, IF dims < Len(v) THEN dims ELSE Len(v))

-----------------------------------------------------------------------------
(* Distances between vectors of one length, before they are rounded to an f32. *)

\* The positions at which two numbers of WordBits bits differ.
XorOnes(a, b) == Cardinality({k \in 0 .. WordBits - 1 : (a \div Pow2[k]) % 2 # (b \div Pow2[k]) % 2})

\* Mutant: the last word is left out.
HammingBits_short(u, v) ==
    SumFunction([e \in 0 .. Len(u) \div WordBytes - 2 |->
                   XorOnes(Element("binary", u, e), Element("binary", v, e))])

\* hamming_bitwise_fast: a word at a time.
HammingBits(u, v) ==
    SumFunction([e \in 0 .. Len(u) \div WordBytes - 1 |->
                   XorOnes(Element("binary", u, e), Element("binary", v, e))])

\* Hamming::distance, as numerator and denominator: the bits are divided by the number of
\* coordinates of p, those of the padding included.
HammingDistance(p, q) == <<HammingBits(p, q), VectorLen("binary", p)>>

\* The loops of the binary quantized distances: a byte at a time.
DifferingBits(u, v) == SumFunction([k \in 1 .. Len(u) |-> XorOnes(u[k], v[k])])

SquaredEuclidean(u, v) == 4 * DifferingBits(u, v)
Manhattan(u, v)        == 2 * DifferingBits(u, v)

\* dot_product_binary_quantized: the equal bits of each byte minus those that differ.
DotQuantized(u, v) ==
    SumFunction([k \in 1 .. Len(u) |-> BitsPerByte - 2 * XorOnes(u[k], v[k])])

\* The square of the norm, which vectors of one length share: it is also pn * qn.
NormSquared(v) == DotQuantized(v, v)

\* BinaryQuantizedCosine::distance, (1 - pq / pnqn) / 2 as numerator and denominator.
CosineDistance(p, q) ==
    IF NormSquared(p) = 0 THEN <<0, 1>>
    ELSE <<NormSquared(p) - DotQuantized(p, q), 2 * NormSquared(p)>>
=============================================================================
