----------------------------- MODULE Compressors -----------------------------
(***************************************************************************)
(* The gradient compressors (common/compressor): what each of them sends   *)
(* for a gradient, what is read back from it, and the error that it        *)
(* leaves.  A gradient is a sequence of integers in a small unit; \div     *)
(* stands for the rounding of floating point.  An element takes one word   *)
(* of Packing bits (index_t has the size of scalar_t), and a message is    *)
(* measured in words.  Random choices (the seeded generators) and the      *)
(* order of a heap are left open, so Compress gives a set of messages.     *)
(***************************************************************************)
EXTENDS Integers, Sequences, FiniteSets

CONSTANT Packing    \* PACKING_SIZE: the bits of a word, at least a byte

ASSUME PackingAssumption == Packing \in Nat /\ Packing >= 8

Abs(x) == IF x < 0 THEN -x ELSE x
Signed(negative, x) == IF negative THEN -x ELSE x
Largest(S) == CHOOSE m \in S : \A n \in S : n <= m
SumOf(x) ==
    LET sum[i \in 0..Len(x)] == IF i = 0 THEN 0 ELSE sum[i - 1] + x[i] IN sum[Len(x)]

\* dst[i] = dst[i] + alpha * src[i], alpha being a quotient.
Plus(dst, src, num, den) == [i \in DOMAIN dst |-> dst[i] + (src[i] * num) \div den]
Zeros(len) == [i \in 1..len |-> 0]

\* Align in elements: 8 * sizeof(type)^2 bytes are Packing elements.
Align(len) == len + ((Packing - (len % Packing)) % Packing)
Words(bits) == (bits + Packing - 1) \div Packing

\* The server tells a registration from a push by the command: a pair of a
\* request type and a data type in one number, and back with a square root.
GetCommandType(requestType, d) ==
    ((requestType + d) * (requestType + d + 1)) \div 2 + d
Sqrt(n) == CHOOSE r \in 0..n : r * r <= n /\ n < (r + 1) * (r + 1)
DepairDataHandleType(cmd) ==
    LET w == (Sqrt(8 * cmd + 1) - 1) \div 2
        y == cmd - (w * w + w) \div 2
    IN  [requestType |-> w - y, dtype |-> y]

-----------------------------------------------------------------------------
(* Top-k and random-k: pairs of an index and a value, two words each.      *)

\* k from compressor_k = num / den, a share of the aligned size if below 1.
KOfHalfWords(c) == (2 * c.num * Align(c.len)) \div c.den
K(c) == IF c.num >= c.den THEN c.num \div c.den
        ELSE IF c.num * Align(c.len) < c.den THEN 1
        ELSE (c.num * Align(c.len)) \div c.den

\* The indices in the heap after i elements: an element that is larger than
\* the smallest in the heap takes its place.
Smallest(x, S) == {m \in S : \A n \in S : Abs(x[m]) <= Abs(x[n])}
Replaces(x, i, m) == Abs(x[i]) > Abs(x[m])
Heaps(x, k) ==
    LET heaps[i \in k..Len(x)] ==
          IF i = k THEN {1..k}
          ELSE UNION {{IF Replaces(x, i, m) THEN (S \ {m}) \cup {i} ELSE S :
                         m \in Smallest(x, S)} : S \in heaps[i - 1]}
    IN  heaps[Len(x)]

\* The index is counted from 1 and has no width: in the code it has that of an
\* element, so that one of 16 bits wraps from 65536 elements on.
Pairs(x, S) == [pairs |-> {<<i, x[i]>> : i \in S}]
TopkCompress(c, x) == {Pairs(x, S) : S \in Heaps(x, K(c))}

\* An index may be drawn twice.
RandomkCompress(c, x) ==
    {Pairs(x, S) : S \in {T \in SUBSET DOMAIN x : Cardinality(T) \in 1..K(c)}}

PairsDecompress(msg, len) ==
    [i \in 1..len |->
       IF \E p \in msg.pairs : p[1] = i
       THEN (CHOOSE p \in msg.pairs : p[1] = i)[2] ELSE 0]

PairsError(msg, corrected) ==
    [i \in DOMAIN corrected |->
       IF \E p \in msg.pairs : p[1] = i THEN 0 ELSE corrected[i]]

-----------------------------------------------------------------------------
(* One bit: the signs, and the mean of the absolute values.                *)

OnebitCompress(c, x) ==
    {[negative |-> {i \in DOMAIN x : x[i] < 0},
      scale |-> IF c.scaled THEN SumOf([i \in DOMAIN x |-> Abs(x[i])]) \div Len(x) ELSE 1]}

OnebitDecompress(msg, len) == [i \in 1..len |-> Signed(i \in msg.negative, msg.scale)]

OnebitError(msg, corrected) ==
    [i \in DOMAIN corrected |->
       corrected[i] + (IF i \in msg.negative THEN msg.scale ELSE -msg.scale)]

-----------------------------------------------------------------------------
(* The bits of dithering: Elias delta codes.                               *)

\* How many bits x has, and the bits, the highest first.
BitLength(x) == CHOOSE n \in 1..31 : 2 ^ (n - 1) <= x /\ (n = 31 \/ x < 2 ^ n)
Bits(x) == LET n == BitLength(x) IN [i \in 1..n |-> (x \div 2 ^ (n - i)) % 2]
Value(bits) == SumOf([i \in DOMAIN bits |-> bits[i] * 2 ^ (Len(bits) - i)])

EliasDeltaEncode(x) ==
    LET len == BitLength(x)
    IN  Zeros(BitLength(len) - 1) \o Bits(len) \o Tail(Bits(x))

\* The number at a position, and the position after it.  A bit is read as it is
\* in a word of at most 32 bits: BitReader::Get shifts an int, which is undefined
\* for the upper bits of a longer word.
EliasDeltaDecode(bits, at) ==
    LET one == CHOOSE i \in at..Len(bits) : bits[i] = 1 /\ \A j \in at..i - 1 : bits[j] = 0
        rest == one + (one - at) + 1
        len == Value(SubSeq(bits, one, rest - 1))
    IN  [num |-> Value(<<1>> \o SubSeq(bits, rest, rest + len - 2)), next |-> rest + len - 1]

\* The entries that are not zero: the distance from the last such one, the sign
\* and the quantized value.
EncodeEveryDistanceOne(x, q) ==
    LET enc[i \in 0..Len(q)] ==
          IF i = 0 THEN <<>>
          ELSE IF q[i] = 0 THEN enc[i - 1]
          ELSE enc[i - 1] \o EliasDeltaEncode(1)
               \o <<IF x[i] < 0 THEN 1 ELSE 0>> \o EliasDeltaEncode(q[i])
    IN  enc[Len(q)]
Encode(x, q) ==
    LET last == [i \in DOMAIN q |-> Largest({0} \cup {j \in 1..i - 1 : q[j] # 0})]
        enc[i \in 0..Len(q)] ==
          IF i = 0 THEN <<>>
          ELSE IF q[i] = 0 THEN enc[i - 1]
          ELSE enc[i - 1] \o EliasDeltaEncode(i - last[i])
               \o <<IF x[i] < 0 THEN 1 ELSE 0>> \o EliasDeltaEncode(q[i])
    IN  enc[Len(q)]

\* Reading back what follows a position, the last entry being at index pos.
Decode(bits) ==
    LET entries[at \in 1..Len(bits) + 1, pos \in 0..Len(bits)] ==
          IF at > Len(bits) THEN {}
          ELSE LET diff == EliasDeltaDecode(bits, at)
                   quantized == EliasDeltaDecode(bits, diff.next + 1)
               IN  {[i |-> pos + diff.num, negative |-> bits[diff.next] = 1,
                     q |-> quantized.num]}
                   \cup entries[quantized.next, pos + diff.num]
    IN  entries[1, 0]

-----------------------------------------------------------------------------
(* Dithering: values rounded at random to a level, relative to the norm.   *)

Norm(c, x) ==
    IF c.l2
    THEN Sqrt(SumOf([i \in DOMAIN x |-> x[i] * x[i]]))
    ELSE Largest({Abs(x[i]) : i \in DOMAIN x})

\* The number of levels, s.
Levels(c) == IF c.natural THEN 2 ^ (c.levels - 1) ELSE c.levels

\* RoundNextPow2(v) >> 1, by which the natural levels are powers of two.
HalfNextPow2(v) == IF v <= 1 THEN 0 ELSE 2 ^ (BitLength(v - 1) - 1)

\* The values one element may be rounded to.  If all elements are zero the
\* quotient is NaN, which x86-64 converts to 0.
Rounded(c, abs, scale) ==
    LET s == Levels(c)
        ceil == (abs * s + scale - 1) \div scale
        floor == IF c.natural THEN HalfNextPow2(ceil) ELSE (abs * s) \div scale
        length == IF c.natural /\ floor # 0 THEN floor ELSE 1
    IN  IF scale = 0 THEN {0}
        ELSE (IF abs * s < (floor + length) * scale THEN {floor} ELSE {})
             \cup (IF abs * s > floor * scale THEN {floor + length} ELSE {})

DitheringCompress(c, x) ==
    LET scale == Norm(c, x)
        rounded[i \in 0..Len(x)] ==
          IF i = 0 THEN {<<>>}
          ELSE {Append(q, r) : q \in rounded[i - 1], r \in Rounded(c, Abs(x[i]), scale)}
    IN  {[bits |-> Encode(x, q), scale |-> scale] : q \in rounded[Len(x)]}

Dequantized(c, msg, e) == Signed(e.negative, (e.q * msg.scale) \div Levels(c))

DitheringDecompress(c, msg, len) ==
    LET entries == Decode(msg.bits)
    IN  [i \in 1..len |->
           IF \E e \in entries : e.i = i
           THEN Dequantized(c, msg, CHOOSE e \in entries : e.i = i) ELSE 0]

DitheringError(c, msg, corrected) ==
    LET entries == Decode(msg.bits)
    IN  [i \in DOMAIN corrected |->
           IF \E e \in entries : e.i = i
           THEN corrected[i] - Dequantized(c, msg, CHOOSE e \in entries : e.i = i)
           ELSE corrected[i]]

-----------------------------------------------------------------------------
(* The compressor that CompressorRegistry::Create makes.                   *)

\* A message that only a check of k can prevent.
KFits(c) == c.kind \in {"topk", "randomk"} => K(c) <= c.len \div 2

CompressImpl(c, x) ==
    CASE c.kind = "topk" -> TopkCompress(c, x)
      [] c.kind = "randomk" -> RandomkCompress(c, x)
      [] c.kind = "onebit" -> OnebitCompress(c, x)
      [] c.kind = "dithering" -> DitheringCompress(c, x)

\* The size of a message in words.  The scale is a float of 32 bits, so one word
\* for 32-bit elements only.
SizeOf(c, msg) ==
    CASE c.kind \in {"topk", "randomk"} -> 2 * K(c)
      [] c.kind = "onebit" -> Words(c.len) + 1
      [] c.kind = "dithering" -> Words(Len(msg.bits)) + 2

DecompressImpl(c, msg) ==
    CASE c.kind \in {"topk", "randomk"} -> PairsDecompress(msg, c.len)
      [] c.kind = "onebit" -> OnebitDecompress(msg, c.len)
      [] c.kind = "dithering" -> DitheringDecompress(c, msg, c.len)

FastUpdateError(c, msg, corrected) ==
    CASE c.kind \in {"topk", "randomk"} -> PairsError(msg, corrected)
      [] c.kind = "onebit" -> OnebitError(msg, corrected)
      [] c.kind = "dithering" -> DitheringError(c, msg, corrected)

=============================================================================
