--------------------------- MODULE CompressionProof ---------------------------
(***************************************************************************)
(* For any number of workers and rounds, any tensors and any lengths: the  *)
(* length sent with a push is that of the message, and the compressors of  *)
(* a fixed size fit.  And for all numbers, the server reads what a worker  *)
(* put in a command.                                                       *)
(***************************************************************************)
EXTENDS CompressionProperties, TLAPS

-----------------------------------------------------------------------------
(* Commands.                                                               *)

LEMMA SquareGrows ==
    ASSUME NEW x \in Nat, NEW y \in Nat, x * x < y * y
    PROVE  x < y
<1>1. ASSUME y <= x PROVE y * y <= x * x
  <2>1. x - y \in Nat /\ x + y \in Nat
    BY <1>1
  <2>2. (x - y) * (x + y) \in Nat
    BY <2>1
  <2>3. (x - y) * (x + y) = x * x - y * y
    OBVIOUS
  <2> DEFINE p == x * x
             q == y * y
  <2>4. p \in Nat /\ q \in Nat /\ p - q \in Nat
    BY <2>2, <2>3
  <2> HIDE DEF p, q
  <2>5. q <= p
    BY <2>4
  <2> QED BY <2>5 DEF p, q
<1> DEFINE p == x * x
           q == y * y
<1>2. p \in Nat /\ q \in Nat /\ p < q /\ (y <= x => q <= p)
  BY <1>1
<1> HIDE DEF p, q
<1> QED BY <1>2

\* The largest number whose square is not above a number.
LEMMA SqrtIs ==
    ASSUME NEW n \in Nat, NEW r \in Nat, r * r <= n, n < (r + 1) * (r + 1)
    PROVE  Sqrt(n) = r
<1>1. r \in 0..n
  <2>1. r <= r * r /\ r * r \in Nat
    OBVIOUS
  <2> DEFINE q == r * r
  <2>2. q \in Nat /\ r <= q /\ q <= n
    BY <2>1
  <2> HIDE DEF q
  <2> QED BY <2>2
<1>2. ASSUME NEW x \in 0..n, x * x <= n, n < (x + 1) * (x + 1)
      PROVE  x = r
  <2> DEFINE a == x * x
             b == (x + 1) * (x + 1)
             c == r * r
             d == (r + 1) * (r + 1)
  <2>1. a \in Nat /\ b \in Nat /\ c \in Nat /\ d \in Nat /\ a <= n /\ n < b /\ c <= n /\ n < d
    BY <1>2
  <2>2. a < d /\ c < b
    <3> HIDE DEF a, b, c, d
    <3> QED BY <2>1
  <2>3. x < r + 1 /\ r < x + 1
    BY <2>2, SquareGrows
  <2> QED BY <2>3
<1> QED BY <1>1, <1>2 DEF Sqrt

\* Depairing inverts pairing (server.h:45, common.cc:113), for all numbers.
THEOREM CommandOfPair ==
    ASSUME NEW t \in Nat, NEW d \in Nat
    PROVE  DepairDataHandleType(GetCommandType(t, d)) = [requestType |-> t, dtype |-> d]
<1> DEFINE s == t + d
           m == (s * (s + 1)) \div 2
           cmd == m + d
           n == 8 * cmd + 1
<1>1. s \in Nat /\ d <= s /\ s - d = t
  OBVIOUS
<1> HIDE DEF s
<1>2. m \in Nat /\ 2 * m = s * s + s
  <2>1. PICK k \in Nat : s = 2 * k \/ s = 2 * k + 1
    <3>1. s \div 2 \in Nat /\ (s = 2 * (s \div 2) \/ s = 2 * (s \div 2) + 1)
      BY <1>1
    <3> QED BY <3>1
  <2>2. CASE s = 2 * k
    <3>1. s * (s + 1) = 2 * (k * (2 * k + 1)) /\ k * (2 * k + 1) \in Nat
      BY <2>2
    <3>2. s * (s + 1) = s * s + s
      BY <1>1
    <3> QED BY <3>1, <3>2
  <2>3. CASE s = 2 * k + 1
    <3>1. s * (s + 1) = 2 * ((2 * k + 1) * (k + 1)) /\ (2 * k + 1) * (k + 1) \in Nat
      BY <2>3
    <3>2. s * (s + 1) = s * s + s
      BY <1>1
    <3> QED BY <3>1, <3>2
  <2> QED BY <2>1, <2>2, <2>3
<1>3. GetCommandType(t, d) = cmd
  BY DEF GetCommandType, s
<1> HIDE DEF m
<1>4. n \in Nat /\ n = 4 * (s * s) + 4 * s + 8 * d + 1
  BY <1>1, <1>2
<1>5. (Sqrt(n) - 1) \div 2 = s
  <2> DEFINE r == IF 4 * s + 3 < 8 * d THEN 2 * s + 2 ELSE 2 * s + 1
             q == s * s
  <2>1. r \in Nat /\ q \in Nat
    BY <1>1
  <2>2. /\ (2 * s + 1) * (2 * s + 1) = 4 * q + 4 * s + 1
        /\ (2 * s + 2) * (2 * s + 2) = 4 * q + 8 * s + 4
        /\ (2 * s + 3) * (2 * s + 3) = 4 * q + 12 * s + 9
    BY <1>1
  <2>3. r * r <= n /\ n < (r + 1) * (r + 1)
    <3> HIDE DEF n, q
    <3>1. CASE 4 * s + 3 < 8 * d
      <4>1. r = 2 * s + 2 /\ r + 1 = 2 * s + 3
        BY <1>1, <3>1
      <4> HIDE DEF r
      <4>2. r * r = 4 * q + 8 * s + 4 /\ (r + 1) * (r + 1) = 4 * q + 12 * s + 9
        BY <2>2, <4>1
      <4>3. n = 4 * q + 4 * s + 8 * d + 1
        BY <1>4 DEF q
      <4> QED BY <1>1, <2>1, <3>1, <4>2, <4>3
    <3>2. CASE ~(4 * s + 3 < 8 * d)
      <4>1. r = 2 * s + 1 /\ r + 1 = 2 * s + 2
        BY <1>1, <3>2
      <4> HIDE DEF r
      <4>2. r * r = 4 * q + 4 * s + 1 /\ (r + 1) * (r + 1) = 4 * q + 8 * s + 4
        BY <2>2, <4>1
      <4>3. n = 4 * q + 4 * s + 8 * d + 1
        BY <1>4 DEF q
      <4> QED BY <1>1, <2>1, <3>2, <4>2, <4>3
    <3> QED BY <3>1, <3>2
  <2> HIDE DEF n
  <2>4. Sqrt(n) = r
    <3> HIDE DEF r
    <3> QED BY <1>4, <2>1, <2>3, SqrtIs
  <2> QED BY <1>1, <2>4
<1>6. cmd - (s * s + s) \div 2 = d
  <2>1. (s * s + s) \div 2 = m
    <3> DEFINE q == s * s + s
    <3>1. q = 2 * m
      BY <1>2
    <3> HIDE DEF q
    <3>2. q \div 2 = m
      BY <1>2, <3>1
    <3> QED BY <3>2 DEF q
  <2> QED BY <1>2, <2>1
<1>7. DepairDataHandleType(cmd) = [requestType |-> s - d, dtype |-> d]
  <2>1. (Sqrt(8 * cmd + 1) - 1) \div 2 = s
    BY <1>5
  <2> HIDE DEF cmd
  <2> QED BY <1>6, <2>1 DEF DepairDataHandleType
<1> QED BY <1>1, <1>3, <1>7

\* The server reads the request type and the data type of every command.
THEOREM CommandsRead == CommandsDecoded
BY CommandOfPair DEF CommandsDecoded

-----------------------------------------------------------------------------
(* Sizes.                                                                  *)

\* The code of dithering is a sequence, so that it has a length.  It is what a
\* recursive function gives, whose value no prover can establish.
BitsCounted ==
    \A c \in Settings : c.kind = "dithering" =>
       \A x : \A msg \in DitheringCompress(c, x) : Len(msg.bits) \in Nat

FixedSize(c) == IF c.kind = "onebit" THEN Words(c.len) + 1 ELSE 2 * K(c)

LEMMA AlignAdds ==
    ASSUME NEW len \in Nat \ {0}
    PROVE  Align(len) \in Nat /\ Align(len) >= len /\ (len % Packing = 0 => Align(len) = len)
<1>1. Packing \in Nat \ {0}
  BY PackingAssumption
<1>2. len % Packing \in 0..Packing - 1
  BY <1>1
<1>3. (Packing - (len % Packing)) % Packing \in Nat
  BY <1>1, <1>2
<1>4. Packing % Packing = 0
  BY <1>1
<1> QED BY <1>1, <1>2, <1>3, <1>4 DEF Align

LEMMA WordsIsNat ==
    ASSUME NEW bits \in Nat
    PROVE  Words(bits) \in Nat
BY PackingAssumption DEF Words

LEMMA KIsPositive ==
    ASSUME NEW c \in Settings
    PROVE  K(c) \in Nat \ {0}
<1> DEFINE share == c.num * Align(c.len)
<1>1. c.num \in Nat \ {0} /\ c.den \in Nat \ {0} /\ share \in Nat
  BY CompressionAssumption, AlignAdds
<1> HIDE DEF share
<1>2. c.num >= c.den => c.num \div c.den \in Nat \ {0}
  BY <1>1
<1>3. share >= c.den => share \div c.den \in Nat \ {0}
  BY <1>1
<1> QED BY <1>1, <1>2, <1>3 DEF K, share

\* Every message has words; those of all compressors but dithering as many.
LEMMA SizeIsPositive ==
    ASSUME BitsCounted, NEW c \in Settings, NEW x, NEW msg \in CompressImpl(c, x)
    PROVE  /\ SizeOf(c, msg) \in Nat \ {0}
           /\ c.kind # "dithering" => SizeOf(c, msg) = FixedSize(c)
<1>1. /\ c.kind \in {"topk", "randomk", "onebit", "dithering"}
      /\ Words(c.len) \in Nat /\ K(c) \in Nat \ {0}
  BY CompressionAssumption, WordsIsNat, KIsPositive
<1>2. CASE c.kind = "dithering"
  <2>1. Len(msg.bits) \in Nat
    BY <1>2 DEF BitsCounted, CompressImpl
  <2>2. SizeOf(c, msg) = Words(Len(msg.bits)) + 2
    BY <1>2 DEF SizeOf
  <2>3. Words(Len(msg.bits)) \in Nat
    BY <2>1, WordsIsNat
  <2> QED BY <1>2, <2>2, <2>3
<1>3. CASE c.kind = "onebit"
  BY <1>1, <1>3 DEF SizeOf, FixedSize
<1>4. CASE c.kind \in {"topk", "randomk"}
  <2>1. SizeOf(c, msg) = 2 * K(c) /\ FixedSize(c) = 2 * K(c)
    BY <1>4 DEF SizeOf, FixedSize
  <2> QED BY <1>1, <2>1
<1> QED BY <1>1, <1>2, <1>3, <1>4

\* What the cache holds of a key: the length asked for last, and the length that
\* travels, which is the same, or that of the last answer.
Steps == {"compress", "push", "pushed", "pull", "decompress", "done"}
CacheOf(w) ==
    /\ pskv[w].size = pskv[w].lens \/ pskv[w].size = setting.len
    /\ setting.kind # "dithering" => \/ pskv[w].size = pskv[w].lens
                                     \/ pskv[w].lens = FixedSize(setting)
    /\ stage[w] \in {"push", "pushed"} =>
          /\ SizeOf(setting, message[w]) \in Nat \ {0}
          /\ setting.kind # "dithering" => SizeOf(setting, message[w]) = FixedSize(setting)
    /\ stage[w] = "pushed" => pskv[w].size = SizeOf(setting, message[w])
Sizes ==
    /\ setting \in Settings /\ stage \in [Workers -> Steps]
    /\ pskv \in [Workers -> [size : Nat, lens : Nat]] /\ DOMAIN message = Workers
    /\ merged \in Nat
    /\ setting.kind # "dithering" /\ finished => merged = FixedSize(setting)
    /\ \A w \in Workers : CacheOf(w)

LEMMA InitSizes == ASSUME Init PROVE Sizes
BY CompressionAssumption DEF Init, Sizes, Steps, CacheOf

\* A step of one worker.
LEMMA SizesOfOne ==
    ASSUME Sizes, NEW w \in Workers, UNCHANGED <<setting, merged>>, finished' => finished,
           stage' \in [Workers -> Steps], pskv' \in [Workers -> [size : Nat, lens : Nat]],
           DOMAIN message' = Workers, CacheOf(w)',
           \A v \in Workers \ {w} : /\ stage'[v] = stage[v] /\ pskv'[v] = pskv[v]
                                    /\ message'[v] = message[v]
    PROVE  Sizes'
BY DEF Sizes, CacheOf

LEMMA StepKeepsSizes ==
    ASSUME BitsCounted, Sizes, NEW w \in Workers, Step(w)
    PROVE  Sizes'
<1>0. /\ setting \in Settings /\ stage \in [Workers -> Steps] /\ CacheOf(w) /\ merged \in Nat
      /\ pskv \in [Workers -> [size : Nat, lens : Nat]] /\ DOMAIN message = Workers
      /\ setting.len \in Nat \ {0}
  BY CompressionAssumption DEF Sizes
<1>1. ASSUME NEW check, Ends(check) PROVE Sizes'
  BY <1>1 DEF Ends, flagVars, serverVars, Sizes, CacheOf
<1>2. CASE Compress(w)
  <2>1. CASE Ends("k") \/ Ends("len")
    BY <1>1, <2>1
  <2>2. CASE ~(Ends("k") \/ Ends("len"))
    <3>1. PICK msg : /\ \E x : msg \in CompressImpl(setting, x)
                  /\ message' = [message EXCEPT ![w] = msg] /\ Goes(w, "push")
                  /\ UNCHANGED <<setting, pskv, serverVars, flagVars>>
      BY <1>2, <2>2 DEF Compress
    <3>2. /\ SizeOf(setting, msg) \in Nat \ {0}
          /\ setting.kind # "dithering" => SizeOf(setting, msg) = FixedSize(setting)
      BY <1>0, <3>1, SizeIsPositive
    <3>3. CacheOf(w)'
      BY <1>0, <3>1, <3>2 DEF Goes, CacheOf
    <3> QED BY <1>0, <3>1, <3>3, SizesOfOne DEF Goes, Steps, serverVars, flagVars
  <2> QED BY <2>1, <2>2
<1>3. CASE Push(w)
  <2> DEFINE len == SizeOf(setting, message[w])
  <2>1. /\ pskv' = [pskv EXCEPT ![w] = EncodeDefaultKey(@, len)] /\ Goes(w, "pushed")
        /\ UNCHANGED <<setting, message, serverVars, flagVars>> /\ stage[w] = "push"
    BY <1>3 DEF Push, Runs
  <2>2. len \in Nat \ {0} /\ (setting.kind # "dithering" => len = FixedSize(setting))
    BY <1>0, <2>1 DEF CacheOf
  <2> HIDE DEF len
  <2>3. EncodeDefaultKey(pskv[w], len) =
          IF pskv[w].size # len THEN [size |-> len, lens |-> len] ELSE pskv[w]
    BY <2>2 DEF EncodeDefaultKey
  <2>4. pskv'[w] \in [size : Nat, lens : Nat] /\ pskv'[w].size = len
    BY <1>0, <2>1, <2>2, <2>3
  <2>5. CacheOf(w)'
    BY <1>0, <2>1, <2>2, <2>3, <2>4 DEF Goes, CacheOf, len
  <2> QED BY <1>0, <2>1, <2>4, <2>5, SizesOfOne DEF Goes, Steps, serverVars, flagVars
<1>4. CASE Receive(w)
  <2>1. CASE Ends("lens")
    BY <1>1, <2>1
  <2>2. CASE ~Ends("lens")
    <3>1. Goes(w, "pull") /\ UNCHANGED <<setting, pskv, message, merged, flagVars>>
      BY <1>4, <2>2 DEF Receive
    <3>2. CacheOf(w)'
      BY <1>0, <3>1 DEF Goes, CacheOf
    <3> QED BY <1>0, <3>1, <3>2, SizesOfOne DEF Goes, Steps, flagVars
  <2> QED BY <2>1, <2>2
<1>5. CASE Pull(w)
  <2>1. CASE Ends("vals")
    BY <1>1, <2>1
  <2>2. CASE ~Ends("vals")
    <3> DEFINE kv == EncodeDefaultKey(pskv[w], setting.len)
    <3>1. /\ finished /\ (finished' => finished)
          /\ pskv' = [pskv EXCEPT ![w] = [EncodeDefaultKey(@, setting.len) EXCEPT !.lens = merged]]
          /\ message' = [message EXCEPT ![w] = buf] /\ Goes(w, "decompress")
          /\ UNCHANGED <<setting, serverVars>>
      BY <1>5, <2>2 DEF Pull, MayAnswer, CountPulls
    <3>2. kv \in [size : Nat, lens : Nat] /\ kv.size = setting.len
      BY <1>0 DEF EncodeDefaultKey
    <3>3. pskv'[w] = [kv EXCEPT !.lens = merged]
      BY <1>0, <3>1
    <3> HIDE DEF kv
    <3>4. pskv'[w] = [size |-> setting.len, lens |-> merged]
      BY <3>2, <3>3
    <3>5. setting.kind # "dithering" => merged = FixedSize(setting)
      BY <3>1 DEF Sizes
    <3>6. CacheOf(w)'
      BY <1>0, <3>1, <3>4, <3>5 DEF Goes, CacheOf
    <3>7. pskv'[w] \in [size : Nat, lens : Nat]
      BY <1>0, <3>4
    <3> QED BY <1>0, <3>1, <3>6, <3>7, SizesOfOne DEF Goes, Steps, serverVars
  <2> QED BY <2>1, <2>2
<1>6. CASE Decompress(w)
  <2>1. PICK s \in {"done", "compress"} : Goes(w, s)
    BY <1>6 DEF Decompress
  <2>2. UNCHANGED <<setting, pskv, message, serverVars, flagVars>>
    BY <1>6 DEF Decompress
  <2>3. CacheOf(w)'
    BY <1>0, <2>1, <2>2 DEF Goes, CacheOf
  <2> QED BY <1>0, <2>1, <2>2, <2>3, SizesOfOne DEF Goes, Steps, serverVars, flagVars
<1> QED BY <1>2, <1>3, <1>4, <1>5, <1>6 DEF Step

LEMMA NextKeepsSizes == ASSUME BitsCounted, Sizes, [Next]_vars PROVE Sizes'
<1>1. CASE UNCHANGED vars
  BY <1>1 DEF vars, serverVars, flagVars, Sizes, CacheOf
<1>2. CASE AllReceived
  <2>1. CASE Ends("_buf")
    BY <2>1 DEF Ends, flagVars, serverVars, Sizes, CacheOf
  <2>2. CASE ~Ends("_buf")
    <3>1. PICK msg : /\ \E x : msg \in CompressImpl(setting, x)
                  /\ merged' = SizeOf(setting, msg)
                  /\ UNCHANGED <<setting, stage, pskv, message>>
      BY <1>2, <2>2 DEF AllReceived
    <3>2. merged' \in Nat /\ (setting.kind # "dithering" => merged' = FixedSize(setting))
      BY <3>1, SizeIsPositive DEF Sizes
    <3> QED BY <3>1, <3>2 DEF Sizes, CacheOf
  <2> QED BY <2>1, <2>2
<1> QED BY <1>1, <1>2, StepKeepsSizes DEF Next, Quit

\* The length sent with a push is that of the message (global.cc:718-726), with
\* the one exception of dithering that is as long as the partition.
THEOREM LengthsSent ==
    ASSUME BitsCounted
    PROVE  Spec => []LengthsAgree
<1>1. Sizes => LengthsAgree
  BY DEF Sizes, CacheOf, LengthsAgree
<1> QED BY <1>1, InitSizes, NextKeepsSizes, PTL DEF Spec

-----------------------------------------------------------------------------
(* The compressors of a fixed size.                                        *)

\* The condition of FixedSizesFit.
WholeWords(c) ==
    /\ c.len % Packing = 0 /\ c.len > 2
    /\ c.kind \in {"topk", "randomk"} => 2 * c.num <= c.den
    /\ c.kind # "dithering"

LEMMA KIsSmall ==
    ASSUME NEW c \in Settings, WholeWords(c), c.kind \in {"topk", "randomk"}
    PROVE  2 * K(c) <= c.len
<1> DEFINE share == c.num * Align(c.len)
<1>1. {c.num, c.den, c.len} \subseteq Nat \ {0} /\ Align(c.len) = c.len
  BY CompressionAssumption, AlignAdds DEF WholeWords
<1>2. ~(c.num >= c.den) /\ share \in Nat /\ c.len > 2
  BY <1>1 DEF WholeWords
<1>3. 2 * share <= c.den * c.len
  <2>1. (c.den - 2 * c.num) * c.len \in Nat
    BY <1>1 DEF WholeWords
  <2>2. (c.den - 2 * c.num) * c.len = c.den * c.len - 2 * (c.num * c.len)
    BY <1>1
  <2> DEFINE p == c.den * c.len
             q == c.num * c.len
  <2>3. p \in Nat /\ q \in Nat /\ p - 2 * q \in Nat
    BY <1>1, <2>1, <2>2
  <2>4. share = q
    BY <1>1
  <2> HIDE DEF p, q, share
  <2>5. 2 * q <= p
    BY <2>3
  <2> QED BY <2>4, <2>5 DEF p
<1> HIDE DEF share
<1>4. K(c) = IF share < c.den THEN 1 ELSE share \div c.den
  BY <1>2 DEF K, share
<1>5. CASE share < c.den
  BY <1>1, <1>2, <1>4, <1>5
<1>6. CASE ~(share < c.den)
  <2> DEFINE k == share \div c.den
  <2>1. k \in Nat /\ k * c.den <= share
    BY <1>1, <1>2
  <2> HIDE DEF k
  <2>2. (2 * k) * c.den <= c.len * c.den
    <3> DEFINE p == k * c.den
               q == c.den * c.len
    <3>1. p \in Nat /\ q \in Nat /\ p <= share /\ 2 * share <= q
      BY <1>1, <1>3, <2>1
    <3>2. (2 * k) * c.den = 2 * p /\ c.len * c.den = q
      BY <1>1, <2>1
    <3> HIDE DEF p, q
    <3>3. 2 * p <= q
      BY <1>2, <3>1
    <3> QED BY <3>2, <3>3
  <2>3. ASSUME NEW x \in Nat, NEW y \in Nat, x > y
        PROVE  x * c.den > y * c.den
    <3>1. (x - y) * c.den \in Nat \ {0} /\ (x - y) * c.den = x * c.den - y * c.den
      BY <1>1, <2>3
    <3> DEFINE p == x * c.den
               q == y * c.den
    <3>2. p \in Nat /\ q \in Nat /\ p - q \in Nat \ {0}
      BY <1>1, <3>1
    <3> HIDE DEF p, q
    <3>3. p > q
      BY <3>2
    <3> QED BY <3>3 DEF p, q
  <2> DEFINE x == 2 * k
             p == x * c.den
             q == c.len * c.den
  <2>4. x \in Nat /\ p \in Nat /\ q \in Nat /\ p <= q /\ (x > c.len => p > q)
    BY <1>1, <2>1, <2>2, <2>3
  <2>5. x <= c.len
    <3> HIDE DEF x, p, q
    <3> QED BY <1>1, <2>4
  <2>6. K(c) = k
    BY <1>4, <1>6 DEF k
  <2> QED BY <2>5, <2>6
<1> QED BY <1>5, <1>6

LEMMA FixedSizeFits ==
    ASSUME NEW c \in Settings, WholeWords(c)
    PROVE  /\ KFits(c) /\ FixedSize(c) <= c.len /\ FixedSize(c) <= Align(c.len)
<1>1. c.len \in Nat \ {0} /\ Align(c.len) = c.len /\ c.len > 2 /\ Packing \in Nat /\ Packing >= 8
  BY CompressionAssumption, PackingAssumption, AlignAdds DEF WholeWords
<1>2. c.kind \in {"topk", "randomk", "onebit"}
  BY CompressionAssumption DEF WholeWords
<1>3. CASE c.kind \in {"topk", "randomk"}
  <2>1. 2 * K(c) <= c.len /\ K(c) \in Nat
    BY <1>3, KIsSmall, KIsPositive
  <2>2. K(c) <= c.len \div 2
    BY <1>1, <2>1
  <2> QED BY <1>1, <1>3, <2>1, <2>2 DEF KFits, FixedSize
<1>4. CASE c.kind = "onebit"
  <2>1. (c.len + Packing - 1) \div Packing + 1 <= c.len
    <3> DEFINE q == (c.len + Packing - 1) \div Packing
    <3>1. q \in Nat /\ q * Packing <= c.len + Packing - 1
      BY <1>1
    <3> HIDE DEF q
    <3>2. q * Packing >= q * 8
      <4>1. q * (Packing - 8) \in Nat /\ q * (Packing - 8) = q * Packing - q * 8
        BY <1>1, <3>1
      <4> DEFINE p == q * Packing
      <4>2. p \in Nat /\ p - q * 8 \in Nat
        BY <1>1, <3>1, <4>1
      <4> HIDE DEF p
      <4>3. p >= q * 8
        BY <3>1, <4>2
      <4> QED BY <4>3 DEF p
    <3>3. c.len >= Packing
      BY <1>1 DEF WholeWords
    <3> DEFINE p == q * Packing
    <3>4. p \in Nat /\ p >= q * 8 /\ p <= c.len + Packing - 1
      BY <1>1, <3>1, <3>2
    <3> HIDE DEF p
    <3>5. q + 1 <= c.len
      BY <1>1, <3>1, <3>3, <3>4
    <3> QED BY <3>5 DEF q
  <2> QED BY <1>1, <1>4, <2>1 DEF KFits, FixedSize, Words
<1> QED BY <1>2, <1>3, <1>4

Fits == WholeWords(setting) => aborted = "no"

LEMMA NextKeepsFits ==
    ASSUME BitsCounted, Sizes, Fits, [Next]_vars
    PROVE  Fits'
<1>1. setting \in Settings /\ UNCHANGED setting
  BY DEF Sizes, Next, Quit, AllReceived, Step, Compress, Push, Receive, Pull, Decompress, Ends, vars
<1>2. SUFFICES ASSUME WholeWords(setting)
               PROVE  UNCHANGED aborted
  BY <1>1 DEF Fits
<1>3. /\ setting.kind # "dithering" /\ KFits(setting)
      /\ FixedSize(setting) <= setting.len /\ FixedSize(setting) <= Align(setting.len)
  BY <1>1, <1>2, FixedSizeFits DEF WholeWords
<1>4. {setting.len, Align(setting.len), FixedSize(setting)} \subseteq Nat
  <2>1. setting.len \in Nat \ {0} /\ K(setting) \in Nat
    BY <1>1, CompressionAssumption, KIsPositive
  <2>2. Words(setting.len) \in Nat /\ Align(setting.len) \in Nat
    BY <2>1, AlignAdds, WordsIsNat
  <2> QED BY <2>1, <2>2 DEF FixedSize
<1>5. ASSUME NEW x, NEW msg \in CompressImpl(setting, x)
      PROVE  ~(SizeOf(setting, msg) > setting.len) /\ ~(SizeOf(setting, msg) > Align(setting.len))
  BY <1>1, <1>3, <1>4, <1>5, SizeIsPositive
<1>6. ASSUME NEW w \in Workers, Step(w)
      PROVE  UNCHANGED aborted
  <2>1. CASE Compress(w)
    BY <1>3, <1>5, <2>1 DEF Compress
  <2>2. CASE Push(w)
    BY <2>2 DEF Push
  <2>3. CASE Receive(w)
    <3>1. pskv[w].lens = SizeOf(setting, message[w])
      <4>1. stage[w] = "pushed"
        BY <2>3 DEF Receive, Runs
      <4> QED BY <1>3, <4>1 DEF Sizes, CacheOf
    <3> QED BY <2>3, <3>1 DEF Receive
  <2>4. CASE Pull(w)
    <3>1. finished
      BY <2>4 DEF Pull, MayAnswer
    <3>2. ~(merged > setting.len)
      BY <1>3, <1>4, <3>1 DEF Sizes
    <3> QED BY <2>4, <3>2 DEF Pull
  <2>5. CASE Decompress(w)
    BY <2>5 DEF Decompress
  <2> QED BY <1>6, <2>1, <2>2, <2>3, <2>4, <2>5 DEF Step
<1>7. CASE AllReceived
  BY <1>5, <1>7 DEF AllReceived
<1> QED BY <1>6, <1>7 DEF Next, Quit, vars

\* No check ends a process that compresses a partition of whole words to a fixed
\* size, at most one half, in any number of rounds (core_loops.cc:590, topk.cc:48,
\* randomk.cc:52): neither the worker's checks of the length and of k, nor the
\* server's of the length that was sent, nor ps-lite's of the answer.
THEOREM FixedSizesAlwaysFit ==
    ASSUME BitsCounted
    PROVE  Spec => []FixedSizesFit
<1>1. Fits => FixedSizesFit
  BY DEF Fits, WholeWords, FixedSizesFit
<1>2. Init => Fits
  BY DEF Init, Fits
<1> QED BY <1>1, <1>2, InitSizes, NextKeepsSizes, NextKeepsFits, PTL DEF Spec

=============================================================================
