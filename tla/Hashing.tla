------------------------------- MODULE Hashing -------------------------------
(***************************************************************************)
(* How a worker chooses the server of a key: the hash functions of         *)
(* deep_inc/common/global.cc and their mixed mode.  A uint64_t that may    *)
(* overflow is a sequence of four limbs of 16 bits, the lowest first.      *)
(***************************************************************************)
EXTENDS Integers, Sequences

Base == 65536

\* The four limbs of a sum of limbs, modulo 2^64.
Carry(s) ==
    LET c1 == s[1] \div Base
        c2 == (s[2] + c1) \div Base
        c3 == (s[3] + c2) \div Base
    IN  <<s[1] % Base, (s[2] + c1) % Base, (s[3] + c2) % Base, (s[4] + c3) % Base>>

\* The remainder of a 64-bit number; m < 2^15.
Remainder(h, m) ==
    (((((((h[4] % m) * Base) + h[3]) % m) * Base + h[2]) % m) * Base + h[1]) % m

\* The characters of std::to_string(key), the last one first.
Characters(key) ==
    LET d[k \in 0..key] == IF k < 10 THEN <<48 + k>> ELSE <<48 + (k % 10)>> \o d[k \div 10]
    IN  d[key]

\* The 64-bit value after all the characters, from h with one step for each.
Word == [1..4 -> 0..Base - 1]
Absorb(step, h, key) ==
    LET s == Characters(key)
        value[i \in 0..Len(s)] ==
            IF i = 0 THEN h ELSE step[value[i - 1], s[Len(s) + 1 - i]]
    IN  value[Len(s)]

\* ((hash << 5) + hash) + c
Djb2Step == [h \in Word, c \in 48..57 |->
                Carry(<<33 * h[1] + c, 33 * h[2], 33 * h[3], 33 * h[4]>>)]

\* c + (hash << 6) + (hash << 16) - hash
SdbmStep == [h \in Word, c \in 48..57 |->
    Carry(<<63 * h[1] + c, 63 * h[2] + h[1], 63 * h[3] + h[2], 63 * h[4] + h[3]>>)]

Hash_DJB2(key, m) == Remainder(Absorb(Djb2Step, <<5381, 0, 0, 0>>, key), m)
Hash_SDBM(key, m) == Remainder(Absorb(SdbmStep, <<0, 0, 0, 0>>, key), m)
Hash_Naive(key, m) == (((key \div Base) + (key % Base)) * 9973) % m

-----------------------------------------------------------------------------
(* Mixed mode: the first servers are on machines of their own, the others  *)
(* beside a worker.                                                        *)

\* BYTEPS_MIXED_MODE_BOUND.
Bound == 101

\* The numerator and the denominator of ratio, for b servers on machines of
\* their own.
Numerator(a, b) == 2 * b * (a - 1)
Denominator(a, b) == a * (a + b) - 2 * b

\* The checks that 0 <= ratio <= 1.  The number b is unsigned in the code: less
\* servers than workers make it, and the ratio, huge.  With one worker the
\* numerator is 0, and the denominator 0 or, being unsigned, huge.
RatioBelowOne(a, b) ==
    b >= 0 /\ Denominator(a, b) # 0
           /\ (Denominator(a, b) > 0 => Numerator(a, b) < Denominator(a, b))
RatioPermitted(a, b) ==
    b >= 0 /\ Denominator(a, b) # 0
           /\ (Denominator(a, b) > 0 => Numerator(a, b) <= Denominator(a, b))

Hash_Mixed_Mode(key, workers, servers) ==
    LET b == servers - workers
        r == Hash_DJB2(key, Bound)
    IN  IF /\ Numerator(workers, b) > 0
           /\ r * Denominator(workers, b) < Numerator(workers, b) * Bound
        THEN Hash_DJB2(r, b)
        ELSE b + Hash_DJB2(r, workers)

=============================================================================
