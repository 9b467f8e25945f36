---------------------------- MODULE MCCompression ----------------------------
(* The compressors at a word of eight bits: partitions of one element, of  *)
(* a part of a word, and of a whole word.                                  *)
EXTENDS CompressionProperties, TLC

CONSTANTS w1, w2

Off == [kind |-> "topk", scaled |-> FALSE, num |-> 1, den |-> 4, levels |-> 2,
        natural |-> FALSE, l2 |-> FALSE, ef |-> FALSE, momentum |-> FALSE, len |-> 4]

Topk == {[Off EXCEPT !.num = n, !.len = l] : n \in {1, 2, 5}, l \in {1, 2, 6, 8}}
Randomk == {[Off EXCEPT !.kind = "randomk", !.den = 8, !.len = 3]}
Onebit == {[Off EXCEPT !.kind = "onebit", !.scaled = s, !.len = l] :
             s \in BOOLEAN, l \in {1, 2, 6, 8}}
Dithering ==
    {[Off EXCEPT !.kind = "dithering"],
     [Off EXCEPT !.kind = "dithering", !.natural = TRUE, !.len = 6],
     [Off EXCEPT !.kind = "dithering", !.levels = 8, !.len = 8]}
DitheringL2 == {[Off EXCEPT !.kind = "dithering", !.natural = n, !.l2 = TRUE,
                            !.levels = 1, !.len = 3] : n \in BOOLEAN}

\* Momentum comes before the compressor, so two of them are enough for it; and
\* one norm is enough for the errors of dithering.
MCSettings == {[k EXCEPT !.ef = e, !.momentum = m] :
                 k \in Topk \cup Onebit, e \in BOOLEAN, m \in BOOLEAN}
              \cup {[k EXCEPT !.ef = e] : k \in Randomk \cup Dithering, e \in BOOLEAN}
              \cup DitheringL2

MCGradients == (w1 :> {<<16, 0, -32, 0, 0, 0, 0, 0>>, <<-8, 16, 8, 0, 32, 0, 0, 0>>})
            @@ (w2 :> {<<0, 0, 16, -32, 0, 16, -32, 16>>})

MCRates == [r \in 0..3 |-> IF r < 2 THEN 2 ELSE 1]
MCServerRates == [r \in 0..3 |-> IF r < 2 THEN 4 ELSE 2]

=============================================================================
