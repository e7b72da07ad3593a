----------------------------- MODULE Filtering -----------------------------
(* A list comprehension: [x for x in s if ...].                            *)
EXTENDS Naturals, Sequences

\* What is kept of the first n elements.
KeptOf(s, K, n) ==
    LET kept[i \in 0 .. n] ==
          IF i = 0 THEN <<>>
          ELSE IF s[i] \in K THEN Append(kept[i - 1], s[i]) ELSE kept[i - 1]
    IN  kept[n]

\* The elements of s that are in K, in their order.
Kept(s, K) == KeptOf(s, K, Len(s))
============================================================================
