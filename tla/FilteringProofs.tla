--------------------------- MODULE FilteringProofs ---------------------------
(****************************************************************************)
(* Proofs about Filtering: what a list comprehension returns, and what it   *)
(* has in common with the list it was taken from, for any list.             *)
(****************************************************************************)
EXTENDS Filtering, WellFoundedInduction, SequenceTheorems, TLAPS

\* Every set of natural numbers that is not empty has a least element.
LEMMA Least ==
    ASSUME NEW T, T \subseteq Nat, T # {}
    PROVE  \E x \in T : \A y \in T : x <= y
<1> DEFINE R == {ss \in Nat \X Nat : ss[1] < ss[2]}
<1>1. IsWellFoundedOn(R, Nat)
  <2>1. IsWellFoundedOn(OpToRel(<,Nat), Nat)
    BY NatLessThanWellFounded
  <2>2. OpToRel(<,Nat) = R
    BY DEF OpToRel
  <2> QED
    BY <2>1, <2>2
<1>2. PICK x \in T : \A y \in T : ~(<<y, x>> \in R)
  BY <1>1, WFMin
<1>3. ASSUME NEW y \in T PROVE x <= y
  <2>1. x \in Nat /\ y \in Nat /\ ~(y < x)
    BY <1>2
  <2> QED
    BY <2>1
<1> QED
  BY <1>3

\* Induction: a set of natural numbers with 0 and with each successor is all.
LEMMA Induction ==
    ASSUME NEW T, T \subseteq Nat, 0 \in T, \A n \in Nat : n \in T => n + 1 \in T
    PROVE  T = Nat
<1> SUFFICES ASSUME Nat \ T # {} PROVE FALSE
  OBVIOUS
<1>1. PICK x \in Nat \ T : \A y \in Nat \ T : x <= y
  BY Least
<1>2. x # 0 /\ x - 1 \in Nat /\ x - 1 \in T
  BY <1>1
<1>3. x - 1 + 1 = x
  BY <1>1
<1> QED
  BY <1>1, <1>2, <1>3

\* The function that the comprehension follows.
Collects(f, s, K, n) ==
    /\ f = [i \in 0 .. n |-> f[i]] /\ f[0] = <<>>
    /\ \A i \in 1 .. n : f[i] = IF s[i] \in K THEN Append(f[i - 1], s[i]) ELSE f[i - 1]

LEMMA FollowerExists ==
    ASSUME NEW s, NEW K, NEW n \in Nat
    PROVE  \E f : Collects(f, s, K, n)
<1> DEFINE T == {m \in Nat : \E f : Collects(f, s, K, m)}
<1>1. 0 \in T
  <2>1. Collects([i \in 0 .. 0 |-> <<>>], s, K, 0)
    BY DEF Collects
  <2> QED
    BY <2>1
<1>2. ASSUME NEW m \in Nat, m \in T PROVE m + 1 \in T
  <2>1. PICK f : Collects(f, s, K, m)
    BY <1>2
  <2> DEFINE g == [i \in 0 .. m + 1 |->
                     IF i <= m THEN f[i]
                     ELSE IF s[i] \in K THEN Append(f[i - 1], s[i]) ELSE f[i - 1]]
  <2>2. g = [i \in 0 .. m + 1 |-> g[i]] /\ g[0] = <<>>
    BY <2>1 DEF Collects
  <2>3. ASSUME NEW i \in 1 .. m + 1
        PROVE  g[i] = IF s[i] \in K THEN Append(g[i - 1], s[i]) ELSE g[i - 1]
    <3>1. i - 1 \in 0 .. m /\ i - 1 <= m /\ g[i - 1] = f[i - 1]
      OBVIOUS
    <3>2. CASE i <= m
      <4>1. i \in 1 .. m /\ g[i] = f[i]
        BY <3>2
      <4> QED
        BY <2>1, <3>1, <4>1 DEF Collects
    <3>3. CASE i = m + 1
      BY <3>1, <3>3
    <3> QED
      BY <3>2, <3>3
  <2> HIDE DEF g
  <2>4. Collects(g, s, K, m + 1)
    BY <2>2, <2>3 DEF Collects
  <2> QED
    BY <2>4
<1>3. T = Nat
  <2> HIDE DEF T
  <2>1. T \subseteq Nat
    BY DEF T
  <2> QED
    BY <1>1, <1>2, <2>1, Induction
<1> QED
  BY <1>3

LEMMA KeptIsFollowed ==
    ASSUME NEW s, NEW K, NEW n \in Nat
    PROVE  \E f : Collects(f, s, K, n) /\ KeptOf(s, K, n) = f[n]
<1> DEFINE Grow(f) == [i \in 0 .. n |->
                 IF i = 0 THEN <<>>
                 ELSE IF s[i] \in K THEN Append(f[i - 1], s[i]) ELSE f[i - 1]]
           keeper == CHOOSE f : f = Grow(f)
<1>1. PICK g : Collects(g, s, K, n)
  BY FollowerExists
<1>2. g = Grow(g)
  <2>1. ASSUME NEW i \in 0 .. n
        PROVE  g[i] = IF i = 0 THEN <<>>
                      ELSE IF s[i] \in K THEN Append(g[i - 1], s[i]) ELSE g[i - 1]
    <3>1. i = 0 \/ i \in 1 .. n
      OBVIOUS
    <3> QED
      BY <1>1, <3>1 DEF Collects
  <2>2. g = [i \in 0 .. n |-> g[i]]
    BY <1>1 DEF Collects
  <2> QED
    BY <2>1, <2>2
<1>3. keeper = Grow(keeper)
  BY <1>2
<1>4. Collects(keeper, s, K, n)
  <2> HIDE DEF keeper
  <2>1. keeper = [i \in 0 .. n |-> keeper[i]] /\ keeper[0] = <<>>
    BY <1>3
  <2>2. ASSUME NEW i \in 1 .. n
        PROVE  keeper[i] = IF s[i] \in K THEN Append(keeper[i - 1], s[i]) ELSE keeper[i - 1]
    <3>1. i \in 0 .. n /\ i # 0
      OBVIOUS
    <3> QED
      BY <1>3, <3>1
  <2> QED
    BY <2>1, <2>2 DEF Collects
<1>5. KeptOf(s, K, n) = keeper[n]
  BY DEF KeptOf
<1> QED
  BY <1>4, <1>5

\* t holds those of the first n elements of s that are in K, in their order: the
\* k-th is at g[k] in s.
Embeds(g, t, s, K, n) ==
    /\ g \in [1 .. Len(t) -> 1 .. n]
    /\ \A k \in 1 .. Len(t) : t[k] = s[g[k]] /\ s[g[k]] \in K
    /\ \A k, l \in 1 .. Len(t) : k < l => g[k] < g[l]
    /\ \A i \in 1 .. n : s[i] \in K => \E k \in 1 .. Len(t) : g[k] = i

LEMMA EmbeddingGrows ==
    ASSUME NEW S, NEW s \in Seq(S), NEW K, NEW n \in Nat, n + 1 \in 1 .. Len(s),
           NEW t \in Seq(S), NEW g, Embeds(g, t, s, K, n)
    PROVE  IF s[n + 1] \in K
           THEN \E h : Embeds(h, Append(t, s[n + 1]), s, K, n + 1)
           ELSE Embeds(g, t, s, K, n + 1)
<1>1. CASE s[n + 1] \notin K
  <2>1. g \in [1 .. Len(t) -> 1 .. n + 1]
    BY DEF Embeds
  <2>2. ASSUME NEW i \in 1 .. n + 1, s[i] \in K
        PROVE  \E k \in 1 .. Len(t) : g[k] = i
    <3>1. i \in 1 .. n
      BY <1>1, <2>2
    <3> QED
      BY <2>2, <3>1 DEF Embeds
  <2> QED
    BY <1>1, <2>1, <2>2 DEF Embeds
<1>2. CASE s[n + 1] \in K
  <2> DEFINE u == Append(t, s[n + 1])
             h == [k \in 1 .. Len(u) |-> IF k <= Len(t) THEN g[k] ELSE n + 1]
  <2>1. /\ u \in Seq(S) /\ Len(u) = Len(t) + 1 /\ Len(t) \in Nat
        /\ u[Len(t) + 1] = s[n + 1] /\ \A k \in 1 .. Len(t) : u[k] = t[k]
    OBVIOUS
  <2> HIDE DEF u
  <2>2. ASSUME NEW k \in 1 .. Len(u)
        PROVE  \/ k \in 1 .. Len(t) /\ h[k] = g[k] /\ g[k] \in 1 .. n /\ u[k] = t[k]
               \/ k = Len(t) + 1 /\ h[k] = n + 1 /\ u[k] = s[n + 1]
    <3>1. CASE k <= Len(t)
      <4>1. k \in 1 .. Len(t)
        BY <2>1, <3>1
      <4> QED
        BY <2>1, <3>1, <4>1 DEF Embeds
    <3>2. CASE k = Len(t) + 1
      BY <2>1, <3>2
    <3> QED
      BY <2>1, <3>1, <3>2
  <2>3. h \in [1 .. Len(u) -> 1 .. n + 1]
    <3>1. \A k \in 1 .. Len(u) : h[k] \in 1 .. n + 1
      BY <2>2
    <3> QED
      BY <3>1
  <2> HIDE DEF h
  <2>4. \A k \in 1 .. Len(u) : u[k] = s[h[k]] /\ s[h[k]] \in K
    BY <1>2, <2>2 DEF Embeds
  <2>5. ASSUME NEW k \in 1 .. Len(u), NEW l \in 1 .. Len(u), k < l
        PROVE  h[k] < h[l]
    <3>1. k \in 1 .. Len(t) /\ h[k] = g[k] /\ g[k] \in 1 .. n
      BY <2>1, <2>2, <2>5
    <3>2. CASE l \in 1 .. Len(t) /\ h[l] = g[l]
      BY <2>5, <3>1, <3>2 DEF Embeds
    <3>3. CASE h[l] = n + 1
      BY <3>1, <3>3
    <3> QED
      BY <2>2, <3>2, <3>3
  <2>6. ASSUME NEW i \in 1 .. n + 1, s[i] \in K
        PROVE  \E k \in 1 .. Len(u) : h[k] = i
    <3>1. CASE i \in 1 .. n
      <4>1. PICK k \in 1 .. Len(t) : g[k] = i
        BY <2>6, <3>1 DEF Embeds
      <4>2. k \in 1 .. Len(u) /\ k # Len(t) + 1
        BY <2>1
      <4> QED
        BY <2>2, <4>1, <4>2
    <3>2. CASE i = n + 1
      <4>1. Len(t) + 1 \in 1 .. Len(u)
        BY <2>1
      <4>2. h[Len(t) + 1] = n + 1
        BY <2>1, <2>2, <4>1
      <4> QED
        BY <3>2, <4>1, <4>2
    <3> QED
      BY <3>1, <3>2
  <2>7. Embeds(h, u, s, K, n + 1)
    BY <2>3, <2>4, <2>5, <2>6 DEF Embeds
  <2> QED
    BY <1>2, <2>7 DEF u
<1> QED
  BY <1>1, <1>2

\* What a comprehension returns, whatever the list and the condition.
LEMMA KeptEmbeds ==
    ASSUME NEW S, NEW s \in Seq(S), NEW K
    PROVE  /\ Kept(s, K) \in Seq(S)
           /\ \E g : Embeds(g, Kept(s, K), s, K, Len(s))
<1>1. PICK f : Collects(f, s, K, Len(s)) /\ Kept(s, K) = f[Len(s)]
  BY KeptIsFollowed DEF Kept
<1> DEFINE P(n) == f[n] \in Seq(S) /\ \E g : Embeds(g, f[n], s, K, n)
           T == {n \in Nat : n <= Len(s) => P(n)}
<1>2. 0 \in T
  <2>1. f[0] = <<>>
    BY <1>1 DEF Collects
  <2>2. Embeds([k \in 1 .. 0 |-> 1], <<>>, s, K, 0)
    BY DEF Embeds
  <2>3. <<>> \in Seq(S)
    OBVIOUS
  <2>4. P(0)
    BY <2>1, <2>2, <2>3
  <2> HIDE DEF P
  <2> QED
    BY <2>4
<1>3. ASSUME NEW n \in Nat, n \in T PROVE n + 1 \in T
  <2> SUFFICES ASSUME n + 1 <= Len(s) PROVE P(n + 1)
    OBVIOUS
  <2>1. f[n] \in Seq(S) /\ n + 1 \in 1 .. Len(s)
    BY <1>3
  <2>2. PICK g : Embeds(g, f[n], s, K, n)
    BY <1>3
  <2>3. f[n + 1] = IF s[n + 1] \in K THEN Append(f[n], s[n + 1]) ELSE f[n]
    <3>1. f[n + 1] = IF s[n + 1] \in K THEN Append(f[n + 1 - 1], s[n + 1]) ELSE f[n + 1 - 1]
      BY <1>1, <2>1 DEF Collects
    <3>2. n + 1 - 1 = n
      OBVIOUS
    <3> QED
      BY <3>1, <3>2
  <2>4. s[n + 1] \in S
    BY <2>1
  <2>5. CASE s[n + 1] \in K
    <3>1. \E h : Embeds(h, Append(f[n], s[n + 1]), s, K, n + 1)
      BY <2>1, <2>2, <2>5, EmbeddingGrows
    <3>2. Append(f[n], s[n + 1]) \in Seq(S)
      BY <2>1, <2>4
    <3> QED
      BY <2>3, <2>5, <3>1, <3>2
  <2>6. CASE s[n + 1] \notin K
    <3>1. Embeds(g, f[n], s, K, n + 1)
      BY <2>1, <2>2, <2>6, EmbeddingGrows
    <3> QED
      BY <2>1, <2>3, <2>6, <3>1
  <2> QED
    BY <2>5, <2>6
<1>4. T = Nat
  <2> HIDE DEF T
  <2>1. T \subseteq Nat
    BY DEF T
  <2> QED
    BY <1>2, <1>3, <2>1, Induction
<1>5. Len(s) \in Nat /\ Len(s) \in T
  BY <1>4
<1> QED
  BY <1>1, <1>5

\* Nothing else is in what is kept, and nothing that belongs there is missing.
LEMMA KeptElements ==
    ASSUME NEW S, NEW s \in Seq(S), NEW K
    PROVE  /\ Kept(s, K) \in Seq(S)
           /\ Len(Kept(s, K)) \in Nat
           /\ \A k \in 1 .. Len(Kept(s, K)) :
                 Kept(s, K)[k] \in K /\ \E i \in 1 .. Len(s) : s[i] = Kept(s, K)[k]
           /\ \A i \in 1 .. Len(s) :
                 s[i] \in K => \E k \in 1 .. Len(Kept(s, K)) : Kept(s, K)[k] = s[i]
<1>1. Kept(s, K) \in Seq(S)
  BY KeptEmbeds
<1>2. PICK g : Embeds(g, Kept(s, K), s, K, Len(s))
  BY KeptEmbeds
<1> QED
  BY <1>1, <1>2 DEF Embeds

\* Leaving out elements behind the n-th leaves the first n where they are.
LEMMA KeptStart ==
    ASSUME NEW S, NEW s \in Seq(S), NEW K, NEW n \in Nat, n <= Len(s),
           \A i \in 1 .. n : s[i] \in K
    PROVE  n <= Len(Kept(s, K)) /\ \A i \in 1 .. n : Kept(s, K)[i] = s[i]
<1> DEFINE t == Kept(s, K)
<1>1. t \in Seq(S) /\ Len(t) \in Nat /\ Len(s) \in Nat
  BY KeptEmbeds
<1>2. PICK g : Embeds(g, t, s, K, Len(s))
  BY KeptEmbeds
<1> HIDE DEF t
<1>3. /\ \A k \in 1 .. Len(t) : g[k] \in 1 .. Len(s) /\ t[k] = s[g[k]]
      /\ \A j, k \in 1 .. Len(t) : j < k => g[j] < g[k]
      /\ \A i \in 1 .. Len(s) : s[i] \in K => \E k \in 1 .. Len(t) : g[k] = i
  BY <1>2 DEF Embeds
<1> DEFINE P(m) == m <= Len(t) /\ \A i \in 1 .. m : g[i] = i
           T == {m \in Nat : m <= n => P(m)}
<1>4. 0 \in T
  BY <1>1
<1>5. ASSUME NEW m \in Nat, m \in T PROVE m + 1 \in T
  <2> SUFFICES ASSUME m + 1 <= n PROVE P(m + 1)
    OBVIOUS
  <2>1. P(m) /\ m + 1 \in 1 .. n /\ m + 1 \in 1 .. Len(s)
    BY <1>1, <1>5
  <2>2. PICK k \in 1 .. Len(t) : g[k] = m + 1
    BY <1>3, <2>1
  <2>3. ~(k <= m)
    BY <2>1, <2>2
  <2>4. m + 1 \in 1 .. Len(t)
    BY <1>1, <2>3
  <2>5. g[m + 1] \in 1 .. Len(s)
    BY <1>3, <2>4
  <2>6. g[m + 1] >= m + 1
    <3>1. CASE m = 0
      BY <1>1, <2>5, <3>1
    <3>2. CASE m # 0
      <4>1. m \in 1 .. Len(t) /\ m < m + 1 /\ m \in 1 .. m
        BY <1>1, <2>1, <3>2
      <4>2. g[m] < g[m + 1] /\ g[m] = m
        BY <1>3, <2>1, <2>4, <4>1
      <4> QED
        BY <1>1, <2>5, <4>2
    <3> QED
      BY <3>1, <3>2
  <2>7. k = m + 1
    <3>1. ~(m + 1 < k)
      <4> SUFFICES ASSUME m + 1 < k PROVE FALSE
        OBVIOUS
      <4>1. g[m + 1] < g[k]
        BY <1>3, <2>4
      <4> QED
        BY <1>1, <2>2, <2>5, <2>6, <4>1
    <3> QED
      BY <1>1, <2>3, <3>1
  <2>8. g[m + 1] = m + 1
    BY <2>2, <2>7
  <2> QED
    BY <1>1, <2>1, <2>4, <2>8
<1>6. T = Nat
  BY <1>4, <1>5, Induction
<1>7. P(n)
  BY <1>6
<1>8. \A i \in 1 .. n : i \in 1 .. Len(t) /\ t[i] = s[i]
  BY <1>1, <1>3, <1>7
<1> QED
  BY <1>7, <1>8 DEF t

\* Nothing is left out of a list whose elements all belong.
LEMMA KeptWhole ==
    ASSUME NEW S, NEW s \in Seq(S), NEW K, \A i \in 1 .. Len(s) : s[i] \in K
    PROVE  Kept(s, K) = s
<1> DEFINE t == Kept(s, K)
<1>1. t \in Seq(S) /\ Len(t) \in Nat /\ Len(s) \in Nat
  BY KeptEmbeds
<1>2. Len(s) <= Len(t) /\ \A i \in 1 .. Len(s) : t[i] = s[i]
  BY <1>1, KeptStart
<1>3. PICK g : Embeds(g, t, s, K, Len(s))
  BY KeptEmbeds
<1> HIDE DEF t
<1>4. /\ \A k \in 1 .. Len(t) : g[k] \in 1 .. Len(s)
      /\ \A j, k \in 1 .. Len(t) : j < k => g[j] < g[k]
  BY <1>3 DEF Embeds
<1> DEFINE T == {m \in Nat : m \in 1 .. Len(t) => m <= g[m]}
<1>5. T = Nat
  <2>1. ASSUME NEW m \in Nat, m \in T PROVE m + 1 \in T
    <3> SUFFICES ASSUME m + 1 \in 1 .. Len(t) PROVE m + 1 <= g[m + 1]
      OBVIOUS
    <3>1. g[m + 1] \in 1 .. Len(s)
      BY <1>4
    <3>2. CASE m = 0
      BY <1>1, <3>1, <3>2
    <3>3. CASE m # 0
      <4>1. m \in 1 .. Len(t) /\ m < m + 1
        BY <1>1, <3>3
      <4>2. m <= g[m] /\ g[m] < g[m + 1] /\ g[m] \in 1 .. Len(s)
        BY <1>4, <2>1, <4>1
      <4> QED
        BY <1>1, <3>1, <4>2
    <3> QED
      BY <3>2, <3>3
  <2>2. 0 \in T /\ T \subseteq Nat
    OBVIOUS
  <2> HIDE DEF T
  <2> QED
    BY <2>1, <2>2, Induction
<1>6. Len(t) = Len(s)
  <2>1. CASE Len(t) = 0
    BY <1>1, <1>2, <2>1
  <2>2. CASE Len(t) # 0
    <3>1. Len(t) \in 1 .. Len(t) /\ Len(t) \in T
      BY <1>1, <1>5, <2>2
    <3>2. Len(t) <= g[Len(t)] /\ g[Len(t)] \in 1 .. Len(s)
      BY <1>4, <3>1
    <3> QED
      BY <1>1, <1>2, <3>2
  <2> QED
    BY <2>1, <2>2
<1>7. t = s
  BY <1>1, <1>2, <1>6, SeqEqual
<1> QED
  BY <1>7 DEF t
==============================================================================
