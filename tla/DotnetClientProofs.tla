------------------------- MODULE DotnetClientProofs -------------------------
(***************************************************************************)
(* Proofs about DotnetClient, for every size, policy, group, severity and  *)
(* number of runs: the books, the bounds, the order, the breaker and the   *)
(* journal (Contract), and what a FlushAsync() that answers true has       *)
(* settled (FlushTrue).                                                    *)
(*                                                                         *)
(* Sequences come first, then the moves of the queue and of the file; then *)
(* one part of the inductive invariant Ind after the other, each with one  *)
(* case per action; then what follows from it.                             *)
(***************************************************************************)
EXTENDS DotnetClient, FiniteSetTheorems, WellFoundedInduction, TLAPS

-------------------------------------------------------------------------------
(* Sequences.                                                              *)

\* A nonempty set of natural numbers has a least one: of the intervals up to its
\* members, one contains no other.
LEMMA First ==
    ASSUME NEW C \in SUBSET Nat, C # {}
    PROVE  \E n \in C : \A m \in C : n <= m
<1>1. PICK c \in C : TRUE
  OBVIOUS
<1> DEFINE I == {0..m : m \in {k \in C : k <= c}}
<1>2. I \in SUBSET FiniteSubsetsOf(0..c)
  <2>1. IsFiniteSet(0..c)
    BY FS_Interval
  <2>2. FiniteSubsetsOf(0..c) = SUBSET (0..c)
    BY <2>1, FS_FiniteSubsetsOfFinite
  <2>3. \A m \in C : m <= c => 0..m \in SUBSET (0..c)
    OBVIOUS
  <2> QED
    BY <2>2, <2>3
<1>3. 0..c \in I
  OBVIOUS
<1>4. PICK T \in I : \A U \in I : <<U, T>> \notin StrictSubsetOrdering(0..c)
  <2> HIDE DEF I
  <2> QED
    BY <1>2, <1>3, FS_StrictSubsetOrderingWellFounded, WFMin
<1>5. PICK n \in C : n <= c /\ T = 0..n
  BY <1>4
<1>6. ASSUME NEW m \in C, ~ (n <= m)
      PROVE  FALSE
  <2>1. m <= c /\ 0..m \in I
    BY <1>5, <1>6
  <2>2. 0..m \subseteq 0..n /\ n \in 0..n /\ n \notin 0..m
    BY <1>6
  <2>3. 0..m \in SUBSET (0..c) /\ 0..n \in SUBSET (0..c)
    BY <1>5, <2>1
  <2> QED
    BY <1>4, <1>5, <2>1, <2>2, <2>3 DEF StrictSubsetOrdering
<1> QED
  BY <1>6

\* A nonempty bounded set of natural numbers has a greatest one: the first of the bounds.
LEMMA Greatest ==
    ASSUME NEW b \in Nat
    PROVE  \A C \in SUBSET (0..b) : C # {} => \E n \in C : \A m \in C : m <= n
<1> SUFFICES ASSUME NEW C \in SUBSET (0..b), C # {}
             PROVE  \E n \in C : \A m \in C : m <= n
  OBVIOUS
<1> DEFINE D == {b - n : n \in C}
<1>1. D \in SUBSET Nat /\ D # {}
  <2>1. \A n \in C : n \in Nat /\ b - n \in Nat
    OBVIOUS
  <2> HIDE DEF D
  <2>2. D # {}
    BY DEF D
  <2>3. \A m \in D : m \in Nat
    BY <2>1 DEF D
  <2> QED BY <2>2, <2>3
<1>2. PICK d \in D : \A m \in D : d <= m
  <2> HIDE DEF D
  <2> QED BY <1>1, First
<1>3. PICK n \in C : d = b - n
  BY <1>2
<1>4. ASSUME NEW m \in C PROVE m <= n
  <2>1. b - m \in D
    OBVIOUS
  <2>2. d <= b - m
    BY <1>2, <2>1
  <2> QED BY <1>3, <2>2
<1> QED BY <1>4

\* What the watermark becomes.
LEMMA HighestIs ==
    ASSUME DotnetAssumption, NEW s \in Seq(Entry), NEW since \in 0..MaxId
    PROVE  /\ Highest(s, since) \in {since} \cup ToSet(s) /\ Highest(s, since) \in 0..MaxId
           /\ \A e \in {since} \cup ToSet(s) : e <= Highest(s, since)
<1>0. Highest(s, since) = CHOOSE n \in {since} \cup ToSet(s) : \A m \in {since} \cup ToSet(s) : m <= n
  BY DEF Highest
<1> DEFINE C == {since} \cup ToSet(s)
<1>1. MaxId \in Nat
  BY DEF DotnetAssumption
<1>2. C \in SUBSET (0..MaxId) /\ C # {}
  BY <1>1 DEF ToSet, Entry
<1>3. \E n \in C : \A m \in C : m <= n
  <2> HIDE DEF C
  <2> QED BY <1>1, <1>2, Greatest
<1> DEFINE h == CHOOSE n \in C : \A m \in C : m <= n
<1>4. h \in C /\ \A m \in C : m <= h
  <2> HIDE DEF C
  <2> QED BY <1>3
<1>5. h = Highest(s, since)
  BY <1>0
<1> HIDE DEF h
<1> QED BY <1>2, <1>4, <1>5

\* g holds what is picked of the first n, for each n up to N.
Keeps(g, s, S, N) ==
    g = [n \in 0..N |->
          IF n = 0 THEN <<>>
          ELSE IF s[n] \in S THEN Append(g[n - 1], s[n]) ELSE g[n - 1]]

\* Picked() is defined by a function on prefixes; there is one.
LEMMA KeepsExist ==
    ASSUME NEW s, NEW S
    PROVE  \A N \in Nat : \E g : Keeps(g, s, S, N)
<1> DEFINE C == {N \in Nat : ~ \E g : Keeps(g, s, S, N)}
<1> SUFFICES ASSUME C # {} PROVE FALSE
  OBVIOUS
<1>1. PICK N \in C : \A m \in C : N <= m
  <2>1. C \in SUBSET Nat
    OBVIOUS
  <2> HIDE DEF C
  <2> QED
    BY <2>1, First
<1>2. N # 0
  <2> DEFINE g == [n \in 0..0 |-> <<>>]
  <2>1. Keeps(g, s, S, 0)
    BY DEF Keeps
  <2> QED
    BY <2>1
<1>3. PICK g : Keeps(g, s, S, N - 1)
  BY <1>1, <1>2
<1> DEFINE value(n, f) == IF n = 0 THEN <<>>
                          ELSE IF s[n] \in S THEN Append(f[n - 1], s[n]) ELSE f[n - 1]
           h == [n \in 0..N |-> value(n, g)]
<1>4. ASSUME NEW n \in 0..N
      PROVE  h[n] = value(n, h)
  <2>1. CASE n = 0
    BY <2>1
  <2>2. CASE n # 0
    <3>1. n - 1 \in 0..(N - 1) /\ n - 1 \in 0..N
      BY <2>2
    <3>2. g[n - 1] = value(n - 1, g)
      BY <1>3, <3>1 DEF Keeps
    <3>3. h[n - 1] = g[n - 1]
      BY <3>1, <3>2
    <3> QED
      BY <2>2, <3>3
  <2> QED
    BY <2>1, <2>2
<1>5. Keeps(h, s, S, N)
  <2> DEFINE again == [n \in 0..N |-> value(n, h)]
  <2>1. h = again
    <3> HIDE DEF value
    <3> QED
      BY <1>4
  <2> QED
    BY <2>1 DEF Keeps
<1> QED
  BY <1>1, <1>5

\* Picked() takes its value from such a function.
LEMMA PickedKeeps ==
    ASSUME NEW s, NEW S, Len(s) \in Nat
    PROVE  \E g : Keeps(g, s, S, Len(s)) /\ Picked(s, S) = g[Len(s)]
<1> DEFINE g == CHOOSE f : Keeps(f, s, S, Len(s))
<1>1. Keeps(g, s, S, Len(s))
  BY KeepsExist
<1>2. Picked(s, S) = g[Len(s)]
  BY DEF Picked, Keeps
<1> QED
  BY <1>1, <1>2

\* What Append() adds.
LEMMA AppendedSet ==
    ASSUME NEW T, NEW s \in Seq(T), NEW e \in T
    PROVE  /\ Append(s, e) \in Seq(T) /\ Len(Append(s, e)) = Len(s) + 1
           /\ ToSet(Append(s, e)) = ToSet(s) \cup {e}
<1> DEFINE q == Append(s, e)
<1>1. /\ DOMAIN s = 1..Len(s) /\ DOMAIN q = 1..(Len(s) + 1) /\ Len(s) \in Nat
      /\ \A i \in 1..Len(s) : q[i] = s[i]
      /\ q[Len(s) + 1] = e /\ q \in Seq(T) /\ Len(q) = Len(s) + 1
  OBVIOUS
<1> HIDE DEF q
<1>2. ToSet(q) \subseteq ToSet(s) \cup {e}
  BY <1>1 DEF ToSet
<1>3. ToSet(s) \cup {e} \subseteq ToSet(q)
  BY <1>1 DEF ToSet
<1> QED
  BY <1>1, <1>2, <1>3 DEF q

Increasing(s) == \A i, j \in 1..Len(s) : i < j => s[i] < s[j]

\* A newer entry at the end keeps the order.
LEMMA AppendIncreases ==
    ASSUME NEW s \in Seq(Entry), NEW e \in Entry, Increasing(s), \A x \in ToSet(s) : x < e
    PROVE  Increasing(Append(s, e))
<1> DEFINE q == Append(s, e)
<1>1. /\ Len(q) = Len(s) + 1 /\ Len(s) \in Nat /\ q[Len(s) + 1] = e
      /\ \A i \in 1..Len(s) : q[i] = s[i] /\ s[i] \in ToSet(s)
  BY DEF ToSet
<1> HIDE DEF q
<1>2. Increasing(q)
  <2> SUFFICES ASSUME NEW i \in 1..Len(q), NEW j \in 1..Len(q), i < j PROVE q[i] < q[j]
    BY DEF Increasing
  <2>1. i \in 1..Len(s)
    BY <1>1
  <2>2. CASE j \in 1..Len(s)
    BY <1>1, <2>1, <2>2 DEF Increasing
  <2>3. CASE j = Len(s) + 1
    BY <1>1, <2>1, <2>3
  <2> QED BY <1>1, <2>2, <2>3
<1> QED BY <1>2 DEF q

\* What is picked of a sequence is its entries in S, in their order; the rest is
\* what is picked of the others.
LEMMA PickedIs ==
    ASSUME DotnetAssumption, NEW s \in Seq(Entry), NEW S
    PROVE  /\ Picked(s, S) \in Seq(Entry) /\ Len(Picked(s, S)) \in Nat
           /\ ToSet(Picked(s, S)) = ToSet(s) \cap S
           /\ Increasing(s) => Increasing(Picked(s, S))
           /\ Len(Picked(s, S)) + Len(Picked(s, Entry \ S)) = Len(s)
<1> DEFINE upTo(n) == {s[i] : i \in 1..n}
           Claim(n, p, q) ==
              /\ p \in Seq(Entry) /\ q \in Seq(Entry) /\ Len(p) + Len(q) = n
              /\ ToSet(p) = upTo(n) \cap S
              /\ Increasing(s) => Increasing(p)
<1>0. MaxId \in Nat /\ Entry \subseteq Nat
  BY DEF DotnetAssumption, Entry
<1>1. PICK g : Keeps(g, s, S, Len(s)) /\ Picked(s, S) = g[Len(s)]
  BY PickedKeeps
<1>2. PICK h : Keeps(h, s, Entry \ S, Len(s)) /\ Picked(s, Entry \ S) = h[Len(s)]
  BY PickedKeeps
<1> DEFINE C == {n \in 0..Len(s) : ~ Claim(n, g[n], h[n])}
<1>3. C = {}
  <2> SUFFICES ASSUME C # {} PROVE FALSE
    OBVIOUS
  <2>1. PICK n \in C : \A m \in C : n <= m
    <3>1. C \in SUBSET Nat
      <4> HIDE DEF Claim
      <4> QED OBVIOUS
    <3> HIDE DEF C
    <3> QED
      BY <3>1, First
  <2>2. CASE n = 0
    <3>1. g[0] = <<>> /\ h[0] = <<>>
      BY <1>1, <1>2 DEF Keeps
    <3>2. ToSet(<<>>) = {} /\ upTo(0) = {}
      <4>1. DOMAIN <<>> = {} /\ 1..0 = {}
        OBVIOUS
      <4> QED
        BY <4>1 DEF ToSet
    <3>3. <<>> \in Seq(Entry) /\ Len(<<>>) = 0
      OBVIOUS
    <3>4. Increasing(<<>>)
      BY <3>3 DEF Increasing
    <3>5. Claim(0, <<>>, <<>>)
      BY <3>2, <3>3, <3>4
    <3> HIDE DEF Claim
    <3> QED
      BY <2>1, <2>2, <3>1, <3>5
  <2>3. CASE n # 0
    <3>1. n \in 1..Len(s) /\ n - 1 \in 0..Len(s) /\ s[n] \in Entry
      BY <2>1, <2>3
    <3>2. Claim(n - 1, g[n - 1], h[n - 1])
      <4> HIDE DEF Claim
      <4> QED
        BY <2>1, <3>1
    <3>3. g[n] = IF s[n] \in S THEN Append(g[n - 1], s[n]) ELSE g[n - 1]
      BY <1>1, <2>3, <3>1 DEF Keeps
    <3>4. h[n] = IF s[n] \in S THEN h[n - 1] ELSE Append(h[n - 1], s[n])
      BY <1>2, <2>3, <3>1 DEF Keeps
    <3>5. upTo(n) = upTo(n - 1) \cup {s[n]}
      BY <3>1
    <3>6. Increasing(s) => \A x \in upTo(n - 1) : x < s[n]
      BY <3>1 DEF Increasing
    <3> DEFINE p == g[n - 1]
               q == h[n - 1]
               e == s[n]
    <3>7. /\ p \in Seq(Entry) /\ q \in Seq(Entry) /\ Len(p) + Len(q) = n - 1
          /\ ToSet(p) = upTo(n - 1) \cap S /\ (Increasing(s) => Increasing(p))
      BY <3>2
    <3>8. e \in Entry /\ n \in Nat /\ Len(p) \in Nat /\ Len(q) \in Nat
      BY <3>1, <3>7
    <3>9. CASE e \in S
      <4>1. g[n] = Append(p, e) /\ h[n] = q /\ upTo(n) = upTo(n - 1) \cup {e}
        BY <3>3, <3>4, <3>5, <3>9
      <4>2. Increasing(s) => \A x \in upTo(n - 1) : x < e
        BY <3>6
      <4> HIDE DEF upTo, p, q, e
      <4>3. Append(p, e) \in Seq(Entry) /\ Len(Append(p, e)) = Len(p) + 1
            /\ ToSet(Append(p, e)) = ToSet(p) \cup {e}
        BY <3>7, <3>8, AppendedSet
      <4>4. Increasing(s) => Increasing(Append(p, e))
        BY <3>7, <3>8, <4>2, AppendIncreases
      <4>5. Len(Append(p, e)) + Len(q) = n
        BY <3>7, <3>8, <4>3
      <4>6. ToSet(Append(p, e)) = upTo(n) \cap S
        BY <3>7, <3>9, <4>1, <4>3
      <4>7. Claim(n, g[n], h[n])
        BY <3>7, <4>1, <4>3, <4>4, <4>5, <4>6
      <4> QED
        BY <2>1, <4>7
    <3>10. CASE e \notin S
      <4>1. g[n] = p /\ h[n] = Append(q, e) /\ upTo(n) = upTo(n - 1) \cup {e}
        BY <3>3, <3>4, <3>5, <3>10
      <4> HIDE DEF upTo, p, q, e
      <4>3. Append(q, e) \in Seq(Entry) /\ Len(Append(q, e)) = Len(q) + 1
        BY <3>7, <3>8, AppendedSet
      <4>5. Len(p) + Len(Append(q, e)) = n
        BY <3>7, <3>8, <4>3
      <4>6. ToSet(p) = upTo(n) \cap S
        BY <3>7, <3>10, <4>1
      <4>7. Claim(n, g[n], h[n])
        BY <3>7, <4>1, <4>3, <4>5, <4>6
      <4> QED
        BY <2>1, <4>7
    <3> QED
      BY <3>9, <3>10
  <2> HIDE DEF C
  <2> QED
    BY <2>2, <2>3
<1>4. Claim(Len(s), Picked(s, S), Picked(s, Entry \ S))
  <2> HIDE DEF Claim
  <2>1. Len(s) \in 0..Len(s)
    OBVIOUS
  <2>2. Claim(Len(s), g[Len(s)], h[Len(s)])
    BY <1>3, <2>1
  <2> QED BY <1>1, <1>2, <2>2
<1>5. upTo(Len(s)) = ToSet(s)
  BY DEF ToSet
<1> HIDE DEF upTo
<1>6. Picked(s, S) \in Seq(Entry) /\ Len(Picked(s, S)) \in Nat
  BY <1>4
<1> QED
  BY <1>4, <1>5, <1>6

\* The newest n of a sequence are its tail, and what they leave out is older.
LEMMA NewestIs ==
    ASSUME NEW s \in Seq(Entry), NEW n \in Nat
    PROVE  /\ Newest(n, s) \in Seq(Entry) /\ Len(Newest(n, s)) \in Nat
           /\ Len(Newest(n, s)) <= n /\ Len(Newest(n, s)) <= Len(s) /\ Len(s) \in Nat
           /\ Len(s) <= n => Newest(n, s) = s
           /\ Len(s) > n => Len(Newest(n, s)) = n
           /\ \A i \in 1..Len(Newest(n, s)) : Newest(n, s)[i] = s[i + (Len(s) - Len(Newest(n, s)))]
  <1> DEFINE r == Newest(n, s)
  <1>0. Len(s) \in Nat
    OBVIOUS
  <1>1. CASE Len(s) <= n
    <2>1. r = s
      BY <1>1 DEF Newest
    <2> HIDE DEF r
    <2>2. \A i \in 1..Len(r) : i + (Len(s) - Len(r)) = i
      BY <1>0, <2>1
    <2>3. \A i \in 1..Len(r) : r[i] = s[i + (Len(s) - Len(r))]
      BY <2>1, <2>2
    <2> QED BY <1>0, <1>1, <2>1, <2>3 DEF r
  <1>2. CASE Len(s) > n
    <2> DEFINE q == SubSeq(s, Len(s) - n + 1, Len(s))
    <2>1. r = q
      BY <1>0, <1>2 DEF Newest
    <2>2. q \in Seq(Entry) /\ Len(q) = n
      BY <1>2
    <2>3. \A i \in 1..n : q[i] = s[i + (Len(s) - n)]
      BY <1>2
    <2> HIDE DEF q, r
    <2> QED BY <1>0, <2>1, <2>2, <2>3, <1>2 DEF r
  <1> QED BY <1>0, <1>1, <1>2

\* A tail of a sequence in order.
LEMMA TailIs ==
    ASSUME DotnetAssumption, NEW s \in Seq(Entry), NEW r \in Seq(Entry), NEW lost \in Nat,
           Len(r) = Len(s) - lost, \A i \in 1..Len(r) : r[i] = s[i + lost]
    PROVE  /\ ToSet(r) \subseteq ToSet(s)
           /\ Increasing(s) => /\ Increasing(r)
                               /\ \A x \in ToSet(s) \ ToSet(r), y \in ToSet(r) : x < y
  <1>0. Len(s) \in Nat /\ Len(r) \in Nat
    OBVIOUS
  <1>1. \A i \in 1..Len(r) : i + lost \in 1..Len(s)
    BY <1>0
  <1>2. ToSet(r) \subseteq ToSet(s)
    <2>1. DOMAIN r = 1..Len(r) /\ DOMAIN s = 1..Len(s)
      OBVIOUS
    <2> QED BY <1>1, <2>1 DEF ToSet
  <1>3. ASSUME Increasing(s) PROVE Increasing(r)
    <2> SUFFICES ASSUME NEW i \in 1..Len(r), NEW j \in 1..Len(r), i < j PROVE r[i] < r[j]
      BY DEF Increasing
    <2>1. i + lost \in 1..Len(s) /\ j + lost \in 1..Len(s) /\ i + lost < j + lost
      BY <1>1
    <2>2. s[i + lost] < s[j + lost]
      BY <1>3, <2>1 DEF Increasing
    <2> QED BY <2>2
  <1>4. ASSUME Increasing(s), NEW x \in ToSet(s) \ ToSet(r), NEW y \in ToSet(r) PROVE x < y
    <2>1. PICK i \in 1..Len(s) : x = s[i]
      BY DEF ToSet
    <2>2. PICK j \in 1..Len(r) : y = r[j]
      BY DEF ToSet
    <2>3. i <= lost
      <3> SUFFICES ASSUME ~(i <= lost) PROVE FALSE
        OBVIOUS
      <3>1. i - lost \in 1..Len(r) /\ (i - lost) + lost = i
        BY <1>0
      <3>2. r[i - lost] = s[i]
        BY <3>1
      <3> QED BY <2>1, <3>1, <3>2 DEF ToSet
    <2>4. j + lost \in 1..Len(s) /\ i < j + lost /\ y = s[j + lost]
      BY <1>1, <2>2, <2>3
    <2> QED BY <1>4, <2>1, <2>4 DEF Increasing
  <1> QED BY <1>2, <1>3, <1>4

\* The newest of a sequence in order: what is dropped is older.
LEMMA NewestSets ==
    ASSUME DotnetAssumption, NEW s \in Seq(Entry), NEW n \in Nat
    PROVE  /\ ToSet(Newest(n, s)) \subseteq ToSet(s)
           /\ Increasing(s) => /\ Increasing(Newest(n, s))
                               /\ \A x \in ToSet(s) \ ToSet(Newest(n, s)), y \in ToSet(Newest(n, s)) : x < y
  <1> DEFINE r == Newest(n, s)
  <1>1. /\ r \in Seq(Entry) /\ Len(r) \in Nat /\ Len(r) <= Len(s) /\ Len(s) \in Nat
        /\ \A i \in 1..Len(r) : r[i] = s[i + (Len(s) - Len(r))]
    BY NewestIs
  <1> HIDE DEF r
  <1>2. Len(s) - Len(r) \in Nat
    BY <1>1
  <1>3. PICK lost \in Nat : lost = Len(s) - Len(r)
    BY <1>2, Zenon
  <1>4. Len(r) = Len(s) - lost
    BY <1>1, <1>3
  <1>5. \A i \in 1..Len(r) : r[i] = s[i + lost]
    BY <1>1, <1>3
  <1>6. /\ ToSet(r) \subseteq ToSet(s)
        /\ Increasing(s) => /\ Increasing(r)
                            /\ \A x \in ToSet(s) \ ToSet(r), y \in ToSet(r) : x < y
    BY <1>1, <1>4, <1>5, TailIs
  <1> QED BY <1>6 DEF r

\* A concatenation, and when it is in order.
LEMMA JoinIs ==
    ASSUME DotnetAssumption, NEW s \in Seq(Entry), NEW t \in Seq(Entry)
    PROVE  /\ s \o t \in Seq(Entry) /\ Len(s \o t) = Len(s) + Len(t)
           /\ ToSet(s \o t) = ToSet(s) \cup ToSet(t)
           /\ \A i \in 1..Len(s \o t) : (s \o t)[i] = IF i <= Len(s) THEN s[i] ELSE t[i - Len(s)]
           /\ Increasing(s) /\ Increasing(t) /\ (\A x \in ToSet(s), y \in ToSet(t) : x < y)
                 => Increasing(s \o t)
  <1> DEFINE q == s \o t
  <1>1. /\ q \in Seq(Entry) /\ Len(q) = Len(s) + Len(t) /\ Len(s) \in Nat /\ Len(t) \in Nat
        /\ \A i \in 1..Len(q) : q[i] = IF i <= Len(s) THEN s[i] ELSE t[i - Len(s)]
    OBVIOUS
  <1> HIDE DEF q
  <1>2. \A i \in 1..Len(q) : (i <= Len(s) /\ i \in 1..Len(s)) \/ (~(i <= Len(s)) /\ i - Len(s) \in 1..Len(t))
    BY <1>1
  <1>0. DOMAIN q = 1..Len(q) /\ DOMAIN s = 1..Len(s) /\ DOMAIN t = 1..Len(t)
    BY <1>1
  <1>3. ToSet(q) \subseteq ToSet(s) \cup ToSet(t)
    BY <1>0, <1>1, <1>2 DEF ToSet
  <1>4. \A i \in 1..Len(s) : i \in 1..Len(q) /\ q[i] = s[i]
    BY <1>1
  <1>5. \A i \in 1..Len(t) : i + Len(s) \in 1..Len(q) /\ q[i + Len(s)] = t[i]
    <2> TAKE i \in 1..Len(t)
    <2>1. i + Len(s) \in 1..Len(q) /\ ~(i + Len(s) <= Len(s)) /\ (i + Len(s)) - Len(s) = i
      BY <1>1
    <2> QED BY <1>1, <2>1
  <1>6. ToSet(s) \cup ToSet(t) \subseteq ToSet(q)
    <2>1. ToSet(s) \subseteq ToSet(q)
      BY <1>0, <1>4 DEF ToSet
    <2>2. ToSet(t) \subseteq ToSet(q)
      BY <1>0, <1>5 DEF ToSet
    <2> QED BY <2>1, <2>2
  <1>7. ASSUME Increasing(s), Increasing(t), \A x \in ToSet(s), y \in ToSet(t) : x < y
        PROVE  Increasing(q)
    <2> SUFFICES ASSUME NEW i \in 1..Len(q), NEW j \in 1..Len(q), i < j PROVE q[i] < q[j]
      BY DEF Increasing
    <2>1. CASE j <= Len(s)
      <3>1. i \in 1..Len(s) /\ j \in 1..Len(s) /\ q[i] = s[i] /\ q[j] = s[j]
        BY <1>1, <1>4, <2>1
      <3> QED BY <1>7, <3>1 DEF Increasing
    <2>2. CASE ~(j <= Len(s)) /\ i <= Len(s)
      <3>1. /\ i \in 1..Len(s) /\ j - Len(s) \in 1..Len(t) /\ q[i] = s[i] /\ q[j] = t[j - Len(s)]
        BY <1>1, <1>2, <2>2
      <3>2. s[i] \in ToSet(s) /\ t[j - Len(s)] \in ToSet(t)
        BY <3>1 DEF ToSet
      <3> QED BY <1>7, <3>1, <3>2
    <2>3. CASE ~(j <= Len(s)) /\ ~(i <= Len(s))
      <3>1. /\ i - Len(s) \in 1..Len(t) /\ j - Len(s) \in 1..Len(t) /\ i - Len(s) < j - Len(s)
            /\ q[i] = t[i - Len(s)] /\ q[j] = t[j - Len(s)]
        BY <1>1, <1>2, <2>3
      <3> QED BY <1>7, <3>1 DEF Increasing
    <2> QED BY <2>1, <2>2, <2>3
  <1> QED BY <1>1, <1>3, <1>6, <1>7 DEF q

\* The empty queue holds nothing.
LEMMA EmptySet == ToSet(<<>>) = {}
  BY DEF ToSet

\* Entries are numbers, and only an empty queue holds none.
LEMMA OfEntries ==
    ASSUME DotnetAssumption, NEW s \in Seq(Entry)
    PROVE  ToSet(s) \subseteq Entry /\ Entry \subseteq Nat /\ (s = <<>> <=> ToSet(s) = {})
  <1>1. MaxId \in Nat
    BY DEF DotnetAssumption
  <1>2. ToSet(s) \subseteq Entry /\ Entry \subseteq Nat
    BY <1>1 DEF ToSet, Entry
  <1>3. s # <<>> => s[1] \in ToSet(s)
    BY DEF ToSet
  <1> QED BY <1>2, <1>3, EmptySet

-------------------------------------------------------------------------------
(* The moves of the queue.                                                 *)

\* DropOldestEntryLocked() keeps the newest MaxQueued and drops Overflow.
LEMMA KeptIs ==
    ASSUME DotnetAssumption, NEW q \in Seq(Entry)
    PROVE  /\ Kept(q) \in Seq(Entry) /\ Len(Kept(q)) \in Nat /\ Len(Kept(q)) <= MaxQueued
           /\ Overflow(q) \in Nat /\ Len(q) \in Nat /\ Len(Kept(q)) + Overflow(q) = Len(q)
           /\ Overflow(q) > 0 => Len(Kept(q)) = MaxQueued
           /\ Overflow(q) = 0 => Kept(q) = q
           /\ \A i \in 1..Len(Kept(q)) : Kept(q)[i] = q[i + Overflow(q)]
           /\ ToSet(Kept(q)) \subseteq ToSet(q)
           /\ Increasing(q) => /\ Increasing(Kept(q))
                               /\ \A x \in ToSet(q) \ ToSet(Kept(q)), y \in ToSet(Kept(q)) : x < y
  <1> DEFINE r == Newest(MaxQueued, q)
  <1>1. MaxQueued \in Nat
    BY DEF DotnetAssumption
  <1>2. /\ r \in Seq(Entry) /\ Len(r) \in Nat /\ Len(r) <= MaxQueued /\ Len(r) <= Len(q) /\ Len(q) \in Nat
        /\ Len(q) <= MaxQueued => r = q
        /\ Len(q) > MaxQueued => Len(r) = MaxQueued
        /\ \A i \in 1..Len(r) : r[i] = q[i + (Len(q) - Len(r))]
    BY <1>1, NewestIs
  <1>3. /\ ToSet(r) \subseteq ToSet(q)
        /\ Increasing(q) => /\ Increasing(r)
                            /\ \A x \in ToSet(q) \ ToSet(r), y \in ToSet(r) : x < y
    BY <1>1, NewestSets
  <1>4. Kept(q) = r /\ Overflow(q) = Len(q) - Len(r)
    BY DEF Kept, Overflow
  <1> HIDE DEF r
  <1>5. Len(q) - Len(r) \in Nat /\ Len(r) + (Len(q) - Len(r)) = Len(q)
        /\ (Len(q) - Len(r) > 0 => Len(r) = MaxQueued)
        /\ (Len(q) - Len(r) = 0 => r = q)
    BY <1>1, <1>2
  <1> QED BY <1>2, <1>3, <1>4, <1>5

\* The queue is q without its oldest, and nothing is dropped unless it is full.
Moved(q, more) ==
    \E lost \in Nat :
       /\ queue' \in Seq(Entry) /\ Len(queue') \in Nat /\ Len(queue') <= MaxQueued
       /\ Len(queue') + lost = Len(q)
       /\ lost > 0 => Len(queue') = MaxQueued
       /\ lost = 0 => queue' = q
       /\ \A i \in 1..Len(queue') : queue'[i] = q[i + lost]
       /\ UNCHANGED marked /\ ahead' = (IF marked THEN Fewer(ahead + more, lost) ELSE 0)
       /\ count' = [count EXCEPT !.overflow = @ + lost]

OldestGo(q) ==
    /\ ToSet(queue') \subseteq ToSet(q)
    /\ Increasing(q) => /\ Increasing(queue')
                        /\ \A x \in ToSet(q) \ ToSet(queue'), y \in ToSet(queue') : x < y

\* Requeued() moves the entries of q up, over what overflows.
LEMMA RequeuedMoves ==
    ASSUME DotnetAssumption, NEW STATE q, NEW STATE more, q \in Seq(Entry), Requeued(q, more)
    PROVE  Moved(q, more) /\ OldestGo(q)
  <1>1. /\ queue' = Kept(q) /\ ahead' = (IF marked THEN Fewer(ahead + more, Overflow(q)) ELSE 0)
        /\ count' = [count EXCEPT !.overflow = @ + Overflow(q)] /\ UNCHANGED marked
    BY DEF Requeued
  <1> DEFINE k == Kept(q)
             lost == Overflow(q)
  <1>2. /\ k \in Seq(Entry) /\ Len(k) \in Nat /\ Len(k) <= MaxQueued
        /\ lost \in Nat /\ Len(k) + lost = Len(q)
        /\ lost > 0 => Len(k) = MaxQueued
        /\ lost = 0 => k = q
        /\ \A i \in 1..Len(k) : k[i] = q[i + lost]
    BY KeptIs
  <1>3. /\ ToSet(k) \subseteq ToSet(q)
        /\ Increasing(q) => Increasing(k) /\ \A x \in ToSet(q) \ ToSet(k), y \in ToSet(k) : x < y
    BY KeptIs
  <1>4. queue' = k /\ ahead' = (IF marked THEN Fewer(ahead + more, lost) ELSE 0)
        /\ count' = [count EXCEPT !.overflow = @ + lost] /\ UNCHANGED marked
    BY <1>1
  <1> HIDE DEF k, lost
  <1>5. OldestGo(q)
    BY <1>3, <1>4 DEF OldestGo
  <1>6. Moved(q, more)
    BY <1>2, <1>4 DEF Moved
  <1> QED BY <1>5, <1>6

\* Log puts its entry behind the queue ...
LEMMA EnqueueMoves ==
    ASSUME DotnetAssumption, TypeOK, Enqueue
    PROVE  /\ recording \in Entry /\ Append(queue, recording) \in Seq(Entry)
           /\ Moved(Append(queue, recording), 0) /\ OldestGo(Append(queue, recording))
  <1>1. recording \in 0..MaxId /\ queue \in Seq(Entry)
    BY DEF TypeOK
  <1>2. recording # 0 /\ Requeued(Append(queue, recording), 0)
    BY DEF Enqueue
  <1>3. MaxId \in Nat
    BY DEF DotnetAssumption
  <1>4. recording \in Entry
    BY <1>1, <1>2, <1>3 DEF Entry
  <1>5. Append(queue, recording) \in Seq(Entry)
    BY <1>1, <1>4
  <1> QED BY <1>2, <1>4, <1>5, RequeuedMoves

\* ... and a failed request puts what was out in front of it.
LEMMA FailedMoves ==
    ASSUME DotnetAssumption, TypeOK, Failed
    PROVE  /\ Held \in Seq(Entry) /\ Moved(Held, Len(out)) /\ OldestGo(Held)
  <1>1. out \in Seq(Entry) /\ queue \in Seq(Entry)
    BY DEF TypeOK
  <1>2. Requeued(Held, Len(out))
    BY DEF Failed
  <1>3. Held \in Seq(Entry)
    BY <1>1 DEF Held
  <1> QED BY <1>2, <1>3, RequeuedMoves

\* A batch is the oldest of the queue.
LEMMA SplitIs ==
    ASSUME DotnetAssumption, NEW s \in Seq(Entry), NEW n \in 0..Len(s)
    PROVE  /\ SubSeq(s, 1, n) \in Seq(Entry) /\ Len(SubSeq(s, 1, n)) = n
           /\ SubSeq(s, n + 1, Len(s)) \in Seq(Entry) /\ Len(SubSeq(s, n + 1, Len(s))) = Len(s) - n
           /\ \A i \in 1..n : SubSeq(s, 1, n)[i] = s[i]
           /\ \A i \in 1..(Len(s) - n) : SubSeq(s, n + 1, Len(s))[i] = s[i + n]
           /\ ToSet(s) = ToSet(SubSeq(s, 1, n)) \cup ToSet(SubSeq(s, n + 1, Len(s)))
           /\ Increasing(s) =>
                 /\ Increasing(SubSeq(s, 1, n)) /\ Increasing(SubSeq(s, n + 1, Len(s)))
                 /\ \A x \in ToSet(SubSeq(s, 1, n)), y \in ToSet(SubSeq(s, n + 1, Len(s))) : x < y
  <1> DEFINE a == SubSeq(s, 1, n)
             b == SubSeq(s, n + 1, Len(s))
             k == Len(s)
  <1>1. k \in Nat /\ n \in Nat /\ n <= k
    OBVIOUS
  <1>2. a \in Seq(Entry) /\ Len(a) = n /\ \A i \in 1..n : a[i] = s[i]
    OBVIOUS
  <1>3. b \in Seq(Entry) /\ Len(b) = k - n /\ \A i \in 1..(k - n) : b[i] = s[i + n]
    OBVIOUS
  <1>4. DOMAIN s = 1..k /\ DOMAIN a = 1..n /\ DOMAIN b = 1..(k - n)
    BY <1>2, <1>3
  <1>5. Increasing(s) <=> \A i, j \in 1..k : i < j => s[i] < s[j]
    BY DEF Increasing
  <1> HIDE DEF a, b, k
  <1>6. \A i \in 1..n : i \in 1..k
    BY <1>1
  <1>7. \A i \in 1..(k - n) : i + n \in 1..k
    BY <1>1
  <1>8. ToSet(s) = ToSet(a) \cup ToSet(b)
    <2>1. ToSet(a) \subseteq ToSet(s)
      BY <1>2, <1>4, <1>6 DEF ToSet
    <2>2. ToSet(b) \subseteq ToSet(s)
      BY <1>3, <1>4, <1>7 DEF ToSet
    <2>3. \A i \in 1..k : i \in 1..n \/ (i - n \in 1..(k - n) /\ (i - n) + n = i)
      BY <1>1
    <2>4. ToSet(s) \subseteq ToSet(a) \cup ToSet(b)
      <3> SUFFICES ASSUME NEW i \in 1..k PROVE s[i] \in ToSet(a) \cup ToSet(b)
        BY <1>4 DEF ToSet
      <3>1. CASE i \in 1..n
        BY <1>2, <1>4, <3>1 DEF ToSet
      <3>2. CASE i - n \in 1..(k - n) /\ (i - n) + n = i
        <4>1. b[i - n] = s[i]
          BY <1>3, <3>2
        <4> QED BY <1>4, <3>2, <4>1 DEF ToSet
      <3> QED BY <2>3, <3>1, <3>2
    <2> QED BY <2>1, <2>2, <2>4
  <1>9. ASSUME Increasing(s) PROVE Increasing(a)
    BY <1>1, <1>2, <1>5, <1>6, <1>9 DEF Increasing
  <1>10. ASSUME Increasing(s) PROVE Increasing(b)
    <2> SUFFICES ASSUME NEW i \in 1..(k - n), NEW j \in 1..(k - n), i < j PROVE b[i] < b[j]
      BY <1>3 DEF Increasing
    <2>1. i + n \in 1..k /\ j + n \in 1..k /\ i + n < j + n
      BY <1>1, <1>7
    <2> QED BY <1>3, <1>5, <1>10, <2>1
  <1>11. ASSUME Increasing(s), NEW x \in ToSet(a), NEW y \in ToSet(b) PROVE x < y
    <2>1. PICK i \in 1..n : x = a[i]
      BY <1>4 DEF ToSet
    <2>2. PICK j \in 1..(k - n) : y = b[j]
      BY <1>4 DEF ToSet
    <2>3. i \in 1..k /\ j + n \in 1..k /\ i < j + n
      BY <1>1, <1>6, <1>7
    <2> QED BY <1>2, <1>3, <1>5, <1>11, <2>1, <2>2, <2>3
  <1> QED BY <1>2, <1>3, <1>8, <1>9, <1>10, <1>11 DEF a, b, k

\* A drain splits the queue.
LEMMA DrainMoves ==
    ASSUME DotnetAssumption, TypeOK, Drain
    PROVE  /\ \E n \in Nat :
                 /\ n <= MaxBatch /\ n <= Len(queue) /\ Len(queue) \in Nat
                 /\ Len(out') = n /\ Len(queue') = Len(queue) - n
                 /\ \A i \in 1..Len(queue') : queue'[i] = queue[i + n]
                 /\ pass' = (IF n = 0 THEN "finish" ELSE "posting")
                 /\ carried' = (marked /\ ahead <= n) /\ marked' = (marked /\ ahead > n)
                 /\ ahead' = Fewer(ahead, n)
           /\ out' \in Seq(Entry) /\ queue' \in Seq(Entry)
           /\ ToSet(queue) = ToSet(out') \cup ToSet(queue')
           /\ Increasing(queue) => /\ Increasing(out') /\ Increasing(queue')
                                   /\ \A x \in ToSet(out'), y \in ToSet(queue') : x < y
  <1> DEFINE n == IF Count < MaxBatch THEN Count ELSE MaxBatch
  <1>1. queue \in Seq(Entry)
    BY DEF TypeOK
  <1>2. /\ out' = SubSeq(queue, 1, n) /\ queue' = SubSeq(queue, n + 1, Len(queue))
        /\ carried' = (marked /\ ahead <= n) /\ marked' = (marked /\ ahead > n)
        /\ ahead' = Fewer(ahead, n) /\ pass' = (IF n = 0 THEN "finish" ELSE "posting")
    BY DEF Drain, Count
  <1>3. MaxBatch \in Nat
    BY DEF DotnetAssumption
  <1>4. n \in Nat /\ n <= MaxBatch /\ n <= Len(queue) /\ Len(queue) \in Nat /\ n \in 0..Len(queue)
    BY <1>1, <1>3 DEF Count
  <1> HIDE DEF n
  <1> DEFINE a == SubSeq(queue, 1, n)
             b == SubSeq(queue, n + 1, Len(queue))
  <1>5. /\ a \in Seq(Entry) /\ Len(a) = n /\ b \in Seq(Entry) /\ Len(b) = Len(queue) - n
        /\ \A i \in 1..(Len(queue) - n) : b[i] = queue[i + n]
        /\ ToSet(queue) = ToSet(a) \cup ToSet(b)
        /\ Increasing(queue) => /\ Increasing(a) /\ Increasing(b)
                                /\ \A x \in ToSet(a), y \in ToSet(b) : x < y
    BY <1>1, <1>4, SplitIs
  <1>6. out' = a /\ queue' = b
    BY <1>2
  <1> HIDE DEF a, b
  <1>7. /\ n \in Nat /\ n <= MaxBatch /\ n <= Len(queue) /\ Len(queue) \in Nat
        /\ Len(out') = n /\ Len(queue') = Len(queue) - n
        /\ \A i \in 1..Len(queue') : queue'[i] = queue[i + n]
        /\ pass' = (IF n = 0 THEN "finish" ELSE "posting")
        /\ carried' = (marked /\ ahead <= n) /\ marked' = (marked /\ ahead > n)
        /\ ahead' = Fewer(ahead, n)
    BY <1>2, <1>4, <1>5, <1>6
  <1>8. /\ out' \in Seq(Entry) /\ queue' \in Seq(Entry)
        /\ ToSet(queue) = ToSet(out') \cup ToSet(queue')
        /\ Increasing(queue) => /\ Increasing(out') /\ Increasing(queue')
                                /\ \A x \in ToSet(out'), y \in ToSet(queue') : x < y
    BY <1>5, <1>6
  <1> QED BY <1>7, <1>8, Zenon

\* A request that is settled takes its entries, and leaves the others in order.
LEMMA SettledIs ==
    ASSUME DotnetAssumption, TypeOK
    PROVE  /\ Rest \in Seq(Entry) /\ Len(Rest) \in Nat /\ Len(Batch) \in Nat /\ Len(out) \in Nat
           /\ Len(Rest) + Len(Batch) = Len(out)
           /\ ToSet(Rest) \subseteq ToSet(out) /\ ToSet(Batch) \subseteq ToSet(out)
           /\ ToSet(Rest) \cap ToSet(Batch) = {}
           /\ Increasing(out) => Increasing(Rest)
  <1>1. out \in Seq(Entry)
    BY DEF TypeOK
  <1> DEFINE a == Picked(out, SameResource)
             b == Picked(out, Entry \ SameResource)
  <1>2. Len(a) \in Nat /\ ToSet(a) = ToSet(out) \cap SameResource /\ Len(a) + Len(b) = Len(out)
    BY <1>1, PickedIs
  <1>3. /\ b \in Seq(Entry) /\ Len(b) \in Nat /\ ToSet(b) = ToSet(out) \cap (Entry \ SameResource)
        /\ Increasing(out) => Increasing(b)
    BY <1>1, PickedIs
  <1>4. Batch = a /\ Rest = b
    BY DEF Batch, Rest
  <1> HIDE DEF a, b
  <1> QED BY <1>1, <1>2, <1>3, <1>4

-------------------------------------------------------------------------------
(* The moves of the file.                                                  *)

\* What PersistPending() does to the file: it appends what the watermark has not
\* passed, all of it or, on a disk that gives out, a part.
Persisted(after) ==
    /\ journaled' \in 0..MaxId /\ journaled <= journaled'
    /\ journaled' \in {journaled} \cup ToSet(queue)
    /\ \A e \in ToSet(queue) : e <= journaled'
    /\ file' \in Seq(Entry) /\ Len(file) <= Len(file') /\ broken' \in BOOLEAN
    /\ ToSet(file) \subseteq ToSet(file')
    /\ \A e \in ToSet(file') : e \in ToSet(file) \/ (e \in ToSet(queue) /\ journaled < e)
    /\ ~broken' => \A e \in ToSet(queue) \cap Durable : journaled < e => e \in ToSet(file')
    /\ Increasing(file) /\ Increasing(queue) /\ (\A e \in ToSet(file) : e <= journaled)
          => Increasing(file')
    /\ \/ pass' = after /\ UNCHANGED tmp
       \/ pass' = "trim" /\ tmp' = [lines |-> <<>>, after |-> after]

\* Appending some of a part of the queue to the file.
LEMMA Appended ==
    ASSUME DotnetAssumption, NEW f \in Seq(Entry), NEW t \in Seq(Entry), NEW r \in Seq(Entry),
           ToSet(t) \subseteq ToSet(r), Increasing(r) => Increasing(t)
    PROVE  /\ f \o t \in Seq(Entry) /\ Len(f) <= Len(f \o t)
           /\ ToSet(f) \subseteq ToSet(f \o t)
           /\ \A e \in ToSet(f \o t) : e \in ToSet(f) \/ e \in ToSet(r)
           /\ \A k \in Nat : Increasing(f) /\ Increasing(r) /\ (\A e \in ToSet(f) : e <= k) /\ (\A e \in ToSet(r) : k < e)
                                => Increasing(f \o t)
  <1> DEFINE g == f \o t
  <1>1. /\ g \in Seq(Entry) /\ Len(g) = Len(f) + Len(t) /\ ToSet(g) = ToSet(f) \cup ToSet(t)
        /\ Increasing(f) /\ Increasing(t) /\ (\A x \in ToSet(f), y \in ToSet(t) : x < y) => Increasing(g)
    BY JoinIs
  <1>2. Len(f) \in Nat /\ Len(t) \in Nat
    OBVIOUS
  <1>3. ToSet(f) \subseteq Entry /\ ToSet(r) \subseteq Entry /\ Entry \subseteq Nat
    BY OfEntries
  <1> HIDE DEF g
  <1>4. ASSUME NEW k \in Nat, Increasing(f), Increasing(r), \A e \in ToSet(f) : e <= k, \A e \in ToSet(r) : k < e
        PROVE  Increasing(g)
    <2>1. \A x \in ToSet(f), y \in ToSet(t) : x < y
      <3> SUFFICES ASSUME NEW x \in ToSet(f), NEW y \in ToSet(t) PROVE x < y
        OBVIOUS
      <3>1. x <= k /\ k < y /\ x \in Nat /\ y \in Nat
        BY <1>3, <1>4
      <3> QED BY <3>1
    <2> QED BY <1>1, <1>4, <2>1
  <1>5. \A e \in ToSet(g) : e \in ToSet(f) \/ e \in ToSet(r)
    BY <1>1
  <1>6. g \in Seq(Entry) /\ Len(f) <= Len(g) /\ ToSet(f) \subseteq ToSet(g)
    BY <1>1, <1>2
  <1>7. \A k \in Nat : Increasing(f) /\ Increasing(r) /\ (\A e \in ToSet(f) : e <= k) /\ (\A e \in ToSet(r) : k < e)
                          => Increasing(g)
    BY <1>4
  <1> QED BY <1>5, <1>6, <1>7 DEF g

\* A part of what is to be appended, cut short by a disk that gives out.
LEMMA PartIs ==
    ASSUME DotnetAssumption, NEW s \in Seq(Entry), NEW n \in 0..Len(s)
    PROVE  /\ SubSeq(s, 1, n) \in Seq(Entry) /\ ToSet(SubSeq(s, 1, n)) \subseteq ToSet(s)
           /\ Increasing(s) => Increasing(SubSeq(s, 1, n))
  BY SplitIs

\* PersistPending() is such a step.
LEMMA PersistMoves ==
    ASSUME DotnetAssumption, TypeOK, NEW after, PersistPending(after), cfg.disk, ~broken
    PROVE  Persisted(after)
  <1> DEFINE F == {e \in Entry : e > journaled}
             fresh == Picked(queue, F)
             lines == Picked(fresh, Durable)
  <1>1. queue \in Seq(Entry) /\ file \in Seq(Entry) /\ journaled \in 0..MaxId /\ broken \in BOOLEAN
    BY DEF TypeOK
  <1>2. /\ fresh \in Seq(Entry) /\ ToSet(fresh) = ToSet(queue) \cap F
        /\ Increasing(queue) => Increasing(fresh)
    <2> HIDE DEF F
    <2> QED BY <1>1, PickedIs
  <1>3. /\ journaled' = Highest(fresh, journaled)
        /\ \/ /\ file' = file \o lines /\ UNCHANGED broken
              /\ \/ pass' = "trim" /\ tmp' = [NoTmp EXCEPT !.after = after]
                 \/ pass' = after /\ UNCHANGED tmp
           \/ /\ \E n \in 0..(Len(lines) - 1) : file' = file \o SubSeq(lines, 1, n)
              /\ broken' = TRUE /\ pass' = after /\ UNCHANGED tmp
    BY DEF PersistPending
  <1>4. \A e \in ToSet(queue) : e \in Nat /\ e \in Entry
    BY <1>1, OfEntries
  <1>5. MaxId \in Nat /\ journaled \in Nat
    BY <1>1 DEF DotnetAssumption
  <1>6. \A e \in ToSet(fresh) : e \in ToSet(queue) /\ journaled < e
    BY <1>2, <1>4, <1>5
  <1>7. \A e \in ToSet(queue) : journaled < e => e \in ToSet(fresh)
    BY <1>2, <1>4, <1>5
  <1> HIDE DEF F, fresh
  <1>8. /\ lines \in Seq(Entry) /\ ToSet(lines) = ToSet(fresh) \cap Durable
        /\ Increasing(fresh) => Increasing(lines)
    BY <1>2, PickedIs
  <1> HIDE DEF lines
  <1> DEFINE h == Highest(fresh, journaled)
  <1>9. h \in {journaled} \cup ToSet(fresh) /\ h \in 0..MaxId /\ \A e \in {journaled} \cup ToSet(fresh) : e <= h
    BY <1>1, <1>2, HighestIs
  <1>10. journaled' = h
    BY <1>3
  <1> HIDE DEF h
  <1>11. /\ h \in 0..MaxId /\ journaled <= h /\ h \in {journaled} \cup ToSet(queue)
         /\ \A e \in ToSet(queue) : e <= h
    <2>1. h \in 0..MaxId /\ journaled <= h /\ h \in {journaled} \cup ToSet(queue)
      BY <1>6, <1>9
    <2>2. \A e \in ToSet(queue) : e <= h
      <3> TAKE e \in ToSet(queue)
      <3>1. CASE journaled < e
        BY <1>7, <1>9, <3>1
      <3>2. CASE ~(journaled < e)
        BY <1>4, <1>5, <1>9, <2>1, <3>2
      <3> QED BY <3>1, <3>2
    <2> QED BY <2>1, <2>2
  <1>12. \E t \in Seq(Entry) :
            /\ file' = file \o t /\ ToSet(t) \subseteq ToSet(fresh) /\ (Increasing(fresh) => Increasing(t))
            /\ ~broken' => ToSet(t) = ToSet(fresh) \cap Durable
    <2>1. CASE file' = file \o lines
      BY <1>8, <2>1
    <2>2. CASE broken' = TRUE /\ \E n \in 0..(Len(lines) - 1) : file' = file \o SubSeq(lines, 1, n)
      <3>1. PICK n \in 0..(Len(lines) - 1) : file' = file \o SubSeq(lines, 1, n)
        BY <2>2
      <3>2. n \in 0..Len(lines)
        BY <1>8
      <3>3. /\ SubSeq(lines, 1, n) \in Seq(Entry) /\ ToSet(SubSeq(lines, 1, n)) \subseteq ToSet(lines)
            /\ Increasing(lines) => Increasing(SubSeq(lines, 1, n))
        BY <1>8, <3>2, PartIs
      <3> QED BY <1>8, <2>2, <3>1, <3>3, Zenon
    <2> QED BY <1>3, <2>1, <2>2
  <1>13. PICK t \in Seq(Entry) :
            /\ file' = file \o t /\ ToSet(t) \subseteq ToSet(fresh) /\ (Increasing(fresh) => Increasing(t))
            /\ ~broken' => ToSet(t) = ToSet(fresh) \cap Durable
    BY <1>12
  <1>14. /\ file \o t \in Seq(Entry) /\ Len(file) <= Len(file \o t)
         /\ ToSet(file \o t) = ToSet(file) \cup ToSet(t)
         /\ \A k \in Nat : Increasing(file) /\ Increasing(fresh) /\ (\A e \in ToSet(file) : e <= k) /\ (\A e \in ToSet(fresh) : k < e)
                              => Increasing(file \o t)
    BY <1>1, <1>2, <1>13, Appended, JoinIs
  <1>15. Increasing(file) /\ Increasing(queue) /\ (\A e \in ToSet(file) : e <= journaled) => Increasing(file')
    BY <1>2, <1>5, <1>6, <1>13, <1>14
  <1>16. /\ file' \in Seq(Entry) /\ Len(file) <= Len(file')
         /\ ToSet(file') = ToSet(file) \cup ToSet(t)
    BY <1>13, <1>14
  <1>17. /\ ToSet(file) \subseteq ToSet(file')
         /\ \A e \in ToSet(file') : e \in ToSet(file) \/ (e \in ToSet(queue) /\ journaled < e)
         /\ ~broken' => \A e \in ToSet(queue) \cap Durable : journaled < e => e \in ToSet(file')
    BY <1>6, <1>7, <1>13, <1>16
  <1>18. /\ broken' \in BOOLEAN
         /\ \/ pass' = after /\ UNCHANGED tmp
            \/ pass' = "trim" /\ tmp' = [lines |-> <<>>, after |-> after]
    BY <1>1, <1>3 DEF NoTmp
  <1> QED BY <1>10, <1>11, <1>15, <1>16, <1>17, <1>18 DEF Persisted

\* What the next run reads is the newest of what the file holds.
LEMMA RestartMoves ==
    ASSUME DotnetAssumption, TypeOK, Restart
    PROVE  /\ queue' \in Seq(Entry) /\ Len(queue') \in Nat /\ Len(queue') <= MaxQueued
           /\ file' \in Seq(Entry) /\ broken' \in BOOLEAN
           /\ ToSet(queue') \subseteq ToSet(file) /\ ToSet(file') \subseteq ToSet(file)
           /\ Increasing(file) => Increasing(queue') /\ Increasing(file')
           /\ ~broken' => file' = queue'
           /\ journaled' \in 0..MaxId /\ journaled' \in {0} \cup ToSet(queue')
           /\ \A e \in ToSet(queue') : e <= journaled'
  <1> DEFINE a == Newest(MaxLines, file)
             r == Newest(MaxQueued, a)
  <1>0. MaxLines \in Nat /\ MaxQueued \in Nat /\ MaxId \in Nat
    BY DEF DotnetAssumption
  <1>1. file \in Seq(Entry) /\ broken \in BOOLEAN
    BY DEF TypeOK
  <1>2. a \in Seq(Entry) /\ ToSet(a) \subseteq ToSet(file) /\ (Increasing(file) => Increasing(a))
    BY <1>0, <1>1, NewestIs, NewestSets
  <1>3. Restored(file) = r
    BY DEF Restored
  <1> HIDE DEF a
  <1>4. /\ r \in Seq(Entry) /\ Len(r) \in Nat /\ Len(r) <= MaxQueued
        /\ ToSet(r) \subseteq ToSet(a) /\ (Increasing(a) => Increasing(r))
    BY <1>0, <1>2, NewestIs, NewestSets
  <1> HIDE DEF r
  <1>5. <<>> \in Seq(Entry) /\ Len(<<>>) = 0 /\ ToSet(<<>>) = {} /\ Increasing(<<>>)
    BY EmptySet DEF Increasing
  <1>6. \/ queue' = r /\ file' = queue' /\ broken' = FALSE
        \/ queue' = r /\ file' = file /\ broken' = TRUE
        \/ queue' = <<>> /\ file' = file /\ broken' = TRUE
        \/ queue' = <<>> /\ file' = <<>> /\ broken' = FALSE
    BY <1>3 DEF Restart
  <1>7. /\ queue' \in Seq(Entry) /\ Len(queue') \in Nat /\ Len(queue') <= MaxQueued
        /\ file' \in Seq(Entry) /\ broken' \in BOOLEAN
        /\ ToSet(queue') \subseteq ToSet(file) /\ ToSet(file') \subseteq ToSet(file)
        /\ Increasing(file) => Increasing(queue') /\ Increasing(file')
        /\ ~broken' => file' = queue'
    <2>1. /\ queue' \in Seq(Entry) /\ file' \in Seq(Entry) /\ broken' \in BOOLEAN
          /\ ~broken' => file' = queue'
      BY <1>1, <1>4, <1>5, <1>6
    <2>2. Len(queue') \in Nat /\ Len(queue') <= MaxQueued
      <3>1. Len(<<>>) \in Nat /\ Len(<<>>) <= MaxQueued
        BY <1>0, <1>5
      <3>2. queue' = r \/ queue' = <<>>
        BY <1>6
      <3> QED BY <1>4, <3>1, <3>2
    <2>3. ToSet(r) \subseteq ToSet(file) /\ ToSet(<<>>) \subseteq ToSet(file)
          /\ (Increasing(file) => Increasing(r) /\ Increasing(<<>>))
      BY <1>2, <1>4, <1>5
    <2>4. queue' \in {r, <<>>} /\ file' \in {r, <<>>, file}
      BY <1>6
    <2>5. /\ ToSet(queue') \subseteq ToSet(file) /\ ToSet(file') \subseteq ToSet(file)
          /\ Increasing(file) => Increasing(queue') /\ Increasing(file')
      BY <2>3, <2>4
    <2> QED BY <2>1, <2>2, <2>5
  <1>8. journaled' = Highest(queue', 0)
    BY DEF Restart
  <1>9. 0 \in 0..MaxId
    BY <1>0
  <1>10. /\ journaled' \in 0..MaxId /\ journaled' \in {0} \cup ToSet(queue')
         /\ \A e \in ToSet(queue') : e <= journaled'
    BY <1>7, <1>8, <1>9, HighestIs
  <1> QED BY <1>7, <1>10

\* CompactJournal() puts the watermark back to the newest that is queued.
LEMMA CompactMoves ==
    ASSUME DotnetAssumption, TypeOK
    PROVE  /\ Highest(queue, 0) \in 0..MaxId /\ Highest(queue, 0) \in {0} \cup ToSet(queue)
           /\ \A e \in ToSet(queue) : e <= Highest(queue, 0)
           /\ Picked(queue, Durable) \in Seq(Entry)
           /\ ToSet(Picked(queue, Durable)) = ToSet(queue) \cap Durable
           /\ Increasing(queue) => Increasing(Picked(queue, Durable))
  <1>1. queue \in Seq(Entry)
    BY DEF TypeOK
  <1>2. 0 \in 0..MaxId
    BY DEF DotnetAssumption
  <1>3. /\ Highest(queue, 0) \in 0..MaxId /\ Highest(queue, 0) \in {0} \cup ToSet(queue)
        /\ \A e \in ToSet(queue) : e <= Highest(queue, 0)
    BY <1>1, <1>2, HighestIs
  <1>4. /\ Picked(queue, Durable) \in Seq(Entry)
        /\ ToSet(Picked(queue, Durable)) = ToSet(queue) \cap Durable
        /\ Increasing(queue) => Increasing(Picked(queue, Durable))
    BY <1>1, PickedIs
  <1> QED BY <1>3, <1>4

\* TrimIfOversized() keeps the newest lines that fit; what it drops is older.
LEMMA TrimMoves ==
    ASSUME DotnetAssumption, TypeOK
    PROVE  /\ Newest(MaxLines, file) \in Seq(Entry) /\ Len(Newest(MaxLines, file)) \in Nat
           /\ Len(file) \in Nat
           /\ Len(file) <= MaxLines => Newest(MaxLines, file) = file
           /\ Len(file) > MaxLines => Len(Newest(MaxLines, file)) = MaxLines
           /\ ToSet(Newest(MaxLines, file)) \subseteq ToSet(file)
           /\ Increasing(file) =>
                 /\ Increasing(Newest(MaxLines, file))
                 /\ \A x \in ToSet(file) \ ToSet(Newest(MaxLines, file)),
                       y \in ToSet(Newest(MaxLines, file)) : x < y
  <1>1. file \in Seq(Entry)
    BY DEF TypeOK
  <1>2. MaxLines \in Nat
    BY DEF DotnetAssumption
  <1> QED BY <1>1, <1>2, NewestIs, NewestSets

-------------------------------------------------------------------------------
(* Types.                                                                  *)

\* TypeOK in parts: numbers, flags, places, the queue, the disk, records.
Numbers ==
    /\ cfg \in Configs /\ run \in 1..(MaxRuns + 1) /\ next \in 1..(MaxId + 1)
    /\ recording \in 0..MaxId /\ failures \in 0..Threshold /\ before \in Nat

Flags ==
    /\ landed \in BOOLEAN /\ marked \in BOOLEAN /\ wake \in BOOLEAN /\ requested \in BOOLEAN
    /\ hold \in BOOLEAN /\ open \in BOOLEAN /\ cool \in BOOLEAN /\ due \in BOOLEAN
    /\ carried \in BOOLEAN /\ settled \in BOOLEAN /\ allSent \in BOOLEAN

Places ==
    /\ worker \in {"look", "waiting", "entering", "pass", "exited"}
    /\ until \in {"never", "tick", "blocked", "either"}
    /\ gate \in {"none", "worker", "closer"}
    /\ pass \in {"none", "trim", "moving", "decide", "drain", "posting", "compact",
                 "finish", "leave"}
    /\ closer \in {"open", "loop", "entering", "pass", "persist", "cancel", "joining", "done"}
    /\ answer \in {"none", "waiting", "true", "false"}

Lines == queue \in Seq(Entry) /\ out \in Seq(Entry) /\ ahead \in 0..Len(queue)

Ends == {"none", "decide", "finish", "leave"}

Disk ==
    /\ file \in Seq(Entry) /\ broken \in BOOLEAN /\ journaled \in 0..MaxId
    /\ tmp \in [lines : Seq(Entry), after : Ends]

Counts == [taken : Nat, accepted : Nat, overflow : Nat, rejected : Nat]

Records == count \in Counts /\ asked \subseteq Entry /\ acked \subseteq Entry

\* The parts are the whole,
LEMMA Parts == TypeOK <=> Numbers /\ Flags /\ Places /\ Lines /\ Disk /\ Records
  <1> DEFINE bits == {landed, marked, wake, requested, hold, open, cool, due, carried, settled,
                      allSent, broken}
  <1>1. bits \subseteq BOOLEAN <=> Flags /\ broken \in BOOLEAN
    BY DEF Flags
  <1> HIDE DEF bits
  <1>2. TypeOK <=>
        /\ Numbers /\ Places /\ Lines /\ Records /\ bits \subseteq BOOLEAN
        /\ file \in Seq(Entry) /\ journaled \in 0..MaxId
        /\ tmp \in [lines : Seq(Entry), after : Ends]
    BY Zenon DEF TypeOK, Numbers, Places, Lines, Records, bits, Ends, Counts
  <1> QED BY <1>1, <1>2 DEF Disk

\* before and after a step.
LEMMA PartsNext == TypeOK' <=> (Numbers /\ Flags /\ Places /\ Lines /\ Disk /\ Records)'
  BY Parts, PTL

\* One lemma per part follows.
LEMMA NumbersStep == DotnetAssumption /\ TypeOK /\ [Next]_vars => Numbers'
  <1> SUFFICES ASSUME DotnetAssumption, TypeOK, [Next]_vars PROVE Numbers'
    OBVIOUS
  <1> USE DEF callVars, lineVars, holdVars, drainVars, threadVars, diskVars, flushVars
  <1>0. Numbers /\ Len(queue) \in Nat
    <2>1. Lines
      BY Parts
    <2> QED BY <2>1, Parts DEF Lines
  <1>a. MaxId \in Nat /\ MaxRuns \in Nat /\ Threshold \in Nat
    BY DEF DotnetAssumption
  <1>1. CASE LogStart
    BY <1>0, <1>a, <1>1 DEF Numbers, LogStart
  <1>2. CASE Enqueue
    BY <1>0, <1>a, <1>2 DEF Numbers, Enqueue
  <1>3. CASE Signal
    BY <1>0, <1>a, <1>3 DEF Numbers, Signal
  <1>4. CASE Flush
    BY <1>0, <1>a, <1>4 DEF Numbers, Flush
  <1>5. CASE FlushTimesOut
    BY <1>0, <1>a, <1>5 DEF Numbers, FlushTimesOut
  <1>6. CASE Dispose
    BY <1>0, <1>a, <1>6 DEF Numbers, Dispose
  <1>7. CASE Look
    BY <1>0, <1>a, <1>7 DEF Numbers, Look
  <1>8. CASE Wake
    BY <1>0, <1>a, <1>8 DEF Numbers, Wake
  <1>9. CASE Exit
    BY <1>0, <1>a, <1>9 DEF Numbers, Exit, ReleaseMarkers
  <1>10. CASE WorkerEnters
    BY <1>0, <1>a, <1>10 DEF Numbers, WorkerEnters, Enter
  <1>11. CASE Trim
    BY <1>0, <1>a, <1>11 DEF Numbers, Trim
  <1>12. CASE Move
    BY <1>0, <1>a, <1>12 DEF Numbers, Move
  <1>13. CASE Decide
    BY <1>0, <1>a, <1>13 DEF Numbers, Decide, Release
  <1>14. CASE Drain
    BY <1>0, <1>a, <1>14 DEF Numbers, Drain
  <1>15. CASE Accepted
    BY <1>0, <1>a, <1>15 DEF Numbers, Accepted, Settle
  <1>16. CASE Rejected
    BY <1>0, <1>a, <1>16 DEF Numbers, Rejected, Settle
  <1>17. CASE Failed
    BY <1>0, <1>a, <1>17 DEF Numbers, Failed
  <1>18. CASE Compact
    BY <1>0, <1>a, <1>18 DEF Numbers, Compact
  <1>19. CASE Finish
    BY <1>0, <1>a, <1>19 DEF Numbers, Finish, Release
  <1>20. CASE Leave
    BY <1>0, <1>a, <1>20 DEF Numbers, Leave, Release
  <1>21. CASE CloserLoops
    BY <1>0, <1>a, <1>21 DEF Numbers, CloserLoops, Count
  <1>22. CASE CloserEnters
    BY <1>0, <1>a, <1>22 DEF Numbers, CloserEnters, Enter
  <1>23. CASE CloserPersists
    BY <1>0, <1>a, <1>23 DEF Numbers, CloserPersists
  <1>24. CASE Cancel
    BY <1>0, <1>a, <1>24 DEF Numbers, Cancel
  <1>25. CASE Joined
    BY <1>0, <1>a, <1>25 DEF Numbers, Joined, ReleaseMarkers
  <1>26. CASE HoldElapses
    BY <1>0, <1>a, <1>26 DEF Numbers, HoldElapses
  <1>27. CASE CooldownElapses
    BY <1>0, <1>a, <1>27 DEF Numbers, CooldownElapses
  <1>28. CASE IntervalElapses
    BY <1>0, <1>a, <1>28 DEF Numbers, IntervalElapses
  <1>29. CASE Restart
    BY <1>0, <1>a, <1>29 DEF Numbers, Restart
  <1>30. CASE UNCHANGED vars
    BY <1>0, <1>a, <1>30 DEF Numbers, vars
  <1> QED
    BY <1>1, <1>2, <1>3, <1>4, <1>5, <1>6, <1>7, <1>8, <1>9, <1>10, <1>11, <1>12,
       <1>13, <1>14, <1>15, <1>16, <1>17, <1>18, <1>19, <1>20, <1>21, <1>22, <1>23, <1>24,
       <1>25, <1>26, <1>27, <1>28, <1>29, <1>30
    DEF Next, Closer, Worker, Pass

LEMMA FlagsStep == DotnetAssumption /\ TypeOK /\ [Next]_vars => Flags'
  <1> SUFFICES ASSUME DotnetAssumption, TypeOK, [Next]_vars PROVE Flags'
    OBVIOUS
  <1> USE DEF callVars, lineVars, holdVars, drainVars, threadVars, diskVars, flushVars
  <1>0. Flags
    BY Parts
  <1>1. CASE LogStart
    BY <1>0, <1>1 DEF Flags, LogStart
  <1>2. CASE Enqueue
    BY <1>0, <1>2 DEF Flags, Enqueue, Requeued
  <1>3. CASE Signal
    BY <1>0, <1>3 DEF Flags, Signal
  <1>4. CASE Flush
    BY <1>0, <1>4 DEF Flags, Flush
  <1>5. CASE FlushTimesOut
    BY <1>0, <1>5 DEF Flags, FlushTimesOut
  <1>6. CASE Dispose
    BY <1>0, <1>6 DEF Flags, Dispose
  <1>7. CASE Look
    BY <1>0, <1>7 DEF Flags, Look
  <1>8. CASE Wake
    BY <1>0, <1>8 DEF Flags, Wake
  <1>9. CASE Exit
    BY <1>0, <1>9 DEF Flags, Exit, ReleaseMarkers
  <1>10. CASE WorkerEnters
    BY <1>0, <1>10 DEF Flags, WorkerEnters, Enter
  <1>11. CASE Trim
    BY <1>0, <1>11 DEF Flags, Trim
  <1>12. CASE Move
    BY <1>0, <1>12 DEF Flags, Move
  <1>13. CASE Decide
    BY <1>0, <1>13 DEF Flags, Decide, Release
  <1>14. CASE Drain
    BY <1>0, <1>14 DEF Flags, Drain
  <1>15. CASE Accepted
    BY <1>0, <1>15 DEF Flags, Accepted, Settle
  <1>16. CASE Rejected
    BY <1>0, <1>16 DEF Flags, Rejected, Settle
  <1>17. CASE Failed
    BY <1>0, <1>17 DEF Flags, Failed, Requeued
  <1>18. CASE Compact
    BY <1>0, <1>18 DEF Flags, Compact
  <1>19. CASE Finish
    BY <1>0, <1>19 DEF Flags, Finish, Release
  <1>20. CASE Leave
    BY <1>0, <1>20 DEF Flags, Leave, Release
  <1>21. CASE CloserLoops
    BY <1>0, <1>21 DEF Flags, CloserLoops
  <1>22. CASE CloserEnters
    BY <1>0, <1>22 DEF Flags, CloserEnters, Enter
  <1>23. CASE CloserPersists
    BY <1>0, <1>23 DEF Flags, CloserPersists
  <1>24. CASE Cancel
    BY <1>0, <1>24 DEF Flags, Cancel
  <1>25. CASE Joined
    BY <1>0, <1>25 DEF Flags, Joined, ReleaseMarkers
  <1>26. CASE HoldElapses
    BY <1>0, <1>26 DEF Flags, HoldElapses
  <1>27. CASE CooldownElapses
    BY <1>0, <1>27 DEF Flags, CooldownElapses
  <1>28. CASE IntervalElapses
    BY <1>0, <1>28 DEF Flags, IntervalElapses
  <1>29. CASE Restart
    BY <1>0, <1>29 DEF Flags, Restart
  <1>30. CASE UNCHANGED vars
    BY <1>0, <1>30 DEF Flags, vars
  <1> QED
    BY <1>1, <1>2, <1>3, <1>4, <1>5, <1>6, <1>7, <1>8, <1>9, <1>10, <1>11, <1>12,
       <1>13, <1>14, <1>15, <1>16, <1>17, <1>18, <1>19, <1>20, <1>21, <1>22, <1>23, <1>24,
       <1>25, <1>26, <1>27, <1>28, <1>29, <1>30
    DEF Next, Closer, Worker, Pass

LEMMA PlacesStep == DotnetAssumption /\ TypeOK /\ [Next]_vars => Places'
  <1> SUFFICES ASSUME DotnetAssumption, TypeOK, [Next]_vars PROVE Places'
    OBVIOUS
  <1> USE DEF callVars, lineVars, holdVars, drainVars, threadVars, diskVars, flushVars
  <1>0. Places /\ tmp.after \in Ends
    <2>1. Places /\ Disk
      BY Parts
    <2> QED BY <2>1 DEF Disk
  <1>1. CASE LogStart
    BY <1>0, <1>1 DEF Places, LogStart
  <1>2. CASE Enqueue
    BY <1>0, <1>2 DEF Places, Enqueue
  <1>3. CASE Signal
    BY <1>0, <1>3 DEF Places, Signal
  <1>4. CASE Flush
    BY <1>0, <1>4 DEF Places, Flush
  <1>5. CASE FlushTimesOut
    BY <1>0, <1>5 DEF Places, FlushTimesOut
  <1>6. CASE Dispose
    BY <1>0, <1>6 DEF Places, Dispose
  <1>7. CASE Look
    BY <1>0, <1>7 DEF Places, Look
  <1>8. CASE Wake
    BY <1>0, <1>8 DEF Places, Wake
  <1>9. CASE Exit
    BY <1>0, <1>9 DEF Places, Exit, ReleaseMarkers
  <1>10. CASE WorkerEnters
    BY <1>0, <1>10 DEF Places, WorkerEnters, Enter, PersistPending
  <1>11. CASE Trim
    BY <1>0, <1>11 DEF Places, Trim, Rewrite, Ends
  <1>12. CASE Move
    BY <1>0, <1>12 DEF Places, Move, Ends
  <1>13. CASE Decide
    BY <1>0, <1>13 DEF Places, Decide, Release
  <1>14. CASE Drain
    BY <1>0, <1>14 DEF Places, Drain
  <1>15. CASE Accepted
    BY <1>0, <1>15 DEF Places, Accepted, Settle
  <1>16. CASE Rejected
    BY <1>0, <1>16 DEF Places, Rejected, Settle
  <1>17. CASE Failed
    BY <1>0, <1>17 DEF Places, Failed
  <1>18. CASE Compact
    BY <1>0, <1>18 DEF Places, Compact, Rewrite
  <1>19. CASE Finish
    BY <1>0, <1>19 DEF Places, Finish, Release
  <1>20. CASE Leave
    BY <1>0, <1>20 DEF Places, Leave, Release
  <1>21. CASE CloserLoops
    BY <1>0, <1>21 DEF Places, CloserLoops
  <1>22. CASE CloserEnters
    BY <1>0, <1>22 DEF Places, CloserEnters, Enter, PersistPending
  <1>23. CASE CloserPersists
    BY <1>0, <1>23 DEF Places, CloserPersists, PersistPending
  <1>24. CASE Cancel
    BY <1>0, <1>24 DEF Places, Cancel
  <1>25. CASE Joined
    BY <1>0, <1>25 DEF Places, Joined, ReleaseMarkers
  <1>26. CASE HoldElapses
    BY <1>0, <1>26 DEF Places, HoldElapses
  <1>27. CASE CooldownElapses
    BY <1>0, <1>27 DEF Places, CooldownElapses
  <1>28. CASE IntervalElapses
    BY <1>0, <1>28 DEF Places, IntervalElapses
  <1>29. CASE Restart
    BY <1>0, <1>29 DEF Places, Restart
  <1>30. CASE UNCHANGED vars
    BY <1>0, <1>30 DEF Places, vars
  <1> QED
    BY <1>1, <1>2, <1>3, <1>4, <1>5, <1>6, <1>7, <1>8, <1>9, <1>10, <1>11, <1>12,
       <1>13, <1>14, <1>15, <1>16, <1>17, <1>18, <1>19, <1>20, <1>21, <1>22, <1>23, <1>24,
       <1>25, <1>26, <1>27, <1>28, <1>29, <1>30
    DEF Next, Closer, Worker, Pass

\* A pass that begins, or the last PersistPending(), saves or leaves the file alone.
Saved ==
    \/ (~cfg.disk \/ broken) /\ UNCHANGED diskVars
    \/ cfg.disk /\ ~broken /\ \E after \in {"decide", "leave"} : Persisted(after)

\* PersistPending() does one or the other,
LEMMA PersistSaves ==
    ASSUME DotnetAssumption, TypeOK, NEW after \in {"decide", "leave"}, PersistPending(after)
    PROVE  Saved
  <1>1. CASE cfg.disk /\ ~broken
    BY <1>1, PersistMoves DEF Saved
  <1>2. CASE ~cfg.disk \/ broken
    BY <1>2 DEF Saved, PersistPending
  <1> QED BY <1>1, <1>2

\* at the worker's entry to a pass,
LEMMA WorkerSaves == DotnetAssumption /\ TypeOK /\ WorkerEnters => Saved
  BY PersistSaves DEF WorkerEnters, Enter

\* at the closer's,
LEMMA CloserSaves == DotnetAssumption /\ TypeOK /\ CloserEnters => Saved
  BY PersistSaves DEF CloserEnters, Enter

\* and at the end of Shutdown().
LEMMA LastSaves == DotnetAssumption /\ TypeOK /\ CloserPersists => Saved
  <1> SUFFICES ASSUME DotnetAssumption, TypeOK, CloserPersists PROVE Saved
    OBVIOUS
  <1>1. CASE cfg.disk
    BY <1>1, PersistSaves DEF CloserPersists
  <1>2. CASE ~cfg.disk
    BY <1>2 DEF CloserPersists, Saved
  <1> QED BY <1>1, <1>2

\* Saving keeps the types of the disk,
LEMMA SavedDisk == DotnetAssumption /\ Disk /\ Saved => Disk'
  <1> SUFFICES ASSUME DotnetAssumption, Disk, Saved PROVE Disk'
    OBVIOUS
  <1>1. CASE UNCHANGED diskVars
    BY <1>1 DEF Disk, diskVars
  <1>2. CASE \E after \in {"decide", "leave"} : Persisted(after)
    <2>1. PICK after \in {"decide", "leave"} : Persisted(after)
      BY <1>2
    <2>2. file' \in Seq(Entry) /\ broken' \in BOOLEAN /\ journaled' \in 0..MaxId
      BY <2>1 DEF Persisted
    <2>3. tmp' = tmp \/ tmp' = [lines |-> <<>>, after |-> after]
      BY <2>1 DEF Persisted
    <2>4. <<>> \in Seq(Entry) /\ after \in Ends
      BY DEF Ends
    <2>6. [lines |-> <<>>, after |-> after] \in [lines : Seq(Entry), after : Ends]
      BY <2>4
    <2>7. tmp \in [lines : Seq(Entry), after : Ends]
      BY DEF Disk
    <2>5. tmp' \in [lines : Seq(Entry), after : Ends]
      BY <2>3, <2>6, <2>7, Zenon
    <2> QED BY <2>2, <2>5 DEF Disk
  <1> QED BY <1>1, <1>2 DEF Saved

\* and so does a rewrite.
LEMMA RewrittenDisk ==
    ASSUME DotnetAssumption, Disk, NEW STATE lines, lines \in Seq(Entry), NEW STATE after,
           after \in Ends, Rewrite(lines, after), journaled' \in 0..MaxId
    PROVE  Disk'
  <1>1. <<>> \in Seq(Entry)
    OBVIOUS
  <1>2. /\ file' = file \/ file' = <<>>
        /\ broken' = broken \/ broken' = TRUE
        /\ tmp' = tmp \/ tmp' = [lines |-> lines, after |-> after]
    BY DEF Rewrite
  <1>3. tmp' \in [lines : Seq(Entry), after : Ends]
    BY <1>2 DEF Disk
  <1> QED BY <1>1, <1>2, <1>3 DEF Disk

\* The queue and what is out stay sequences of entries, the marker within them.
LEMMA LinesStep == DotnetAssumption /\ TypeOK /\ [Next]_vars => Lines'
  <1> SUFFICES ASSUME DotnetAssumption, TypeOK, [Next]_vars PROVE Lines'
    OBVIOUS
  <1> USE DEF callVars, lineVars, holdVars, drainVars, threadVars, diskVars, flushVars
  <1>0. Lines /\ marked \in BOOLEAN /\ Len(queue) \in Nat /\ Len(out) \in Nat
    <2>1. Lines /\ Flags
      BY Parts
    <2> QED BY <2>1 DEF Lines, Flags
  <1>1. CASE LogStart
    BY <1>0, <1>1 DEF Lines, LogStart
  <1>2. CASE Enqueue
    <2>1. Moved(Append(queue, recording), 0)
      BY <1>2, EnqueueMoves
    <2>2. PICK lost \in Nat :
             /\ queue' \in Seq(Entry) /\ Len(queue') \in Nat
             /\ Len(queue') + lost = Len(Append(queue, recording))
             /\ ahead' = (IF marked THEN Fewer(ahead + 0, lost) ELSE 0)
      BY <2>1 DEF Moved
    <2>3. ahead \in 0..Len(queue) /\ Len(Append(queue, recording)) = Len(queue) + 1
      BY <1>0 DEF Lines
    <2>4. ahead' \in 0..Len(queue')
      BY <1>0, <2>2, <2>3 DEF Fewer
    <2>5. UNCHANGED out
      BY <1>2 DEF Enqueue
    <2> QED BY <1>0, <2>2, <2>4, <2>5 DEF Lines
  <1>3. CASE Signal
    BY <1>0, <1>3 DEF Lines, Signal
  <1>4. CASE Flush
    BY <1>0, <1>4 DEF Lines, Flush
  <1>5. CASE FlushTimesOut
    BY <1>0, <1>5 DEF Lines, FlushTimesOut
  <1>6. CASE Dispose
    BY <1>0, <1>6 DEF Lines, Dispose
  <1>7. CASE Look
    BY <1>0, <1>7 DEF Lines, Look
  <1>8. CASE Wake
    BY <1>0, <1>8 DEF Lines, Wake
  <1>9. CASE Exit
    BY <1>0, <1>9 DEF Lines, Exit, ReleaseMarkers
  <1>10. CASE WorkerEnters
    BY <1>0, <1>10 DEF Lines, WorkerEnters, Enter
  <1>11. CASE Trim
    BY <1>0, <1>11 DEF Lines, Trim
  <1>12. CASE Move
    BY <1>0, <1>12 DEF Lines, Move
  <1>13. CASE Decide
    BY <1>0, <1>13 DEF Lines, Decide, Release
  <1>14. CASE Drain
    <2>1. PICK n \in Nat :
             /\ n <= Len(queue) /\ Len(queue') = Len(queue) - n /\ ahead' = Fewer(ahead, n)
      BY <1>14, DrainMoves
    <2>2. out' \in Seq(Entry) /\ queue' \in Seq(Entry)
      BY <1>14, DrainMoves
    <2>3. ahead \in 0..Len(queue)
      BY <1>0 DEF Lines
    <2>4. ahead' \in 0..Len(queue')
      BY <1>0, <2>1, <2>3 DEF Fewer
    <2> QED BY <2>2, <2>4 DEF Lines
  <1>15. CASE Accepted
    <2>1. out' = Rest /\ UNCHANGED lineVars
      BY <1>15 DEF Accepted, Settle
    <2>2. Rest \in Seq(Entry)
      BY SettledIs
    <2> QED BY <1>0, <2>1, <2>2 DEF Lines
  <1>16. CASE Rejected
    <2>1. out' = Rest /\ UNCHANGED lineVars
      BY <1>16 DEF Rejected, Settle
    <2>2. Rest \in Seq(Entry)
      BY SettledIs
    <2> QED BY <1>0, <2>1, <2>2 DEF Lines
  <1>17. CASE Failed
    <2>1. Moved(Held, Len(out))
      BY <1>17, FailedMoves
    <2>2. PICK lost \in Nat :
             /\ queue' \in Seq(Entry) /\ Len(queue') \in Nat
             /\ Len(queue') + lost = Len(Held)
             /\ ahead' = (IF marked THEN Fewer(ahead + Len(out), lost) ELSE 0)
      BY <2>1 DEF Moved
    <2>3. ahead \in 0..Len(queue) /\ Len(Held) = Len(out) + Len(queue)
      BY <1>0 DEF Lines, Held
    <2>4. ahead' \in 0..Len(queue')
      BY <1>0, <2>2, <2>3 DEF Fewer
    <2>5. out' = <<>> /\ <<>> \in Seq(Entry)
      BY <1>17 DEF Failed
    <2> QED BY <2>2, <2>4, <2>5 DEF Lines
  <1>18. CASE Compact
    BY <1>0, <1>18 DEF Lines, Compact
  <1>19. CASE Finish
    BY <1>0, <1>19 DEF Lines, Finish, Release
  <1>20. CASE Leave
    BY <1>0, <1>20 DEF Lines, Leave, Release
  <1>21. CASE CloserLoops
    BY <1>0, <1>21 DEF Lines, CloserLoops
  <1>22. CASE CloserEnters
    BY <1>0, <1>22 DEF Lines, CloserEnters, Enter
  <1>23. CASE CloserPersists
    BY <1>0, <1>23 DEF Lines, CloserPersists
  <1>24. CASE Cancel
    BY <1>0, <1>24 DEF Lines, Cancel
  <1>25. CASE Joined
    BY <1>0, <1>25 DEF Lines, Joined, ReleaseMarkers
  <1>26. CASE HoldElapses
    BY <1>0, <1>26 DEF Lines, HoldElapses
  <1>27. CASE CooldownElapses
    BY <1>0, <1>27 DEF Lines, CooldownElapses
  <1>28. CASE IntervalElapses
    BY <1>0, <1>28 DEF Lines, IntervalElapses
  <1>29. CASE Restart
    <2>1. queue' \in Seq(Entry) /\ Len(queue') \in Nat
      BY <1>29, RestartMoves
    <2>2. out' = <<>> /\ ahead' = 0 /\ <<>> \in Seq(Entry)
      BY <1>29 DEF Restart
    <2> QED BY <2>1, <2>2 DEF Lines
  <1>30. CASE UNCHANGED vars
    BY <1>0, <1>30 DEF Lines, vars
  <1> QED
    BY <1>1, <1>2, <1>3, <1>4, <1>5, <1>6, <1>7, <1>8, <1>9, <1>10, <1>11, <1>12,
       <1>13, <1>14, <1>15, <1>16, <1>17, <1>18, <1>19, <1>20, <1>21, <1>22, <1>23, <1>24,
       <1>25, <1>26, <1>27, <1>28, <1>29, <1>30
    DEF Next, Closer, Worker, Pass

LEMMA DiskStep == DotnetAssumption /\ TypeOK /\ [Next]_vars => Disk'
  <1> SUFFICES ASSUME DotnetAssumption, TypeOK, [Next]_vars PROVE Disk'
    OBVIOUS
  <1> USE DEF callVars, lineVars, holdVars, drainVars, threadVars, diskVars, flushVars
  <1>0. Disk
    BY Parts
  <1>1. CASE LogStart
    BY <1>0, <1>1 DEF Disk, LogStart
  <1>2. CASE Enqueue
    BY <1>0, <1>2 DEF Disk, Enqueue
  <1>3. CASE Signal
    BY <1>0, <1>3 DEF Disk, Signal
  <1>4. CASE Flush
    BY <1>0, <1>4 DEF Disk, Flush
  <1>5. CASE FlushTimesOut
    BY <1>0, <1>5 DEF Disk, FlushTimesOut
  <1>6. CASE Dispose
    BY <1>0, <1>6 DEF Disk, Dispose
  <1>7. CASE Look
    BY <1>0, <1>7 DEF Disk, Look
  <1>8. CASE Wake
    BY <1>0, <1>8 DEF Disk, Wake
  <1>9. CASE Exit
    BY <1>0, <1>9 DEF Disk, Exit, ReleaseMarkers
  <1>10. CASE WorkerEnters
    BY <1>0, <1>10, WorkerSaves, SavedDisk
  <1>11. CASE Trim
    <2>1. Newest(MaxLines, file) \in Seq(Entry)
      BY TrimMoves
    <2>2. Rewrite(Newest(MaxLines, file), tmp.after) /\ tmp.after \in Ends /\ journaled' \in 0..MaxId
      BY <1>0, <1>11 DEF Trim, Disk
    <2> QED BY <1>0, <2>1, <2>2, RewrittenDisk
  <1>12. CASE Move
    <2>1. (file' = tmp.lines \/ file' = file) /\ (broken' = TRUE \/ broken' = broken) /\ tmp' = NoTmp
      BY <1>12 DEF Move
    <2>2. tmp.lines \in Seq(Entry) /\ <<>> \in Seq(Entry) /\ "none" \in Ends
      BY <1>0 DEF Disk, Ends
    <2>3. tmp' \in [lines : Seq(Entry), after : Ends]
      BY <2>1, <2>2 DEF NoTmp
    <2>4. UNCHANGED journaled
      BY <1>12 DEF Move
    <2> QED BY <1>0, <2>1, <2>2, <2>3, <2>4 DEF Disk
  <1>13. CASE Decide
    BY <1>0, <1>13 DEF Disk, Decide, Release
  <1>14. CASE Drain
    BY <1>0, <1>14 DEF Disk, Drain
  <1>15. CASE Accepted
    BY <1>0, <1>15 DEF Disk, Accepted, Settle
  <1>16. CASE Rejected
    BY <1>0, <1>16 DEF Disk, Rejected, Settle
  <1>17. CASE Failed
    BY <1>0, <1>17 DEF Disk, Failed
  <1>18. CASE Compact
    <2>1. CASE ~cfg.disk \/ broken
      BY <1>0, <1>18, <2>1 DEF Disk, Compact
    <2>2. CASE cfg.disk /\ ~broken
      <3>1. Picked(queue, Durable) \in Seq(Entry) /\ Highest(queue, 0) \in 0..MaxId
        BY CompactMoves
      <3>2. Rewrite(Picked(queue, Durable), "finish") /\ journaled' \in 0..MaxId
        BY <1>18, <2>2, <3>1 DEF Compact
      <3>3. "finish" \in Ends
        BY DEF Ends
      <3> QED BY <1>0, <3>1, <3>2, <3>3, RewrittenDisk
    <2> QED BY <2>1, <2>2
  <1>19. CASE Finish
    BY <1>0, <1>19 DEF Disk, Finish, Release
  <1>20. CASE Leave
    BY <1>0, <1>20 DEF Disk, Leave, Release
  <1>21. CASE CloserLoops
    BY <1>0, <1>21 DEF Disk, CloserLoops
  <1>22. CASE CloserEnters
    BY <1>0, <1>22, CloserSaves, SavedDisk
  <1>23. CASE CloserPersists
    BY <1>0, <1>23, LastSaves, SavedDisk
  <1>24. CASE Cancel
    BY <1>0, <1>24 DEF Disk, Cancel
  <1>25. CASE Joined
    BY <1>0, <1>25 DEF Disk, Joined, ReleaseMarkers
  <1>26. CASE HoldElapses
    BY <1>0, <1>26 DEF Disk, HoldElapses
  <1>27. CASE CooldownElapses
    BY <1>0, <1>27 DEF Disk, CooldownElapses
  <1>28. CASE IntervalElapses
    BY <1>0, <1>28 DEF Disk, IntervalElapses
  <1>29. CASE Restart
    <2>1. file' \in Seq(Entry) /\ broken' \in BOOLEAN /\ journaled' \in 0..MaxId
      BY <1>29, RestartMoves
    <2>2. tmp' = NoTmp /\ <<>> \in Seq(Entry) /\ "none" \in Ends
      BY <1>29 DEF Restart, Ends
    <2>3. tmp' \in [lines : Seq(Entry), after : Ends]
      BY <2>2 DEF NoTmp
    <2> QED BY <2>1, <2>3 DEF Disk
  <1>30. CASE UNCHANGED vars
    BY <1>0, <1>30 DEF Disk, vars
  <1> QED
    BY <1>1, <1>2, <1>3, <1>4, <1>5, <1>6, <1>7, <1>8, <1>9, <1>10, <1>11, <1>12,
       <1>13, <1>14, <1>15, <1>16, <1>17, <1>18, <1>19, <1>20, <1>21, <1>22, <1>23, <1>24,
       <1>25, <1>26, <1>27, <1>28, <1>29, <1>30
    DEF Next, Closer, Worker, Pass

\* A counter that grows is still a record of counters.
LEMMA Counted ==
    ASSUME NEW k \in Counts, NEW n \in Nat
    PROVE  /\ [k EXCEPT !.overflow = @ + n] \in Counts
           /\ [k EXCEPT !.accepted = @ + n] \in Counts
           /\ [k EXCEPT !.rejected = @ + n] \in Counts
           /\ [k EXCEPT !.taken = @ + n] \in Counts
  BY DEF Counts

\* What is held, its length and its entries.
LEMMA HeldSet == TypeOK => Held \in Seq(Entry) /\ Len(Held) = Len(out) + Len(queue) /\ ToSet(Held) \subseteq Entry
  <1> SUFFICES ASSUME TypeOK PROVE Held \in Seq(Entry) /\ Len(Held) = Len(out) + Len(queue) /\ ToSet(Held) \subseteq Entry
    OBVIOUS
  <1>1. out \in Seq(Entry) /\ queue \in Seq(Entry)
    BY DEF TypeOK
  <1>2. Held \in Seq(Entry) /\ Len(Held) = Len(out) + Len(queue)
    BY <1>1 DEF Held
  <1> QED BY <1>2 DEF ToSet

LEMMA RecordsStep == DotnetAssumption /\ TypeOK /\ [Next]_vars => Records'
  <1> SUFFICES ASSUME DotnetAssumption, TypeOK, [Next]_vars PROVE Records'
    OBVIOUS
  <1> USE DEF callVars, lineVars, holdVars, drainVars, threadVars, diskVars, flushVars
  <1>0. Records
    BY Parts
  <1>1. CASE LogStart
    <2>1. count' = [count EXCEPT !.taken = @ + 1]
      BY <1>1 DEF LogStart
    <2>2. count' \in Counts
      BY <1>0, <2>1, Counted DEF Records
    <2> QED BY <1>0, <1>1, <2>2 DEF Records, LogStart
  <1>2. CASE Enqueue
    <2>1. PICK lost \in Nat : count' = [count EXCEPT !.overflow = @ + lost]
      BY <1>2, EnqueueMoves DEF Moved
    <2>2. count' \in Counts
      BY <1>0, <2>1, Counted DEF Records
    <2> QED BY <1>0, <1>2, <2>2 DEF Records, Enqueue
  <1>3. CASE Signal
    BY <1>0, <1>3 DEF Records, Signal
  <1>4. CASE Flush
    BY <1>0, <1>4, HeldSet DEF Records, Flush
  <1>5. CASE FlushTimesOut
    BY <1>0, <1>5 DEF Records, FlushTimesOut
  <1>6. CASE Dispose
    BY <1>0, <1>6 DEF Records, Dispose
  <1>7. CASE Look
    BY <1>0, <1>7 DEF Records, Look
  <1>8. CASE Wake
    BY <1>0, <1>8 DEF Records, Wake
  <1>9. CASE Exit
    BY <1>0, <1>9 DEF Records, Exit, ReleaseMarkers
  <1>10. CASE WorkerEnters
    BY <1>0, <1>10 DEF Records, WorkerEnters, Enter
  <1>11. CASE Trim
    BY <1>0, <1>11 DEF Records, Trim
  <1>12. CASE Move
    BY <1>0, <1>12 DEF Records, Move
  <1>13. CASE Decide
    BY <1>0, <1>13 DEF Records, Decide, Release
  <1>14. CASE Drain
    BY <1>0, <1>14 DEF Records, Drain
  <1>15. CASE Accepted
    <2>1. count' = [count EXCEPT !.accepted = @ + Len(Batch)] /\ Len(Batch) \in Nat
      BY <1>15, SettledIs DEF Accepted
    <2>2. count' \in Counts
      BY <1>0, <2>1, Counted DEF Records
    <2>3. ToSet(out) \subseteq Entry /\ ToSet(Batch) \subseteq ToSet(out)
      BY SettledIs, OfEntries DEF TypeOK
    <2> QED BY <1>0, <1>15, <2>2, <2>3 DEF Records, Accepted, Settle
  <1>16. CASE Rejected
    <2>1. count' = [count EXCEPT !.rejected = @ + Len(Batch)] /\ Len(Batch) \in Nat
      BY <1>16, SettledIs DEF Rejected
    <2>2. count' \in Counts
      BY <1>0, <2>1, Counted DEF Records
    <2> QED BY <1>0, <1>16, <2>2 DEF Records, Rejected, Settle
  <1>17. CASE Failed
    <2>1. PICK lost \in Nat : count' = [count EXCEPT !.overflow = @ + lost]
      BY <1>17, FailedMoves DEF Moved
    <2>2. count' \in Counts
      BY <1>0, <2>1, Counted DEF Records
    <2> QED BY <1>0, <1>17, <2>2 DEF Records, Failed
  <1>18. CASE Compact
    BY <1>0, <1>18 DEF Records, Compact
  <1>19. CASE Finish
    BY <1>0, <1>19 DEF Records, Finish, Release
  <1>20. CASE Leave
    BY <1>0, <1>20 DEF Records, Leave, Release
  <1>21. CASE CloserLoops
    BY <1>0, <1>21 DEF Records, CloserLoops
  <1>22. CASE CloserEnters
    BY <1>0, <1>22 DEF Records, CloserEnters, Enter
  <1>23. CASE CloserPersists
    BY <1>0, <1>23 DEF Records, CloserPersists
  <1>24. CASE Cancel
    BY <1>0, <1>24 DEF Records, Cancel
  <1>25. CASE Joined
    BY <1>0, <1>25 DEF Records, Joined, ReleaseMarkers
  <1>26. CASE HoldElapses
    BY <1>0, <1>26 DEF Records, HoldElapses
  <1>27. CASE CooldownElapses
    BY <1>0, <1>27 DEF Records, CooldownElapses
  <1>28. CASE IntervalElapses
    BY <1>0, <1>28 DEF Records, IntervalElapses
  <1>29. CASE Restart
    <2>1. Len(queue') \in Nat
      BY <1>29, RestartMoves
    <2>2. count' \in Counts
      BY <1>29, <2>1 DEF Restart, Counts
    <2> QED BY <1>0, <1>29, <2>2 DEF Records, Restart
  <1>30. CASE UNCHANGED vars
    BY <1>0, <1>30 DEF Records, vars
  <1> QED
    BY <1>1, <1>2, <1>3, <1>4, <1>5, <1>6, <1>7, <1>8, <1>9, <1>10, <1>11, <1>12,
       <1>13, <1>14, <1>15, <1>16, <1>17, <1>18, <1>19, <1>20, <1>21, <1>22, <1>23, <1>24,
       <1>25, <1>26, <1>27, <1>28, <1>29, <1>30
    DEF Next, Closer, Worker, Pass

LEMMA TypeStep == DotnetAssumption /\ TypeOK /\ [Next]_vars => TypeOK'
  BY NumbersStep, FlagsStep, PlacesStep, LinesStep, DiskStep, RecordsStep, PartsNext

-------------------------------------------------------------------------------
(* The gate, the request that is out, the breaker, the bounds and the books. *)

\* Who is in a pass has the gate, and a rewrite knows what comes after it.
Gated ==
    /\ gate = "none" <=> pass = "none"
    /\ pass \in {"trim", "moving"} => tmp.after # "none"
    /\ gate = "worker" <=> worker = "pass"
    /\ gate = "closer" => closer \in {"pass", "persist"}
    /\ closer = "pass" => gate = "closer"

\* Entries are out exactly while a request is.
Posting == pass = "posting" <=> out # <<>>

\* A cooldown runs only while the breaker is open, and nothing goes out while it is.
Breaker == (cool => open) /\ (pass \in {"drain", "posting"} => ~open)

\* Each of the three is kept.
LEMMA GatedStep == DotnetAssumption /\ TypeOK /\ Gated /\ [Next]_vars => Gated'
  <1> SUFFICES ASSUME DotnetAssumption, TypeOK, Gated, [Next]_vars PROVE Gated'
    OBVIOUS
  <1> USE DEF callVars, lineVars, holdVars, drainVars, threadVars, diskVars, flushVars
  <1>0. Gated /\ Places /\ tmp.after \in Ends /\ tmp \in [lines : Seq(Entry), after : Ends]
    <2>1. Places /\ Disk
      BY Parts
    <2> QED BY <2>1 DEF Disk
  <1> USE DEF Ends
  <1>1. CASE LogStart
    BY <1>0, <1>1 DEF Gated, Places, LogStart
  <1>2. CASE Enqueue
    BY <1>0, <1>2 DEF Gated, Places, Enqueue
  <1>3. CASE Signal
    BY <1>0, <1>3 DEF Gated, Places, Signal
  <1>4. CASE Flush
    BY <1>0, <1>4 DEF Gated, Places, Flush
  <1>5. CASE FlushTimesOut
    BY <1>0, <1>5 DEF Gated, Places, FlushTimesOut
  <1>6. CASE Dispose
    BY <1>0, <1>6 DEF Gated, Places, Dispose
  <1>7. CASE Look
    BY <1>0, <1>7 DEF Gated, Places, Look
  <1>8. CASE Wake
    BY <1>0, <1>8 DEF Gated, Places, Wake
  <1>9. CASE Exit
    BY <1>0, <1>9 DEF Gated, Places, Exit, ReleaseMarkers
  <1>10. CASE WorkerEnters
    BY <1>0, <1>10 DEF Gated, Places, WorkerEnters, Enter, PersistPending, NoTmp
  <1>11. CASE Trim
    BY <1>0, <1>11 DEF Gated, Places, Trim, Rewrite
  <1>12. CASE Move
    BY <1>0, <1>12 DEF Gated, Places, Move, NoTmp
  <1>13. CASE Decide
    BY <1>0, <1>13 DEF Gated, Places, Decide, Release
  <1>14. CASE Drain
    BY <1>0, <1>14 DEF Gated, Places, Drain
  <1>15. CASE Accepted
    BY <1>0, <1>15 DEF Gated, Places, Accepted, Settle
  <1>16. CASE Rejected
    BY <1>0, <1>16 DEF Gated, Places, Rejected, Settle
  <1>17. CASE Failed
    BY <1>0, <1>17 DEF Gated, Places, Failed
  <1>18. CASE Compact
    BY <1>0, <1>18 DEF Gated, Places, Compact, Rewrite
  <1>19. CASE Finish
    BY <1>0, <1>19 DEF Gated, Places, Finish, Release
  <1>20. CASE Leave
    BY <1>0, <1>20 DEF Gated, Places, Leave, Release
  <1>21. CASE CloserLoops
    BY <1>0, <1>21 DEF Gated, Places, CloserLoops
  <1>22. CASE CloserEnters
    BY <1>0, <1>22 DEF Gated, Places, CloserEnters, Enter, PersistPending, NoTmp
  <1>23. CASE CloserPersists
    BY <1>0, <1>23 DEF Gated, Places, CloserPersists, PersistPending, NoTmp
  <1>24. CASE Cancel
    BY <1>0, <1>24 DEF Gated, Places, Cancel
  <1>25. CASE Joined
    BY <1>0, <1>25 DEF Gated, Places, Joined, ReleaseMarkers
  <1>26. CASE HoldElapses
    BY <1>0, <1>26 DEF Gated, Places, HoldElapses
  <1>27. CASE CooldownElapses
    BY <1>0, <1>27 DEF Gated, Places, CooldownElapses
  <1>28. CASE IntervalElapses
    BY <1>0, <1>28 DEF Gated, Places, IntervalElapses
  <1>29. CASE Restart
    BY <1>0, <1>29 DEF Gated, Places, Restart, NoTmp
  <1>30. CASE UNCHANGED vars
    BY <1>0, <1>30 DEF Gated, Places, vars
  <1> QED
    BY <1>1, <1>2, <1>3, <1>4, <1>5, <1>6, <1>7, <1>8, <1>9, <1>10, <1>11, <1>12,
       <1>13, <1>14, <1>15, <1>16, <1>17, <1>18, <1>19, <1>20, <1>21, <1>22, <1>23, <1>24,
       <1>25, <1>26, <1>27, <1>28, <1>29, <1>30
    DEF Next, Closer, Worker, Pass

LEMMA PostingStep == DotnetAssumption /\ TypeOK /\ Gated /\ Posting /\ [Next]_vars => Posting'
  <1> SUFFICES ASSUME DotnetAssumption, TypeOK, Gated, Posting, [Next]_vars PROVE Posting'
    OBVIOUS
  <1> USE DEF callVars, lineVars, holdVars, drainVars, threadVars, diskVars, flushVars
  <1>0. Posting /\ Places /\ tmp.after \in Ends /\ tmp \in [lines : Seq(Entry), after : Ends]
    <2>1. Places /\ Disk
      BY Parts
    <2> QED BY <2>1 DEF Disk
  <1> USE DEF Ends
  <1>a. (gate = "none" <=> pass = "none") /\ (pass \in {"trim", "moving"} => tmp.after # "none")
    BY DEF Gated
  <1>1. CASE LogStart
    BY <1>0, <1>1 DEF Posting, LogStart
  <1>2. CASE Enqueue
    BY <1>0, <1>2 DEF Posting, Enqueue
  <1>3. CASE Signal
    BY <1>0, <1>3 DEF Posting, Signal
  <1>4. CASE Flush
    BY <1>0, <1>4 DEF Posting, Flush
  <1>5. CASE FlushTimesOut
    BY <1>0, <1>5 DEF Posting, FlushTimesOut
  <1>6. CASE Dispose
    BY <1>0, <1>6 DEF Posting, Dispose
  <1>7. CASE Look
    BY <1>0, <1>7 DEF Posting, Look
  <1>8. CASE Wake
    BY <1>0, <1>8 DEF Posting, Wake
  <1>9. CASE Exit
    BY <1>0, <1>9 DEF Posting, Exit, ReleaseMarkers
  <1>10. CASE WorkerEnters
    BY <1>0, <1>10, <1>a DEF Posting, WorkerEnters, Enter, PersistPending
  <1>11. CASE Trim
    BY <1>0, <1>11, <1>a DEF Posting, Trim, Rewrite
  <1>12. CASE Move
    BY <1>0, <1>12, <1>a DEF Posting, Move
  <1>13. CASE Decide
    BY <1>0, <1>13 DEF Posting, Decide, Release
  <1>14. CASE Drain
    <2>1. PICK n \in Nat : Len(out') = n /\ pass' = (IF n = 0 THEN "finish" ELSE "posting")
      BY <1>14, DrainMoves
    <2>2. out' \in Seq(Entry)
      BY <1>14, DrainMoves
    <2>3. n = 0 <=> out' = <<>>
      BY <2>1, <2>2
    <2> QED BY <2>1, <2>3 DEF Posting
  <1>15. CASE Accepted
    BY <1>0, <1>15 DEF Posting, Accepted, Settle
  <1>16. CASE Rejected
    BY <1>0, <1>16 DEF Posting, Rejected, Settle
  <1>17. CASE Failed
    BY <1>0, <1>17 DEF Posting, Failed
  <1>18. CASE Compact
    BY <1>0, <1>18 DEF Posting, Compact, Rewrite
  <1>19. CASE Finish
    BY <1>0, <1>19 DEF Posting, Finish, Release
  <1>20. CASE Leave
    BY <1>0, <1>20 DEF Posting, Leave, Release
  <1>21. CASE CloserLoops
    BY <1>0, <1>21 DEF Posting, CloserLoops
  <1>22. CASE CloserEnters
    BY <1>0, <1>22, <1>a DEF Posting, CloserEnters, Enter, PersistPending
  <1>23. CASE CloserPersists
    BY <1>0, <1>23, <1>a DEF Posting, CloserPersists, PersistPending
  <1>24. CASE Cancel
    BY <1>0, <1>24 DEF Posting, Cancel
  <1>25. CASE Joined
    BY <1>0, <1>25 DEF Posting, Joined, ReleaseMarkers
  <1>26. CASE HoldElapses
    BY <1>0, <1>26 DEF Posting, HoldElapses
  <1>27. CASE CooldownElapses
    BY <1>0, <1>27 DEF Posting, CooldownElapses
  <1>28. CASE IntervalElapses
    BY <1>0, <1>28 DEF Posting, IntervalElapses
  <1>29. CASE Restart
    BY <1>0, <1>29 DEF Posting, Restart
  <1>30. CASE UNCHANGED vars
    BY <1>0, <1>30 DEF Posting, vars
  <1> QED
    BY <1>1, <1>2, <1>3, <1>4, <1>5, <1>6, <1>7, <1>8, <1>9, <1>10, <1>11, <1>12,
       <1>13, <1>14, <1>15, <1>16, <1>17, <1>18, <1>19, <1>20, <1>21, <1>22, <1>23, <1>24,
       <1>25, <1>26, <1>27, <1>28, <1>29, <1>30
    DEF Next, Closer, Worker, Pass

LEMMA BreakerStep == DotnetAssumption /\ TypeOK /\ Gated /\ Breaker /\ [Next]_vars => Breaker'
  <1> SUFFICES ASSUME DotnetAssumption, TypeOK, Gated, Breaker, [Next]_vars PROVE Breaker'
    OBVIOUS
  <1> USE DEF callVars, lineVars, holdVars, drainVars, threadVars, diskVars, flushVars
  <1>0. Breaker /\ Flags /\ Places /\ tmp.after \in Ends /\ tmp \in [lines : Seq(Entry), after : Ends]
    <2>1. Places /\ Disk
      BY Parts
    <2> QED BY <2>1, Parts DEF Disk
  <1> USE DEF Ends
  <1>a. (gate = "none" <=> pass = "none") /\ (pass \in {"trim", "moving"} => tmp.after # "none")
    BY DEF Gated
  <1>1. CASE LogStart
    BY <1>0, <1>1 DEF Breaker, LogStart
  <1>2. CASE Enqueue
    BY <1>0, <1>2 DEF Breaker, Enqueue
  <1>3. CASE Signal
    BY <1>0, <1>3 DEF Breaker, Signal
  <1>4. CASE Flush
    BY <1>0, <1>4 DEF Breaker, Flush
  <1>5. CASE FlushTimesOut
    BY <1>0, <1>5 DEF Breaker, FlushTimesOut
  <1>6. CASE Dispose
    BY <1>0, <1>6 DEF Breaker, Dispose
  <1>7. CASE Look
    BY <1>0, <1>7 DEF Breaker, Look
  <1>8. CASE Wake
    BY <1>0, <1>8 DEF Breaker, Wake
  <1>9. CASE Exit
    BY <1>0, <1>9 DEF Breaker, Exit, ReleaseMarkers
  <1>10. CASE WorkerEnters
    BY <1>0, <1>10, <1>a DEF Breaker, WorkerEnters, Enter, PersistPending
  <1>11. CASE Trim
    BY <1>0, <1>11, <1>a DEF Breaker, Trim, Rewrite
  <1>12. CASE Move
    BY <1>0, <1>12, <1>a DEF Breaker, Move
  <1>13. CASE Decide
    BY <1>0, <1>13 DEF Breaker, Decide, Release, Resumed
  <1>14. CASE Drain
    <2>1. UNCHANGED <<open, cool>> /\ pass' \in {"finish", "posting"} /\ pass = "drain"
      BY <1>14 DEF Drain
    <2> QED BY <1>0, <2>1 DEF Breaker
  <1>15. CASE Accepted
    BY <1>0, <1>15 DEF Breaker, Accepted, Settle
  <1>16. CASE Rejected
    BY <1>0, <1>16 DEF Breaker, Rejected, Settle
  <1>17. CASE Failed
    BY <1>0, <1>17 DEF Breaker, Failed
  <1>18. CASE Compact
    BY <1>0, <1>18 DEF Breaker, Compact, Rewrite
  <1>19. CASE Finish
    BY <1>0, <1>19 DEF Breaker, Finish, Release
  <1>20. CASE Leave
    BY <1>0, <1>20 DEF Breaker, Leave, Release
  <1>21. CASE CloserLoops
    BY <1>0, <1>21 DEF Breaker, CloserLoops
  <1>22. CASE CloserEnters
    BY <1>0, <1>22, <1>a DEF Breaker, CloserEnters, Enter, PersistPending
  <1>23. CASE CloserPersists
    BY <1>0, <1>23, <1>a DEF Breaker, CloserPersists, PersistPending
  <1>24. CASE Cancel
    BY <1>0, <1>24 DEF Breaker, Cancel
  <1>25. CASE Joined
    BY <1>0, <1>25 DEF Breaker, Joined, ReleaseMarkers
  <1>26. CASE HoldElapses
    BY <1>0, <1>26 DEF Breaker, HoldElapses
  <1>27. CASE CooldownElapses
    BY <1>0, <1>27 DEF Breaker, CooldownElapses
  <1>28. CASE IntervalElapses
    BY <1>0, <1>28 DEF Breaker, IntervalElapses
  <1>29. CASE Restart
    BY <1>0, <1>29 DEF Breaker, Restart
  <1>30. CASE UNCHANGED vars
    BY <1>0, <1>30 DEF Breaker, vars
  <1> QED
    BY <1>1, <1>2, <1>3, <1>4, <1>5, <1>6, <1>7, <1>8, <1>9, <1>10, <1>11, <1>12,
       <1>13, <1>14, <1>15, <1>16, <1>17, <1>18, <1>19, <1>20, <1>21, <1>22, <1>23, <1>24,
       <1>25, <1>26, <1>27, <1>28, <1>29, <1>30
    DEF Next, Closer, Worker, Pass

LEMMA BoundedStep == DotnetAssumption /\ TypeOK /\ Bounded /\ [Next]_vars => Bounded'
  <1> SUFFICES ASSUME DotnetAssumption, TypeOK, Bounded, [Next]_vars PROVE Bounded'
    OBVIOUS
  <1> USE DEF callVars, lineVars, holdVars, drainVars, threadVars, diskVars, flushVars
  <1>0. Len(queue) \in Nat /\ Len(out) \in Nat /\ queue \in Seq(Entry) /\ out \in Seq(Entry)
    BY DEF TypeOK
  <1>a. MaxQueued \in Nat /\ MaxBatch \in Nat
    BY DEF DotnetAssumption
  <1>1. CASE LogStart
    BY <1>0, <1>1 DEF Bounded, Count, LogStart
  <1>2. CASE Enqueue
    <2>1. Len(queue') <= MaxQueued
      BY <1>2, EnqueueMoves DEF Moved
    <2> QED BY <1>2, <2>1 DEF Bounded, Count, Enqueue
  <1>3. CASE Signal
    BY <1>0, <1>3 DEF Bounded, Count, Signal
  <1>4. CASE Flush
    BY <1>0, <1>4 DEF Bounded, Count, Flush
  <1>5. CASE FlushTimesOut
    BY <1>0, <1>5 DEF Bounded, Count, FlushTimesOut
  <1>6. CASE Dispose
    BY <1>0, <1>6 DEF Bounded, Count, Dispose
  <1>7. CASE Look
    BY <1>0, <1>7 DEF Bounded, Count, Look
  <1>8. CASE Wake
    BY <1>0, <1>8 DEF Bounded, Count, Wake
  <1>9. CASE Exit
    BY <1>0, <1>9 DEF Bounded, Count, Exit, ReleaseMarkers
  <1>10. CASE WorkerEnters
    BY <1>0, <1>10 DEF Bounded, Count, WorkerEnters, Enter
  <1>11. CASE Trim
    BY <1>0, <1>11 DEF Bounded, Count, Trim
  <1>12. CASE Move
    BY <1>0, <1>12 DEF Bounded, Count, Move
  <1>13. CASE Decide
    BY <1>0, <1>13 DEF Bounded, Count, Decide, Release
  <1>14. CASE Drain
    <2>1. \E n \in Nat : n <= MaxBatch /\ n <= Len(queue) /\ Len(out') = n /\ Len(queue') = Len(queue) - n
      BY <1>14, DrainMoves
    <2> QED BY <1>0, <1>a, <2>1 DEF Bounded, Count
  <1>15. CASE Accepted
    <2>1. out' = Rest /\ UNCHANGED queue
      BY <1>15 DEF Accepted, Settle
    <2>2. Len(Rest) <= Len(out) /\ Len(Rest) \in Nat
      BY SettledIs
    <2> QED BY <1>0, <1>a, <2>1, <2>2 DEF Bounded, Count
  <1>16. CASE Rejected
    <2>1. out' = Rest /\ UNCHANGED queue
      BY <1>16 DEF Rejected, Settle
    <2>2. Len(Rest) <= Len(out) /\ Len(Rest) \in Nat
      BY SettledIs
    <2> QED BY <1>0, <1>a, <2>1, <2>2 DEF Bounded, Count
  <1>17. CASE Failed
    <2>1. Len(queue') <= MaxQueued
      BY <1>17, FailedMoves DEF Moved
    <2>2. out' = <<>> /\ Len(<<>>) = 0
      BY <1>17 DEF Failed
    <2> QED BY <1>a, <2>1, <2>2 DEF Bounded, Count
  <1>18. CASE Compact
    BY <1>0, <1>18 DEF Bounded, Count, Compact
  <1>19. CASE Finish
    <2>1. out' = <<>> /\ Len(<<>>) = 0 /\ UNCHANGED queue
      BY <1>19 DEF Finish
    <2> QED BY <1>a, <2>1 DEF Bounded, Count
  <1>20. CASE Leave
    BY <1>0, <1>20 DEF Bounded, Count, Leave, Release
  <1>21. CASE CloserLoops
    BY <1>0, <1>21 DEF Bounded, Count, CloserLoops
  <1>22. CASE CloserEnters
    BY <1>0, <1>22 DEF Bounded, Count, CloserEnters, Enter
  <1>23. CASE CloserPersists
    BY <1>0, <1>23 DEF Bounded, Count, CloserPersists
  <1>24. CASE Cancel
    BY <1>0, <1>24 DEF Bounded, Count, Cancel
  <1>25. CASE Joined
    BY <1>0, <1>25 DEF Bounded, Count, Joined, ReleaseMarkers
  <1>26. CASE HoldElapses
    BY <1>0, <1>26 DEF Bounded, Count, HoldElapses
  <1>27. CASE CooldownElapses
    BY <1>0, <1>27 DEF Bounded, Count, CooldownElapses
  <1>28. CASE IntervalElapses
    BY <1>0, <1>28 DEF Bounded, Count, IntervalElapses
  <1>29. CASE Restart
    <2>1. Len(queue') <= MaxQueued
      BY <1>29, RestartMoves
    <2>2. out' = <<>> /\ Len(<<>>) = 0
      BY <1>29 DEF Restart
    <2> QED BY <1>a, <2>1, <2>2 DEF Bounded, Count
  <1>30. CASE UNCHANGED vars
    BY <1>0, <1>30 DEF Bounded, Count, vars
  <1> QED
    BY <1>1, <1>2, <1>3, <1>4, <1>5, <1>6, <1>7, <1>8, <1>9, <1>10, <1>11, <1>12,
       <1>13, <1>14, <1>15, <1>16, <1>17, <1>18, <1>19, <1>20, <1>21, <1>22, <1>23, <1>24,
       <1>25, <1>26, <1>27, <1>28, <1>29, <1>30
    DEF Next, Closer, Worker, Pass

\* Books, with the two halves of Held counted apart.
Recording == IF recording = 0 \/ landed THEN 0 ELSE 1

Balanced ==
    count.taken = Recording + Len(out) + Len(queue)
                  + count.accepted + count.overflow + count.rejected

\* The two say the same.
LEMMA BooksAre == TypeOK => (Books <=> Balanced)
  <1> SUFFICES ASSUME TypeOK PROVE Books <=> Balanced
    OBVIOUS
  <1>1. Len(Held) = Len(out) + Len(queue)
    BY HeldSet
  <1>2. Len(out) \in Nat /\ Len(queue) \in Nat /\ count \in Counts
    BY DEF TypeOK, Counts
  <1>3. count.accepted \in Nat /\ count.overflow \in Nat /\ count.rejected \in Nat
    BY <1>2 DEF Counts
  <1>4. Recording \in Nat
    BY DEF Recording
  <1> QED BY <1>1, <1>2, <1>3, <1>4 DEF Books, Balanced, Recording

LEMMA BalancedStep == DotnetAssumption /\ TypeOK /\ Posting /\ Balanced /\ [Next]_vars => Balanced'
  <1> SUFFICES ASSUME DotnetAssumption, TypeOK, Posting, Balanced, [Next]_vars PROVE Balanced'
    OBVIOUS
  <1> USE DEF callVars, lineVars, holdVars, drainVars, threadVars, diskVars, flushVars
  <1>0. Len(queue) \in Nat /\ Len(out) \in Nat /\ queue \in Seq(Entry) /\ out \in Seq(Entry)
    BY DEF TypeOK
  <1>a. /\ count \in Counts /\ count.taken \in Nat /\ count.accepted \in Nat
        /\ count.overflow \in Nat /\ count.rejected \in Nat
    BY DEF TypeOK, Counts
  <1>b. Balanced /\ Recording \in Nat
    BY DEF Recording
  <1>c. count.taken = Recording + Len(out) + Len(queue)
                      + count.accepted + count.overflow + count.rejected
    BY DEF Balanced
  <1>e. PICK t, o, q, a, v, j \in Nat :
           /\ t = count.taken /\ o = Len(out) /\ q = Len(queue)
           /\ a = count.accepted /\ v = count.overflow /\ j = count.rejected
    BY <1>0, <1>a, Zenon
  <1>f. t = Recording + o + q + a + v + j
    BY <1>c, <1>e, Zenon
  <1>d. /\ Len(queue) \in Nat /\ Len(out) \in Nat /\ count.taken \in Nat /\ count.accepted \in Nat
        /\ count.overflow \in Nat /\ count.rejected \in Nat /\ Recording \in Nat
    BY <1>0, <1>a, <1>b
  <1>1. CASE LogStart
    <2>1. count' = [count EXCEPT !.taken = @ + 1] /\ UNCHANGED <<queue, out>>
      BY <1>1 DEF LogStart
    <2>2. /\ count'.taken = count.taken + 1 /\ count'.accepted = count.accepted
          /\ count'.overflow = count.overflow /\ count'.rejected = count.rejected
      BY <1>a, <2>1 DEF Counts
    <2>3. Recording = 0 /\ Recording' = 1
      <3>1. next # 0
        BY DEF TypeOK
      <3> QED BY <1>1, <3>1 DEF LogStart, Recording
    <2>5. Len(out') = Len(out) /\ Len(queue') = Len(queue)
      BY <2>1
    <2>6. count'.taken = Recording' + Len(out') + Len(queue')
                        + count'.accepted + count'.overflow + count'.rejected
      BY <1>c, <1>d, <2>2, <2>3, <2>5
    <2> QED BY <2>6 DEF Balanced
  <1>2. CASE Enqueue
    <2>1. PICK lost \in Nat :
             /\ Len(queue') \in Nat /\ Len(queue') + lost = Len(Append(queue, recording))
             /\ count' = [count EXCEPT !.overflow = @ + lost]
      BY <1>2, EnqueueMoves DEF Moved
    <2>2. /\ count'.taken = count.taken /\ count'.accepted = count.accepted
          /\ count'.overflow = count.overflow + lost /\ count'.rejected = count.rejected
      BY <1>a, <2>1 DEF Counts
    <2>3. Recording = 1 /\ Recording' = 0 /\ Len(out') = Len(out)
      BY <1>2 DEF Enqueue, Recording
    <2>4. Len(queue') + lost = Len(queue) + 1
      BY <1>0, <2>1
    <2>5. Len(queue') \in Nat
      BY <2>1
    <2>7. PICK p \in Nat : p = Len(queue')
      BY <2>5
    <2>8. p + lost = q + 1 /\ count'.overflow = v + lost
      BY <1>e, <2>2, <2>4, <2>7, Zenon
    <2>9. t = 0 + o + p + a + (v + lost) + j
      BY <1>f, <2>3, <2>8
    <2>6. count'.taken = Recording' + Len(out') + Len(queue')
                        + count'.accepted + count'.overflow + count'.rejected
      BY <1>e, <2>2, <2>3, <2>7, <2>8, <2>9, Zenon
    <2> QED BY <2>6 DEF Balanced
  <1>3. CASE Signal
    BY <1>0, <1>3 DEF Balanced, Recording, Signal
  <1>4. CASE Flush
    BY <1>0, <1>4 DEF Balanced, Recording, Flush
  <1>5. CASE FlushTimesOut
    BY <1>0, <1>5 DEF Balanced, Recording, FlushTimesOut
  <1>6. CASE Dispose
    BY <1>0, <1>6 DEF Balanced, Recording, Dispose
  <1>7. CASE Look
    BY <1>0, <1>7 DEF Balanced, Recording, Look
  <1>8. CASE Wake
    BY <1>0, <1>8 DEF Balanced, Recording, Wake
  <1>9. CASE Exit
    BY <1>0, <1>9 DEF Balanced, Recording, Exit, ReleaseMarkers
  <1>10. CASE WorkerEnters
    BY <1>0, <1>10 DEF Balanced, Recording, WorkerEnters, Enter
  <1>11. CASE Trim
    BY <1>0, <1>11 DEF Balanced, Recording, Trim
  <1>12. CASE Move
    BY <1>0, <1>12 DEF Balanced, Recording, Move
  <1>13. CASE Decide
    BY <1>0, <1>13 DEF Balanced, Recording, Decide, Release
  <1>14. CASE Drain
    <2>1. PICK n \in Nat : n <= Len(queue) /\ Len(out') = n /\ Len(queue') = Len(queue) - n
      BY <1>14, DrainMoves
    <2>2. Recording' = Recording /\ UNCHANGED count /\ pass # "posting"
      BY <1>14 DEF Drain, Recording
    <2>3. Len(out) = 0
      BY <2>2 DEF Posting
    <2> QED BY <1>0, <1>a, <1>b, <2>1, <2>2, <2>3 DEF Balanced
  <1>15. CASE Accepted
    <2>1. /\ count' = [count EXCEPT !.accepted = @ + Len(Batch)] /\ out' = Rest
          /\ UNCHANGED <<queue, recording, landed>>
      BY <1>15 DEF Accepted, Settle
    <2>2. Len(Rest) \in Nat /\ Len(Batch) \in Nat /\ Len(Rest) + Len(Batch) = Len(out)
      BY SettledIs
    <2>3. /\ count'.taken = count.taken /\ count'.accepted = count.accepted + Len(Batch)
          /\ count'.overflow = count.overflow /\ count'.rejected = count.rejected
      BY <1>a, <2>1 DEF Counts
    <2>4. Recording' = Recording /\ Len(out') = Len(Rest) /\ Len(queue') = Len(queue)
      BY <2>1 DEF Recording
    <2>7. PICK l, b \in Nat : l = Len(Rest) /\ b = Len(Batch)
      BY <2>2, Zenon
    <2>8. l + b = o /\ count'.accepted = a + b
      BY <1>e, <2>2, <2>3, <2>7, Zenon
    <2>9. t = Recording + l + q + (a + b) + v + j
      BY <1>b, <1>f, <2>8
    <2>6. count'.taken = Recording' + Len(out') + Len(queue')
                        + count'.accepted + count'.overflow + count'.rejected
      BY <1>e, <2>3, <2>4, <2>7, <2>8, <2>9, Zenon
    <2> QED BY <2>6 DEF Balanced
  <1>16. CASE Rejected
    <2>1. /\ count' = [count EXCEPT !.rejected = @ + Len(Batch)] /\ out' = Rest
          /\ UNCHANGED <<queue, recording, landed>>
      BY <1>16 DEF Rejected, Settle
    <2>2. Len(Rest) \in Nat /\ Len(Batch) \in Nat /\ Len(Rest) + Len(Batch) = Len(out)
      BY SettledIs
    <2>3. /\ count'.taken = count.taken /\ count'.accepted = count.accepted
          /\ count'.overflow = count.overflow /\ count'.rejected = count.rejected + Len(Batch)
      BY <1>a, <2>1 DEF Counts
    <2>4. Recording' = Recording /\ Len(out') = Len(Rest) /\ Len(queue') = Len(queue)
      BY <2>1 DEF Recording
    <2>7. PICK l, b \in Nat : l = Len(Rest) /\ b = Len(Batch)
      BY <2>2, Zenon
    <2>8. l + b = o /\ count'.rejected = j + b
      BY <1>e, <2>2, <2>3, <2>7, Zenon
    <2>9. t = Recording + l + q + a + v + (j + b)
      BY <1>b, <1>f, <2>8
    <2>6. count'.taken = Recording' + Len(out') + Len(queue')
                        + count'.accepted + count'.overflow + count'.rejected
      BY <1>e, <2>3, <2>4, <2>7, <2>8, <2>9, Zenon
    <2> QED BY <2>6 DEF Balanced
  <1>17. CASE Failed
    <2>1. PICK lost \in Nat :
             /\ Len(queue') \in Nat /\ Len(queue') + lost = Len(Held)
             /\ count' = [count EXCEPT !.overflow = @ + lost]
      BY <1>17, FailedMoves DEF Moved
    <2>2. /\ count'.taken = count.taken /\ count'.accepted = count.accepted
          /\ count'.overflow = count.overflow + lost /\ count'.rejected = count.rejected
      BY <1>a, <2>1 DEF Counts
    <2>3. Recording' = Recording /\ Len(out') = 0 /\ Recording \in Nat
      BY <1>b, <1>17 DEF Failed, Recording
    <2>4. Len(queue') + lost = Len(out) + Len(queue)
      BY <2>1, HeldSet
    <2>5. Len(queue') \in Nat
      BY <2>1
    <2>7. PICK p \in Nat : p = Len(queue')
      BY <2>5
    <2>8. p + lost = o + q /\ count'.overflow = v + lost
      BY <1>e, <2>2, <2>4, <2>7, Zenon
    <2>9. t = Recording + 0 + p + a + (v + lost) + j
      BY <1>f, <2>3, <2>8
    <2>6. count'.taken = Recording' + Len(out') + Len(queue')
                        + count'.accepted + count'.overflow + count'.rejected
      BY <1>e, <2>2, <2>3, <2>7, <2>8, <2>9, Zenon
    <2> QED BY <2>6 DEF Balanced
  <1>18. CASE Compact
    BY <1>0, <1>18 DEF Balanced, Recording, Compact
  <1>19. CASE Finish
    <2>1. out' = <<>> /\ UNCHANGED <<queue, count, recording, landed>> /\ pass # "posting"
      BY <1>19 DEF Finish
    <2>2. out = <<>>
      BY <2>1 DEF Posting
    <2> QED BY <1>b, <2>1, <2>2 DEF Balanced, Recording
  <1>20. CASE Leave
    BY <1>0, <1>20 DEF Balanced, Recording, Leave, Release
  <1>21. CASE CloserLoops
    BY <1>0, <1>21 DEF Balanced, Recording, CloserLoops
  <1>22. CASE CloserEnters
    BY <1>0, <1>22 DEF Balanced, Recording, CloserEnters, Enter
  <1>23. CASE CloserPersists
    BY <1>0, <1>23 DEF Balanced, Recording, CloserPersists
  <1>24. CASE Cancel
    BY <1>0, <1>24 DEF Balanced, Recording, Cancel
  <1>25. CASE Joined
    BY <1>0, <1>25 DEF Balanced, Recording, Joined, ReleaseMarkers
  <1>26. CASE HoldElapses
    BY <1>0, <1>26 DEF Balanced, Recording, HoldElapses
  <1>27. CASE CooldownElapses
    BY <1>0, <1>27 DEF Balanced, Recording, CooldownElapses
  <1>28. CASE IntervalElapses
    BY <1>0, <1>28 DEF Balanced, Recording, IntervalElapses
  <1>29. CASE Restart
    <2>1. Len(queue') \in Nat
      BY <1>29, RestartMoves
    <2>2. out' = <<>> /\ recording' = 0 /\ Len(<<>>) = 0
          /\ count' = [taken |-> Len(queue'), accepted |-> 0, overflow |-> 0, rejected |-> 0]
      BY <1>29 DEF Restart
    <2>3. /\ count'.taken = Len(queue') /\ count'.accepted = 0
          /\ count'.overflow = 0 /\ count'.rejected = 0
      BY <2>2
    <2> QED BY <2>1, <2>2, <2>3 DEF Balanced, Recording
  <1>30. CASE UNCHANGED vars
    BY <1>0, <1>30 DEF Balanced, Recording, vars
  <1> QED
    BY <1>1, <1>2, <1>3, <1>4, <1>5, <1>6, <1>7, <1>8, <1>9, <1>10, <1>11, <1>12,
       <1>13, <1>14, <1>15, <1>16, <1>17, <1>18, <1>19, <1>20, <1>21, <1>22, <1>23, <1>24,
       <1>25, <1>26, <1>27, <1>28, <1>29, <1>30
    DEF Next, Closer, Worker, Pass

-------------------------------------------------------------------------------
(* The entries the state names, and their numbers.                         *)

\* The entries of the queue and of the request that is out.
Line == ToSet(out) \cup ToSet(queue)

\* They are what is held.
LEMMA HeldIs == DotnetAssumption /\ TypeOK => ToSet(Held) = Line
  BY JoinIs DEF TypeOK, Held, Line

\* Every entry the state names, the history included.
Known == Line \cup ToSet(file) \cup ToSet(tmp.lines) \cup acked \cup asked

\* They are numbers from 1 to MaxId.
LEMMA KnownEntries == DotnetAssumption /\ TypeOK => Known \subseteq Entry /\ Entry \subseteq Nat
  <1> SUFFICES ASSUME DotnetAssumption, TypeOK PROVE Known \subseteq Entry /\ Entry \subseteq Nat
    OBVIOUS
  <1>1. out \in Seq(Entry) /\ queue \in Seq(Entry) /\ file \in Seq(Entry) /\ acked \subseteq Entry /\ asked \subseteq Entry
    BY DEF TypeOK
  <1>2. tmp.lines \in Seq(Entry)
    <2>1. Disk
      BY Parts
    <2> QED BY <2>1 DEF Disk
  <1>3. ToSet(out) \subseteq Entry /\ ToSet(queue) \subseteq Entry /\ ToSet(file) \subseteq Entry
        /\ ToSet(tmp.lines) \subseteq Entry /\ Entry \subseteq Nat
    BY <1>1, <1>2, OfEntries
  <1> QED BY <1>1, <1>3 DEF Known, Line

\* A step names nothing new but what an Enqueue has put in the queue.
Handed ==
    /\ \A e \in Known' : e \in Known \/ (recording # 0 /\ ~landed /\ landed' /\ e = recording)
    /\ journaled' \in {0, journaled} \cup Known

\* No rewritten file is an empty one.
LEMMA EmptyLines == ToSet(NoTmp.lines) = {}
  <1>1. NoTmp.lines = <<>>
    BY DEF NoTmp
  <1> QED BY <1>1, EmptySet

\* Saving names nothing new,
LEMMA SavedHanded == Saved /\ UNCHANGED <<out, queue, acked, asked>> => Handed
  <1> SUFFICES ASSUME Saved, UNCHANGED <<out, queue, acked, asked>> PROVE Handed
    OBVIOUS
  <1>1. CASE UNCHANGED diskVars
    BY <1>1 DEF Handed, Known, Line, diskVars
  <1>2. CASE \E after \in {"decide", "leave"} : Persisted(after)
    <2>1. PICK after \in {"decide", "leave"} : Persisted(after)
      BY <1>2
    <2>2. /\ \A e \in ToSet(file') : e \in ToSet(file) \/ e \in ToSet(queue)
          /\ journaled' \in {journaled} \cup ToSet(queue)
      BY <2>1 DEF Persisted
    <2>3. tmp' = tmp \/ tmp' = [lines |-> <<>>, after |-> after]
      BY <2>1 DEF Persisted
    <2>4. tmp'.lines = tmp.lines \/ tmp'.lines = <<>>
      BY <2>3
    <2>5. ToSet(tmp'.lines) \subseteq ToSet(tmp.lines)
      BY <2>4, EmptySet
    <2> QED BY <2>2, <2>5 DEF Handed, Known, Line
  <1> QED BY <1>1, <1>2 DEF Saved

\* nor does a rewrite,
LEMMA RewrittenHanded ==
    ASSUME NEW STATE lines, ToSet(lines) \subseteq Known, NEW STATE after, Rewrite(lines, after),
           journaled' \in {0, journaled} \cup Known, UNCHANGED <<out, queue, acked, asked>>
    PROVE  Handed
  <1>1. /\ file' = file \/ file' = <<>>
        /\ tmp' = tmp \/ tmp' = [lines |-> lines, after |-> after]
    BY DEF Rewrite
  <1>2. ToSet(file') \subseteq ToSet(file)
    BY <1>1, EmptySet
  <1>3. tmp'.lines = tmp.lines \/ tmp'.lines = lines
    BY <1>1
  <1>4. ToSet(tmp'.lines) \subseteq Known
    BY <1>3 DEF Known
  <1> QED BY <1>2, <1>4 DEF Handed, Known, Line

\* nor does any step but an Enqueue.
LEMMA HandedStep == DotnetAssumption /\ TypeOK /\ [Next]_vars => Handed
  <1> SUFFICES ASSUME DotnetAssumption, TypeOK, [Next]_vars PROVE Handed
    OBVIOUS
  <1> USE DEF callVars, lineVars, holdVars, drainVars, threadVars, diskVars, flushVars
  <1>1. CASE LogStart
    BY <1>1 DEF Handed, Known, Line, LogStart
  <1>2. CASE Enqueue
    <2>1. OldestGo(Append(queue, recording)) /\ recording \in Entry
      BY <1>2, EnqueueMoves
    <2>2. ToSet(Append(queue, recording)) = ToSet(queue) \cup {recording}
      BY <2>1, AppendedSet DEF TypeOK
    <2>3. ToSet(queue') \subseteq ToSet(queue) \cup {recording}
      BY <2>1, <2>2 DEF OldestGo
    <2>4. UNCHANGED <<out, file, tmp, acked, asked, journaled>> /\ recording # 0 /\ ~landed /\ landed'
      BY <1>2 DEF Enqueue
    <2> QED BY <2>3, <2>4 DEF Handed, Known, Line
  <1>3. CASE Signal
    BY <1>3 DEF Handed, Known, Line, Signal
  <1>4. CASE Flush
    <2>1. asked' = ToSet(Held) /\ UNCHANGED <<out, queue, file, tmp, acked, journaled>>
      BY <1>4 DEF Flush
    <2> QED BY <2>1, HeldIs DEF Handed, Known, Line
  <1>5. CASE FlushTimesOut
    BY <1>5 DEF Handed, Known, Line, FlushTimesOut
  <1>6. CASE Dispose
    BY <1>6 DEF Handed, Known, Line, Dispose
  <1>7. CASE Look
    BY <1>7 DEF Handed, Known, Line, Look
  <1>8. CASE Wake
    BY <1>8 DEF Handed, Known, Line, Wake
  <1>9. CASE Exit
    BY <1>9 DEF Handed, Known, Line, Exit, ReleaseMarkers
  <1>10. CASE WorkerEnters
    <2>1. Saved
      BY <1>10, WorkerSaves
    <2>2. UNCHANGED <<out, queue, acked, asked>>
      BY <1>10 DEF WorkerEnters, Enter
    <2> QED BY <2>1, <2>2, SavedHanded
  <1>11. CASE Trim
    <2>1. Rewrite(Newest(MaxLines, file), tmp.after) /\ UNCHANGED <<out, queue, acked, asked, journaled>>
      BY <1>11 DEF Trim
    <2>2. ToSet(Newest(MaxLines, file)) \subseteq Known
      BY TrimMoves DEF Known
    <2>3. journaled' \in {0, journaled} \cup Known
      BY <2>1
    <2> QED BY <2>1, <2>2, <2>3, RewrittenHanded
  <1>12. CASE Move
    <2>1. (file' = tmp.lines \/ file' = file) /\ tmp' = NoTmp /\ UNCHANGED <<out, queue, acked, asked, journaled>>
      BY <1>12 DEF Move
    <2>2. ToSet(tmp'.lines) = {}
      BY <2>1, EmptyLines
    <2>3. ToSet(file') \subseteq ToSet(file) \cup ToSet(tmp.lines)
      BY <2>1
    <2> QED BY <2>1, <2>2, <2>3 DEF Handed, Known, Line
  <1>13. CASE Decide
    BY <1>13 DEF Handed, Known, Line, Decide, Release
  <1>14. CASE Drain
    <2>1. ToSet(queue) = ToSet(out') \cup ToSet(queue')
      BY <1>14, DrainMoves
    <2>2. UNCHANGED <<file, tmp, acked, asked, journaled>>
      BY <1>14 DEF Drain
    <2> QED BY <2>1, <2>2 DEF Handed, Known, Line
  <1>15. CASE Accepted
    <2>1. out' = Rest /\ acked' \subseteq acked \cup ToSet(Batch) /\ UNCHANGED <<queue, file, tmp, asked, journaled>>
      BY <1>15 DEF Accepted, Settle
    <2>2. ToSet(Rest) \subseteq ToSet(out) /\ ToSet(Batch) \subseteq ToSet(out)
      BY SettledIs
    <2> QED BY <2>1, <2>2 DEF Handed, Known, Line
  <1>16. CASE Rejected
    <2>1. out' = Rest /\ acked' \subseteq acked \cup ToSet(Batch) /\ UNCHANGED <<queue, file, tmp, asked, journaled>>
      BY <1>16 DEF Rejected, Settle
    <2>2. ToSet(Rest) \subseteq ToSet(out) /\ ToSet(Batch) \subseteq ToSet(out)
      BY SettledIs
    <2> QED BY <2>1, <2>2 DEF Handed, Known, Line
  <1>17. CASE Failed
    <2>1. ToSet(queue') \subseteq ToSet(Held)
      BY <1>17, FailedMoves DEF OldestGo
    <2>2. out' = <<>> /\ UNCHANGED <<file, tmp, acked, asked, journaled>>
      BY <1>17 DEF Failed
    <2>3. ToSet(out') = {}
      BY <2>2, EmptySet
    <2> QED BY <2>1, <2>2, <2>3, HeldIs DEF Handed, Known, Line
  <1>18. CASE Compact
    <2>1. UNCHANGED <<out, queue, acked, asked>>
      BY <1>18 DEF Compact
    <2>2. CASE ~cfg.disk \/ broken
      BY <1>18, <2>1, <2>2 DEF Handed, Known, Line, Compact
    <2>3. CASE cfg.disk /\ ~broken
      <3>1. Rewrite(Picked(queue, Durable), "finish") /\ journaled' = Highest(queue, 0)
        BY <1>18, <2>3 DEF Compact
      <3>2. ToSet(Picked(queue, Durable)) \subseteq Known
        BY CompactMoves DEF Known, Line
      <3>3. journaled' \in {0, journaled} \cup Known
        BY <3>1, CompactMoves DEF Known, Line
      <3> QED BY <2>1, <3>1, <3>2, <3>3, RewrittenHanded
    <2> QED BY <2>2, <2>3
  <1>19. CASE Finish
    <2>1. out' = <<>> /\ UNCHANGED <<queue, file, tmp, acked, asked, journaled>>
      BY <1>19 DEF Finish
    <2>2. ToSet(out') = {}
      BY <2>1, EmptySet
    <2> QED BY <2>1, <2>2 DEF Handed, Known, Line
  <1>20. CASE Leave
    BY <1>20 DEF Handed, Known, Line, Leave, Release
  <1>21. CASE CloserLoops
    BY <1>21 DEF Handed, Known, Line, CloserLoops
  <1>22. CASE CloserEnters
    <2>1. Saved
      BY <1>22, CloserSaves
    <2>2. UNCHANGED <<out, queue, acked, asked>>
      BY <1>22 DEF CloserEnters, Enter
    <2> QED BY <2>1, <2>2, SavedHanded
  <1>23. CASE CloserPersists
    <2>1. Saved
      BY <1>23, LastSaves
    <2>2. UNCHANGED <<out, queue, acked, asked>>
      BY <1>23 DEF CloserPersists
    <2> QED BY <2>1, <2>2, SavedHanded
  <1>24. CASE Cancel
    BY <1>24 DEF Handed, Known, Line, Cancel
  <1>25. CASE Joined
    BY <1>25 DEF Handed, Known, Line, Joined, ReleaseMarkers
  <1>26. CASE HoldElapses
    BY <1>26 DEF Handed, Known, Line, HoldElapses
  <1>27. CASE CooldownElapses
    BY <1>27 DEF Handed, Known, Line, CooldownElapses
  <1>28. CASE IntervalElapses
    BY <1>28 DEF Handed, Known, Line, IntervalElapses
  <1>29. CASE Restart
    <2>1. ToSet(queue') \subseteq ToSet(file) /\ ToSet(file') \subseteq ToSet(file) /\ journaled' \in {0} \cup ToSet(queue')
      BY <1>29, RestartMoves
    <2>2. out' = <<>> /\ tmp' = NoTmp /\ asked' = {} /\ UNCHANGED acked
      BY <1>29 DEF Restart
    <2>3. ToSet(out') = {} /\ ToSet(tmp'.lines) = {}
      BY <2>2, EmptySet, EmptyLines
    <2> QED BY <2>1, <2>2, <2>3 DEF Handed, Known, Line
  <1>30. CASE UNCHANGED vars
    BY <1>30 DEF Handed, Known, Line, vars
  <1> QED
    BY <1>1, <1>2, <1>3, <1>4, <1>5, <1>6, <1>7, <1>8, <1>9, <1>10, <1>11, <1>12,
       <1>13, <1>14, <1>15, <1>16, <1>17, <1>18, <1>19, <1>20, <1>21, <1>22, <1>23, <1>24,
       <1>25, <1>26, <1>27, <1>28, <1>29, <1>30
    DEF Next, Closer, Worker, Pass

\* How the caller that logs moves on.
Paced ==
    \/ UNCHANGED callVars
    \/ recording = 0 /\ recording' = next /\ next' = next + 1 /\ ~landed'
    \/ recording # 0 /\ ~landed /\ landed' /\ UNCHANGED <<recording, next>>
    \/ recording' = 0 /\ ~landed' /\ landed /\ UNCHANGED next
    \/ recording' = 0 /\ ~landed' /\ UNCHANGED next /\ Restart

\* Every step is one of these.
LEMMA PacedStep == TypeOK /\ [Next]_vars => Paced
  <1> SUFFICES ASSUME TypeOK, [Next]_vars PROVE Paced
    OBVIOUS
  <1> USE DEF callVars, lineVars, holdVars, drainVars, threadVars, diskVars, flushVars
  <1>1. CASE LogStart
    BY <1>1 DEF Paced, LogStart
  <1>2. CASE Enqueue
    BY <1>2 DEF Paced, Enqueue
  <1>3. CASE Signal
    BY <1>3 DEF Paced, Signal
  <1>4. CASE Flush
    BY <1>4 DEF Paced, Flush
  <1>5. CASE FlushTimesOut
    BY <1>5 DEF Paced, FlushTimesOut
  <1>6. CASE Dispose
    BY <1>6 DEF Paced, Dispose
  <1>7. CASE Look
    BY <1>7 DEF Paced, Look
  <1>8. CASE Wake
    BY <1>8 DEF Paced, Wake
  <1>9. CASE Exit
    BY <1>9 DEF Paced, Exit, ReleaseMarkers
  <1>10. CASE WorkerEnters
    BY <1>10 DEF Paced, WorkerEnters, Enter
  <1>11. CASE Trim
    BY <1>11 DEF Paced, Trim
  <1>12. CASE Move
    BY <1>12 DEF Paced, Move
  <1>13. CASE Decide
    BY <1>13 DEF Paced, Decide, Release
  <1>14. CASE Drain
    BY <1>14 DEF Paced, Drain
  <1>15. CASE Accepted
    BY <1>15 DEF Paced, Accepted, Settle
  <1>16. CASE Rejected
    BY <1>16 DEF Paced, Rejected, Settle
  <1>17. CASE Failed
    BY <1>17 DEF Paced, Failed
  <1>18. CASE Compact
    BY <1>18 DEF Paced, Compact
  <1>19. CASE Finish
    BY <1>19 DEF Paced, Finish, Release
  <1>20. CASE Leave
    BY <1>20 DEF Paced, Leave, Release
  <1>21. CASE CloserLoops
    BY <1>21 DEF Paced, CloserLoops
  <1>22. CASE CloserEnters
    BY <1>22 DEF Paced, CloserEnters, Enter
  <1>23. CASE CloserPersists
    BY <1>23 DEF Paced, CloserPersists
  <1>24. CASE Cancel
    BY <1>24 DEF Paced, Cancel
  <1>25. CASE Joined
    BY <1>25 DEF Paced, Joined, ReleaseMarkers
  <1>26. CASE HoldElapses
    BY <1>26 DEF Paced, HoldElapses
  <1>27. CASE CooldownElapses
    BY <1>27 DEF Paced, CooldownElapses
  <1>28. CASE IntervalElapses
    BY <1>28 DEF Paced, IntervalElapses
  <1>29. CASE Restart
    BY <1>29 DEF Paced, Restart
  <1>30. CASE UNCHANGED vars
    BY <1>30 DEF Paced, vars
  <1> QED
    BY <1>1, <1>2, <1>3, <1>4, <1>5, <1>6, <1>7, <1>8, <1>9, <1>10, <1>11, <1>12,
       <1>13, <1>14, <1>15, <1>16, <1>17, <1>18, <1>19, <1>20, <1>21, <1>22, <1>23, <1>24,
       <1>25, <1>26, <1>27, <1>28, <1>29, <1>30
    DEF Next, Closer, Worker, Pass

\* What the next Enqueue takes is newer than all that is named, and than the watermark.
Coming == IF recording # 0 /\ ~landed THEN recording ELSE next

Numbered ==
    /\ recording # 0 => recording + 1 = next
    /\ \A e \in Known : e < Coming
    /\ journaled < Coming

LEMMA NumberedStep == DotnetAssumption /\ TypeOK /\ Numbered /\ [Next]_vars => Numbered'
  <1> SUFFICES ASSUME DotnetAssumption, TypeOK, Numbered, [Next]_vars PROVE Numbered'
    OBVIOUS
  <1>1. Handed /\ Paced
    BY HandedStep, PacedStep
  <1>2. /\ recording \in Nat /\ next \in Nat /\ 1 <= next /\ landed \in BOOLEAN /\ journaled \in Nat
    BY DEF TypeOK, DotnetAssumption
  <1>3. \A e \in Known : e \in Nat
    BY KnownEntries
  <1>4. /\ recording # 0 => recording + 1 = next
        /\ \A e \in Known : e < Coming
        /\ journaled < Coming
    BY DEF Numbered
  <1>5. /\ Coming \in Nat /\ Coming' \in Nat /\ Coming <= Coming' /\ 0 < Coming'
        /\ recording # 0 /\ ~landed /\ landed' => recording < Coming'
        /\ recording' # 0 => recording' + 1 = next'
    <2>1. CASE UNCHANGED callVars
      BY <1>2, <1>4, <2>1 DEF Coming, callVars
    <2>2. CASE ~ UNCHANGED callVars
      BY <1>1, <1>2, <1>4, <2>2 DEF Coming, Paced
    <2> QED BY <2>1, <2>2
  <1>6. ASSUME NEW e \in Known' PROVE e < Coming'
    <2>1. CASE e \in Known
      BY <1>3, <1>4, <1>5, <2>1
    <2>2. CASE e \notin Known
      BY <1>1, <1>5, <2>2 DEF Handed
    <2> QED BY <2>1, <2>2
  <1>7. journaled' < Coming'
    <2>1. journaled' = 0 \/ journaled' = journaled \/ journaled' \in Known
      BY <1>1 DEF Handed
    <2> QED BY <1>2, <1>3, <1>4, <1>5, <2>1
  <1> QED BY <1>5, <1>6, <1>7 DEF Numbered

-------------------------------------------------------------------------------
(* The order of the line and of the file.                                  *)

\* A rewritten file waits for its name only while the pass is moving it.
Aside == tmp.lines # <<>> => pass = "moving"

\* What is out is older than what is queued, and each is in order, the file too.
Sorted ==
    /\ Increasing(out) /\ Increasing(queue) /\ Increasing(file) /\ Increasing(tmp.lines)
    /\ \A x \in ToSet(out), y \in ToSet(queue) : x < y

\* The watermark has passed all that is in the file.
Behind ==
    ~broken => \A e \in ToSet(file) \cup ToSet(tmp.lines) : e <= journaled

\* The empty sequence is in order.
LEMMA EmptyIncreases == Increasing(<<>>) /\ Increasing(NoTmp.lines)
  <1>1. NoTmp.lines = <<>> /\ Len(<<>>) = 0
    BY DEF NoTmp
  <1>2. Increasing(<<>>)
    BY <1>1 DEF Increasing
  <1> QED BY <1>1, <1>2

\* Nobody in a pass: nothing is out.
LEMMA Ungated == Gated /\ Posting => (gate = "none" => pass = "none" /\ out = <<>>)
  BY DEF Gated, Posting

\* What PersistPending() does, with the whole line queued.
LEMMA SavedTmp == Saved => tmp' = tmp \/ tmp'.lines = <<>>
  <1> SUFFICES ASSUME Saved PROVE tmp' = tmp \/ tmp'.lines = <<>>
    OBVIOUS
  <1>1. CASE UNCHANGED diskVars
    BY <1>1 DEF diskVars
  <1>2. CASE \E after \in {"decide", "leave"} : Persisted(after)
    <2>1. PICK after \in {"decide", "leave"} : Persisted(after)
      BY <1>2
    <2>2. tmp' = tmp \/ tmp' = [lines |-> <<>>, after |-> after]
      BY <2>1 DEF Persisted
    <2> QED BY <2>2
  <1> QED BY <1>1, <1>2 DEF Saved

LEMMA AsideStep == DotnetAssumption /\ TypeOK /\ Gated /\ Aside /\ [Next]_vars => Aside'
  <1> SUFFICES ASSUME DotnetAssumption, TypeOK, Gated, Aside, [Next]_vars PROVE Aside'
    OBVIOUS
  <1> USE DEF callVars, lineVars, holdVars, drainVars, threadVars, diskVars, flushVars
  <1>0. Aside /\ Gated
    OBVIOUS
  <1>1. CASE LogStart
    BY <1>0, <1>1 DEF Aside, LogStart
  <1>2. CASE Enqueue
    BY <1>0, <1>2 DEF Aside, Enqueue
  <1>3. CASE Signal
    BY <1>0, <1>3 DEF Aside, Signal
  <1>4. CASE Flush
    BY <1>0, <1>4 DEF Aside, Flush
  <1>5. CASE FlushTimesOut
    BY <1>0, <1>5 DEF Aside, FlushTimesOut
  <1>6. CASE Dispose
    BY <1>0, <1>6 DEF Aside, Dispose
  <1>7. CASE Look
    BY <1>0, <1>7 DEF Aside, Look
  <1>8. CASE Wake
    BY <1>0, <1>8 DEF Aside, Wake
  <1>9. CASE Exit
    BY <1>0, <1>9 DEF Aside, Exit, ReleaseMarkers
  <1>10. CASE WorkerEnters
    <2>1. tmp' = tmp \/ tmp'.lines = <<>>
      BY <1>10, WorkerSaves, SavedTmp
    <2>2. tmp = tmp' => tmp.lines = tmp'.lines
      OBVIOUS
    <2>3. gate = "none" \/ (UNCHANGED <<pass, tmp>>)
      BY <1>10 DEF WorkerEnters, CloserEnters, CloserPersists, Enter, diskVars
    <2>4. gate = "none" => tmp.lines = <<>>
      BY <1>0 DEF Aside, Gated
    <2> QED BY <1>0, <2>1, <2>2, <2>3, <2>4 DEF Aside
  <1>11. CASE Trim
    BY <1>0, <1>11 DEF Aside, Trim, Rewrite
  <1>12. CASE Move
    BY <1>0, <1>12 DEF Aside, Move, NoTmp
  <1>13. CASE Decide
    BY <1>0, <1>13 DEF Aside, Decide, Release
  <1>14. CASE Drain
    BY <1>0, <1>14 DEF Aside, Drain
  <1>15. CASE Accepted
    BY <1>0, <1>15 DEF Aside, Accepted, Settle
  <1>16. CASE Rejected
    BY <1>0, <1>16 DEF Aside, Rejected, Settle
  <1>17. CASE Failed
    BY <1>0, <1>17 DEF Aside, Failed
  <1>18. CASE Compact
    BY <1>0, <1>18 DEF Aside, Compact, Rewrite
  <1>19. CASE Finish
    BY <1>0, <1>19 DEF Aside, Finish, Release
  <1>20. CASE Leave
    BY <1>0, <1>20 DEF Aside, Leave, Release
  <1>21. CASE CloserLoops
    BY <1>0, <1>21 DEF Aside, CloserLoops
  <1>22. CASE CloserEnters
    <2>1. tmp' = tmp \/ tmp'.lines = <<>>
      BY <1>22, CloserSaves, SavedTmp
    <2>2. tmp = tmp' => tmp.lines = tmp'.lines
      OBVIOUS
    <2>3. gate = "none" \/ (UNCHANGED <<pass, tmp>>)
      BY <1>22 DEF WorkerEnters, CloserEnters, CloserPersists, Enter, diskVars
    <2>4. gate = "none" => tmp.lines = <<>>
      BY <1>0 DEF Aside, Gated
    <2> QED BY <1>0, <2>1, <2>2, <2>3, <2>4 DEF Aside
  <1>23. CASE CloserPersists
    <2>1. tmp' = tmp \/ tmp'.lines = <<>>
      BY <1>23, LastSaves, SavedTmp
    <2>2. tmp = tmp' => tmp.lines = tmp'.lines
      OBVIOUS
    <2>3. gate = "none" \/ (UNCHANGED <<pass, tmp>>)
      BY <1>23 DEF WorkerEnters, CloserEnters, CloserPersists, Enter, diskVars
    <2>4. gate = "none" => tmp.lines = <<>>
      BY <1>0 DEF Aside, Gated
    <2> QED BY <1>0, <2>1, <2>2, <2>3, <2>4 DEF Aside
  <1>24. CASE Cancel
    BY <1>0, <1>24 DEF Aside, Cancel
  <1>25. CASE Joined
    BY <1>0, <1>25 DEF Aside, Joined, ReleaseMarkers
  <1>26. CASE HoldElapses
    BY <1>0, <1>26 DEF Aside, HoldElapses
  <1>27. CASE CooldownElapses
    BY <1>0, <1>27 DEF Aside, CooldownElapses
  <1>28. CASE IntervalElapses
    BY <1>0, <1>28 DEF Aside, IntervalElapses
  <1>29. CASE Restart
    BY <1>0, <1>29 DEF Aside, Restart, NoTmp
  <1>30. CASE UNCHANGED vars
    BY <1>0, <1>30 DEF Aside, vars
  <1> QED
    BY <1>1, <1>2, <1>3, <1>4, <1>5, <1>6, <1>7, <1>8, <1>9, <1>10, <1>11, <1>12,
       <1>13, <1>14, <1>15, <1>16, <1>17, <1>18, <1>19, <1>20, <1>21, <1>22, <1>23, <1>24,
       <1>25, <1>26, <1>27, <1>28, <1>29, <1>30
    DEF Next, Closer, Worker, Pass

\* What a persisted queue leaves in order, with the file behind the watermark.
LEMMA SavedSorts ==
    ASSUME DotnetAssumption, TypeOK, Sorted, Behind, Saved
    PROVE  Increasing(file') /\ Increasing(tmp'.lines)
  <1>1. CASE UNCHANGED diskVars
    BY <1>1 DEF Sorted, diskVars
  <1>2. CASE ~broken /\ \E after \in {"decide", "leave"} : Persisted(after)
    <2>1. PICK after \in {"decide", "leave"} : Persisted(after)
      BY <1>2
    <2>2. Increasing(file) /\ Increasing(queue) /\ \A e \in ToSet(file) : e <= journaled
      BY <1>2 DEF Sorted, Behind
    <2>3. Increasing(file')
      BY <2>1, <2>2 DEF Persisted
    <2>4. tmp' = tmp \/ tmp' = [lines |-> <<>>, after |-> after]
      BY <2>1 DEF Persisted
    <2>5. tmp'.lines = tmp.lines \/ tmp'.lines = <<>>
      BY <2>4
    <2> QED BY <2>3, <2>5, EmptyIncreases DEF Sorted
  <1> QED BY <1>1, <1>2 DEF Saved

\* A rewrite writes lines that are in order.
LEMMA RewrittenSorts ==
    ASSUME NEW STATE lines, Increasing(lines), NEW STATE after, Rewrite(lines, after), Sorted
    PROVE  Increasing(file') /\ Increasing(tmp'.lines)
  <1>1. /\ file' = file \/ file' = <<>>
        /\ tmp' = tmp \/ tmp' = [lines |-> lines, after |-> after]
    BY DEF Rewrite
  <1>2. tmp'.lines = tmp.lines \/ tmp'.lines = lines
    BY <1>1
  <1> QED BY <1>1, <1>2, EmptyIncreases DEF Sorted

\* What is held is in order.
LEMMA HeldSorts ==
    ASSUME DotnetAssumption, TypeOK, Sorted
    PROVE  Increasing(Held)
  BY JoinIs DEF TypeOK, Held, Sorted

LEMMA SortedStep == DotnetAssumption /\ TypeOK /\ Numbered /\ Behind /\ Sorted /\ [Next]_vars => Sorted'
  <1> SUFFICES ASSUME DotnetAssumption, TypeOK, Numbered, Behind, Sorted, [Next]_vars PROVE Sorted'
    OBVIOUS
  <1> USE DEF callVars, lineVars, holdVars, drainVars, threadVars, diskVars, flushVars
  <1>0. Sorted
    OBVIOUS
  <1>1. CASE LogStart
    BY <1>0, <1>1 DEF Sorted, LogStart
  <1>2. CASE Enqueue
    <2>1. OldestGo(Append(queue, recording)) /\ recording \in Entry /\ queue \in Seq(Entry)
      BY <1>2, EnqueueMoves DEF TypeOK
    <2>2. ToSet(Append(queue, recording)) = ToSet(queue) \cup {recording}
      BY <2>1, AppendedSet
    <2>3. \A x \in ToSet(out) \cup ToSet(queue) : x < recording
      BY <1>2 DEF Numbered, Coming, Known, Line, Enqueue
    <2>4. Increasing(Append(queue, recording))
      BY <1>0, <2>1, <2>3, AppendIncreases DEF Sorted
    <2>5. Increasing(queue') /\ ToSet(queue') \subseteq ToSet(queue) \cup {recording}
      BY <2>1, <2>2, <2>4 DEF OldestGo
    <2>6. UNCHANGED <<out, file, tmp>>
      BY <1>2 DEF Enqueue
    <2>7. \A x \in ToSet(out), y \in ToSet(queue') : x < y
      BY <1>0, <2>3, <2>5 DEF Sorted
    <2> QED BY <1>0, <2>5, <2>6, <2>7 DEF Sorted
  <1>3. CASE Signal
    BY <1>0, <1>3 DEF Sorted, Signal
  <1>4. CASE Flush
    BY <1>0, <1>4 DEF Sorted, Flush
  <1>5. CASE FlushTimesOut
    BY <1>0, <1>5 DEF Sorted, FlushTimesOut
  <1>6. CASE Dispose
    BY <1>0, <1>6 DEF Sorted, Dispose
  <1>7. CASE Look
    BY <1>0, <1>7 DEF Sorted, Look
  <1>8. CASE Wake
    BY <1>0, <1>8 DEF Sorted, Wake
  <1>9. CASE Exit
    BY <1>0, <1>9 DEF Sorted, Exit, ReleaseMarkers
  <1>10. CASE WorkerEnters
    <2>1. Increasing(file') /\ Increasing(tmp'.lines)
      BY <1>10, WorkerSaves, SavedSorts
    <2>2. UNCHANGED <<out, queue>>
      BY <1>10 DEF WorkerEnters, CloserEnters, CloserPersists, Enter
    <2> QED BY <1>0, <2>1, <2>2 DEF Sorted
  <1>11. CASE Trim
    <2>1. Rewrite(Newest(MaxLines, file), tmp.after) /\ UNCHANGED <<out, queue>>
      BY <1>11 DEF Trim
    <2>2. Increasing(Newest(MaxLines, file))
      BY <1>0, TrimMoves DEF Sorted
    <2>3. Increasing(file') /\ Increasing(tmp'.lines)
      BY <2>1, <2>2, RewrittenSorts
    <2> QED BY <1>0, <2>1, <2>3 DEF Sorted
  <1>12. CASE Move
    <2>1. (file' = tmp.lines \/ file' = file) /\ tmp' = NoTmp /\ UNCHANGED <<out, queue>>
      BY <1>12 DEF Move
    <2> QED BY <1>0, <2>1, EmptyIncreases DEF Sorted
  <1>13. CASE Decide
    BY <1>0, <1>13 DEF Sorted, Decide, Release
  <1>14. CASE Drain
    <2>1. /\ Increasing(out') /\ Increasing(queue')
          /\ \A x \in ToSet(out'), y \in ToSet(queue') : x < y
      BY <1>0, <1>14, DrainMoves DEF Sorted
    <2>2. UNCHANGED <<file, tmp>>
      BY <1>14 DEF Drain
    <2> QED BY <1>0, <2>1, <2>2 DEF Sorted
  <1>15. CASE Accepted
    <2>1. out' = Rest /\ UNCHANGED <<queue, file, tmp>>
      BY <1>15 DEF Accepted, Settle
    <2>2. ToSet(Rest) \subseteq ToSet(out) /\ (Increasing(out) => Increasing(Rest))
      BY SettledIs
    <2> QED BY <1>0, <2>1, <2>2 DEF Sorted
  <1>16. CASE Rejected
    <2>1. out' = Rest /\ UNCHANGED <<queue, file, tmp>>
      BY <1>16 DEF Rejected, Settle
    <2>2. ToSet(Rest) \subseteq ToSet(out) /\ (Increasing(out) => Increasing(Rest))
      BY SettledIs
    <2> QED BY <1>0, <2>1, <2>2 DEF Sorted
  <1>17. CASE Failed
    <2>1. Increasing(queue')
      BY <1>17, FailedMoves, HeldSorts DEF OldestGo
    <2>2. out' = <<>> /\ UNCHANGED <<file, tmp>>
      BY <1>17 DEF Failed
    <2> QED BY <1>0, <2>1, <2>2, EmptySet, EmptyIncreases DEF Sorted
  <1>18. CASE Compact
    <2>1. UNCHANGED <<out, queue>>
      BY <1>18 DEF Compact
    <2>2. CASE ~cfg.disk \/ broken
      BY <1>0, <1>18, <2>1, <2>2 DEF Sorted, Compact
    <2>3. CASE cfg.disk /\ ~broken
      <3>1. Rewrite(Picked(queue, Durable), "finish")
        BY <1>18, <2>3 DEF Compact
      <3>2. Increasing(Picked(queue, Durable))
        BY <1>0, CompactMoves DEF Sorted
      <3>3. Increasing(file') /\ Increasing(tmp'.lines)
        BY <3>1, <3>2, RewrittenSorts
      <3> QED BY <1>0, <2>1, <3>3 DEF Sorted
    <2> QED BY <2>2, <2>3
  <1>19. CASE Finish
    <2>1. out' = <<>> /\ UNCHANGED <<queue, file, tmp>>
      BY <1>19 DEF Finish
    <2> QED BY <1>0, <2>1, EmptySet, EmptyIncreases DEF Sorted
  <1>20. CASE Leave
    BY <1>0, <1>20 DEF Sorted, Leave, Release
  <1>21. CASE CloserLoops
    BY <1>0, <1>21 DEF Sorted, CloserLoops
  <1>22. CASE CloserEnters
    <2>1. Increasing(file') /\ Increasing(tmp'.lines)
      BY <1>22, CloserSaves, SavedSorts
    <2>2. UNCHANGED <<out, queue>>
      BY <1>22 DEF WorkerEnters, CloserEnters, CloserPersists, Enter
    <2> QED BY <1>0, <2>1, <2>2 DEF Sorted
  <1>23. CASE CloserPersists
    <2>1. Increasing(file') /\ Increasing(tmp'.lines)
      BY <1>23, LastSaves, SavedSorts
    <2>2. UNCHANGED <<out, queue>>
      BY <1>23 DEF WorkerEnters, CloserEnters, CloserPersists, Enter
    <2> QED BY <1>0, <2>1, <2>2 DEF Sorted
  <1>24. CASE Cancel
    BY <1>0, <1>24 DEF Sorted, Cancel
  <1>25. CASE Joined
    BY <1>0, <1>25 DEF Sorted, Joined, ReleaseMarkers
  <1>26. CASE HoldElapses
    BY <1>0, <1>26 DEF Sorted, HoldElapses
  <1>27. CASE CooldownElapses
    BY <1>0, <1>27 DEF Sorted, CooldownElapses
  <1>28. CASE IntervalElapses
    BY <1>0, <1>28 DEF Sorted, IntervalElapses
  <1>29. CASE Restart
    <2>1. Increasing(queue') /\ Increasing(file')
      BY <1>0, <1>29, RestartMoves DEF Sorted
    <2>2. out' = <<>> /\ tmp' = NoTmp
      BY <1>29 DEF Restart
    <2> QED BY <2>1, <2>2, EmptySet, EmptyIncreases DEF Sorted
  <1>30. CASE UNCHANGED vars
    BY <1>0, <1>30 DEF Sorted, vars
  <1> QED
    BY <1>1, <1>2, <1>3, <1>4, <1>5, <1>6, <1>7, <1>8, <1>9, <1>10, <1>11, <1>12,
       <1>13, <1>14, <1>15, <1>16, <1>17, <1>18, <1>19, <1>20, <1>21, <1>22, <1>23, <1>24,
       <1>25, <1>26, <1>27, <1>28, <1>29, <1>30
    DEF Next, Closer, Worker, Pass

-------------------------------------------------------------------------------
(* What is settled stays settled, and no wake-up is lost.                  *)

\* An entry a 2xx has answered for is not in the first run's line again.
Unsent == run = 1 => Line \cap acked = {}

\* The marker is behind all that the flush waits for, and so is what it takes along.
Waits ==
    /\ marked => \A i \in 1..Len(queue) : i > ahead => queue[i] \notin asked
    /\ carried /\ allSent => ToSet(queue) \cap asked = {}
    /\ marked \/ carried => answer # "none"

\* The worker does not sleep, nor end a pass, with something past the watermark
\* and no wake-up set, but for what a Log has only just put in the queue.
Noticed ==
    cfg.disk /\ ~broken /\ ~wake /\ worker \in {"look", "waiting", "pass"} =>
        \A e \in Line : e <= journaled \/ (landed /\ e = recording)

\* Saving moves the watermark over what it appends;
LEMMA SavedBehind ==
    ASSUME DotnetAssumption, TypeOK, Behind, Saved
    PROVE  Behind'
  <1>1. CASE UNCHANGED diskVars
    BY <1>1 DEF Behind, diskVars
  <1>2. CASE ~broken /\ \E after \in {"decide", "leave"} : Persisted(after)
    <2>1. PICK after \in {"decide", "leave"} : Persisted(after)
      BY <1>2
    <2>2. \A e \in Known : e \in Nat
      BY KnownEntries
    <2>3. \A e \in ToSet(file) \cup ToSet(tmp.lines) : e <= journaled /\ e \in Nat
      BY <1>2, <2>2 DEF Behind, Known
    <2>4. journaled <= journaled' /\ journaled \in Nat /\ journaled' \in Nat
      BY <2>1 DEF Persisted, TypeOK, DotnetAssumption
    <2>5. /\ \A e \in ToSet(file') : e \in ToSet(file) \/ e \in ToSet(queue)
          /\ \A e \in ToSet(queue) : e <= journaled'
      BY <2>1 DEF Persisted
    <2>6. tmp' = tmp \/ tmp' = [lines |-> <<>>, after |-> after]
      BY <2>1 DEF Persisted
    <2>7. tmp'.lines = tmp.lines \/ tmp'.lines = <<>>
      BY <2>6
    <2>8. ToSet(tmp'.lines) \subseteq ToSet(tmp.lines)
      BY <2>7, EmptySet
    <2>9. \A e \in ToSet(file) \cup ToSet(tmp.lines) : e <= journaled'
      BY <2>3, <2>4
    <2> QED BY <2>5, <2>8, <2>9 DEF Behind
  <1> QED BY <1>1, <1>2 DEF Saved

\* a rewrite writes nothing the watermark has not passed.
LEMMA RewrittenBehind ==
    ASSUME NEW STATE lines, NEW STATE after, Rewrite(lines, after), ~broken' => ~broken,
           ~broken' => (\A e \in ToSet(lines) \cup ToSet(tmp.lines) : e <= journaled')
    PROVE  Behind'
  <1>1. CASE file' = <<>>
    <2>1. tmp' = tmp \/ tmp' = [lines |-> lines, after |-> after]
      BY DEF Rewrite
    <2>2. tmp'.lines = tmp.lines \/ tmp'.lines = lines
      BY <2>1
    <2>3. ToSet(file') = {}
      BY <1>1, EmptySet
    <2> QED BY <2>2, <2>3 DEF Behind
  <1>2. CASE broken' = TRUE
    BY <1>2 DEF Behind
  <1> QED BY <1>1, <1>2 DEF Rewrite

LEMMA BehindStep == DotnetAssumption /\ TypeOK /\ Gated /\ Posting /\ Aside /\ Behind /\ [Next]_vars => Behind'
  <1> SUFFICES ASSUME DotnetAssumption, TypeOK, Gated, Posting, Aside, Behind, [Next]_vars PROVE Behind'
    OBVIOUS
  <1> USE DEF callVars, lineVars, holdVars, drainVars, threadVars, diskVars, flushVars
  <1>0. Behind
    OBVIOUS
  <1>1. CASE LogStart
    BY <1>0, <1>1 DEF Behind, LogStart
  <1>2. CASE Enqueue
    BY <1>0, <1>2 DEF Behind, Enqueue
  <1>3. CASE Signal
    BY <1>0, <1>3 DEF Behind, Signal
  <1>4. CASE Flush
    BY <1>0, <1>4 DEF Behind, Flush
  <1>5. CASE FlushTimesOut
    BY <1>0, <1>5 DEF Behind, FlushTimesOut
  <1>6. CASE Dispose
    BY <1>0, <1>6 DEF Behind, Dispose
  <1>7. CASE Look
    BY <1>0, <1>7 DEF Behind, Look
  <1>8. CASE Wake
    BY <1>0, <1>8 DEF Behind, Wake
  <1>9. CASE Exit
    BY <1>0, <1>9 DEF Behind, Exit, ReleaseMarkers
  <1>10. CASE WorkerEnters
    BY <1>10, WorkerSaves, SavedBehind
  <1>11. CASE Trim
    <2>1. Rewrite(Newest(MaxLines, file), tmp.after) /\ UNCHANGED journaled
      BY <1>11 DEF Trim
    <2>2. ~broken' => ~broken
      BY <2>1 DEF Rewrite
    <2>3. ToSet(Newest(MaxLines, file)) \subseteq ToSet(file)
      BY TrimMoves
    <2>4. ~broken' => \A e \in ToSet(Newest(MaxLines, file)) \cup ToSet(tmp.lines) : e <= journaled'
      BY <2>1, <2>2, <2>3 DEF Behind
    <2> QED BY <2>1, <2>2, <2>4, RewrittenBehind
  <1>12. CASE Move
    <2>1. /\ file' = tmp.lines \/ file' = file
          /\ broken' = TRUE \/ broken' = broken
          /\ tmp' = NoTmp /\ UNCHANGED journaled
      BY <1>12 DEF Move
    <2> QED BY <2>1, EmptyLines DEF Behind
  <1>13. CASE Decide
    BY <1>0, <1>13 DEF Behind, Decide, Release
  <1>14. CASE Drain
    BY <1>0, <1>14 DEF Behind, Drain
  <1>15. CASE Accepted
    BY <1>0, <1>15 DEF Behind, Accepted, Settle
  <1>16. CASE Rejected
    BY <1>0, <1>16 DEF Behind, Rejected, Settle
  <1>17. CASE Failed
    BY <1>0, <1>17 DEF Behind, Failed
  <1>18. CASE Compact
    <2>2. CASE ~cfg.disk \/ broken
      BY <1>18, <2>2 DEF Behind, Compact
    <2>3. CASE cfg.disk /\ ~broken
      <3>1. Rewrite(Picked(queue, Durable), "finish") /\ journaled' = Highest(queue, 0)
        BY <1>18, <2>3 DEF Compact
      <3>2. ToSet(Picked(queue, Durable)) \subseteq ToSet(queue) /\ \A e \in ToSet(queue) : e <= journaled'
        BY <3>1, CompactMoves
      <3>3. tmp.lines = <<>>
        BY <1>18 DEF Aside, Compact
      <3>4. \A e \in ToSet(Picked(queue, Durable)) \cup ToSet(tmp.lines) : e <= journaled'
        BY <3>2, <3>3, EmptySet
      <3> QED BY <2>3, <3>1, <3>4, RewrittenBehind
    <2> QED BY <2>2, <2>3
  <1>19. CASE Finish
    BY <1>0, <1>19 DEF Behind, Finish, Release
  <1>20. CASE Leave
    BY <1>0, <1>20 DEF Behind, Leave, Release
  <1>21. CASE CloserLoops
    BY <1>0, <1>21 DEF Behind, CloserLoops
  <1>22. CASE CloserEnters
    BY <1>22, CloserSaves, SavedBehind
  <1>23. CASE CloserPersists
    BY <1>23, LastSaves, SavedBehind
  <1>24. CASE Cancel
    BY <1>0, <1>24 DEF Behind, Cancel
  <1>25. CASE Joined
    BY <1>0, <1>25 DEF Behind, Joined, ReleaseMarkers
  <1>26. CASE HoldElapses
    BY <1>0, <1>26 DEF Behind, HoldElapses
  <1>27. CASE CooldownElapses
    BY <1>0, <1>27 DEF Behind, CooldownElapses
  <1>28. CASE IntervalElapses
    BY <1>0, <1>28 DEF Behind, IntervalElapses
  <1>29. CASE Restart
    <2>1. /\ ~broken' => file' = queue'
          /\ \A e \in ToSet(queue') : e <= journaled'
      BY <1>29, RestartMoves
    <2>2. ToSet(tmp'.lines) = {}
      BY <1>29, EmptyLines DEF Restart
    <2> QED BY <2>1, <2>2 DEF Behind
  <1>30. CASE UNCHANGED vars
    BY <1>0, <1>30 DEF Behind, vars
  <1> QED
    BY <1>1, <1>2, <1>3, <1>4, <1>5, <1>6, <1>7, <1>8, <1>9, <1>10, <1>11, <1>12,
       <1>13, <1>14, <1>15, <1>16, <1>17, <1>18, <1>19, <1>20, <1>21, <1>22, <1>23, <1>24,
       <1>25, <1>26, <1>27, <1>28, <1>29, <1>30
    DEF Next, Closer, Worker, Pass

\* What each step of a pass does to the line: a failed request loses at most some of it,
LEMMA FailedLine == DotnetAssumption /\ TypeOK /\ Failed => Line' \subseteq Line /\ out' = <<>>
  <1> SUFFICES ASSUME DotnetAssumption, TypeOK, Failed PROVE Line' \subseteq Line /\ out' = <<>>
    OBVIOUS
  <1>1. ToSet(queue') \subseteq ToSet(Held)
    BY FailedMoves DEF OldestGo
  <1>2. out' = <<>> /\ ToSet(out') = {}
    BY EmptySet DEF Failed
  <1> QED BY <1>1, <1>2, HeldIs DEF Line

\* a Log adds its entry,
LEMMA EnqueueLine ==
    DotnetAssumption /\ TypeOK /\ Enqueue
        => /\ ToSet(queue') \subseteq ToSet(queue) \cup {recording} /\ UNCHANGED out
           /\ Line' \subseteq Line \cup {recording} /\ recording \in Entry
  <1> SUFFICES ASSUME DotnetAssumption, TypeOK, Enqueue
               PROVE  /\ ToSet(queue') \subseteq ToSet(queue) \cup {recording} /\ UNCHANGED out
                      /\ Line' \subseteq Line \cup {recording} /\ recording \in Entry
    OBVIOUS
  <1>1. OldestGo(Append(queue, recording)) /\ recording \in Entry /\ queue \in Seq(Entry)
    BY EnqueueMoves DEF TypeOK
  <1>2. ToSet(Append(queue, recording)) = ToSet(queue) \cup {recording}
    BY <1>1, AppendedSet
  <1>3. UNCHANGED out
    BY DEF Enqueue, drainVars
  <1> QED BY <1>1, <1>2, <1>3 DEF OldestGo, Line

\* a settled request takes its batch out,
LEMMA SettledLine ==
    DotnetAssumption /\ TypeOK /\ (Accepted \/ Rejected)
        => Line' \subseteq Line /\ ToSet(out') \cap ToSet(Batch) = {} /\ UNCHANGED queue
  <1> SUFFICES ASSUME DotnetAssumption, TypeOK, Accepted \/ Rejected
               PROVE  Line' \subseteq Line /\ ToSet(out') \cap ToSet(Batch) = {} /\ UNCHANGED queue
    OBVIOUS
  <1>1. out' = Rest /\ UNCHANGED queue
    BY DEF Accepted, Rejected, Settle, lineVars
  <1> QED BY <1>1, SettledIs DEF Line

\* a drain keeps it,
LEMMA DrainLine == DotnetAssumption /\ TypeOK /\ Posting /\ Drain => Line' = Line /\ out = <<>>
  <1> SUFFICES ASSUME DotnetAssumption, TypeOK, Posting, Drain PROVE Line' = Line /\ out = <<>>
    OBVIOUS
  <1>1. ToSet(queue) = ToSet(out') \cup ToSet(queue')
    BY DrainMoves
  <1>2. out = <<>> /\ ToSet(out) = {}
    BY EmptySet DEF Posting, Drain
  <1> QED BY <1>1, <1>2 DEF Line

\* and the end of a pass finds nothing out.
LEMMA FinishLine == Posting /\ Finish => UNCHANGED <<out, queue>>
  BY DEF Posting, Finish, lineVars

LEMMA UnsentStep == DotnetAssumption /\ TypeOK /\ Posting /\ Numbered /\ Sorted /\ Unsent /\ [Next]_vars => Unsent'
  <1> SUFFICES ASSUME DotnetAssumption, TypeOK, Posting, Numbered, Sorted, Unsent, [Next]_vars PROVE Unsent'
    OBVIOUS
  <1> USE DEF callVars, lineVars, holdVars, drainVars, threadVars, diskVars, flushVars
  <1>0. Unsent
    OBVIOUS
  <1>1. CASE LogStart
    BY <1>0, <1>1 DEF Unsent, Line, LogStart
  <1>2. CASE Enqueue
    <2>1. Line' \subseteq Line \cup {recording} /\ UNCHANGED <<run, acked>>
      BY <1>2, EnqueueLine DEF Enqueue
    <2>2. \A e \in acked : e < recording /\ e \in Nat
      BY <1>2, KnownEntries DEF Numbered, Coming, Known, Enqueue
    <2>3. recording \notin acked
      BY <2>2
    <2> QED BY <1>0, <2>1, <2>3 DEF Unsent
  <1>3. CASE Signal
    BY <1>0, <1>3 DEF Unsent, Line, Signal
  <1>4. CASE Flush
    BY <1>0, <1>4 DEF Unsent, Line, Flush
  <1>5. CASE FlushTimesOut
    BY <1>0, <1>5 DEF Unsent, Line, FlushTimesOut
  <1>6. CASE Dispose
    BY <1>0, <1>6 DEF Unsent, Line, Dispose
  <1>7. CASE Look
    BY <1>0, <1>7 DEF Unsent, Line, Look
  <1>8. CASE Wake
    BY <1>0, <1>8 DEF Unsent, Line, Wake
  <1>9. CASE Exit
    BY <1>0, <1>9 DEF Unsent, Line, Exit, ReleaseMarkers
  <1>10. CASE WorkerEnters
    BY <1>0, <1>10 DEF Unsent, Line, WorkerEnters, Enter
  <1>11. CASE Trim
    BY <1>0, <1>11 DEF Unsent, Line, Trim
  <1>12. CASE Move
    BY <1>0, <1>12 DEF Unsent, Line, Move
  <1>13. CASE Decide
    BY <1>0, <1>13 DEF Unsent, Line, Decide, Release
  <1>14. CASE Drain
    <2>1. Line' \subseteq Line /\ UNCHANGED <<run, acked>>
      BY <1>14, DrainLine DEF Drain
    <2> QED BY <1>0, <2>1 DEF Unsent
  <1>15. CASE Accepted
    <2>1. /\ Line' \subseteq Line /\ ToSet(out') \cap ToSet(Batch) = {}
          /\ UNCHANGED <<run, queue>> /\ acked' = acked \cup ToSet(Batch)
      BY <1>15, SettledLine DEF Accepted, Settle
    <2>2. ToSet(Batch) \subseteq ToSet(out)
      BY SettledIs
    <2>3. \A x \in ToSet(out), y \in ToSet(queue) : x < y /\ x \in Nat
      BY KnownEntries DEF Sorted, Known, Line
    <2>4. ToSet(out) \cap ToSet(queue) = {}
      BY <2>3
    <2>5. Line' \cap ToSet(Batch) = {}
      BY <2>1, <2>2, <2>4 DEF Line
    <2> QED BY <1>0, <2>1, <2>5 DEF Unsent
  <1>16. CASE Rejected
    <2>1. Line' \subseteq Line /\ UNCHANGED <<run, acked>>
      BY <1>16, SettledLine DEF Rejected, Settle
    <2> QED BY <1>0, <2>1 DEF Unsent
  <1>17. CASE Failed
    <2>1. Line' \subseteq Line /\ UNCHANGED <<run, acked>>
      BY <1>17, FailedLine DEF Failed
    <2> QED BY <1>0, <2>1 DEF Unsent
  <1>18. CASE Compact
    BY <1>0, <1>18 DEF Unsent, Line, Compact
  <1>19. CASE Finish
    BY <1>0, <1>19, FinishLine DEF Unsent, Line, Finish, Release
  <1>20. CASE Leave
    BY <1>0, <1>20 DEF Unsent, Line, Leave, Release
  <1>21. CASE CloserLoops
    BY <1>0, <1>21 DEF Unsent, Line, CloserLoops
  <1>22. CASE CloserEnters
    BY <1>0, <1>22 DEF Unsent, Line, CloserEnters, Enter
  <1>23. CASE CloserPersists
    BY <1>0, <1>23 DEF Unsent, Line, CloserPersists
  <1>24. CASE Cancel
    BY <1>0, <1>24 DEF Unsent, Line, Cancel
  <1>25. CASE Joined
    BY <1>0, <1>25 DEF Unsent, Line, Joined, ReleaseMarkers
  <1>26. CASE HoldElapses
    BY <1>0, <1>26 DEF Unsent, Line, HoldElapses
  <1>27. CASE CooldownElapses
    BY <1>0, <1>27 DEF Unsent, Line, CooldownElapses
  <1>28. CASE IntervalElapses
    BY <1>0, <1>28 DEF Unsent, Line, IntervalElapses
  <1>29. CASE Restart
    <2>1. run \in Nat /\ 1 <= run /\ run' = run + 1
      BY <1>29 DEF TypeOK, DotnetAssumption, Restart
    <2> QED BY <2>1 DEF Unsent
  <1>30. CASE UNCHANGED vars
    BY <1>0, <1>30 DEF Unsent, Line, vars
  <1> QED
    BY <1>1, <1>2, <1>3, <1>4, <1>5, <1>6, <1>7, <1>8, <1>9, <1>10, <1>11, <1>12,
       <1>13, <1>14, <1>15, <1>16, <1>17, <1>18, <1>19, <1>20, <1>21, <1>22, <1>23, <1>24,
       <1>25, <1>26, <1>27, <1>28, <1>29, <1>30
    DEF Next, Closer, Worker, Pass

\* After saving, the watermark has passed the whole line.
LEMMA SavedNotices ==
    ASSUME DotnetAssumption, TypeOK, Gated, Posting, Saved, UNCHANGED <<cfg, out, queue>>, gate = "none"
    PROVE  Noticed'
  <1>1. ToSet(out') = {}
    BY EmptySet DEF Gated, Posting
  <1>2. CASE (~cfg.disk \/ broken) /\ UNCHANGED diskVars
    BY <1>2 DEF Noticed, diskVars
  <1>3. CASE \E after \in {"decide", "leave"} : Persisted(after)
    <2>1. \A e \in ToSet(queue) : e <= journaled'
      BY <1>3 DEF Persisted
    <2> QED BY <1>1, <2>1 DEF Noticed, Line
  <1> QED BY <1>2, <1>3 DEF Saved

LEMMA NoticedStep == DotnetAssumption /\ TypeOK /\ Gated /\ Posting /\ Numbered /\ Noticed /\ [Next]_vars => Noticed'
  <1> SUFFICES ASSUME DotnetAssumption, TypeOK, Gated, Posting, Numbered, Noticed, [Next]_vars PROVE Noticed'
    OBVIOUS
  <1> USE DEF callVars, lineVars, holdVars, drainVars, threadVars, diskVars, flushVars
  <1>0. Noticed
    OBVIOUS
  <1>b. broken \in BOOLEAN
    BY Parts DEF Disk
  <1>c. gate = "worker" <=> worker = "pass"
    BY DEF Gated
  <1>a. recording = 0 => \A e \in Line : e # recording
    <2>1. MaxId \in Nat
      BY DEF DotnetAssumption
    <2>2. Line \subseteq Entry
      BY KnownEntries DEF Known
    <2> QED BY <2>1, <2>2 DEF Entry
  <1>1. CASE LogStart
    BY <1>0, <1>1, <1>a DEF Noticed, Line, LogStart
  <1>2. CASE Enqueue
    <2>1. Line' \subseteq Line \cup {recording} /\ UNCHANGED <<cfg, broken, wake, worker, journaled, recording>> /\ landed' /\ ~landed
      BY <1>2, EnqueueLine DEF Enqueue
    <2> QED BY <1>0, <2>1 DEF Noticed
  <1>3. CASE Signal
    BY <1>0, <1>3, <1>a DEF Noticed, Line, Signal
  <1>4. CASE Flush
    BY <1>0, <1>4 DEF Noticed, Line, Flush
  <1>5. CASE FlushTimesOut
    BY <1>0, <1>5 DEF Noticed, Line, FlushTimesOut
  <1>6. CASE Dispose
    BY <1>0, <1>6 DEF Noticed, Line, Dispose
  <1>7. CASE Look
    BY <1>0, <1>7 DEF Noticed, Line, Look
  <1>8. CASE Wake
    BY <1>0, <1>8 DEF Noticed, Line, Wake
  <1>9. CASE Exit
    BY <1>0, <1>9 DEF Noticed, Line, Exit, ReleaseMarkers
  <1>10. CASE WorkerEnters
    <2>1. Saved /\ UNCHANGED <<cfg, out, queue>> /\ gate = "none"
      BY <1>10, WorkerSaves DEF WorkerEnters, Enter
    <2> QED BY <2>1, SavedNotices
  <1>11. CASE Trim
    <2>1. /\ UNCHANGED <<cfg, out, queue, wake, worker, journaled, recording, landed>>
          /\ ~broken' => ~broken
      BY <1>11 DEF Trim, Rewrite
    <2> QED BY <1>0, <2>1 DEF Noticed, Line
  <1>12. CASE Move
    <2>1. /\ UNCHANGED <<cfg, out, queue, wake, worker, journaled, recording, landed>>
          /\ ~broken' => ~broken
      BY <1>12, <1>b DEF Move
    <2> QED BY <1>0, <2>1 DEF Noticed, Line
  <1>13. CASE Decide
    BY <1>0, <1>13, <1>c DEF Noticed, Line, Decide, Release
  <1>14. CASE Drain
    <2>1. Line' = Line /\ UNCHANGED <<cfg, broken, wake, worker, journaled, recording, landed>>
      BY <1>14, DrainLine DEF Drain
    <2> QED BY <1>0, <2>1 DEF Noticed
  <1>15. CASE Accepted
    <2>1. Line' \subseteq Line /\ UNCHANGED <<cfg, broken, wake, worker, journaled, recording, landed>>
      BY <1>15, SettledLine DEF Accepted, Settle
    <2> QED BY <1>0, <2>1 DEF Noticed
  <1>16. CASE Rejected
    <2>1. Line' \subseteq Line /\ UNCHANGED <<cfg, broken, wake, worker, journaled, recording, landed>>
      BY <1>16, SettledLine DEF Rejected, Settle
    <2> QED BY <1>0, <2>1 DEF Noticed
  <1>17. CASE Failed
    <2>1. Line' \subseteq Line /\ UNCHANGED <<cfg, broken, wake, worker, journaled, recording, landed>>
      BY <1>17, FailedLine DEF Failed
    <2> QED BY <1>0, <2>1 DEF Noticed
  <1>18. CASE Compact
    <2>2. CASE ~cfg.disk \/ broken
      <3>1. UNCHANGED <<cfg, broken>>
        BY <1>18, <2>2 DEF Compact
      <3> QED BY <2>2, <3>1 DEF Noticed
    <2>3. CASE cfg.disk /\ ~broken
      <3>1. journaled' = Highest(queue, 0) /\ UNCHANGED <<out, queue>> /\ pass = "compact"
        BY <1>18, <2>3 DEF Compact
      <3>2. ToSet(out) = {}
        BY <3>1, EmptySet DEF Posting
      <3>3. \A e \in ToSet(queue) : e <= journaled'
        BY <3>1, CompactMoves
      <3> QED BY <3>1, <3>2, <3>3 DEF Noticed, Line
    <2> QED BY <2>2, <2>3
  <1>19. CASE Finish
    BY <1>0, <1>19, <1>c, FinishLine DEF Noticed, Line, Finish, Release
  <1>20. CASE Leave
    BY <1>0, <1>20, <1>c DEF Noticed, Line, Leave, Release
  <1>21. CASE CloserLoops
    BY <1>0, <1>21 DEF Noticed, Line, CloserLoops
  <1>22. CASE CloserEnters
    <2>1. Saved /\ UNCHANGED <<cfg, out, queue>> /\ gate = "none"
      BY <1>22, CloserSaves DEF CloserEnters, Enter
    <2> QED BY <2>1, SavedNotices
  <1>23. CASE CloserPersists
    <2>1. Saved /\ UNCHANGED <<cfg, out, queue>>
      BY <1>23, LastSaves DEF CloserPersists
    <2>2. CASE cfg.disk
      BY <1>23, <2>1, <2>2, SavedNotices DEF CloserPersists
    <2>3. CASE ~cfg.disk
      BY <2>1, <2>3 DEF Noticed
    <2> QED BY <2>2, <2>3
  <1>24. CASE Cancel
    BY <1>0, <1>24 DEF Noticed, Line, Cancel
  <1>25. CASE Joined
    BY <1>0, <1>25 DEF Noticed, Line, Joined, ReleaseMarkers
  <1>26. CASE HoldElapses
    BY <1>0, <1>26 DEF Noticed, Line, HoldElapses
  <1>27. CASE CooldownElapses
    BY <1>0, <1>27 DEF Noticed, Line, CooldownElapses
  <1>28. CASE IntervalElapses
    BY <1>0, <1>28 DEF Noticed, Line, IntervalElapses
  <1>29. CASE Restart
    <2>1. \A e \in ToSet(queue') : e <= journaled'
      BY <1>29, RestartMoves
    <2>2. ToSet(out') = {}
      BY <1>29, EmptySet DEF Restart
    <2> QED BY <2>1, <2>2 DEF Noticed, Line
  <1>30. CASE UNCHANGED vars
    BY <1>0, <1>30 DEF Noticed, Line, vars
  <1> QED
    BY <1>1, <1>2, <1>3, <1>4, <1>5, <1>6, <1>7, <1>8, <1>9, <1>10, <1>11, <1>12,
       <1>13, <1>14, <1>15, <1>16, <1>17, <1>18, <1>19, <1>20, <1>21, <1>22, <1>23, <1>24,
       <1>25, <1>26, <1>27, <1>28, <1>29, <1>30
    DEF Next, Closer, Worker, Pass

-------------------------------------------------------------------------------
(* The marker.                                                             *)

\* Fewer() is a subtraction that stops at 0.
LEMMA FewerIs == ASSUME NEW k \in Nat, NEW n \in Nat PROVE Fewer(k, n) \in Nat /\ Fewer(k, n) + n >= k
  BY DEF Fewer

LEMMA WaitsStep == DotnetAssumption /\ TypeOK /\ Posting /\ Numbered /\ Waits /\ [Next]_vars => Waits'
  <1> SUFFICES ASSUME DotnetAssumption, TypeOK, Posting, Numbered, Waits, [Next]_vars PROVE Waits'
    OBVIOUS
  <1> USE DEF callVars, lineVars, holdVars, drainVars, threadVars, diskVars, flushVars
  <1>0. Waits
    OBVIOUS
  <1>a. /\ queue \in Seq(Entry) /\ out \in Seq(Entry) /\ Len(queue) \in Nat /\ Len(out) \in Nat
        /\ ahead \in Nat /\ ahead <= Len(queue)
    BY DEF TypeOK
  <1>1. CASE LogStart
    BY <1>0, <1>1 DEF Waits, LogStart
  <1>2. CASE Enqueue
    <2>1. PICK lost \in Nat :
             /\ queue' \in Seq(Entry) /\ Len(queue') \in Nat
             /\ Len(queue') + lost = Len(Append(queue, recording))
             /\ \A i \in 1..Len(queue') : queue'[i] = Append(queue, recording)[i + lost]
             /\ UNCHANGED marked /\ ahead' = (IF marked THEN Fewer(ahead + 0, lost) ELSE 0)
      BY <1>2, EnqueueMoves DEF Moved
    <2>2. UNCHANGED <<carried, allSent, answer, asked>>
      BY <1>2 DEF Enqueue
    <2>3. recording \notin asked
      <3>1. \A e \in asked : e < recording /\ e \in Nat
        BY <1>2, KnownEntries DEF Numbered, Coming, Known, Enqueue
      <3> QED BY <3>1
    <2>4. ToSet(queue') \subseteq ToSet(queue) \cup {recording} /\ recording \in Entry
      BY <1>2, EnqueueLine
    <2>5. /\ Len(Append(queue, recording)) = Len(queue) + 1
          /\ \A i \in 1..Len(queue) : Append(queue, recording)[i] = queue[i]
          /\ Append(queue, recording)[Len(queue) + 1] = recording
      BY <1>a, <2>4
    <2>6. ASSUME marked, NEW i \in 1..Len(queue'), i > ahead' PROVE queue'[i] \notin asked
      <3>1. ahead' \in Nat /\ ahead' + lost >= ahead
        BY <1>a, <2>1, <2>6, FewerIs
      <3>2. i + lost > ahead /\ i + lost \in 1..(Len(queue) + 1)
        BY <1>a, <2>1, <2>5, <2>6, <3>1
      <3>3. queue'[i] = Append(queue, recording)[i + lost]
        BY <2>1
      <3>4. CASE i + lost \in 1..Len(queue)
        BY <2>5, <2>6, <3>2, <3>3, <3>4 DEF Waits
      <3>5. CASE i + lost = Len(queue) + 1
        BY <2>3, <2>5, <3>3, <3>5
      <3> QED BY <1>a, <3>2, <3>4, <3>5
    <2> QED BY <1>0, <2>1, <2>2, <2>3, <2>4, <2>6 DEF Waits
  <1>3. CASE Signal
    BY <1>0, <1>3 DEF Waits, Signal
  <1>4. CASE Flush
    <2>1. ahead' = Len(queue) /\ answer' = "waiting" /\ answer = "none" /\ UNCHANGED <<queue, carried>>
      BY <1>4 DEF Flush
    <2>2. ~carried'
      BY <2>1 DEF Waits
    <2>3. \A i \in 1..Len(queue') : ~(i > ahead')
      BY <1>a, <2>1
    <2> QED BY <2>1, <2>2, <2>3 DEF Waits
  <1>5. CASE FlushTimesOut
    BY <1>0, <1>5 DEF Waits, FlushTimesOut
  <1>6. CASE Dispose
    BY <1>0, <1>6 DEF Waits, Dispose
  <1>7. CASE Look
    BY <1>0, <1>7 DEF Waits, Look
  <1>8. CASE Wake
    BY <1>0, <1>8 DEF Waits, Wake
  <1>9. CASE Exit
    BY <1>0, <1>9 DEF Waits, Exit, ReleaseMarkers
  <1>10. CASE WorkerEnters
    BY <1>0, <1>10 DEF Waits, WorkerEnters, Enter
  <1>11. CASE Trim
    BY <1>0, <1>11 DEF Waits, Trim
  <1>12. CASE Move
    BY <1>0, <1>12 DEF Waits, Move
  <1>13. CASE Decide
    BY <1>0, <1>13 DEF Waits, Decide, Release
  <1>14. CASE Drain
    <2>1. PICK n \in Nat :
             /\ n <= Len(queue) /\ Len(queue') = Len(queue) - n
             /\ \A i \in 1..Len(queue') : queue'[i] = queue[i + n]
             /\ carried' = (marked /\ ahead <= n) /\ marked' = (marked /\ ahead > n)
             /\ ahead' = Fewer(ahead, n)
      BY <1>14, DrainMoves
    <2>2. UNCHANGED <<answer, asked>> /\ queue' \in Seq(Entry)
      BY <1>14, DrainMoves DEF Drain
    <2>3. \A i \in 1..Len(queue') : i + n \in 1..Len(queue)
      BY <1>a, <2>1
    <2>4. ahead' \in Nat /\ ahead' + n >= ahead
      BY <1>a, <2>1, FewerIs
    <2>5. ASSUME marked', NEW i \in 1..Len(queue'), i > ahead' PROVE queue'[i] \notin asked
      <3>1. i + n > ahead
        BY <1>a, <2>1, <2>4, <2>5
      <3> QED BY <2>1, <2>3, <2>5, <3>1 DEF Waits
    <2>6. ASSUME carried', NEW e \in ToSet(queue') PROVE e \notin asked
      <3>1. PICK i \in 1..Len(queue') : e = queue'[i]
        BY <2>2, <2>6 DEF ToSet
      <3>3. marked /\ ahead <= n
        BY <2>1, <2>6, Zenon
      <3>4. i \in Nat /\ 1 <= i
        BY <1>a, <2>1
      <3>2. i + n > ahead
        BY <1>a, <3>3, <3>4
      <3> QED BY <2>1, <2>3, <3>3, <3>1, <3>2 DEF Waits
    <2> QED BY <1>0, <2>1, <2>2, <2>5, <2>6 DEF Waits
  <1>15. CASE Accepted
    BY <1>0, <1>15 DEF Waits, Accepted, Settle
  <1>16. CASE Rejected
    BY <1>0, <1>16 DEF Waits, Rejected, Settle
  <1>17. CASE Failed
    <2>1. PICK lost \in Nat :
             /\ queue' \in Seq(Entry) /\ Len(queue') \in Nat
             /\ Len(queue') + lost = Len(Held)
             /\ \A i \in 1..Len(queue') : queue'[i] = Held[i + lost]
             /\ UNCHANGED marked /\ ahead' = (IF marked THEN Fewer(ahead + Len(out), lost) ELSE 0)
      BY <1>17, FailedMoves DEF Moved
    <2>2. UNCHANGED <<carried, answer, asked>> /\ ~allSent'
      BY <1>17 DEF Failed
    <2>3. /\ Len(Held) = Len(out) + Len(queue)
          /\ \A i \in 1..Len(Held) : ~(i <= Len(out)) => Held[i] = queue[i - Len(out)]
      BY <1>a, JoinIs DEF Held
    <2>4. ASSUME marked, NEW i \in 1..Len(queue'), i > ahead' PROVE queue'[i] \notin asked
      <3>1. ahead' \in Nat /\ ahead' + lost >= ahead + Len(out)
        BY <1>a, <2>1, <2>4, FewerIs
      <3>2. i + lost > ahead + Len(out) /\ i + lost \in 1..Len(Held) /\ ~(i + lost <= Len(out))
        BY <1>a, <2>1, <2>3, <2>4, <3>1
      <3>3. queue'[i] = queue[(i + lost) - Len(out)]
        BY <2>1, <2>3, <3>2
      <3>4. (i + lost) - Len(out) \in 1..Len(queue) /\ (i + lost) - Len(out) > ahead
        BY <1>a, <2>3, <3>2
      <3> QED BY <2>4, <3>3, <3>4 DEF Waits
    <2> QED BY <1>0, <2>1, <2>2, <2>4 DEF Waits
  <1>18. CASE Compact
    BY <1>0, <1>18 DEF Waits, Compact
  <1>19. CASE Finish
    BY <1>0, <1>19 DEF Waits, Finish, Release
  <1>20. CASE Leave
    BY <1>0, <1>20 DEF Waits, Leave, Release
  <1>21. CASE CloserLoops
    BY <1>0, <1>21 DEF Waits, CloserLoops
  <1>22. CASE CloserEnters
    BY <1>0, <1>22 DEF Waits, CloserEnters, Enter
  <1>23. CASE CloserPersists
    BY <1>0, <1>23 DEF Waits, CloserPersists
  <1>24. CASE Cancel
    BY <1>0, <1>24 DEF Waits, Cancel
  <1>25. CASE Joined
    BY <1>0, <1>25 DEF Waits, Joined, ReleaseMarkers
  <1>26. CASE HoldElapses
    BY <1>0, <1>26 DEF Waits, HoldElapses
  <1>27. CASE CooldownElapses
    BY <1>0, <1>27 DEF Waits, CooldownElapses
  <1>28. CASE IntervalElapses
    BY <1>0, <1>28 DEF Waits, IntervalElapses
  <1>29. CASE Restart
    <2>1. ~marked' /\ ~carried'
      BY <1>29 DEF Restart
    <2> QED BY <2>1 DEF Waits
  <1>30. CASE UNCHANGED vars
    BY <1>0, <1>30 DEF Waits, vars
  <1> QED
    BY <1>1, <1>2, <1>3, <1>4, <1>5, <1>6, <1>7, <1>8, <1>9, <1>10, <1>11, <1>12,
       <1>13, <1>14, <1>15, <1>16, <1>17, <1>18, <1>19, <1>20, <1>21, <1>22, <1>23, <1>24,
       <1>25, <1>26, <1>27, <1>28, <1>29, <1>30
    DEF Next, Closer, Worker, Pass

-------------------------------------------------------------------------------
(* The file and the line.                                                  *)

\* The file, or what is about to become it.
OnDisk == IF pass = "moving" THEN tmp.lines ELSE file

\* An entry of L behind the watermark is in f, or has been given up for what is.
Trimmed(L, f, j) ==
    \A e \in L \cap Durable : e <= j /\ e \notin ToSet(f)
        => Len(f) >= MaxLines /\ \A x \in ToSet(f) : e < x

\* What f holds and L does not is older than all of L behind the watermark.
Stale(L, f, j) == \A x \in ToSet(f) \ L : \A e \in L \cap Durable : e <= j => x < e

\* The file against the line: what the line has and the file has not was given up
\* for newer ones, and what the file has and the queue has not is older than the
\* queue, except between a settled request and the compaction.  With a batch out
\* and nothing settled it is older than the batch too, unless the queue is full:
\* then nothing of the batch comes back.
Mirror ==
    cfg.disk /\ ~broken =>
        /\ Trimmed(Line, OnDisk, journaled)
        /\ pass # "compact" => Stale(ToSet(queue), OnDisk, journaled)
        /\ pass = "posting" /\ ~settled /\ Len(queue) < MaxQueued
              => Stale(Line, OnDisk, journaled)

\* A smaller line misses less,
LEMMA TrimmedFewer ==
    ASSUME NEW L, NEW M, NEW f, NEW j, M \subseteq L, Trimmed(L, f, j)
    PROVE  Trimmed(M, f, j)
  BY DEF Trimmed

\* and if it lost its oldest, what the file has beyond it is older still.
LEMMA StaleFewer ==
    ASSUME NEW L, NEW M, NEW f, NEW j, M \subseteq L, Stale(L, f, j),
           \A x \in L \ M, y \in M : x < y
    PROVE  Stale(M, f, j)
  BY DEF Stale

\* An entry past the watermark changes neither.
LEMMA NewerJoins ==
    ASSUME NEW L, NEW f, NEW j \in Nat, NEW n \in Nat, j < n
    PROVE  /\ Trimmed(L, f, j) => Trimmed(L \cup {n}, f, j)
           /\ Stale(L, f, j) => Stale(L \cup {n}, f, j)
  <1>1. ~(n <= j)
    OBVIOUS
  <1>2. Trimmed(L, f, j) => Trimmed(L \cup {n}, f, j)
    BY <1>1 DEF Trimmed
  <1>3. Stale(L, f, j) => Stale(L \cup {n}, f, j)
    BY <1>1 DEF Stale
  <1> QED BY <1>2, <1>3

\* One lemma per step that touches the line or the file. A Log:
LEMMA EnqueueMirrors ==
    ASSUME DotnetAssumption, TypeOK, Numbered, Sorted, Mirror, Enqueue
    PROVE  Mirror'
  <1> SUFFICES ASSUME cfg.disk, ~broken PROVE Mirror'
    BY DEF Enqueue, diskVars, Mirror
  <1> DEFINE q == Append(queue, recording)
  <1>1. /\ OldestGo(q) /\ recording \in Entry /\ queue \in Seq(Entry) /\ Moved(q, 0)
        /\ Len(queue) \in Nat /\ MaxQueued \in Nat
    BY EnqueueMoves DEF TypeOK, DotnetAssumption
  <1>2. ToSet(q) = ToSet(queue) \cup {recording} /\ Len(q) = Len(queue) + 1
    BY <1>1, AppendedSet
  <1>3. /\ UNCHANGED <<cfg, broken, pass, out, file, tmp, journaled, settled>>
    BY DEF Enqueue, drainVars, diskVars
  <1>4. /\ \A x \in ToSet(queue) : x < recording
        /\ journaled < recording /\ journaled \in Nat /\ recording \in Nat
    BY <1>1, KnownEntries DEF Numbered, Coming, Known, Line, Enqueue, TypeOK, DotnetAssumption
  <1>5. Increasing(q)
    BY <1>1, <1>4, AppendIncreases DEF Sorted
  <1>6. ToSet(queue') \subseteq ToSet(q) /\ \A x \in ToSet(q) \ ToSet(queue'), y \in ToSet(queue') : x < y
    BY <1>1, <1>5 DEF OldestGo
  <1>7. OnDisk' = OnDisk
    BY <1>3 DEF OnDisk
  <1>8. Line' \subseteq Line \cup {recording}
    BY <1>2, <1>3, <1>6 DEF Line
  <1>9. Trimmed(Line', OnDisk, journaled)
    <2>1. Trimmed(Line \cup {recording}, OnDisk, journaled)
      BY <1>4, NewerJoins DEF Mirror
    <2> QED BY <1>8, <2>1, TrimmedFewer
  <1>10. pass # "compact" => Stale(ToSet(queue'), OnDisk, journaled)
    <2> SUFFICES ASSUME pass # "compact" PROVE Stale(ToSet(queue'), OnDisk, journaled)
      OBVIOUS
    <2>1. Stale(ToSet(queue) \cup {recording}, OnDisk, journaled)
      BY <1>4, NewerJoins DEF Mirror
    <2> QED BY <1>2, <1>6, <2>1, StaleFewer
  <1>11. pass = "posting" /\ ~settled /\ Len(queue') < MaxQueued => Stale(Line', OnDisk, journaled)
    <2> SUFFICES ASSUME pass = "posting", ~settled, Len(queue') < MaxQueued PROVE Stale(Line', OnDisk, journaled)
      OBVIOUS
    <2>1. PICK lost \in Nat : /\ Len(queue') \in Nat /\ Len(queue') + lost = Len(q)
                              /\ lost > 0 => Len(queue') = MaxQueued
                              /\ lost = 0 => queue' = q
      BY <1>1 DEF Moved
    <2>2. lost = 0
      BY <1>1, <2>1
    <2>3. queue' = q /\ Len(queue) < MaxQueued
      BY <1>1, <1>2, <2>1, <2>2
    <2>4. Line' = Line \cup {recording}
      BY <1>2, <1>3, <2>3 DEF Line
    <2>5. Stale(Line, OnDisk, journaled)
      BY <2>3 DEF Mirror
    <2> QED BY <1>4, <2>4, <2>5, NewerJoins
  <1> QED BY <1>3, <1>7, <1>9, <1>10, <1>11 DEF Mirror

\* A failed request: what comes back is put in front, or dropped if the queue is full.
LEMMA FailedMirrors ==
    ASSUME DotnetAssumption, TypeOK, Posting, Bounded, Sorted, Mirror, Failed
    PROVE  Mirror'
  <1> SUFFICES ASSUME cfg.disk, ~broken PROVE Mirror'
    BY DEF Failed, diskVars, Mirror
  <1>1. /\ UNCHANGED <<cfg, broken, file, tmp, journaled, settled>> /\ pass = "posting"
        /\ pass' = (IF settled THEN "compact" ELSE "finish")
    BY DEF Failed, diskVars
  <1>2. OnDisk' = OnDisk
    BY <1>1 DEF OnDisk
  <1>3. Line' \subseteq Line /\ out' = <<>>
    BY FailedLine
  <1>4. Trimmed(Line', OnDisk, journaled)
    BY <1>3, TrimmedFewer DEF Mirror
  <1>5. ASSUME ~settled PROVE Stale(ToSet(queue'), OnDisk, journaled)
    <2>1. /\ queue \in Seq(Entry) /\ out \in Seq(Entry) /\ Len(queue) \in Nat /\ Len(out) \in Nat
          /\ MaxQueued \in Nat /\ Len(queue) <= MaxQueued
      BY DEF TypeOK, DotnetAssumption, Bounded, Count
    <2>2. CASE Len(queue) < MaxQueued
      <3>1. Stale(Line, OnDisk, journaled)
        BY <1>1, <1>5, <2>2 DEF Mirror
      <3>2. /\ ToSet(queue') \subseteq Line
            /\ \A x \in Line \ ToSet(queue'), y \in ToSet(queue') : x < y
        BY HeldIs, HeldSorts, FailedMoves DEF OldestGo
      <3> QED BY <3>1, <3>2, StaleFewer
    <2>3. CASE Len(queue) = MaxQueued
      <3>1. PICK lost \in Nat :
               /\ queue' \in Seq(Entry) /\ Len(queue') \in Nat /\ Len(queue') <= MaxQueued
               /\ Len(queue') + lost = Len(Held) /\ (lost > 0 => Len(queue') = MaxQueued)
               /\ \A i \in 1..Len(queue') : queue'[i] = Held[i + lost]
        BY FailedMoves DEF Moved
      <3>2. /\ Len(Held) = Len(out) + Len(queue)
            /\ \A i \in 1..Len(Held) : ~(i <= Len(out)) => Held[i] = queue[i - Len(out)]
        BY <2>1, JoinIs DEF Held
      <3>3. out # <<>>
        BY <1>1 DEF Posting
      <3>4. Len(out) > 0
        BY <2>1, <3>3
      <3>5. lost = Len(out) /\ Len(queue') = Len(queue)
        BY <2>1, <2>3, <3>1, <3>2, <3>4
      <3>6. \A i \in 1..Len(queue') : queue'[i] = queue[i]
        <4> TAKE i \in 1..Len(queue')
        <4>1. /\ i + lost \in 1..Len(Held) /\ ~(i + lost <= Len(out)) /\ (i + lost) - Len(out) = i
          BY <2>1, <3>2, <3>5
        <4> QED BY <3>1, <3>2, <4>1
      <3>7. ToSet(queue') \subseteq ToSet(queue) /\ ToSet(queue) \subseteq ToSet(queue')
        <4>1. DOMAIN queue = 1..Len(queue) /\ DOMAIN queue' = 1..Len(queue')
          BY <2>1, <3>1
        <4> QED BY <3>5, <3>6, <4>1 DEF ToSet
      <3>8. ToSet(queue') = ToSet(queue)
        BY <3>7
      <3>9. Stale(ToSet(queue), OnDisk, journaled)
        BY <1>1 DEF Mirror
      <3> QED BY <3>8, <3>9
    <2> QED BY <2>1, <2>2, <2>3
  <1> QED BY <1>1, <1>2, <1>4, <1>5 DEF Mirror

\* A drain: what is out counts still.
LEMMA DrainMirrors ==
    ASSUME DotnetAssumption, TypeOK, Posting, Sorted, Mirror, Drain
    PROVE  Mirror'
  <1> SUFFICES ASSUME cfg.disk, ~broken PROVE Mirror'
    BY DEF Drain, diskVars, Mirror
  <1>1. UNCHANGED <<cfg, broken, file, tmp, journaled>> /\ pass = "drain" /\ pass' \in {"finish", "posting"}
    BY DEF Drain, diskVars
  <1>2. OnDisk' = OnDisk
    BY <1>1 DEF OnDisk
  <1>3. Line' = Line /\ Line = ToSet(queue)
    BY DrainLine, EmptySet DEF Line
  <1>4. ToSet(queue) = ToSet(out') \cup ToSet(queue') /\ \A x \in ToSet(out'), y \in ToSet(queue') : x < y
    BY DrainMoves DEF Sorted
  <1>5. Trimmed(Line, OnDisk, journaled) /\ Stale(ToSet(queue), OnDisk, journaled)
    BY <1>1 DEF Mirror
  <1>6. Stale(ToSet(queue'), OnDisk, journaled)
    BY <1>4, <1>5, StaleFewer
  <1> QED BY <1>1, <1>2, <1>3, <1>5, <1>6 DEF Mirror

\* A settled request, after which the pass compacts.
LEMMA SettledMirrors ==
    ASSUME DotnetAssumption, TypeOK, Mirror, Accepted \/ Rejected
    PROVE  Mirror'
  <1>1. /\ UNCHANGED <<cfg, broken, file, tmp, journaled, queue>> /\ settled' = TRUE /\ pass = "posting"
        /\ pass' \in {"compact", "posting"}
    BY DEF Accepted, Rejected, Settle, diskVars, lineVars
  <1>2. OnDisk' = OnDisk
    BY <1>1 DEF OnDisk
  <1>3. Line' \subseteq Line
    BY SettledLine
  <1> QED BY <1>1, <1>2, <1>3, TrimmedFewer DEF Mirror

\* PersistPending().
LEMMA SavedMirrors ==
    ASSUME DotnetAssumption, TypeOK, Gated, Posting, Behind, Mirror, Saved, gate = "none",
           UNCHANGED <<cfg, out, queue>>, pass' \in {"decide", "leave", "trim"}
    PROVE  Mirror'
  <1> SUFFICES ASSUME cfg.disk, ~broken, ~broken' PROVE Mirror'
    <2>1. CASE UNCHANGED diskVars
      BY <2>1 DEF Mirror, diskVars
    <2>2. CASE cfg.disk /\ ~broken
      BY <2>2 DEF Mirror
    <2> QED BY <2>1, <2>2 DEF Saved
  <1>1. pass = "none" /\ ToSet(out) = {} /\ OnDisk = file /\ OnDisk' = file'
    BY Ungated, EmptySet DEF OnDisk
  <1>2. PICK after \in {"decide", "leave"} : Persisted(after)
    BY DEF Saved
  <1>3. /\ Len(file) <= Len(file') /\ ToSet(file) \subseteq ToSet(file')
        /\ \A e \in ToSet(file') : e \in ToSet(file) \/ (e \in ToSet(queue) /\ journaled < e)
        /\ \A e \in ToSet(queue) \cap Durable : journaled < e => e \in ToSet(file')
    BY <1>2 DEF Persisted
  <1>4. /\ \A e \in ToSet(file) \cup ToSet(queue) : e \in Nat
        /\ journaled \in Nat /\ MaxLines \in Nat /\ Len(file) \in Nat /\ Len(file') \in Nat
    <2>1. \A e \in ToSet(file) \cup ToSet(queue) : e \in Nat
      BY KnownEntries DEF Known, Line
    <2>2. file' \in Seq(Entry)
      BY <1>2 DEF Persisted
    <2> QED BY <2>1, <2>2 DEF TypeOK, DotnetAssumption
  <1>5. \A x \in ToSet(file) : x <= journaled
    BY DEF Behind
  <1>6. /\ Trimmed(ToSet(queue), file, journaled) /\ Stale(ToSet(queue), file, journaled)
        /\ Line = ToSet(queue) /\ Line' = ToSet(queue)
    BY <1>1 DEF Mirror, Line
  <1>7. Trimmed(ToSet(queue), file', journaled')
    <2> SUFFICES ASSUME NEW e \in ToSet(queue) \cap Durable, e \notin ToSet(file')
                 PROVE  Len(file') >= MaxLines /\ \A x \in ToSet(file') : e < x
      BY DEF Trimmed
    <2>1. e <= journaled /\ e \notin ToSet(file)
      BY <1>3, <1>4
    <2>2. Len(file) >= MaxLines /\ \A x \in ToSet(file) : e < x
      BY <1>6, <2>1 DEF Trimmed
    <2>3. ASSUME NEW x \in ToSet(file') PROVE e < x
      <3>1. CASE x \in ToSet(file)
        BY <2>2, <3>1
      <3>2. CASE x \in ToSet(queue) /\ journaled < x
        BY <1>4, <2>1, <3>2
      <3> QED BY <1>3, <3>1, <3>2
    <2>4. Len(file') >= MaxLines
      BY <1>3, <1>4, <2>2
    <2> QED BY <2>3, <2>4
  <1>8. Stale(ToSet(queue), file', journaled')
    <2> SUFFICES ASSUME NEW x \in ToSet(file') \ ToSet(queue), NEW e \in ToSet(queue) \cap Durable PROVE x < e
      BY DEF Stale
    <2>1. x \in ToSet(file) /\ x <= journaled
      BY <1>3, <1>5
    <2>2. CASE e <= journaled
      BY <1>6, <2>1, <2>2 DEF Stale
    <2>3. CASE ~(e <= journaled)
      BY <1>4, <2>1, <2>3
    <2> QED BY <2>2, <2>3
  <1> QED BY <1>1, <1>6, <1>7, <1>8 DEF Mirror

\* TrimIfOversized().
LEMMA TrimMirrors ==
    ASSUME DotnetAssumption, TypeOK, Gated, Sorted, Mirror, Trim
    PROVE  Mirror'
  <1> DEFINE r == Newest(MaxLines, file)
  <1>1. /\ Rewrite(r, tmp.after) /\ pass = "trim"
        /\ UNCHANGED <<cfg, out, queue, journaled>>
    BY DEF Trim, lineVars, drainVars
  <1>2. tmp.after \in {"decide", "finish", "leave"}
    BY <1>1, Parts DEF Gated, Disk, Ends
  <1>3. /\ Len(r) \in Nat /\ Len(file) \in Nat /\ MaxLines \in Nat
        /\ Len(file) <= MaxLines => r = file
        /\ Len(file) > MaxLines => Len(r) = MaxLines
        /\ ToSet(r) \subseteq ToSet(file)
        /\ \A x \in ToSet(file) \ ToSet(r), y \in ToSet(r) : x < y
    BY TrimMoves DEF Sorted, DotnetAssumption
  <1> SUFFICES ASSUME cfg.disk, ~broken' PROVE Mirror'
    BY <1>1 DEF Mirror
  <1>4. ~broken /\ OnDisk = file
    BY <1>1 DEF Rewrite, OnDisk
  <1>5. pass' \in {"decide", "finish", "leave", "moving"} /\ OnDisk' = r
    <2> HIDE DEF r
    <2>1. CASE r = <<>> /\ file' = <<>> /\ pass' = tmp.after
      BY <1>2, <2>1 DEF OnDisk
    <2>2. CASE pass' = "moving" /\ tmp' = [lines |-> r, after |-> tmp.after]
      BY <2>2 DEF OnDisk
    <2> QED BY <1>1, <2>1, <2>2 DEF Rewrite
  <1> HIDE DEF r
  <1>6. Trimmed(Line, file, journaled) /\ Stale(ToSet(queue), file, journaled)
    BY <1>1, <1>4 DEF Mirror
  <1>7. Trimmed(Line, r, journaled)
    <2>1. CASE Len(file) <= MaxLines
      BY <1>3, <1>6, <2>1
    <2>2. CASE Len(file) > MaxLines
      <3> SUFFICES ASSUME NEW e \in Line \cap Durable, e <= journaled, e \notin ToSet(r)
                   PROVE  Len(r) >= MaxLines /\ \A x \in ToSet(r) : e < x
        BY DEF Trimmed
      <3>1. Len(r) >= MaxLines
        BY <1>3, <2>2
      <3>2. CASE e \in ToSet(file)
        BY <1>3, <3>1, <3>2
      <3>3. CASE e \notin ToSet(file)
        BY <1>3, <1>6, <3>1, <3>3 DEF Trimmed
      <3> QED BY <3>2, <3>3
    <2> QED BY <1>3, <2>1, <2>2
  <1>8. Stale(ToSet(queue), r, journaled)
    BY <1>3, <1>6 DEF Stale
  <1>9. Line' = Line
    BY <1>1 DEF Line
  <1> QED BY <1>1, <1>5, <1>7, <1>8, <1>9 DEF Mirror

\* The rewritten file gets its name.
LEMMA MoveMirrors ==
    ASSUME DotnetAssumption, TypeOK, Gated, Mirror, Move
    PROVE  Mirror'
  <1>1. /\ UNCHANGED <<cfg, out, queue, journaled>> /\ pass = "moving" /\ pass' = tmp.after
        /\ (file' = tmp.lines /\ UNCHANGED broken) \/ broken' = TRUE
    BY DEF Move, lineVars, drainVars
  <1>2. tmp.after \in {"decide", "finish", "leave"}
    BY <1>1, Parts DEF Gated, Disk, Ends
  <1> SUFFICES ASSUME cfg.disk, ~broken' PROVE Mirror'
    BY <1>1 DEF Mirror
  <1>3. ~broken /\ OnDisk' = OnDisk /\ Line' = Line
    BY <1>1, <1>2 DEF OnDisk, Line
  <1> QED BY <1>1, <1>2, <1>3 DEF Mirror

\* CompactJournal().
LEMMA CompactMirrors ==
    ASSUME DotnetAssumption, TypeOK, Posting, Mirror, Compact
    PROVE  Mirror'
  <1>1. UNCHANGED <<cfg, out, queue>> /\ pass = "compact"
    BY DEF Compact, lineVars, drainVars
  <1>2. CASE ~cfg.disk \/ broken
    BY <1>1, <1>2 DEF Mirror, Compact, diskVars
  <1>3. CASE cfg.disk /\ ~broken
    <2> DEFINE r == Picked(queue, Durable)
    <2>1. Rewrite(r, "finish")
      BY <1>3 DEF Compact
    <2>2. ToSet(r) = ToSet(queue) \cap Durable
      BY CompactMoves
    <2> HIDE DEF r
    <2> SUFFICES ASSUME ~broken' PROVE Mirror'
      BY DEF Mirror
    <2>3. pass' \in {"finish", "moving"} /\ OnDisk' = r
      <3>1. CASE r = <<>> /\ file' = <<>> /\ pass' = "finish"
        BY <3>1 DEF OnDisk
      <3>2. CASE pass' = "moving" /\ tmp' = [lines |-> r, after |-> "finish"]
        BY <3>2 DEF OnDisk
      <3> QED BY <2>1, <3>1, <3>2 DEF Rewrite
    <2>4. Line' = ToSet(queue)
      BY <1>1, EmptySet DEF Posting, Line
    <2>5. Trimmed(ToSet(queue), r, journaled') /\ Stale(ToSet(queue), r, journaled')
      BY <2>2 DEF Trimmed, Stale
    <2> QED BY <1>1, <2>3, <2>4, <2>5 DEF Mirror
  <1> QED BY <1>2, <1>3

\* The next process.
LEMMA RestartMirrors ==
    ASSUME DotnetAssumption, TypeOK, Restart
    PROVE  Mirror'
  <1>1. pass' = "none" /\ out' = <<>>
    BY DEF Restart
  <1>2. ~broken' => file' = queue'
    BY RestartMoves
  <1>3. OnDisk' = file' /\ Line' = ToSet(queue')
    BY <1>1, EmptySet DEF OnDisk, Line
  <1>4. Trimmed(ToSet(queue'), queue', journaled') /\ Stale(ToSet(queue'), queue', journaled')
    BY DEF Trimmed, Stale
  <1> QED BY <1>1, <1>2, <1>3, <1>4 DEF Mirror

LEMMA MirrorStep == DotnetAssumption /\ TypeOK /\ Gated /\ Posting /\ Bounded /\ Numbered /\ Sorted /\ Behind /\ Mirror /\ [Next]_vars => Mirror'
  <1> SUFFICES ASSUME DotnetAssumption, TypeOK, Gated, Posting, Bounded, Numbered, Sorted, Behind, Mirror, [Next]_vars PROVE Mirror'
    OBVIOUS
  <1> USE DEF callVars, lineVars, holdVars, drainVars, threadVars, diskVars, flushVars
  <1>0. Mirror
    OBVIOUS
  <1>1. CASE LogStart
    BY <1>0, <1>1 DEF Mirror, OnDisk, Line, LogStart
  <1>2. CASE Enqueue
    BY <1>2, EnqueueMirrors
  <1>3. CASE Signal
    BY <1>0, <1>3 DEF Mirror, OnDisk, Line, Signal
  <1>4. CASE Flush
    BY <1>0, <1>4 DEF Mirror, OnDisk, Line, Flush
  <1>5. CASE FlushTimesOut
    BY <1>0, <1>5 DEF Mirror, OnDisk, Line, FlushTimesOut
  <1>6. CASE Dispose
    BY <1>0, <1>6 DEF Mirror, OnDisk, Line, Dispose
  <1>7. CASE Look
    BY <1>0, <1>7 DEF Mirror, OnDisk, Line, Look
  <1>8. CASE Wake
    BY <1>0, <1>8 DEF Mirror, OnDisk, Line, Wake
  <1>9. CASE Exit
    BY <1>0, <1>9 DEF Mirror, OnDisk, Line, Exit, ReleaseMarkers
  <1>10. CASE WorkerEnters
    <2>1. Saved /\ UNCHANGED <<cfg, out, queue>> /\ gate = "none" /\ pass' \in {"decide", "leave", "trim"}
      BY <1>10, WorkerSaves DEF WorkerEnters, Enter, PersistPending
    <2> QED BY <2>1, SavedMirrors
  <1>11. CASE Trim
    BY <1>11, TrimMirrors
  <1>12. CASE Move
    BY <1>12, MoveMirrors
  <1>13. CASE Decide
    <2>1. UNCHANGED <<cfg, out, queue, broken, file, tmp, journaled>> /\ pass = "decide" /\ pass' \in {"none", "drain"}
      BY <1>13 DEF Decide, Release
    <2> QED BY <1>0, <2>1 DEF Mirror, OnDisk, Line
  <1>14. CASE Drain
    BY <1>14, DrainMirrors
  <1>15. CASE Accepted
    BY <1>15, SettledMirrors
  <1>16. CASE Rejected
    BY <1>16, SettledMirrors
  <1>17. CASE Failed
    BY <1>17, FailedMirrors
  <1>18. CASE Compact
    BY <1>18, CompactMirrors
  <1>19. CASE Finish
    <2>1. UNCHANGED <<cfg, out, queue, broken, file, tmp, journaled>> /\ pass = "finish" /\ pass' = "none"
      BY <1>19, FinishLine DEF Finish, Release
    <2> QED BY <1>0, <2>1 DEF Mirror, OnDisk, Line
  <1>20. CASE Leave
    <2>1. UNCHANGED <<cfg, out, queue, broken, file, tmp, journaled>> /\ pass = "leave" /\ pass' = "none"
      BY <1>20 DEF Leave, Release
    <2> QED BY <1>0, <2>1 DEF Mirror, OnDisk, Line
  <1>21. CASE CloserLoops
    BY <1>0, <1>21 DEF Mirror, OnDisk, Line, CloserLoops
  <1>22. CASE CloserEnters
    <2>1. Saved /\ UNCHANGED <<cfg, out, queue>> /\ gate = "none" /\ pass' \in {"decide", "leave", "trim"}
      BY <1>22, CloserSaves DEF CloserEnters, Enter, PersistPending
    <2> QED BY <2>1, SavedMirrors
  <1>23. CASE CloserPersists
    <2>1. CASE cfg.disk
      <3>1. Saved /\ UNCHANGED <<cfg, out, queue>> /\ gate = "none" /\ pass' \in {"decide", "leave", "trim"}
        BY <1>23, <2>1, LastSaves DEF CloserPersists, PersistPending
      <3> QED BY <3>1, SavedMirrors
    <2>2. CASE ~cfg.disk
      BY <1>23, <2>2 DEF CloserPersists, Mirror
    <2> QED BY <2>1, <2>2
  <1>24. CASE Cancel
    BY <1>0, <1>24 DEF Mirror, OnDisk, Line, Cancel
  <1>25. CASE Joined
    BY <1>0, <1>25 DEF Mirror, OnDisk, Line, Joined, ReleaseMarkers
  <1>26. CASE HoldElapses
    BY <1>0, <1>26 DEF Mirror, OnDisk, Line, HoldElapses
  <1>27. CASE CooldownElapses
    BY <1>0, <1>27 DEF Mirror, OnDisk, Line, CooldownElapses
  <1>28. CASE IntervalElapses
    BY <1>0, <1>28 DEF Mirror, OnDisk, Line, IntervalElapses
  <1>29. CASE Restart
    BY <1>29, RestartMirrors
  <1>30. CASE UNCHANGED vars
    BY <1>0, <1>30 DEF Mirror, OnDisk, Line, vars
  <1> QED
    BY <1>1, <1>2, <1>3, <1>4, <1>5, <1>6, <1>7, <1>8, <1>9, <1>10, <1>11, <1>12,
       <1>13, <1>14, <1>15, <1>16, <1>17, <1>18, <1>19, <1>20, <1>21, <1>22, <1>23, <1>24,
       <1>25, <1>26, <1>27, <1>28, <1>29, <1>30
    DEF Next, Closer, Worker, Pass

-------------------------------------------------------------------------------
(* The inductive invariant and what follows from it.                       *)

\* The inductive invariant.
Ind ==
    /\ TypeOK /\ Gated /\ Posting /\ Breaker /\ Bounded /\ Balanced
    /\ Numbered /\ Aside /\ Sorted /\ Behind
    /\ Unsent /\ Waits /\ Noticed /\ Mirror

\* Ind holds at the start ...
LEMMA InitInd == DotnetAssumption /\ Init => Ind
  <1> SUFFICES ASSUME DotnetAssumption, Init PROVE Ind
    OBVIOUS
  <1>1. TypeOK
    <2>1. Numbers BY DEF Numbers, Init, DotnetAssumption
    <2>2. Flags BY DEF Flags, Init
    <2>3. Places BY DEF Places, Init
    <2>4. Lines BY DEF Lines, Init
    <2>5. Disk
      <3>1. file = <<>> /\ broken = FALSE /\ journaled = 0 /\ tmp = [lines |-> <<>>, after |-> "none"]
        BY DEF Init, NoTmp
      <3>2. <<>> \in Seq(Entry) /\ "none" \in Ends
        BY DEF Ends
      <3>3. journaled \in 0..MaxId
        BY <3>1 DEF DotnetAssumption
      <3>4. tmp \in [lines : Seq(Entry), after : Ends]
        BY <3>1, <3>2
      <3> QED BY <3>1, <3>2, <3>3, <3>4 DEF Disk
    <2>6. Records BY DEF Records, Counts, Init
    <2> QED BY <2>1, <2>2, <2>3, <2>4, <2>5, <2>6, Parts
  <1>2. Gated /\ Posting /\ Breaker
    BY DEF Init, Gated, Posting, Breaker
  <1>3. Bounded /\ Balanced
    BY DEF Init, Bounded, Count, Balanced, Recording, DotnetAssumption
  <1>4. /\ queue = <<>> /\ out = <<>> /\ file = <<>> /\ tmp.lines = <<>>
        /\ acked = {} /\ asked = {}
    BY DEF Init, NoTmp
  <1>5. /\ ToSet(queue) = {} /\ ToSet(out) = {} /\ ToSet(file) = {} /\ ToSet(tmp.lines) = {}
        /\ Line = {} /\ Known = {} /\ ToSet(OnDisk) = {}
    BY <1>4, EmptySet DEF Line, Known, OnDisk
  <1>6. Numbered
    BY <1>5 DEF Init, Numbered, Coming
  <1>7. Aside
    BY <1>4 DEF Aside
  <1>8. Sorted
    BY <1>4, <1>5, EmptyIncreases DEF Sorted
  <1>9. Behind
    BY <1>5 DEF Behind
  <1>10. Unsent
    BY <1>5 DEF Unsent
  <1>11. Waits
    BY DEF Waits, Init
  <1>12. Noticed
    BY <1>5 DEF Noticed
  <1>13. Mirror
    BY <1>5 DEF Mirror, Trimmed, Stale
  <1> QED BY <1>1, <1>2, <1>3, <1>6, <1>7, <1>8, <1>9, <1>10, <1>11, <1>12, <1>13 DEF Ind

\* ... and is kept by every step.
LEMMA StepInd == DotnetAssumption /\ Ind /\ [Next]_vars => Ind'
  <1> SUFFICES ASSUME DotnetAssumption, Ind, [Next]_vars PROVE Ind'
    OBVIOUS
  <1>0. /\ TypeOK /\ Gated /\ Posting /\ Breaker /\ Bounded /\ Balanced
        /\ Numbered /\ Aside /\ Sorted /\ Behind
        /\ Unsent /\ Waits /\ Noticed /\ Mirror
    BY DEF Ind
  <1>1. TypeOK' /\ Gated' /\ Posting' /\ Breaker' /\ Bounded' /\ Balanced'
    BY <1>0, TypeStep, GatedStep, PostingStep, BreakerStep, BoundedStep, BalancedStep
  <1>2. Numbered' /\ Aside' /\ Sorted' /\ Behind'
    BY <1>0, NumberedStep, AsideStep, SortedStep, BehindStep
  <1>3. Unsent' /\ Waits' /\ Noticed' /\ Mirror'
    BY <1>0, UnsentStep, WaitsStep, NoticedStep, MirrorStep
  <1> QED BY <1>1, <1>2, <1>3 DEF Ind

\* Ind holds in every state.
THEOREM Invariance == Spec => []Ind
  BY DotnetAssumption, InitInd, StepInd, PTL DEF Spec

\* The file against what is held, from Mirror and Noticed.
LEMMA MirrorGives ==
    ASSUME DotnetAssumption, TypeOK, Noticed, Mirror
    PROVE  Mirrored
  <1> SUFFICES ASSUME cfg.disk, ~broken, pass # "moving"
               PROVE  /\ \A e \in Missing(Held) : GivenUp(e)
                      /\ pass # "compact" /\ Missing(queue) # {} => ToSet(file) \subseteq ToSet(queue)
                      /\ worker = "waiting" /\ ~wake /\ recording = 0 /\ gate = "none"
                            => \A e \in ToSet(Held) : e <= journaled
    BY DEF Mirrored
  <1>1. OnDisk = file /\ ToSet(Held) = Line /\ ToSet(queue) \subseteq Line
    BY HeldIs DEF OnDisk, Line
  <1>2. Trimmed(Line, file, journaled)
    BY <1>1 DEF Mirror
  <1>3. \A e \in Missing(Held) : GivenUp(e)
    BY <1>1, <1>2 DEF Missing, GivenUp, Trimmed
  <1>4. pass # "compact" /\ Missing(queue) # {} => ToSet(file) \subseteq ToSet(queue)
    <2> SUFFICES ASSUME pass # "compact", Missing(queue) # {}, NEW x \in ToSet(file), x \notin ToSet(queue)
                 PROVE  FALSE
      OBVIOUS
    <2>1. Stale(ToSet(queue), file, journaled)
      BY <1>1 DEF Mirror
    <2>2. PICK e \in ToSet(queue) \cap Durable : e <= journaled /\ e \notin ToSet(file)
      BY DEF Missing
    <2>3. x < e
      BY <2>1, <2>2 DEF Stale
    <2>4. e < x
      BY <1>1, <1>2, <2>2 DEF Trimmed
    <2>5. x \in Nat /\ e \in Nat
      BY <1>1, <2>2, KnownEntries DEF Known
    <2> QED BY <2>3, <2>4, <2>5
  <1>5. worker = "waiting" /\ ~wake /\ recording = 0 => \A e \in ToSet(Held) : e <= journaled
    <2> SUFFICES ASSUME worker = "waiting", ~wake, recording = 0, NEW e \in Line PROVE e <= journaled
      BY <1>1
    <2>1. e <= journaled \/ e = 0
      BY DEF Noticed
    <2>2. e \in 1..MaxId
      BY KnownEntries DEF Known, Entry
    <2> QED BY <2>1, <2>2 DEF DotnetAssumption
  <1> QED BY <1>3, <1>4, <1>5

\* The contract follows.
LEMMA IndGives == Ind => Contract
  <1> SUFFICES ASSUME Ind PROVE Contract
    OBVIOUS
  <1>0. DotnetAssumption
    BY DotnetAssumption
  <1>1. TypeOK /\ Bounded /\ Balanced /\ Sorted /\ Breaker /\ Unsent /\ Noticed /\ Mirror
    BY DEF Ind
  <1>2. Books
    BY <1>1, BooksAre
  <1>3. InOrder
    BY <1>0, <1>1, HeldSorts DEF InOrder, Increasing
  <1>4. NoResend
    BY <1>0, <1>1, HeldIs DEF NoResend, Unsent
  <1>5. OneProbe
    BY <1>1 DEF OneProbe, Breaker
  <1>6. Mirrored
    BY <1>0, <1>1, MirrorGives
  <1> QED BY <1>1, <1>2, <1>3, <1>4, <1>5, <1>6 DEF Contract

\* The types of the .NET client hold for any number of entries and runs.
THEOREM TypesHold == Spec => []TypeOK
  BY Invariance, PTL DEF Ind

\* FirstrunClient.cs, EventQueue.cs and DiskQueue.cs: whatever the worker, the
\* thread in Dispose(), the server and the disk do, every entry is accounted for
\* once, the bounds and the order of recording hold, nothing a 2xx has answered
\* for is sent again by its run, nothing goes out during a cooldown, and the
\* journal keeps what is pending, or what is newer, and misses no wake-up.
THEOREM ContractHolds == Spec => []Contract
  BY Invariance, IndGives, PTL

\* What is held is out or queued.
LineHeld == ToSet(Held) = Line

\* That holds before ...
LEMMA HeldLine == TypeOK => LineHeld
  BY DotnetAssumption, HeldIs DEF LineHeld

\* ... and after a step.
LEMMA HeldLineNext == TypeOK' => LineHeld'
  BY HeldLine, PTL

\* The step that answers true finds nothing of what was asked about.
LEMMA FlushStep == Ind /\ Ind' /\ [Next]_vars =>
    (answer = "waiting" /\ answer' = "true" => asked \cap ToSet(Held') = {})
  <1> SUFFICES ASSUME Ind, Ind', [Next]_vars, answer = "waiting", answer' = "true"
               PROVE  asked \cap ToSet(Held') = {}
    OBVIOUS
  <1>0. TypeOK /\ TypeOK' /\ Waits /\ Posting
    BY DEF Ind
  <1> USE DEF callVars, lineVars, holdVars, drainVars, threadVars, diskVars, flushVars
  <1>1. CASE Finish
    <2>1. carried /\ allSent
      BY <1>1 DEF Finish
    <2>2. UNCHANGED <<out, queue>> /\ out = <<>>
      BY <1>0, <1>1, FinishLine DEF Posting, Finish
    <2>3. Line' = ToSet(queue)
      BY <2>2, EmptySet DEF Line
    <2>4. ToSet(Held') = ToSet(queue)
      BY <1>0, <2>3, HeldLineNext DEF LineHeld
    <2> QED BY <1>0, <2>1, <2>4 DEF Waits
  <1>2. CASE ~Finish
    <2>1. CASE Closer
      BY <2>1 DEF Closer, CloserLoops, CloserEnters, Enter, CloserPersists, Cancel, Joined, ReleaseMarkers
    <2>2. CASE Worker
      BY <2>2 DEF Worker, Look, Wake, Exit, WorkerEnters, Enter, ReleaseMarkers
    <2>3. CASE Pass
      BY <1>2, <2>3 DEF Pass, Trim, Move, Decide, Drain, Accepted, Rejected, Settle, Failed, Compact, Leave
    <2>4. CASE LogStart \/ Enqueue \/ Signal \/ Flush \/ FlushTimesOut \/ Dispose
      BY <2>4 DEF LogStart, Enqueue, Signal, Flush, FlushTimesOut, Dispose
    <2>5. CASE HoldElapses \/ CooldownElapses \/ IntervalElapses \/ Restart
      BY <2>5 DEF HoldElapses, CooldownElapses, IntervalElapses, Restart
    <2>6. CASE UNCHANGED vars
      BY <2>6 DEF vars
    <2> QED BY <2>1, <2>2, <2>3, <2>4, <2>5, <2>6 DEF Next
  <1> QED BY <1>1, <1>2

\* FlushAsync() answers true only when all that was pending when it was called has
\* been settled, whichever thread took its marker and whatever was requeued.
THEOREM FlushTrueHolds == Spec => FlushTrue
  <1>1. Ind /\ Ind' /\ [Next]_vars =>
        [answer = "waiting" /\ answer' = "true" => asked \cap ToSet(Held') = {}]_vars
    BY FlushStep
  <1> QED BY <1>1, Invariance, PTL DEF Spec, FlushTrue
===============================================================================
