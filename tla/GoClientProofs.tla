----------------------------- MODULE GoClientProofs -----------------------------
(***************************************************************************)
(* Proofs about GoClient, for every size, policy, group, severity, number  *)
(* of entries and of runs: the books, the bounds, the order of a group and *)
(* the mirror (Contract), the breaker (FreshBatchGated), and that it       *)
(* implements Delivery.                                                    *)
(*                                                                         *)
(* Lemmas on sequences lead to one on each operation on the file and on    *)
(* the backlog.  Every action is then shown to be of one of nine kinds, by *)
(* what it does to the entries, and each part of the inductive invariant   *)
(* Ind is shown to be kept by each kind.                                   *)
(***************************************************************************)
EXTENDS GoClient, FiniteSetTheorems, WellFoundedInduction, TLAPS

-------------------------------------------------------------------------------
(* Sequences.                                                              *)

\* A nonempty set of natural numbers has a least one,
LEMMA First ==
    ASSUME NEW C \in SUBSET Nat, C # {}
    PROVE  \E n \in C : \A m \in C : n <= m
<1>1. PICK c \in C : TRUE
  OBVIOUS
<1> DEFINE I == {0..m : m \in {k \in C : k <= c}}
<1>2. I \in SUBSET FiniteSubsetsOf(0..c)
  <2>1. IsFiniteSet(0..c)
    BY FS_Interval
  <2>2. FiniteSubsetsOf(0..c) = SUBSET (0..c)
    BY <2>1, FS_FiniteSubsetsOfFinite
  <2>3. \A m \in C : m <= c => 0..m \in SUBSET (0..c)
    OBVIOUS
  <2> QED
    BY <2>2, <2>3
<1>3. 0..c \in I
  OBVIOUS
<1>4. PICK T \in I : \A U \in I : <<U, T>> \notin StrictSubsetOrdering(0..c)
  <2> HIDE DEF I
  <2> QED
    BY <1>2, <1>3, FS_StrictSubsetOrderingWellFounded, WFMin
<1>5. PICK n \in C : n <= c /\ T = 0..n
  BY <1>4
<1>6. ASSUME NEW m \in C, ~ (n <= m)
      PROVE  FALSE
  <2>1. m <= c /\ 0..m \in I
    BY <1>5, <1>6
  <2>2. 0..m \subseteq 0..n /\ n \in 0..n /\ n \notin 0..m
    BY <1>6
  <2>3. 0..m \in SUBSET (0..c) /\ 0..n \in SUBSET (0..c)
    BY <1>5, <2>1
  <2> QED
    BY <1>4, <1>5, <2>1, <2>2, <2>3 DEF StrictSubsetOrdering
<1> QED
  BY <1>6

\* and a bounded one a greatest.
LEMMA Greatest ==
    ASSUME NEW b \in Nat
    PROVE  \A C \in SUBSET (0..b) : C # {} => \E n \in C : \A m \in C : m <= n
<1> SUFFICES ASSUME NEW C \in SUBSET (0..b), C # {}
             PROVE  \E n \in C : \A m \in C : m <= n
  OBVIOUS
<1> DEFINE Mirror == {b - n : n \in C}
<1>1. Mirror \in SUBSET Nat /\ Mirror # {}
  <2>1. \A n \in C : n \in Nat /\ b - n \in Nat
    OBVIOUS
  <2> HIDE DEF Mirror
  <2>2. Mirror # {}
    BY DEF Mirror
  <2>3. \A m \in Mirror : m \in Nat
    BY <2>1 DEF Mirror
  <2> QED BY <2>2, <2>3
<1>2. PICK d \in Mirror : \A m \in Mirror : d <= m
  <2> HIDE DEF Mirror
  <2> QED BY <1>1, First
<1>3. PICK n \in C : d = b - n
  BY <1>2
<1>4. ASSUME NEW m \in C PROVE m <= n
  <2>1. b - m \in Mirror
    OBVIOUS
  <2>2. d <= b - m
    BY <1>2, <2>1
  <2> QED BY <1>3, <2>2
<1> QED BY <1>4

\* What Append() adds.
LEMMA AppendedSet ==
    ASSUME NEW T, NEW s \in Seq(T), NEW e \in T
    PROVE  /\ Append(s, e) \in Seq(T) /\ Len(Append(s, e)) = Len(s) + 1
           /\ ToSet(Append(s, e)) = ToSet(s) \cup {e}
<1> DEFINE q == Append(s, e)
<1>1. /\ DOMAIN s = 1..Len(s) /\ DOMAIN q = 1..(Len(s) + 1) /\ Len(s) \in Nat
      /\ \A i \in 1..Len(s) : q[i] = s[i]
      /\ q[Len(s) + 1] = e /\ q \in Seq(T) /\ Len(q) = Len(s) + 1
  OBVIOUS
<1> HIDE DEF q
<1>2. ToSet(q) \subseteq ToSet(s) \cup {e}
  BY <1>1 DEF ToSet
<1>3. ToSet(s) \cup {e} \subseteq ToSet(q)
  BY <1>1 DEF ToSet
<1> QED
  BY <1>1, <1>2, <1>3 DEF q

\* The empty sequence holds nothing.
LEMMA EmptySet == ToSet(<<>>) = {}
  BY DEF ToSet

Line == Entry \cup {Bad}

\* Entries are numbers other than a bad line, and lines are entries or bad.
LEMMA OfEntries ==
    ASSUME GoAssumption
    PROVE  /\ Entry \subseteq Nat /\ Line \subseteq Nat /\ Bad \notin Entry
           /\ \A s \in Seq(Entry) : s \in Seq(Line) /\ ToSet(s) \subseteq Entry
                                    /\ (s = <<>> <=> ToSet(s) = {}) /\ Len(s) \in Nat
           /\ \A s \in Seq(Line) : ToSet(s) \subseteq Line /\ Len(s) \in Nat
  <1>1. MaxId \in Nat
    BY DEF GoAssumption
  <1>2. Entry \subseteq Nat /\ Line \subseteq Nat /\ Bad \notin Entry
    BY <1>1 DEF Entry, Line, Bad
  <1>3. ASSUME NEW s \in Seq(Entry)
        PROVE  s \in Seq(Line) /\ ToSet(s) \subseteq Entry /\ (s = <<>> <=> ToSet(s) = {})
    <2>1. s \in Seq(Line)
      BY DEF Line
    <2>2. ToSet(s) \subseteq Entry
      BY DEF ToSet
    <2>3. s # <<>> => s[1] \in ToSet(s)
      BY DEF ToSet
    <2> QED BY <2>1, <2>2, <2>3, EmptySet
  <1>4. \A s \in Seq(Line) : ToSet(s) \subseteq Line
    BY DEF ToSet
  <1> QED BY <1>2, <1>3, <1>4

\* The lines of a sequence that are entries of one group are in their order.
Ordered(s) ==
    \A i, j \in 1..Len(s) :
        i < j /\ s[i] # Bad /\ s[j] # Bad /\ GroupOf[s[i]] = GroupOf[s[j]] => s[i] < s[j]

Increasing(s) == \A i, j \in 1..Len(s) : i < j => s[i] < s[j]

\* What grows everywhere grows within each group.
LEMMA IncreasingOrders == \A s : Increasing(s) => Ordered(s)
  BY DEF Increasing, Ordered

\* A stretch of a sequence.
LEMMA WindowIs ==
    ASSUME NEW s \in Seq(Line), NEW r \in Seq(Line), NEW k \in Nat,
           Len(r) + k <= Len(s), \A i \in 1..Len(r) : r[i] = s[i + k]
    PROVE  /\ ToSet(r) \subseteq ToSet(s)
           /\ Ordered(s) => Ordered(r)
           /\ Increasing(s) => Increasing(r)
  <1>0. Len(s) \in Nat /\ Len(r) \in Nat
    OBVIOUS
  <1>1. \A i \in 1..Len(r) : i + k \in 1..Len(s)
    BY <1>0
  <1>2. ToSet(r) \subseteq ToSet(s)
    <2>1. DOMAIN r = 1..Len(r) /\ DOMAIN s = 1..Len(s)
      OBVIOUS
    <2> QED BY <1>1, <2>1 DEF ToSet
  <1>3. ASSUME Ordered(s) PROVE Ordered(r)
    <2> SUFFICES ASSUME NEW i \in 1..Len(r), NEW j \in 1..Len(r), i < j, r[i] # Bad, r[j] # Bad,
                        GroupOf[r[i]] = GroupOf[r[j]]
                 PROVE  r[i] < r[j]
      BY DEF Ordered
    <2>1. i + k \in 1..Len(s) /\ j + k \in 1..Len(s) /\ i + k < j + k
      BY <1>1
    <2>2. r[i] = s[i + k] /\ r[j] = s[j + k]
      OBVIOUS
    <2> QED BY <1>3, <2>1, <2>2 DEF Ordered
  <1>4. ASSUME Increasing(s) PROVE Increasing(r)
    <2> SUFFICES ASSUME NEW i \in 1..Len(r), NEW j \in 1..Len(r), i < j PROVE r[i] < r[j]
      BY DEF Increasing
    <2>1. i + k \in 1..Len(s) /\ j + k \in 1..Len(s) /\ i + k < j + k
      BY <1>1
    <2> QED BY <1>4, <2>1 DEF Increasing
  <1> QED BY <1>2, <1>3, <1>4

\* The first n of a sequence, and the others.
LEMMA CutIs ==
    ASSUME NEW T, NEW s \in Seq(T), NEW n \in 0..Len(s), T \subseteq Line
    PROVE  LET a == SubSeq(s, 1, n)
               b == SubSeq(s, n + 1, Len(s))
           IN  /\ a \in Seq(T) /\ b \in Seq(T) /\ Len(a) = n /\ Len(b) = Len(s) - n
               /\ \A i \in 1..Len(a) : a[i] = s[i]
               /\ \A i \in 1..Len(b) : b[i] = s[i + n]
               /\ ToSet(a) \subseteq ToSet(s) /\ ToSet(b) \subseteq ToSet(s)
               /\ ToSet(s) = ToSet(a) \cup ToSet(b)
               /\ Ordered(s) => Ordered(a) /\ Ordered(b)
               /\ Increasing(s) => Increasing(a) /\ Increasing(b)
  <1> DEFINE a == SubSeq(s, 1, n)
             b == SubSeq(s, n + 1, Len(s))
  <1>0. Len(s) \in Nat /\ n \in Nat /\ n <= Len(s)
    OBVIOUS
  <1>1. /\ a \in Seq(T) /\ Len(a) = n /\ \A i \in 1..n : a[i] = s[i]
    BY <1>0
  <1>2. /\ b \in Seq(T) /\ Len(b) = Len(s) - n /\ \A i \in 1..(Len(s) - n) : b[i] = s[i + n]
    BY <1>0
  <1>3. DOMAIN a = 1..n /\ DOMAIN b = 1..(Len(s) - n) /\ DOMAIN s = 1..Len(s)
    BY <1>1, <1>2
  <1> HIDE DEF a, b
  <1>4. a \in Seq(Line) /\ b \in Seq(Line) /\ s \in Seq(Line)
    BY <1>1, <1>2
  <1>5. \A i \in 1..Len(a) : a[i] = s[i + 0]
    BY <1>0, <1>1
  <1>6. Len(a) + 0 <= Len(s) /\ Len(b) + n <= Len(s) /\ 0 \in Nat
    BY <1>0, <1>1, <1>2
  <1>7. \A i \in 1..Len(b) : b[i] = s[i + n]
    BY <1>2
  <1>8. ToSet(a) \subseteq ToSet(s) /\ (Ordered(s) => Ordered(a)) /\ (Increasing(s) => Increasing(a))
    BY <1>4, <1>5, <1>6, WindowIs
  <1>9. ToSet(b) \subseteq ToSet(s) /\ (Ordered(s) => Ordered(b)) /\ (Increasing(s) => Increasing(b))
    BY <1>0, <1>4, <1>6, <1>7, WindowIs
  <1>10. ToSet(s) \subseteq ToSet(a) \cup ToSet(b)
    <2> SUFFICES ASSUME NEW i \in 1..Len(s) PROVE s[i] \in ToSet(a) \cup ToSet(b)
      BY <1>3 DEF ToSet
    <2>1. CASE i <= n
      <3>1. i \in 1..n
        BY <1>0, <2>1
      <3> QED BY <1>1, <1>3, <3>1 DEF ToSet
    <2>2. CASE ~(i <= n)
      <3>1. i - n \in 1..(Len(s) - n) /\ (i - n) + n = i
        BY <1>0, <2>2
      <3>2. b[i - n] = s[i]
        BY <1>2, <3>1
      <3> QED BY <1>3, <3>1, <3>2 DEF ToSet
    <2> QED BY <2>1, <2>2
  <1>11. \A i \in 1..Len(a) : a[i] = s[i]
    BY <1>1
  <1> QED BY <1>1, <1>2, <1>7, <1>8, <1>9, <1>10, <1>11 DEF a, b

\* The newest n of a sequence.
LEMMA NewestIs ==
    ASSUME NEW s \in Seq(Entry), NEW n \in Nat, GoAssumption
    PROVE  LET r == Newest(n, s)
           IN  /\ r \in Seq(Entry) /\ Len(r) \in Nat /\ Len(s) \in Nat
               /\ Len(r) <= n /\ Len(r) <= Len(s)
               /\ Len(s) <= n => r = s
               /\ ToSet(r) \subseteq ToSet(s)
               /\ Ordered(s) => Ordered(r)
  <1> DEFINE r == Newest(n, s)
  <1>0. Len(s) \in Nat /\ Entry \subseteq Line
    BY DEF Line
  <1>1. CASE Len(s) <= n
    <2>1. r = s
      BY <1>1 DEF Newest
    <2> HIDE DEF r
    <2> QED BY <1>0, <1>1, <2>1 DEF r
  <1>2. CASE Len(s) > n
    <2> DEFINE k == Len(s) - n
               q == SubSeq(s, k + 1, Len(s))
    <2>1. r = q
      BY <1>0, <1>2 DEF Newest
    <2>2. k \in 0..Len(s) /\ Len(s) - k = n
      BY <1>0, <1>2
    <2> HIDE DEF k
    <2>3. q \in Seq(Entry) /\ Len(q) = Len(s) - k /\ ToSet(q) \subseteq ToSet(s)
          /\ (Ordered(s) => Ordered(q))
      BY <1>0, <2>2, CutIs
    <2> HIDE DEF q, r
    <2>4. Len(q) = n
      BY <2>2, <2>3
    <2> QED BY <1>0, <1>2, <2>1, <2>3, <2>4 DEF r
  <1> QED BY <1>0, <1>1, <1>2

\* A concatenation, and when it is in order;
LEMMA JoinIs ==
    ASSUME NEW T, T \subseteq Line, NEW s \in Seq(T), NEW t \in Seq(T), GoAssumption
    PROVE  /\ s \o t \in Seq(T) /\ Len(s \o t) = Len(s) + Len(t)
           /\ ToSet(s \o t) = ToSet(s) \cup ToSet(t)
           /\ \A i \in 1..Len(s \o t) : (s \o t)[i] = IF i <= Len(s) THEN s[i] ELSE t[i - Len(s)]
           /\ Ordered(s) /\ Ordered(t) /\ (\A x \in ToSet(s) \ {Bad}, y \in ToSet(t) \ {Bad} : x < y)
                 => Ordered(s \o t)
  <1> DEFINE q == s \o t
  <1>1. /\ q \in Seq(T) /\ Len(q) = Len(s) + Len(t) /\ Len(s) \in Nat /\ Len(t) \in Nat
        /\ \A i \in 1..Len(q) : q[i] = IF i <= Len(s) THEN s[i] ELSE t[i - Len(s)]
    OBVIOUS
  <1> HIDE DEF q
  <1>2. \A i \in 1..Len(q) : (i <= Len(s) /\ i \in 1..Len(s)) \/ (~(i <= Len(s)) /\ i - Len(s) \in 1..Len(t))
    BY <1>1
  <1>0. DOMAIN q = 1..Len(q) /\ DOMAIN s = 1..Len(s) /\ DOMAIN t = 1..Len(t)
    BY <1>1
  <1>3. ToSet(q) \subseteq ToSet(s) \cup ToSet(t)
    BY <1>0, <1>1, <1>2 DEF ToSet
  <1>4. \A i \in 1..Len(s) : i \in 1..Len(q) /\ q[i] = s[i]
    BY <1>1
  <1>5. \A i \in 1..Len(t) : i + Len(s) \in 1..Len(q) /\ q[i + Len(s)] = t[i]
    <2> TAKE i \in 1..Len(t)
    <2>1. i + Len(s) \in 1..Len(q) /\ ~(i + Len(s) <= Len(s)) /\ (i + Len(s)) - Len(s) = i
      BY <1>1
    <2> QED BY <1>1, <2>1
  <1>6. ToSet(s) \cup ToSet(t) \subseteq ToSet(q)
    <2>1. ToSet(s) \subseteq ToSet(q)
      BY <1>0, <1>4 DEF ToSet
    <2>2. ToSet(t) \subseteq ToSet(q)
      BY <1>0, <1>5 DEF ToSet
    <2> QED BY <2>1, <2>2
  <1>7. ASSUME Ordered(s), Ordered(t), \A x \in ToSet(s) \ {Bad}, y \in ToSet(t) \ {Bad} : x < y
        PROVE  Ordered(q)
    <2> SUFFICES ASSUME NEW i \in 1..Len(q), NEW j \in 1..Len(q), i < j, q[i] # Bad, q[j] # Bad,
                        GroupOf[q[i]] = GroupOf[q[j]]
                 PROVE  q[i] < q[j]
      BY DEF Ordered
    <2>1. CASE j <= Len(s)
      <3>1. i \in 1..Len(s) /\ j \in 1..Len(s) /\ q[i] = s[i] /\ q[j] = s[j]
        BY <1>1, <1>4, <2>1
      <3> QED BY <1>7, <3>1 DEF Ordered
    <2>2. CASE ~(j <= Len(s)) /\ i <= Len(s)
      <3>1. /\ i \in 1..Len(s) /\ j - Len(s) \in 1..Len(t) /\ q[i] = s[i] /\ q[j] = t[j - Len(s)]
        BY <1>1, <1>2, <2>2
      <3>2. s[i] \in ToSet(s) /\ t[j - Len(s)] \in ToSet(t)
        BY <1>0, <3>1 DEF ToSet
      <3> QED BY <1>7, <3>1, <3>2
    <2>3. CASE ~(j <= Len(s)) /\ ~(i <= Len(s))
      <3>1. /\ i - Len(s) \in 1..Len(t) /\ j - Len(s) \in 1..Len(t) /\ i - Len(s) < j - Len(s)
            /\ q[i] = t[i - Len(s)] /\ q[j] = t[j - Len(s)]
        BY <1>1, <1>2, <2>3
      <3> QED BY <1>7, <3>1 DEF Ordered
    <2> QED BY <2>1, <2>2, <2>3
  <1> QED BY <1>1, <1>3, <1>6, <1>7 DEF q

\* of entries.
LEMMA JoinEntries ==
    ASSUME GoAssumption
    PROVE  \A s, t \in Seq(Entry) :
              /\ s \o t \in Seq(Entry) /\ Len(s \o t) = Len(s) + Len(t)
              /\ ToSet(s \o t) = ToSet(s) \cup ToSet(t)
              /\ \A i \in 1..Len(s \o t) : (s \o t)[i] = IF i <= Len(s) THEN s[i] ELSE t[i - Len(s)]
  <1> SUFFICES ASSUME NEW s \in Seq(Entry), NEW t \in Seq(Entry)
               PROVE  /\ s \o t \in Seq(Entry) /\ Len(s \o t) = Len(s) + Len(t)
                      /\ ToSet(s \o t) = ToSet(s) \cup ToSet(t)
                      /\ \A i \in 1..Len(s \o t) : (s \o t)[i] = IF i <= Len(s) THEN s[i] ELSE t[i - Len(s)]
    OBVIOUS
  <1>1. Entry \subseteq Line
    BY DEF Line
  <1>2. /\ s \o t \in Seq(Entry) /\ Len(s \o t) = Len(s) + Len(t)
        /\ ToSet(s \o t) = ToSet(s) \cup ToSet(t)
    BY <1>1, JoinIs
  <1>3. \A i \in 1..Len(s \o t) : (s \o t)[i] = IF i <= Len(s) THEN s[i] ELSE t[i - Len(s)]
    BY <1>1, JoinIs
  <1> QED BY <1>2, <1>3

\* A newer entry at the end.
LEMMA AppendIncreases ==
    ASSUME NEW s \in Seq(Entry), NEW e \in Entry, Increasing(s), \A x \in ToSet(s) : x < e
    PROVE  Increasing(Append(s, e))
<1> DEFINE q == Append(s, e)
<1>1. /\ Len(q) = Len(s) + 1 /\ Len(s) \in Nat /\ q[Len(s) + 1] = e
      /\ \A i \in 1..Len(s) : q[i] = s[i] /\ s[i] \in ToSet(s)
  BY DEF ToSet
<1> HIDE DEF q
<1>2. Increasing(q)
  <2> SUFFICES ASSUME NEW i \in 1..Len(q), NEW j \in 1..Len(q), i < j PROVE q[i] < q[j]
    BY DEF Increasing
  <2>1. i \in 1..Len(s)
    BY <1>1
  <2>2. CASE j \in 1..Len(s)
    BY <1>1, <2>1, <2>2 DEF Increasing
  <2>3. CASE j = Len(s) + 1
    BY <1>1, <2>1, <2>3
  <2> QED BY <1>1, <2>1, <2>2, <2>3
<1> QED BY <1>2 DEF q

-------------------------------------------------------------------------------
(* The order of the entries, reading the file and grouping.                *)

\* A newer entry of its group at the end keeps the order.
LEMMA AppendOrders ==
    ASSUME GoAssumption, NEW s \in Seq(Entry), NEW e \in Entry, Ordered(s),
           \A x \in ToSet(s) : GroupOf[x] = GroupOf[e] => x < e
    PROVE  Ordered(Append(s, e))
<1> DEFINE q == Append(s, e)
<1>1. /\ Len(q) = Len(s) + 1 /\ Len(s) \in Nat /\ q[Len(s) + 1] = e
      /\ \A i \in 1..Len(s) : q[i] = s[i] /\ s[i] \in ToSet(s)
  BY DEF ToSet
<1> HIDE DEF q
<1>2. Ordered(q)
  <2> SUFFICES ASSUME NEW i \in 1..Len(q), NEW j \in 1..Len(q), i < j, q[i] # Bad, q[j] # Bad,
                      GroupOf[q[i]] = GroupOf[q[j]]
               PROVE  q[i] < q[j]
    BY DEF Ordered
  <2>1. i \in 1..Len(s)
    BY <1>1
  <2>2. CASE j \in 1..Len(s)
    BY <1>1, <2>1, <2>2 DEF Ordered
  <2>3. CASE j = Len(s) + 1
    BY <1>1, <2>1, <2>3
  <2> QED BY <1>1, <2>1, <2>2, <2>3
<1> QED BY <1>2 DEF q

\* The empty sequence is in order.
LEMMA EmptyOrders == Ordered(<<>>) /\ Increasing(<<>>)
  <1>1. Len(<<>>) = 0
    OBVIOUS
  <1> QED BY <1>1 DEF Ordered, Increasing

\* g holds the entries among the first n lines, for each n up to N.
Reads(g, s, N) ==
    g = [n \in 0..N |->
          IF n = 0 THEN <<>>
          ELSE IF s[n] # Bad THEN Append(g[n - 1], s[n]) ELSE g[n - 1]]

\* Readable() is defined by a function on prefixes; there is one,
LEMMA ReadsExist ==
    ASSUME NEW s
    PROVE  \A N \in Nat : \E g : Reads(g, s, N)
<1> DEFINE C == {N \in Nat : ~ \E g : Reads(g, s, N)}
<1> SUFFICES ASSUME C # {} PROVE FALSE
  OBVIOUS
<1>1. PICK N \in C : \A m \in C : N <= m
  <2>1. C \in SUBSET Nat
    OBVIOUS
  <2> HIDE DEF C
  <2> QED
    BY <2>1, First
<1>2. N # 0
  <2> DEFINE g == [n \in 0..0 |-> <<>>]
  <2>1. Reads(g, s, 0)
    BY DEF Reads
  <2> QED
    BY <2>1
<1>3. PICK g : Reads(g, s, N - 1)
  BY <1>1, <1>2
<1> DEFINE value(n, f) == IF n = 0 THEN <<>>
                          ELSE IF s[n] # Bad THEN Append(f[n - 1], s[n]) ELSE f[n - 1]
           h == [n \in 0..N |-> value(n, g)]
<1>4. ASSUME NEW n \in 0..N
      PROVE  h[n] = value(n, h)
  <2>1. CASE n = 0
    BY <2>1
  <2>2. CASE n # 0
    <3>1. n - 1 \in 0..(N - 1) /\ n - 1 \in 0..N
      BY <2>2
    <3>2. g[n - 1] = value(n - 1, g)
      BY <1>3, <3>1 DEF Reads
    <3>3. h[n - 1] = g[n - 1]
      BY <3>1, <3>2
    <3> QED
      BY <2>2, <3>3
  <2> QED
    BY <2>1, <2>2
<1>5. Reads(h, s, N)
  <2> DEFINE again == [n \in 0..N |-> value(n, h)]
  <2>1. h = again
    <3> HIDE DEF value
    <3> QED
      BY <1>4
  <2> QED
    BY <2>1 DEF Reads
<1> QED
  BY <1>1, <1>5

\* and Readable() takes its value from it.
LEMMA ReadableReads ==
    ASSUME NEW s, Len(s) \in Nat
    PROVE  \E g : Reads(g, s, Len(s)) /\ Readable(s) = g[Len(s)]
<1> DEFINE g == CHOOSE f : Reads(f, s, Len(s))
<1>1. Reads(g, s, Len(s))
  BY ReadsExist
<1>2. Readable(s) = g[Len(s)]
  BY DEF Readable, Reads
<1> QED
  BY <1>1, <1>2

\* What is read of a file is its entries, in their order.
LEMMA ReadableIs ==
    ASSUME GoAssumption, NEW s \in Seq(Line)
    PROVE  /\ Readable(s) \in Seq(Entry) /\ Len(Readable(s)) \in Nat
           /\ Len(Readable(s)) <= Len(s)
           /\ Bad \in ToSet(s) => Len(Readable(s)) < Len(s)
           /\ ToSet(Readable(s)) = ToSet(s) \ {Bad}
           /\ Ordered(s) => Ordered(Readable(s))
<1> DEFINE upTo(n) == {s[i] : i \in 1..n}
           Claim(n, p) ==
              /\ p \in Seq(Entry) /\ Len(p) <= n
              /\ Bad \in upTo(n) => Len(p) < n
              /\ ToSet(p) = upTo(n) \ {Bad}
              /\ Ordered(s) => Ordered(p)
<1>0. Entry \subseteq Nat /\ Bad \notin Entry
  BY OfEntries
<1>1. PICK g : Reads(g, s, Len(s)) /\ Readable(s) = g[Len(s)]
  BY ReadableReads
<1> DEFINE C == {n \in 0..Len(s) : ~ Claim(n, g[n])}
<1>3. C = {}
  <2> SUFFICES ASSUME C # {} PROVE FALSE
    OBVIOUS
  <2>1. PICK n \in C : \A m \in C : n <= m
    <3>1. C \in SUBSET Nat
      <4> HIDE DEF Claim
      <4> QED OBVIOUS
    <3> HIDE DEF C
    <3> QED
      BY <3>1, First
  <2>2. CASE n = 0
    <3>1. g[0] = <<>>
      BY <1>1 DEF Reads
    <3>2. ToSet(<<>>) = {} /\ upTo(0) = {}
      <4>1. 1..0 = {}
        OBVIOUS
      <4> QED
        BY <4>1, EmptySet
    <3>3. <<>> \in Seq(Entry) /\ Len(<<>>) = 0
      OBVIOUS
    <3>5. Claim(0, <<>>)
      BY <3>2, <3>3, EmptyOrders
    <3> HIDE DEF Claim
    <3> QED
      BY <2>1, <2>2, <3>1, <3>5
  <2>3. CASE n # 0
    <3>1. n \in 1..Len(s) /\ n - 1 \in 0..Len(s) /\ s[n] \in Line
      BY <2>1, <2>3
    <3>2. Claim(n - 1, g[n - 1])
      <4> HIDE DEF Claim
      <4> QED
        BY <2>1, <3>1
    <3>3. g[n] = IF s[n] # Bad THEN Append(g[n - 1], s[n]) ELSE g[n - 1]
      BY <1>1, <2>3, <3>1 DEF Reads
    <3>5. upTo(n) = upTo(n - 1) \cup {s[n]}
      BY <3>1
    <3>6. Ordered(s) /\ s[n] # Bad
             => \A x \in upTo(n - 1) \ {Bad} : GroupOf[x] = GroupOf[s[n]] => x < s[n]
      BY <3>1 DEF Ordered
    <3> DEFINE p == g[n - 1]
               e == s[n]
               U == upTo(n - 1)
    <3>7. /\ p \in Seq(Entry) /\ Len(p) <= n - 1 /\ (Bad \in U => Len(p) < n - 1)
          /\ ToSet(p) = U \ {Bad} /\ (Ordered(s) => Ordered(p))
      BY <3>2
    <3>8. e \in Line /\ n \in Nat /\ Len(p) \in Nat
      BY <3>1, <3>7
    <3>9. CASE e # Bad
      <4>0. e \in Entry
        BY <3>8, <3>9 DEF Line
      <4>1. g[n] = Append(p, e) /\ upTo(n) = U \cup {e}
        BY <3>3, <3>5, <3>9
      <4>2. Ordered(s) => \A x \in ToSet(p) : GroupOf[x] = GroupOf[e] => x < e
        BY <3>6, <3>7, <3>9
      <4> HIDE DEF upTo, p, e, U
      <4>3. Append(p, e) \in Seq(Entry) /\ Len(Append(p, e)) = Len(p) + 1
            /\ ToSet(Append(p, e)) = ToSet(p) \cup {e}
        BY <3>7, <4>0, AppendedSet
      <4>4. Ordered(s) => Ordered(Append(p, e))
        BY <3>7, <4>0, <4>2, AppendOrders
      <4>5. Len(Append(p, e)) <= n /\ (Bad \in U => Len(Append(p, e)) < n)
        BY <3>7, <3>8, <4>3
      <4>6. ToSet(Append(p, e)) = upTo(n) \ {Bad} /\ (Bad \in upTo(n) <=> Bad \in U)
        BY <3>7, <3>9, <4>1, <4>3
      <4>7. Claim(n, g[n])
        BY <4>1, <4>3, <4>4, <4>5, <4>6
      <4> QED
        BY <2>1, <4>7
    <3>10. CASE e = Bad
      <4>1. g[n] = p /\ upTo(n) = U \cup {Bad}
        BY <3>3, <3>5, <3>10
      <4> HIDE DEF upTo, p, e, U
      <4>5. Len(p) <= n /\ Len(p) < n
        BY <3>7, <3>8
      <4>6. ToSet(p) = upTo(n) \ {Bad}
        BY <3>7, <4>1
      <4>7. Claim(n, g[n])
        BY <3>7, <4>1, <4>5, <4>6
      <4> QED
        BY <2>1, <4>7
    <3> QED
      BY <3>9, <3>10
  <2> HIDE DEF C
  <2> QED
    BY <2>2, <2>3
<1>4. Claim(Len(s), Readable(s))
  <2> HIDE DEF Claim
  <2>1. Len(s) \in 0..Len(s)
    OBVIOUS
  <2>2. Claim(Len(s), g[Len(s)])
    BY <1>3, <2>1
  <2> QED BY <1>1, <2>2
<1>5. upTo(Len(s)) = ToSet(s)
  BY DEF ToSet
<1> HIDE DEF upTo
<1>6. Readable(s) \in Seq(Entry) /\ Len(Readable(s)) \in Nat
  BY <1>4
<1> QED
  BY <1>4, <1>5, <1>6

\* An entry's place is behind the last of its group.
LEMMA PlaceIs ==
    ASSUME GoAssumption, NEW t \in Seq(Entry), NEW e \in Entry
    PROVE  /\ Place(t, e) \in 0..Len(t)
           /\ \A i \in 1..Len(t) : GroupOf[t[i]] = GroupOf[e] => i <= Place(t, e)
  <1> DEFINE same == {i \in 1..Len(t) : GroupOf[t[i]] = GroupOf[e]}
  <1>0. Len(t) \in Nat /\ Place(t, e) = IF same = {} THEN Len(t) ELSE Max(same)
    BY DEF Place
  <1>1. CASE same = {}
    BY <1>0, <1>1
  <1>2. CASE same # {}
    <2>1. same \in SUBSET (0..Len(t)) /\ same \subseteq 1..Len(t)
      BY <1>0
    <2>2. \A i \in 1..Len(t) : GroupOf[t[i]] = GroupOf[e] => i \in same
      OBVIOUS
    <2> HIDE DEF same
    <2>3. \E n \in same : \A m \in same : m <= n
      BY <1>0, <1>2, <2>1, Greatest
    <2>4. \E n \in same : \A m \in same : n >= m
      BY <1>0, <2>1, <2>3
    <2> DEFINE h == CHOOSE x \in same : \A y \in same : x >= y
    <2>5. h \in same /\ \A m \in same : h >= m
      BY <2>4
    <2>6. h = Place(t, e)
      BY <1>0, <1>2 DEF Max
    <2> HIDE DEF h
    <2>7. h \in 0..Len(t) /\ \A m \in same : m <= h
      BY <1>0, <2>1, <2>5
    <2> QED BY <2>2, <2>6, <2>7
  <1> QED BY <1>1, <1>2

\* What an insertion does.
LEMMA InsertIs ==
    ASSUME GoAssumption, NEW t \in Seq(Entry), NEW e \in Entry, NEW p \in 0..Len(t)
    PROVE  LET q == InsertAt(t, p + 1, e)
           IN  /\ q \in Seq(Entry) /\ Len(q) = Len(t) + 1
               /\ ToSet(q) = ToSet(t) \cup {e}
               /\ \A i \in 1..Len(q) : q[i] = IF i <= p THEN t[i]
                                              ELSE IF i = p + 1 THEN e ELSE t[i - 1]
  <1> DEFINE q == InsertAt(t, p + 1, e)
             a == SubSeq(t, 1, p)
             m == a \o <<e>>
             b == SubSeq(t, p + 1, Len(t))
  <1>0. Len(t) \in Nat /\ p \in Nat /\ p <= Len(t) /\ Entry \subseteq Line /\ (p + 1) - 1 = p
        /\ <<e>> \in Seq(Entry) /\ Len(<<e>>) = 1 /\ ToSet(<<e>>) = {e} /\ <<e>>[1] = e
    BY DEF Line, ToSet
  <1>1. q = m \o b
    BY <1>0 DEF InsertAt
  <1>2. /\ a \in Seq(Entry) /\ b \in Seq(Entry) /\ Len(a) = p /\ Len(b) = Len(t) - p
        /\ \A i \in 1..Len(a) : a[i] = t[i]
        /\ \A i \in 1..Len(b) : b[i] = t[i + p]
        /\ ToSet(t) = ToSet(a) \cup ToSet(b)
    BY <1>0, CutIs
  <1> HIDE DEF a, b, q
  <1>3. /\ m \in Seq(Entry) /\ Len(m) = p + 1 /\ ToSet(m) = ToSet(a) \cup {e}
        /\ \A i \in 1..Len(m) : m[i] = IF i <= p THEN a[i] ELSE <<e>>[i - p]
    <2> DEFINE c == <<e>>
    <2>1. c \in Seq(Entry) /\ Len(c) = 1 /\ ToSet(c) = {e}
      BY <1>0
    <2> HIDE DEF c
    <2>2. /\ a \o c \in Seq(Entry) /\ Len(a \o c) = Len(a) + Len(c)
          /\ ToSet(a \o c) = ToSet(a) \cup ToSet(c)
          /\ \A i \in 1..Len(a \o c) : (a \o c)[i] = IF i <= Len(a) THEN a[i] ELSE c[i - Len(a)]
      BY <1>2, <2>1, JoinEntries
    <2>3. m = a \o c
      BY DEF c
    <2> HIDE DEF m
    <2>4. /\ m \in Seq(Entry) /\ Len(m) = p + 1 /\ ToSet(m) = ToSet(a) \cup {e}
          /\ \A i \in 1..Len(m) : m[i] = IF i <= p THEN a[i] ELSE c[i - p]
      BY <1>2, <2>1, <2>2, <2>3
    <2> QED BY <2>4 DEF c
  <1>4. \A i \in 1..Len(m) : m[i] = IF i <= p THEN t[i] ELSE e
    BY <1>0, <1>2, <1>3
  <1> HIDE DEF m
  <1>5. /\ q \in Seq(Entry) /\ Len(q) = (p + 1) + (Len(t) - p) /\ ToSet(q) = ToSet(m) \cup ToSet(b)
        /\ \A i \in 1..Len(q) : q[i] = IF i <= p + 1 THEN m[i] ELSE b[i - (p + 1)]
    <2>1. /\ m \o b \in Seq(Entry) /\ Len(m \o b) = Len(m) + Len(b)
          /\ ToSet(m \o b) = ToSet(m) \cup ToSet(b)
          /\ \A i \in 1..Len(m \o b) : (m \o b)[i] = IF i <= Len(m) THEN m[i] ELSE b[i - Len(m)]
      BY <1>2, <1>3, JoinEntries
    <2> QED BY <1>1, <1>2, <1>3, <2>1
  <1>6. Len(q) = Len(t) + 1
    BY <1>0, <1>5
  <1>7. ASSUME NEW i \in 1..Len(q)
        PROVE  q[i] = IF i <= p THEN t[i] ELSE IF i = p + 1 THEN e ELSE t[i - 1]
    <2>1. CASE i <= p
      BY <1>0, <1>3, <1>4, <1>5, <2>1
    <2>2. CASE i = p + 1
      BY <1>0, <1>3, <1>4, <1>5, <2>2
    <2>3. CASE i > p + 1
      <3>1. i - (p + 1) \in 1..Len(b) /\ (i - (p + 1)) + p = i - 1
        BY <1>0, <1>2, <1>6, <2>3
      <3>2. q[i] = b[i - (p + 1)]
        BY <1>0, <1>5, <2>3
      <3>3. b[i - (p + 1)] = t[i - 1]
        BY <1>2, <3>1
      <3> QED BY <1>0, <2>3, <3>2, <3>3
    <2> QED BY <1>0, <2>1, <2>2, <2>3
  <1> QED BY <1>2, <1>3, <1>5, <1>6, <1>7 DEF q

\* Behind the last of its group, a newer entry keeps the order.
LEMMA PlacedOrders ==
    ASSUME GoAssumption, NEW t \in Seq(Entry), NEW e \in Entry, Ordered(t),
           \A x \in ToSet(t) : GroupOf[x] = GroupOf[e] => x < e
    PROVE  Ordered(InsertAt(t, Place(t, e) + 1, e))
  <1> DEFINE p == Place(t, e)
             q == InsertAt(t, p + 1, e)
  <1>0. Len(t) \in Nat /\ p \in 0..Len(t) /\ \A i \in 1..Len(t) : GroupOf[t[i]] = GroupOf[e] => i <= p
    BY PlaceIs
  <1> HIDE DEF p
  <1>1. /\ Len(q) = Len(t) + 1
        /\ \A i \in 1..Len(q) : q[i] = IF i <= p THEN t[i] ELSE IF i = p + 1 THEN e ELSE t[i - 1]
    BY <1>0, InsertIs
  <1> HIDE DEF q
  <1>2. \A i \in 1..Len(t) : t[i] \in ToSet(t) /\ t[i] \in Entry
    BY DEF ToSet
  <1>3. Ordered(q)
    <2> SUFFICES ASSUME NEW i \in 1..Len(q), NEW j \in 1..Len(q), i < j, q[i] # Bad, q[j] # Bad,
                        GroupOf[q[i]] = GroupOf[q[j]]
                 PROVE  q[i] < q[j]
      BY DEF Ordered
    <2>0. i \in Nat /\ j \in Nat /\ 1 <= i /\ j <= Len(t) + 1 /\ p \in Nat /\ p <= Len(t)
      BY <1>0, <1>1
    <2>1. CASE j = p + 1
      <3>1. i \in 1..Len(t) /\ q[i] = t[i] /\ q[j] = e
        BY <1>1, <2>0, <2>1
      <3> QED BY <1>2, <3>1
    <2>2. CASE i = p + 1
      <3>1. j - 1 \in 1..Len(t) /\ ~(j - 1 <= p) /\ q[i] = e /\ q[j] = t[j - 1]
        BY <1>1, <2>0, <2>2
      <3>2. GroupOf[t[j - 1]] = GroupOf[e]
        BY <3>1
      <3> QED BY <1>0, <3>1, <3>2
    <2>3. CASE i # p + 1 /\ j # p + 1
      <3>1. PICK k \in 1..Len(t) : q[i] = t[k] /\ k = IF i <= p THEN i ELSE i - 1
        <4>1. CASE i <= p
          <5>1. i \in 1..Len(t)
            BY <2>0, <4>1
          <5> QED BY <1>1, <4>1, <5>1
        <4>2. CASE ~(i <= p)
          <5>1. i - 1 \in 1..Len(t)
            BY <2>0, <2>3, <4>2
          <5> QED BY <1>1, <2>3, <4>2, <5>1
        <4> QED BY <4>1, <4>2
      <3>2. PICK l \in 1..Len(t) : q[j] = t[l] /\ l = IF j <= p THEN j ELSE j - 1
        <4>1. CASE j <= p
          <5>1. j \in 1..Len(t)
            BY <2>0, <4>1
          <5> QED BY <1>1, <4>1, <5>1
        <4>2. CASE ~(j <= p)
          <5>1. j - 1 \in 1..Len(t)
            BY <2>0, <2>3, <4>2
          <5> QED BY <1>1, <2>3, <4>2, <5>1
        <4> QED BY <4>1, <4>2
      <3>3. k < l
        BY <2>0, <2>3, <3>1, <3>2
      <3> QED BY <3>1, <3>2, <3>3 DEF Ordered
    <2> QED BY <2>1, <2>2, <2>3
  <1> QED BY <1>3 DEF p, q

\* g holds what group() makes of the first n, for each n up to N.
Groups(g, s, N) ==
    g = [n \in 0..N |->
          IF n = 0 THEN <<>>
          ELSE InsertAt(g[n - 1], Place(g[n - 1], s[n]) + 1, s[n])]

\* Grouped() is defined by a function on prefixes; there is one,
LEMMA GroupsExist ==
    ASSUME NEW s
    PROVE  \A N \in Nat : \E g : Groups(g, s, N)
<1> DEFINE C == {N \in Nat : ~ \E g : Groups(g, s, N)}
<1> SUFFICES ASSUME C # {} PROVE FALSE
  OBVIOUS
<1>1. PICK N \in C : \A m \in C : N <= m
  <2>1. C \in SUBSET Nat
    OBVIOUS
  <2> HIDE DEF C
  <2> QED
    BY <2>1, First
<1>2. N # 0
  <2> DEFINE g == [n \in 0..0 |-> <<>>]
  <2>1. Groups(g, s, 0)
    BY DEF Groups
  <2> QED
    BY <2>1
<1>3. PICK g : Groups(g, s, N - 1)
  BY <1>1, <1>2
<1> DEFINE value(n, f) == IF n = 0 THEN <<>>
                          ELSE InsertAt(f[n - 1], Place(f[n - 1], s[n]) + 1, s[n])
           h == [n \in 0..N |-> value(n, g)]
<1>4. ASSUME NEW n \in 0..N
      PROVE  h[n] = value(n, h)
  <2>1. CASE n = 0
    BY <2>1
  <2>2. CASE n # 0
    <3>1. n - 1 \in 0..(N - 1) /\ n - 1 \in 0..N
      BY <2>2
    <3>2. g[n - 1] = value(n - 1, g)
      BY <1>3, <3>1 DEF Groups
    <3>3. h[n - 1] = g[n - 1]
      BY <3>1, <3>2
    <3> QED
      BY <2>2, <3>3
  <2> QED
    BY <2>1, <2>2
<1>5. Groups(h, s, N)
  <2> DEFINE again == [n \in 0..N |-> value(n, h)]
  <2>1. h = again
    <3> HIDE DEF value
    <3> QED
      BY <1>4
  <2> QED
    BY <2>1 DEF Groups
<1> QED
  BY <1>1, <1>5

\* and Grouped() takes its value from it.
LEMMA GroupedGroups ==
    ASSUME NEW s, Len(s) \in Nat
    PROVE  \E g : Groups(g, s, Len(s)) /\ Grouped(s) = g[Len(s)]
<1> DEFINE g == CHOOSE f : Groups(f, s, Len(s))
<1>1. Groups(g, s, Len(s))
  BY GroupsExist
<1>2. Grouped(s) = g[Len(s)]
  BY DEF Grouped, Groups
<1> QED
  BY <1>1, <1>2

\* group() loses nothing, adds nothing and keeps the order within a group.
LEMMA GroupedIs ==
    ASSUME GoAssumption, NEW s \in Seq(Entry)
    PROVE  /\ Grouped(s) \in Seq(Entry) /\ Len(Grouped(s)) = Len(s)
           /\ ToSet(Grouped(s)) = ToSet(s)
           /\ Ordered(s) => Ordered(Grouped(s))
<1> DEFINE upTo(n) == {s[i] : i \in 1..n}
           Claim(n, p) ==
              /\ p \in Seq(Entry) /\ Len(p) = n
              /\ ToSet(p) = upTo(n)
              /\ Ordered(s) => Ordered(p)
<1>0. Entry \subseteq Nat /\ Bad \notin Entry
  BY OfEntries
<1>1. PICK g : Groups(g, s, Len(s)) /\ Grouped(s) = g[Len(s)]
  BY GroupedGroups
<1> DEFINE C == {n \in 0..Len(s) : ~ Claim(n, g[n])}
<1>3. C = {}
  <2> SUFFICES ASSUME C # {} PROVE FALSE
    OBVIOUS
  <2>1. PICK n \in C : \A m \in C : n <= m
    <3>1. C \in SUBSET Nat
      <4> HIDE DEF Claim
      <4> QED OBVIOUS
    <3> HIDE DEF C
    <3> QED
      BY <3>1, First
  <2>2. CASE n = 0
    <3>1. g[0] = <<>>
      BY <1>1 DEF Groups
    <3>2. ToSet(<<>>) = {} /\ upTo(0) = {}
      <4>1. 1..0 = {}
        OBVIOUS
      <4> QED
        BY <4>1, EmptySet
    <3>3. <<>> \in Seq(Entry) /\ Len(<<>>) = 0
      OBVIOUS
    <3>5. Claim(0, <<>>)
      BY <3>2, <3>3, EmptyOrders
    <3> HIDE DEF Claim
    <3> QED
      BY <2>1, <2>2, <3>1, <3>5
  <2>3. CASE n # 0
    <3>1. n \in 1..Len(s) /\ n - 1 \in 0..Len(s) /\ s[n] \in Entry
      BY <2>1, <2>3
    <3>2. Claim(n - 1, g[n - 1])
      <4> HIDE DEF Claim
      <4> QED
        BY <2>1, <3>1
    <3>3. g[n] = InsertAt(g[n - 1], Place(g[n - 1], s[n]) + 1, s[n])
      BY <1>1, <2>3, <3>1 DEF Groups
    <3>5. upTo(n) = upTo(n - 1) \cup {s[n]}
      BY <3>1
    <3>6. Ordered(s) => \A x \in upTo(n - 1) : GroupOf[x] = GroupOf[s[n]] => x < s[n]
      BY <1>0, <3>1 DEF Ordered
    <3> DEFINE p == g[n - 1]
               e == s[n]
               q == InsertAt(p, Place(p, e) + 1, e)
    <3>7. /\ p \in Seq(Entry) /\ Len(p) = n - 1 /\ ToSet(p) = upTo(n - 1)
          /\ (Ordered(s) => Ordered(p))
      BY <3>2
    <3>8. e \in Entry /\ n \in Nat /\ g[n] = q /\ upTo(n) = ToSet(p) \cup {e}
          /\ (Ordered(s) => \A x \in ToSet(p) : GroupOf[x] = GroupOf[e] => x < e)
      BY <3>1, <3>3, <3>5, <3>6, <3>7
    <3> HIDE DEF upTo, p, e
    <3>9. Place(p, e) \in 0..Len(p)
      BY <3>7, <3>8, PlaceIs
    <3>10. q \in Seq(Entry) /\ Len(q) = Len(p) + 1 /\ ToSet(q) = ToSet(p) \cup {e}
      BY <3>7, <3>8, <3>9, InsertIs
    <3>11. Ordered(s) => Ordered(q)
      BY <3>7, <3>8, PlacedOrders
    <3> HIDE DEF q
    <3>12. Claim(n, g[n])
      BY <3>7, <3>8, <3>10, <3>11
    <3> QED
      BY <2>1, <3>12
  <2> HIDE DEF C
  <2> QED
    BY <2>2, <2>3
<1>4. Claim(Len(s), Grouped(s))
  <2> HIDE DEF Claim
  <2>1. Len(s) \in 0..Len(s)
    OBVIOUS
  <2>2. Claim(Len(s), g[Len(s)])
    BY <1>3, <2>1
  <2> QED BY <1>1, <2>2
<1>5. upTo(Len(s)) = ToSet(s)
  BY DEF ToSet
<1> HIDE DEF upTo
<1> QED
  BY <1>4, <1>5

-------------------------------------------------------------------------------
(* A batch, and the moves of the file.                                     *)

\* The next batch is a nonempty start of what is left.
LEMMA BatchIs ==
    ASSUME GoAssumption, left \in Seq(Entry), left # <<>>
    PROVE  /\ Batch \in Seq(Entry) /\ Rest \in Seq(Entry)
           /\ Len(Batch) \in Nat \ {0} /\ Len(Rest) \in Nat /\ Len(left) = Len(Batch) + Len(Rest)
           /\ ToSet(left) = ToSet(Batch) \cup ToSet(Rest)
           /\ Ordered(left) => Ordered(Rest) /\ ToSet(Batch) \cap ToSet(Rest) = {}
  <1> DEFINE C == {n \in 1..Len(left) : /\ n <= MaxBatch
                                        /\ \A i \in 1..n : GroupOf[left[i]] = GroupOf[left[1]]}
  <1>0. Len(left) \in Nat /\ Len(left) >= 1 /\ MaxBatch \in Nat \ {0} /\ Size = Max(C)
    BY DEF GoAssumption, Size
  <1>1. C \in SUBSET (0..Len(left)) /\ C \subseteq 1..Len(left)
    BY <1>0
  <1>2. 1 \in C
    BY <1>0
  <1> HIDE DEF C
  <1>3. \E n \in C : \A m \in C : m <= n
    BY <1>0, <1>1, <1>2, Greatest
  <1>4. \E n \in C : \A m \in C : n >= m
    BY <1>0, <1>1, <1>3
  <1> DEFINE h == CHOOSE x \in C : \A y \in C : x >= y
  <1>5. h \in C
    BY <1>4
  <1>6. h = Size
    BY <1>0 DEF Max
  <1> HIDE DEF h
  <1>7. Size \in 1..Len(left) /\ Size \in 0..Len(left)
    BY <1>0, <1>1, <1>5, <1>6
  <1>8. Entry \subseteq Line /\ Entry \subseteq Nat /\ Bad \notin Entry
    BY OfEntries DEF Line
  <1>9. /\ Batch \in Seq(Entry) /\ Rest \in Seq(Entry) /\ Len(Batch) = Size
        /\ Len(Rest) = Len(left) - Size
        /\ \A i \in 1..Len(Batch) : Batch[i] = left[i]
        /\ \A i \in 1..Len(Rest) : Rest[i] = left[i + Size]
        /\ ToSet(left) = ToSet(Batch) \cup ToSet(Rest)
        /\ Ordered(left) => Ordered(Rest)
    <2>1. PICK n \in 0..Len(left) : n = Size
      BY <1>7
    <2>2. Entry \subseteq Line
      BY <1>8
    <2> DEFINE a == SubSeq(left, 1, n)
               b == SubSeq(left, n + 1, Len(left))
    <2>3. /\ a \in Seq(Entry) /\ b \in Seq(Entry) /\ Len(a) = n /\ Len(b) = Len(left) - n
          /\ \A i \in 1..Len(a) : a[i] = left[i]
          /\ \A i \in 1..Len(b) : b[i] = left[i + n]
          /\ ToSet(left) = ToSet(a) \cup ToSet(b)
          /\ Ordered(left) => Ordered(a) /\ Ordered(b)
      BY <2>2, CutIs
    <2>4. Batch = a /\ Rest = b
      BY <2>1 DEF Batch, Rest
    <2> HIDE DEF a, b
    <2> QED BY <2>1, <2>3, <2>4
  <1>10. Len(Batch) \in Nat \ {0} /\ Len(Rest) \in Nat /\ Len(left) = Len(Batch) + Len(Rest)
    BY <1>0, <1>7, <1>9
  <1>11. ASSUME Ordered(left), NEW x \in ToSet(Batch) \cap ToSet(Rest) PROVE FALSE
    <2>1. PICK i \in 1..Len(Batch) : x = Batch[i]
      BY <1>9 DEF ToSet
    <2>2. PICK j \in 1..Len(Rest) : x = Rest[j]
      BY <1>9 DEF ToSet
    <2>3. /\ i \in 1..Len(left) /\ j + Size \in 1..Len(left) /\ i < j + Size
          /\ left[i] = x /\ left[j + Size] = x
      <3>1. i \in Nat /\ 1 <= i /\ i <= Size /\ j \in Nat /\ 1 <= j /\ j <= Len(left) - Size
        BY <1>0, <1>7, <1>9
      <3>2. i \in 1..Len(left) /\ j + Size \in 1..Len(left) /\ i < j + Size
        BY <1>0, <1>7, <3>1
      <3> QED BY <1>9, <2>1, <2>2, <3>2
    <2>4. x \in Entry /\ x # Bad
      BY <1>8, <2>3
    <2>5. x < x
      BY <1>11, <2>3, <2>4 DEF Ordered
    <2> QED BY <1>8, <2>4, <2>5
  <1>12. Ordered(left) => ToSet(Batch) \cap ToSet(Rest) = {}
    BY <1>11
  <1> QED BY <1>9, <1>10, <1>12

-------------------------------------------------------------------------------
(* The moves of the file.                                                  *)

Files == [lines : Seq(Line), torn : BOOLEAN, broken : BOOLEAN]

\* All the file holds is in order and older than what is to be written.
Behind(d, items) ==
    /\ Ordered(d.lines) /\ Ordered(items)
    /\ \A x \in ToSet(d.lines) \ {Bad}, y \in ToSet(items) : x < y

\* Whole lines written: all of them, but for the one a torn line swallows.
LEMMA WrittenIs ==
    ASSUME GoAssumption, NEW d \in Files, NEW items \in Seq(Entry), items # <<>>
    PROVE  LET w == Written(d, items)
           IN  /\ w \in Files /\ ~w.torn /\ w.broken = d.broken
               /\ Len(w.lines) = Len(d.lines) + Len(items) - (IF d.torn THEN 1 ELSE 0)
               /\ ToSet(d.lines) \subseteq ToSet(w.lines)
               /\ ToSet(w.lines) \subseteq ToSet(d.lines) \cup ToSet(items)
               /\ ~d.torn => ToSet(w.lines) = ToSet(d.lines) \cup ToSet(items)
               /\ Behind(d, items) => Ordered(w.lines)
  <1> DEFINE part == IF d.torn THEN Tail(items) ELSE items
             w == Written(d, items)
             q == d.lines \o part
  <1>0. /\ d.lines \in Seq(Line) /\ d.torn \in BOOLEAN /\ d.broken \in BOOLEAN
        /\ Len(d.lines) \in Nat /\ Len(items) \in Nat \ {0} /\ Entry \subseteq Line
        /\ \A s \in Seq(Entry) : s \in Seq(Line) /\ ToSet(s) \subseteq Entry
        /\ Bad \notin Entry
    BY OfEntries DEF Files, Line
  <1>1. w = [d EXCEPT !.lines = q, !.torn = FALSE]
    BY DEF Written
  <1>2. /\ part \in Seq(Entry) /\ Len(part) = Len(items) - (IF d.torn THEN 1 ELSE 0)
        /\ ToSet(part) \subseteq ToSet(items) /\ (~d.torn => part = items)
        /\ (Ordered(items) => Ordered(part))
    <2>1. CASE ~d.torn
      <3>1. part = items
        BY <2>1
      <3> HIDE DEF part
      <3> QED BY <1>0, <2>1, <3>1
    <2>2. CASE d.torn
      <3> DEFINE r == Tail(items)
      <3>1. part = r
        BY <2>2
      <3>2. r \in Seq(Entry) /\ Len(r) = Len(items) - 1 /\ \A i \in 1..Len(r) : r[i] = items[i + 1]
        BY <1>0
      <3> HIDE DEF r, part
      <3>3. r \in Seq(Line) /\ items \in Seq(Line) /\ 1 \in Nat /\ Len(r) + 1 <= Len(items)
        BY <1>0, <3>2
      <3>4. ToSet(r) \subseteq ToSet(items) /\ (Ordered(items) => Ordered(r))
        BY <3>2, <3>3, WindowIs
      <3> QED BY <2>2, <3>1, <3>2, <3>4
    <2> QED BY <1>0, <2>1, <2>2
  <1> HIDE DEF part
  <1>3. part \in Seq(Line) /\ Line \subseteq Line /\ ToSet(part) \subseteq Entry
    BY <1>0, <1>2
  <1>4. q \in Seq(Line) /\ Len(q) = Len(d.lines) + Len(part)
        /\ ToSet(q) = ToSet(d.lines) \cup ToSet(part)
    BY <1>0, <1>3, JoinIs
  <1>5. ASSUME Behind(d, items) PROVE Ordered(q)
    <2>1. Ordered(d.lines) /\ Ordered(part)
          /\ \A x \in ToSet(d.lines) \ {Bad}, y \in ToSet(part) \ {Bad} : x < y
      BY <1>2, <1>5 DEF Behind
    <2> QED BY <1>0, <1>3, <2>1, JoinIs
  <1> HIDE DEF q
  <1>6. w \in Files /\ w.lines = q /\ w.torn = FALSE /\ w.broken = d.broken
    BY <1>0, <1>1, <1>4 DEF Files
  <1> HIDE DEF w
  <1>7. Len(q) = Len(d.lines) + Len(items) - (IF d.torn THEN 1 ELSE 0)
    BY <1>0, <1>2, <1>4
  <1> QED BY <1>2, <1>4, <1>5, <1>6, <1>7 DEF w

\* What the disk may have made of the file when items were appended to it: it
\* names nothing else, grows by no more, and either is given up or has it all.
Appends(d, items, e) ==
    /\ e \in Files /\ (d.broken => e = d)
    /\ Len(e.lines) <= Len(d.lines) + Len(items)
    /\ ToSet(d.lines) \subseteq ToSet(e.lines)
    /\ ToSet(e.lines) \subseteq ToSet(d.lines) \cup ToSet(items) \cup {Bad}
    /\ Behind(d, items) => Ordered(e.lines)
    /\ (d.torn => Bad \in ToSet(d.lines)) => (e.torn => Bad \in ToSet(e.lines))
    /\ ~e.broken =>
         /\ ~d.broken
         /\ ~d.torn => ~e.torn /\ ToSet(e.lines) = ToSet(d.lines) \cup ToSet(items)
         /\ Len(d.lines) - (IF d.torn THEN 1 ELSE 0) + Len(items)
               <= Len(e.lines) - (IF e.torn THEN 1 ELSE 0)

\* append() does that, however much of it the disk takes.
LEMMA AppendIs ==
    ASSUME GoAssumption, NEW d \in Files, NEW items \in Seq(Entry),
           NEW e \in AppendOutcomes(d, items)
    PROVE  Appends(d, items, e)
  <1>0. /\ d.lines \in Seq(Line) /\ d.torn \in BOOLEAN /\ d.broken \in BOOLEAN
        /\ Len(d.lines) \in Nat /\ Len(items) \in Nat /\ Entry \subseteq Line
        /\ ToSet(items) \subseteq Entry /\ Bad \notin Entry /\ items \in Seq(Line)
    BY OfEntries DEF Files, Line
  <1>1. CASE d.broken \/ items = <<>>
    <2>1. e = d
      BY <1>1 DEF AppendOutcomes
    <2>2. items = <<>> => Len(items) = 0 /\ ToSet(items) = {}
      BY EmptySet
    <2>3. Behind(d, items) => Ordered(e.lines)
      BY <2>1 DEF Behind
    <2>4. ~e.broken => items = <<>>
      BY <1>1, <2>1
    <2>5. ~e.broken => /\ ~d.broken
                       /\ ~d.torn => ~e.torn /\ ToSet(e.lines) = ToSet(d.lines) \cup ToSet(items)
      BY <2>1, <2>2, <2>4
    <2>6. ~e.broken => Len(d.lines) - (IF d.torn THEN 1 ELSE 0) + Len(items)
                          <= Len(e.lines) - (IF e.torn THEN 1 ELSE 0)
      BY <1>0, <2>1, <2>2, <2>4
    <2>7. Len(e.lines) <= Len(d.lines) + Len(items)
      BY <1>0, <2>1
    <2> QED BY <2>1, <2>3, <2>5, <2>6, <2>7 DEF Appends
  <1>2. CASE ~d.broken /\ items # <<>> /\ e = Written(d, items)
    <2>1. /\ e \in Files /\ ~e.torn /\ e.broken = d.broken
          /\ Len(e.lines) = Len(d.lines) + Len(items) - (IF d.torn THEN 1 ELSE 0)
          /\ ToSet(d.lines) \subseteq ToSet(e.lines)
          /\ ToSet(e.lines) \subseteq ToSet(d.lines) \cup ToSet(items)
          /\ ~d.torn => ToSet(e.lines) = ToSet(d.lines) \cup ToSet(items)
          /\ Behind(d, items) => Ordered(e.lines)
      BY <1>2, WrittenIs
    <2>2. Len(e.lines) <= Len(d.lines) + Len(items)
      <3>1. CASE d.torn
        BY <1>0, <2>1, <3>1
      <3>2. CASE ~d.torn
        BY <1>0, <2>1, <3>2
      <3> QED BY <3>1, <3>2
    <2>3. Len(d.lines) - (IF d.torn THEN 1 ELSE 0) + Len(items)
             <= Len(e.lines) - (IF e.torn THEN 1 ELSE 0)
      BY <1>0, <2>1
    <2> QED BY <1>2, <2>1, <2>2, <2>3 DEF Appends
  <1>3. CASE ~d.broken /\ items # <<>> /\ \E n \in 0..(Len(items) - 1), piece \in BOOLEAN : e = Cut(d, items, n, piece)
    <2>1. PICK n \in 0..(Len(items) - 1), piece \in BOOLEAN : e = Cut(d, items, n, piece)
      BY <1>3
    <2> DEFINE first == SubSeq(items, 1, n)
               w == IF n = 0 THEN d ELSE Written(d, first)
    <2>2. n \in 0..Len(items) /\ n \in Nat /\ n <= Len(items) - 1
      BY <1>0
    <2>3. first \in Seq(Entry) /\ Len(first) = n /\ ToSet(first) \subseteq ToSet(items)
          /\ (Ordered(items) => Ordered(first))
      BY <1>0, <2>2, CutIs
    <2> HIDE DEF first
    <2>4. /\ w \in Files /\ w.broken = d.broken /\ Len(w.lines) <= Len(d.lines) + n
          /\ ToSet(d.lines) \subseteq ToSet(w.lines)
          /\ ToSet(w.lines) \subseteq ToSet(d.lines) \cup ToSet(items)
          /\ Behind(d, items) => Ordered(w.lines)
          /\ w.torn => w = d
      <3>1. CASE n = 0
        <4>1. w = d
          BY <3>1
        <4> HIDE DEF w
        <4> QED BY <1>0, <3>1, <4>1 DEF Behind
      <3>2. CASE n # 0
        <4>1. w = Written(d, first)
          BY <3>2
        <4>2. first # <<>>
          BY <2>2, <2>3, <3>2
        <4> HIDE DEF w
        <4>3. /\ w \in Files /\ ~w.torn /\ w.broken = d.broken
              /\ Len(w.lines) = Len(d.lines) + Len(first) - (IF d.torn THEN 1 ELSE 0)
              /\ ToSet(d.lines) \subseteq ToSet(w.lines)
              /\ ToSet(w.lines) \subseteq ToSet(d.lines) \cup ToSet(first)
              /\ Behind(d, first) => Ordered(w.lines)
          BY <2>3, <4>1, <4>2, WrittenIs
        <4>4. Len(w.lines) <= Len(d.lines) + n
          <5>1. CASE d.torn
            BY <1>0, <2>2, <2>3, <4>3, <5>1
          <5>2. CASE ~d.torn
            BY <1>0, <2>2, <2>3, <4>3, <5>2
          <5> QED BY <5>1, <5>2
        <4>5. Behind(d, items) => Behind(d, first)
          BY <2>3 DEF Behind
        <4> QED BY <2>3, <4>3, <4>4, <4>5
      <3> QED BY <3>1, <3>2
    <2>5. e = IF piece /\ ~w.torn
              THEN [lines |-> Append(w.lines, Bad), torn |-> TRUE, broken |-> TRUE]
              ELSE [w EXCEPT !.broken = TRUE]
      BY <2>1 DEF Cut, first
    <2> HIDE DEF w
    <2>6. w.lines \in Seq(Line) /\ w.torn \in BOOLEAN /\ Bad \in Line /\ Len(w.lines) \in Nat
      BY <2>4 DEF Files, Line
    <2>7. CASE piece /\ ~w.torn
      <3> DEFINE q == Append(w.lines, Bad)
      <3>1. /\ q \in Seq(Line) /\ Len(q) = Len(w.lines) + 1 /\ ToSet(q) = ToSet(w.lines) \cup {Bad}
        BY <2>6, AppendedSet
      <3>2. Ordered(w.lines) => Ordered(q)
        <4>1. /\ \A i \in 1..Len(w.lines) : q[i] = w.lines[i]
              /\ q[Len(w.lines) + 1] = Bad
          BY <2>6
        <4> HIDE DEF q
        <4>2. \A i \in 1..Len(q) : q[i] # Bad => i \in 1..Len(w.lines)
          BY <2>6, <3>1, <4>1
        <4> QED BY <4>1, <4>2 DEF Ordered
      <3> HIDE DEF q
      <3>3. e = [lines |-> q, torn |-> TRUE, broken |-> TRUE]
        BY <2>5, <2>7 DEF q
      <3>4. e \in Files /\ e.lines = q /\ e.torn /\ e.broken
        BY <3>1, <3>3 DEF Files
      <3>5. Len(e.lines) <= Len(d.lines) + Len(items)
        BY <1>0, <2>2, <2>4, <2>6, <3>1, <3>4
      <3>6. /\ ToSet(d.lines) \subseteq ToSet(e.lines) /\ Bad \in ToSet(e.lines)
            /\ ToSet(e.lines) \subseteq ToSet(d.lines) \cup ToSet(items) \cup {Bad}
            /\ Behind(d, items) => Ordered(e.lines)
        BY <2>4, <3>1, <3>2, <3>4
      <3> QED BY <1>3, <3>4, <3>5, <3>6 DEF Appends
    <2>8. CASE ~(piece /\ ~w.torn)
      <3>1. e = [w EXCEPT !.broken = TRUE]
        BY <2>5, <2>8
      <3>2. e \in Files /\ e.lines = w.lines /\ e.torn = w.torn /\ e.broken
        BY <2>4, <3>1 DEF Files
      <3>3. Len(e.lines) <= Len(d.lines) + Len(items)
        BY <1>0, <2>2, <2>4, <2>6, <3>2
      <3>4. (d.torn => Bad \in ToSet(d.lines)) => (e.torn => Bad \in ToSet(e.lines))
        BY <2>4, <3>2
      <3> QED BY <1>3, <2>4, <3>2, <3>3, <3>4 DEF Appends
    <2> QED BY <2>7, <2>8
  <1>4. ASSUME ~d.broken, items # <<>>
        PROVE  \/ e = Written(d, items)
               \/ \E n \in 0..(Len(items) - 1), piece \in BOOLEAN : e = Cut(d, items, n, piece)
    BY <1>4 DEF AppendOutcomes
  <1> QED BY <1>1, <1>2, <1>3, <1>4

\* A rewrite leaves the file as it was, or gives it up as it was, or the file
\* becomes what is kept.
Rewrites(d, items, e, kept) ==
    \/ d.broken /\ e = d /\ kept = items
    \/ ~d.broken /\ e.broken /\ e.lines = d.lines /\ e.torn = d.torn /\ kept = items
    \/ ~d.broken /\ kept = Newest(MaxBytes, items) /\ e.lines = kept /\ ~e.torn

\* sync() does that.
LEMMA SyncIs ==
    ASSUME GoAssumption, NEW d \in Files, NEW items \in Seq(Entry),
           NEW r \in SyncOutcomes(d, items)
    PROVE  r.disk \in Files /\ Rewrites(d, items, r.disk, r.kept)
  <1> DEFINE kept == Newest(MaxBytes, items)
             new  == [lines |-> kept, torn |-> FALSE, broken |-> FALSE]
  <1>0. /\ d.lines \in Seq(Line) /\ d.torn \in BOOLEAN /\ d.broken \in BOOLEAN /\ MaxBytes \in Nat
    BY DEF Files, GoAssumption
  <1>1. kept \in Seq(Entry) /\ kept \in Seq(Line)
    BY <1>0, NewestIs, OfEntries
  <1>2. CASE d.broken
    <2>1. r = [disk |-> d, kept |-> items]
      BY <1>2 DEF SyncOutcomes
    <2> QED BY <1>2, <2>1 DEF Rewrites
  <1>3. CASE ~d.broken
    <2>1. \/ r = [disk |-> new, kept |-> kept]
          \/ r = [disk |-> [d EXCEPT !.broken = TRUE], kept |-> items]
          \/ r = [disk |-> [new EXCEPT !.broken = TRUE], kept |-> kept]
      BY <1>3 DEF SyncOutcomes
    <2>2. new \in Files /\ [new EXCEPT !.broken = TRUE] \in Files /\ [d EXCEPT !.broken = TRUE] \in Files
      <3> HIDE DEF kept
      <3> QED BY <1>0, <1>1 DEF Files
    <2>3. CASE r = [disk |-> [d EXCEPT !.broken = TRUE], kept |-> items]
      <3>1. r.disk = [d EXCEPT !.broken = TRUE] /\ r.kept = items
        BY <2>3
      <3>2. r.disk.broken /\ r.disk.lines = d.lines /\ r.disk.torn = d.torn
        BY <3>1 DEF Files
      <3> QED BY <1>3, <2>2, <3>1, <3>2 DEF Rewrites
    <2>4. CASE r = [disk |-> new, kept |-> kept]
      <3>1. r.disk = new /\ r.kept = kept /\ r.disk.lines = kept /\ ~r.disk.torn
        <4> HIDE DEF kept
        <4> QED BY <2>4
      <3> QED BY <1>3, <2>2, <3>1 DEF Rewrites
    <2>5. CASE r = [disk |-> [new EXCEPT !.broken = TRUE], kept |-> kept]
      <3>1. r.disk = [new EXCEPT !.broken = TRUE] /\ r.kept = kept /\ r.disk.lines = kept /\ ~r.disk.torn
        <4> HIDE DEF kept
        <4> QED BY <2>5
      <3> QED BY <1>3, <2>2, <3>1 DEF Rewrites
    <2> QED BY <2>1, <2>3, <2>4, <2>5
  <1> QED BY <1>2, <1>3

\* What precedes a line is no more than all there is, and loses a bad line only
\* by being shorter.
LEMMA PrefixIs ==
    ASSUME NEW s \in Seq(Line), NEW n \in 0..Len(s)
    PROVE  LET q == SubSeq(s, 1, n)
           IN  /\ q \in Seq(Line) /\ Len(q) = n /\ n \in Nat /\ n <= Len(s)
               /\ ToSet(q) \subseteq ToSet(s) /\ (Ordered(s) => Ordered(q))
               /\ Bad \in ToSet(s) => Bad \in ToSet(q) \/ n < Len(s)
  <1> DEFINE q == SubSeq(s, 1, n)
  <1>1. Len(s) \in Nat /\ n \in Nat /\ n <= Len(s)
    OBVIOUS
  <1>2. q \in Seq(Line) /\ Len(q) = n /\ \A i \in 1..n : q[i] = s[i] /\ i \in 1..Len(s)
    BY <1>1
  <1> HIDE DEF q
  <1>3. ToSet(q) \subseteq ToSet(s)
    BY <1>2 DEF ToSet
  <1>4. Ordered(s) => Ordered(q)
    BY <1>1, <1>2 DEF Ordered
  <1>5. ASSUME Bad \in ToSet(s), ~(n < Len(s)) PROVE Bad \in ToSet(q)
    <2>1. n = Len(s)
      BY <1>1, <1>5
    <2> QED BY <1>2, <1>5, <2>1 DEF ToSet
  <1> QED BY <1>1, <1>2, <1>3, <1>4, <1>5 DEF q

\* The next run finds the file as it was, and keeps of it what it can read and hold.
LEMMA LoadIs ==
    ASSUME GoAssumption, NEW d \in Files, NEW r \in LoadOutcomes(d, QueueSize)
    PROVE  /\ r.disk \in Files /\ r.disk.lines = d.lines /\ r.disk.torn = d.torn
           /\ r.kept \in Seq(Entry) /\ Len(r.kept) \in Nat /\ Len(r.kept) <= QueueSize
           /\ Len(r.kept) <= Len(d.lines) /\ Len(d.lines) \in Nat
           /\ Bad \in ToSet(d.lines) => Len(r.kept) < Len(d.lines)
           /\ ToSet(r.kept) \subseteq ToSet(d.lines) \ {Bad}
           /\ Ordered(d.lines) => Ordered(r.kept)
  <1> DEFINE open == [d EXCEPT !.broken = FALSE]
             shut == [d EXCEPT !.broken = TRUE]
             Read(n) == Newest(QueueSize, Readable(SubSeq(d.lines, 1, n)))
  <1>0. /\ d.lines \in Seq(Line) /\ d.torn \in BOOLEAN /\ d.broken \in BOOLEAN /\ QueueSize \in Nat
        /\ Len(d.lines) \in Nat
    BY OfEntries DEF Files, GoAssumption
  <1>1. /\ open \in Files /\ open.lines = d.lines /\ open.torn = d.torn
        /\ shut \in Files /\ shut.lines = d.lines /\ shut.torn = d.torn
    BY <1>0 DEF Files
  <1>2. PICK n \in 0..Len(d.lines) : r.disk \in {open, shut} /\ r.kept = Read(n)
    <2>1. CASE r = [disk |-> open, kept |-> Read(Len(d.lines))]
      <3>1. Len(d.lines) \in 0..Len(d.lines)
        BY <1>0
      <3>2. r.disk = open /\ r.kept = Read(Len(d.lines))
        <4> HIDE DEF open, Read
        <4> QED BY <2>1
      <3> HIDE DEF open, shut, Read
      <3> QED BY <3>1, <3>2
    <2>2. CASE \E f \in {open, shut}, n \in 0..Len(d.lines) : r = [disk |-> f, kept |-> Read(n)]
      <3> HIDE DEF open, shut, Read
      <3> QED BY <2>2
    <2> QED BY <2>1, <2>2 DEF LoadOutcomes
  <1> DEFINE q == SubSeq(d.lines, 1, n)
             p == Readable(q)
             read == Newest(QueueSize, p)
  <1>3. /\ q \in Seq(Line) /\ Len(q) = n /\ n \in Nat /\ n <= Len(d.lines)
        /\ ToSet(q) \subseteq ToSet(d.lines) /\ (Ordered(d.lines) => Ordered(q))
        /\ Bad \in ToSet(d.lines) => Bad \in ToSet(q) \/ n < Len(d.lines)
    BY <1>0, PrefixIs
  <1>4. r.kept = read
    BY <1>2
  <1> HIDE DEF q
  <1>5. /\ p \in Seq(Entry) /\ Len(p) \in Nat /\ Len(p) <= n
        /\ Bad \in ToSet(q) => Len(p) < n
        /\ ToSet(p) = ToSet(q) \ {Bad} /\ (Ordered(q) => Ordered(p))
    BY <1>3, ReadableIs
  <1> HIDE DEF p
  <1>6. /\ read \in Seq(Entry) /\ Len(read) \in Nat /\ Len(read) <= QueueSize
        /\ Len(read) <= Len(p) /\ ToSet(read) \subseteq ToSet(p) /\ (Ordered(p) => Ordered(read))
    BY <1>0, <1>5, NewestIs
  <1> HIDE DEF read
  <1>7. Len(read) <= Len(d.lines) /\ (Bad \in ToSet(d.lines) => Len(read) < Len(d.lines))
    BY <1>0, <1>3, <1>5, <1>6
  <1>8. r.disk \in Files /\ r.disk.lines = d.lines /\ r.disk.torn = d.torn
    <2> HIDE DEF open, shut
    <2> QED BY <1>1, <1>2
  <1> QED BY <1>0, <1>3, <1>4, <1>5, <1>6, <1>7, <1>8

-------------------------------------------------------------------------------
(* Types, and the inductive invariant.                                     *)

Counts == [taken : Nat, sent : Nat, dropped : Nat]

\* TypeOK in parts: the entries and where they are, and all else.
Numbers ==
    /\ cfg \in Configs /\ next \in 1..(MaxId + 1) /\ recording \in 0..MaxId
    /\ run \in 1..(MaxRuns + 1)

Stores ==
    /\ channel \in Seq(Entry) /\ pending \in Seq(Entry) /\ left \in Seq(Entry)
    /\ disk \in Files /\ count \in Counts /\ acked \subseteq Entry

Places ==
    /\ closed \in BOOLEAN /\ flush \in {"none", "asked", "taken"}
    /\ at \in {"select", "deliver", "ready", "posting", "backoff", "exited"}
    /\ goal \in {"loop", "flush", "close"}
    /\ ticked \in BOOLEAN /\ armed \in BOOLEAN /\ budget \in {"none", "running", "spent"}

Breakers == [failures : 0..Threshold, cool : 0..Reset, probing : BOOLEAN]

Timers ==
    /\ try \in 0..MaxRetries
    /\ breaker \in Breakers
    /\ hold \in 0..Longer /\ retryIn \in 0..Longer

\* The parts are the whole,
LEMMA Parts == TypeOK <=> Numbers /\ Stores /\ Places /\ Timers
  BY Zenon DEF TypeOK, Numbers, Stores, Places, Timers, Breakers, Files, Counts, Line

\* before and after a step.
LEMMA PartsNext == TypeOK' <=> (Numbers /\ Stores /\ Places /\ Timers)'
  BY Parts, PTL

\* Where deliver() and the loop's top leave the sender.
LEMMA LoopTopIs ==
    LoopTop => /\ at' = "select" /\ armed' \in {FALSE, TRUE, armed}
               /\ retryIn' \in {0, hold', retryIn}
  BY DEF LoopTop

\* Return() ends a delivery.
LEMMA ReturnIs ==
    ASSUME NEW out, NEW s, NEW n, Return(out, s, n)
    PROVE  /\ left' = <<>> /\ try' = 0 /\ at' = (IF goal = "close" THEN "exited" ELSE "select")
           /\ armed' \in {FALSE, TRUE, armed} /\ retryIn' \in {0, hold', retryIn}
           /\ flush' \in {"none", flush}
  <1>1. /\ left' = <<>> /\ try' = 0
        /\ goal = "close" => at' = "exited" /\ flush' = "none" /\ UNCHANGED <<armed, retryIn>>
        /\ goal # "close" => LoopTop /\ flush' \in {"none", flush}
    BY Zenon DEF Return
  <1> QED BY <1>1, LoopTopIs

\* Where everybody is, and
LEMMA PlacesStep == GoAssumption /\ TypeOK /\ [Next]_vars => Places'
  <1> SUFFICES ASSUME GoAssumption, TypeOK, [Next]_vars PROVE Places'
    OBVIOUS
  <1> USE DEF callerVars, timeVars
  <1>0. Places
    BY Parts
  <1>a. \A a, b \in BOOLEAN : (a = b) \in BOOLEAN
    OBVIOUS
  <1>1. CASE LogStart
    BY <1>0, <1>1 DEF Places, LogStart
  <1>2. CASE Enqueue
    BY <1>0, <1>2 DEF Places, Enqueue
  <1>3. CASE FlushAsk
    BY <1>0, <1>3 DEF Places, FlushAsk
  <1>4. CASE FlushGivesUp
    BY <1>0, <1>4 DEF Places, FlushGivesUp
  <1>5. CASE Close
    BY <1>0, <1>5 DEF Places, Close
  <1>6. CASE Receive
    BY <1>0, <1>6, LoopTopIs DEF Places, Receive
  <1>7. CASE Tick
    BY <1>0, <1>7 DEF Places, Tick
  <1>8. CASE RetryFires
    BY <1>0, <1>8 DEF Places, RetryFires
  <1>9. CASE FlushTaken
    BY <1>0, <1>9 DEF Places, FlushTaken
  <1>10. CASE Quit
    BY <1>0, <1>10 DEF Places, Quit
  <1>11. CASE Deliver
    BY <1>0, <1>11, ReturnIs DEF Places, Deliver
  <1>12. CASE Attempt
    BY <1>0, <1>12, ReturnIs DEF Places, Attempt, GiveBack
  <1>13. CASE Accepted
    BY <1>0, <1>13, ReturnIs DEF Places, Accepted, Settled
  <1>14. CASE Refused
    BY <1>0, <1>14, ReturnIs DEF Places, Refused, Settled
  <1>15. CASE Failed
    BY <1>0, <1>15, ReturnIs DEF Places, Failed, GiveBack
  <1>16. CASE BackoffEnds
    BY <1>0, <1>16 DEF Places, BackoffEnds
  <1>17. CASE BackoffCut
    BY <1>0, <1>17, ReturnIs DEF Places, BackoffCut, GiveBack
  <1>18. CASE Clock
    BY <1>0, <1>18 DEF Places, Clock
  <1>19. CASE Expire
    BY <1>0, <1>19 DEF Places, Expire
  <1>20. CASE Restart
    BY <1>0, <1>20 DEF Places, Restart
  <1>21. CASE UNCHANGED vars
    BY <1>0, <1>21 DEF Places, vars
  <1> QED
    BY <1>1, <1>2, <1>3, <1>4, <1>5, <1>6, <1>7, <1>8, <1>9, <1>10, <1>11, <1>12,
       <1>13, <1>14, <1>15, <1>16, <1>17, <1>18, <1>19, <1>20, <1>21
    DEF Next, Sender

\* the clocks and the breaker, keep their types.
LEMMA TimersStep == GoAssumption /\ TypeOK /\ [Next]_vars => Timers'
  <1> SUFFICES ASSUME GoAssumption, TypeOK, [Next]_vars PROVE Timers'
    OBVIOUS
  <1> USE DEF callerVars, timeVars
  <1>0. Timers /\ at \in {"select", "deliver", "ready", "posting", "backoff", "exited"}
    BY Parts DEF Places
  <1>a. /\ Longer \in Nat /\ RetryBase \in Nat /\ Reset \in Nat /\ MaxRetries \in Nat
        /\ Threshold \in Nat \ {0} /\ RetryBase <= Longer /\ Reset <= Longer
    BY DEF GoAssumption, Longer
  <1>b. \A b \in Breakers :
            HoldOff(b) \in 0..Longer
    BY <1>a DEF HoldOff, Breakers
  <1>c. /\ Success \in Breakers
        /\ Taken(breaker) \in Breakers
        /\ Failure(breaker) \in Breakers
    <2>1. Success \in Breakers
      BY <1>a DEF Success, Breakers
    <2>2. Taken(breaker) \in Breakers
      BY <1>0 DEF Timers, Taken, Breakers
    <2>3. Failure(breaker) \in Breakers
      <3> DEFINE n == IF IsOpen(breaker) THEN Threshold ELSE breaker.failures + 1
      <3>1. n \in 0..Threshold
        BY <1>0, <1>a DEF Timers, IsOpen, Breakers
      <3>2. Failure(breaker) = [failures |-> n, cool |-> IF n >= Threshold THEN Reset ELSE 0, probing |-> FALSE]
        BY DEF Failure
      <3> HIDE DEF n
      <3> QED BY <1>a, <3>1, <3>2 DEF Breakers
    <2> QED BY <2>1, <2>2, <2>3
  <1>e. hold' \in 0..Longer /\ retryIn' \in {0, hold', retryIn} => retryIn' \in 0..Longer
    BY <1>0, <1>a DEF Timers
  <1>d. \A n \in Nat : Less(n) \in Nat /\ Less(n) <= n
    BY DEF Less
  <1>1. CASE LogStart
    BY <1>0, <1>a, <1>1 DEF Timers, LogStart
  <1>2. CASE Enqueue
    BY <1>0, <1>a, <1>2 DEF Timers, Enqueue
  <1>3. CASE FlushAsk
    BY <1>0, <1>a, <1>3 DEF Timers, FlushAsk
  <1>4. CASE FlushGivesUp
    BY <1>0, <1>a, <1>4 DEF Timers, FlushGivesUp
  <1>5. CASE Close
    BY <1>0, <1>a, <1>5 DEF Timers, Close
  <1>6. CASE Receive
    <2>1. /\ breaker' \in {breaker} /\ hold' \in {hold}
          /\ try' \in {0, try} /\ retryIn' \in {0, hold', retryIn}
      BY <1>6, ReturnIs, LoopTopIs DEF Receive
    <2>2. breaker' \in Breakers /\ hold' \in 0..Longer
      BY <1>0, <1>a, <1>b, <1>c, <2>1 DEF Timers
    <2> QED BY <1>0, <1>a, <1>e, <2>1, <2>2 DEF Timers
  <1>7. CASE Tick
    BY <1>0, <1>a, <1>7 DEF Timers, Tick
  <1>8. CASE RetryFires
    BY <1>0, <1>a, <1>8 DEF Timers, RetryFires
  <1>9. CASE FlushTaken
    BY <1>0, <1>a, <1>9, <1>b, <1>c DEF Timers, FlushTaken
  <1>10. CASE Quit
    BY <1>0, <1>a, <1>10, <1>b, <1>c DEF Timers, Quit
  <1>11. CASE Deliver
    <2>1. /\ breaker' \in {breaker, Taken(breaker)} /\ hold' \in {hold, HoldOff(breaker)}
          /\ try' \in {0, try} /\ retryIn' \in {0, hold', retryIn}
      BY <1>11, ReturnIs, LoopTopIs DEF Deliver
    <2>2. breaker' \in Breakers /\ hold' \in 0..Longer
      BY <1>0, <1>a, <1>b, <1>c, <2>1 DEF Timers
    <2> QED BY <1>0, <1>a, <1>e, <2>1, <2>2 DEF Timers
  <1>12. CASE Attempt
    <2>1. /\ breaker' \in {breaker} /\ hold' \in {hold, HoldOff(breaker)}
          /\ try' \in {0, try} /\ retryIn' \in {0, hold', retryIn}
      BY <1>12, ReturnIs, LoopTopIs DEF Attempt, GiveBack
    <2>2. breaker' \in Breakers /\ hold' \in 0..Longer
      BY <1>0, <1>a, <1>b, <1>c, <2>1 DEF Timers
    <2> QED BY <1>0, <1>a, <1>e, <2>1, <2>2 DEF Timers
  <1>13. CASE Accepted
    <2>1. /\ breaker' \in {Success} /\ hold' \in {hold, 0}
          /\ try' \in {0, try} /\ retryIn' \in {0, hold', retryIn}
      BY <1>13, ReturnIs, LoopTopIs DEF Accepted, Settled
    <2>2. breaker' \in Breakers /\ hold' \in 0..Longer
      BY <1>0, <1>a, <1>b, <1>c, <2>1 DEF Timers
    <2> QED BY <1>0, <1>a, <1>e, <2>1, <2>2 DEF Timers
  <1>14. CASE Refused
    <2>1. /\ breaker' \in {Success} /\ hold' \in {hold, 0}
          /\ try' \in {0, try} /\ retryIn' \in {0, hold', retryIn}
      BY <1>14, ReturnIs, LoopTopIs DEF Refused, Settled
    <2>2. breaker' \in Breakers /\ hold' \in 0..Longer
      BY <1>0, <1>a, <1>b, <1>c, <2>1 DEF Timers
    <2> QED BY <1>0, <1>a, <1>e, <2>1, <2>2 DEF Timers
  <1>15. CASE Failed
    <2>1. /\ breaker' = Failure(breaker) /\ hold' \in {hold, HoldOff(breaker')}
          /\ try >= MaxRetries => try' = 0
          /\ ~(try >= MaxRetries) => try' = try + 1
          /\ retryIn' \in {0, hold', retryIn}
      BY <1>15, ReturnIs DEF Failed, GiveBack
    <2>2. breaker' \in Breakers /\ hold' \in 0..Longer
      BY <1>0, <1>a, <1>b, <1>c, <2>1 DEF Timers
    <2>3. try' \in 0..MaxRetries
      BY <1>0, <1>a, <2>1 DEF Timers
    <2> QED BY <1>0, <1>e, <2>1, <2>2, <2>3 DEF Timers
  <1>16. CASE BackoffEnds
    BY <1>0, <1>a, <1>16 DEF Timers, BackoffEnds
  <1>17. CASE BackoffCut
    <2>1. /\ breaker' \in {breaker} /\ hold' \in {hold, HoldOff(breaker)}
          /\ try' \in {0, try} /\ retryIn' \in {0, hold', retryIn}
      BY <1>17, ReturnIs, LoopTopIs DEF BackoffCut, GiveBack
    <2>2. breaker' \in Breakers /\ hold' \in 0..Longer
      BY <1>0, <1>a, <1>b, <1>c, <2>1 DEF Timers
    <2> QED BY <1>0, <1>a, <1>e, <2>1, <2>2 DEF Timers
  <1>18. CASE Clock
    <2>1. hold' \in 0..Longer /\ retryIn' \in 0..Longer
      BY <1>0, <1>a, <1>d, <1>18 DEF Timers, Clock
    <2>2. Less(breaker.cool) \in 0..Reset
      BY <1>0, <1>a, <1>d DEF Timers, Breakers
    <2>3. breaker' = [breaker EXCEPT !.cool = Less(breaker.cool)]
      BY <1>18 DEF Clock
    <2>4. breaker' \in Breakers
      <3> HIDE DEF Less
      <3> QED BY <1>0, <2>2, <2>3 DEF Timers, Breakers
    <2> QED BY <1>0, <1>18, <2>1, <2>4 DEF Timers, Clock
  <1>19. CASE Expire
    BY <1>0, <1>a, <1>19 DEF Timers, Expire
  <1>20. CASE Restart
    BY <1>0, <1>a, <1>20, <1>c DEF Timers, Restart
  <1>21. CASE UNCHANGED vars
    BY <1>0, <1>a, <1>21 DEF Timers, vars
  <1> QED
    BY <1>1, <1>2, <1>3, <1>4, <1>5, <1>6, <1>7, <1>8, <1>9, <1>10, <1>11, <1>12,
       <1>13, <1>14, <1>15, <1>16, <1>17, <1>18, <1>19, <1>20, <1>21
    DEF Next, Sender

\* What is left while it delivers is part of the backlog, and all of it until a
\* batch has been settled; a closing client does not come back to its loop.
Holding ==
    /\ Delivering => /\ left # <<>> /\ Len(left) <= Len(pending)
                     /\ ToSet(left) \subseteq ToSet(pending)
                     /\ Len(left) = Len(pending) => ToSet(left) = ToSet(pending)
    /\ goal = "close" => at # "select"

Fresh ==
    /\ at = "ready" /\ try = 0 /\ IsOpen(breaker) => breaker.cool = 0 /\ breaker.probing
    /\ at = "backoff" => try > 0

\* What the file may grow to in the r-th run: while it is in use, and given up.
Low(r)  == MaxBytes + (r - 1) * QueueSize
High(r) == MaxBytes + r * QueueSize

Fits(d, r) == Len(d.lines) <= (IF d.broken THEN High(r) ELSE Low(r))

Buffers == Len(channel) <= QueueSize /\ Len(pending) <= QueueSize

\* The file fits, and within its cap once a closing client has drained.
FileRoom ==
    cfg.disk => /\ Fits(disk, run)
                /\ goal = "close" /\ ~disk.broken => Len(disk.lines) <= MaxBytes

Room == Buffers /\ FileRoom

Mirror ==
    /\ disk.torn => Bad \in ToSet(disk.lines)
    /\ cfg.disk /\ ~disk.broken =>
          /\ Len(pending) <= Len(disk.lines) - (IF disk.torn THEN 1 ELSE 0)
          /\ Bad \notin ToSet(disk.lines) =>
                /\ ToSet(pending) \subseteq ToSet(disk.lines)
                /\ run = 1 => ToSet(disk.lines) = ToSet(pending)

Known == ToSet(pending) \cup ToSet(left) \cup (ToSet(disk.lines) \ {Bad}) \cup acked

Ranked ==
    /\ recording < next
    /\ \A x \in Known \cup ToSet(channel) : x < next /\ (recording # 0 => x < recording)
    /\ \A x \in Known, y \in ToSet(channel) : x < y

Sorted == Ordered(pending) /\ Ordered(left) /\ Ordered(disk.lines) /\ Increasing(channel)

Unsent == run = 1 => ToSet(Held) \cap acked = {}

-------------------------------------------------------------------------------
(* The moves of the backlog.                                               *)

\* Counters are numbers.
LEMMA CountsAre == \A c \in Counts : c.taken \in Nat /\ c.sent \in Nat /\ c.dropped \in Nat
  BY DEF Counts

\* n entries leave the books of what is on its way.
Pays(n) ==
    /\ count' \in Counts /\ count'.taken = count.taken
    /\ count'.sent + count'.dropped = count.sent + count.dropped + n

\* What is left of an attempt to deliver becomes the backlog and its mirror.
Returns(out) ==
    /\ disk' \in Files /\ pending' \in Seq(Entry)
    /\ \/ disk' = disk /\ pending' = out /\ (cfg.disk => goal # "close" /\ Len(out) = Len(pending))
       \/ cfg.disk /\ Rewrites(disk, out, disk', pending')

\* Return() does that, and pays for what it drops.
LEMMA ReturnMoves ==
    ASSUME GoAssumption, Stores, NEW out \in Seq(Entry), NEW s \in Nat, NEW n \in Nat,
           Return(out, s, n)
    PROVE  /\ Returns(out) /\ Len(pending') <= Len(out)
           /\ goal = "close" => Pays(s + n)
           /\ goal # "close" => Pays(s + n + (Len(out) - Len(pending')))
  <1> DEFINE outcomes == IF cfg.disk /\ (goal = "close" \/ Len(out) # Len(pending))
                         THEN SyncOutcomes(disk, out) ELSE {[disk |-> disk, kept |-> out]}
  <1>0. disk \in Files /\ count \in Counts /\ Len(out) \in Nat
    BY DEF Stores
  <1>1. PICK r \in outcomes :
          /\ disk' = r.disk /\ pending' = r.kept
          /\ count' = [count EXCEPT !.sent = @ + s,
                                    !.dropped = @ + n + (IF goal = "close" THEN 0 ELSE Len(out) - Len(r.kept))]
    BY DEF Return
  <1>2. Returns(out)
    <2>1. CASE cfg.disk /\ (goal = "close" \/ Len(out) # Len(pending))
      <3>1. r \in SyncOutcomes(disk, out)
        BY <2>1
      <3>2. r.disk \in Files /\ Rewrites(disk, out, r.disk, r.kept)
        BY <1>0, <3>1, SyncIs
      <3>3. Newest(MaxBytes, out) \in Seq(Entry)
        BY NewestIs DEF GoAssumption
      <3>4. r.kept \in Seq(Entry)
        BY <3>2, <3>3 DEF Rewrites
      <3> QED BY <1>1, <2>1, <3>2, <3>4 DEF Returns
    <2>2. CASE ~(cfg.disk /\ (goal = "close" \/ Len(out) # Len(pending)))
      <3>1. r = [disk |-> disk, kept |-> out]
        BY <2>2
      <3>2. disk' = disk /\ pending' = out
        BY <1>1, <3>1
      <3> QED BY <1>0, <2>2, <3>2 DEF Returns
    <2> QED BY <2>1, <2>2
  <1> HIDE DEF outcomes
  <1>3. pending' \in Seq(Entry) /\ Len(pending') \in Nat
    BY <1>2 DEF Returns
  <1>4. Len(Newest(MaxBytes, out)) <= Len(out)
    BY NewestIs DEF GoAssumption
  <1>5. Len(pending') <= Len(out)
    BY <1>0, <1>2, <1>4 DEF Returns, Rewrites
  <1>6. PICK k \in Nat : k = Len(out) - Len(pending')
    <2>1. Len(out) - Len(pending') \in Nat
      BY <1>0, <1>3, <1>5
    <2> QED BY <2>1
  <1>7. PICK c \in Nat : c = IF goal = "close" THEN 0 ELSE k
    <2>1. (IF goal = "close" THEN 0 ELSE k) \in Nat
      OBVIOUS
    <2> QED BY <2>1, Zenon
  <1>8. count' = [count EXCEPT !.sent = count.sent + s, !.dropped = count.dropped + n + c]
    BY <1>1, <1>6, <1>7
  <1>9. /\ count' \in Counts /\ count'.taken = count.taken
        /\ count'.sent = count.sent + s /\ count'.dropped = count.dropped + n + c
        /\ count.sent \in Nat /\ count.dropped \in Nat
    <2>1. /\ count.sent \in Nat /\ count.dropped \in Nat
          /\ count.sent + s \in Nat /\ count.dropped + n + c \in Nat
      <3>1. count.sent \in Nat /\ count.dropped \in Nat
        BY <1>0, CountsAre
      <3> QED BY <3>1
    <2>2. PICK a \in Nat : a = count.sent + s
      BY <2>1
    <2>3. PICK b \in Nat : b = count.dropped + n + c
      BY <2>1
    <2>4. count' = [count EXCEPT !.sent = a, !.dropped = b]
      BY <1>8, <2>2, <2>3
    <2>5. count' \in Counts /\ count'.taken = count.taken /\ count'.sent = a /\ count'.dropped = b
      BY <1>0, <2>4 DEF Counts
    <2> QED BY <2>1, <2>2, <2>3, <2>5
  <1>10. Pays(s + n + c)
    BY <1>9 DEF Pays
  <1>11. goal = "close" => Pays(s + n)
    <2>1. goal = "close" => c = 0 /\ s + n + 0 = s + n
      BY <1>7
    <2> QED BY <1>10, <2>1
  <1>12. goal # "close" => Pays(s + n + (Len(out) - Len(pending')))
    <2>1. goal # "close" => c = Len(out) - Len(pending')
      BY <1>6, <1>7
    <2> QED BY <1>10, <2>1
  <1> QED BY <1>2, <1>5, <1>11, <1>12

\* What was on the channel joins the backlog and its mirror.
Admits ==
    LET all  == pending \o channel
        kept == Newest(QueueSize, all)
    IN  /\ channel' = <<>> /\ disk' \in Files /\ pending' \in Seq(Entry)
        /\ \/ ~cfg.disk /\ disk' = disk /\ pending' = kept
           \/ cfg.disk /\ \E d \in Files :
                 /\ Appends(disk, channel, d)
                 /\ \/ kept = all /\ (d.broken \/ Len(d.lines) <= MaxBytes)
                       /\ disk' = d /\ pending' = all
                    \/ Rewrites(d, kept, disk', pending')

\* Admit does that, and pays for what does not fit.
LEMMA AdmitMoves ==
    ASSUME GoAssumption, Stores, Admit
    PROVE  /\ Admits /\ Len(pending') <= Len(pending) + Len(channel)
           /\ Pays(Len(pending) + Len(channel) - Len(pending'))
  <1> DEFINE all  == pending \o channel
             kept == Newest(QueueSize, all)
             appended == IF cfg.disk THEN AppendOutcomes(disk, channel) ELSE {disk}
             outcomes(d) == IF cfg.disk /\ (Len(kept) # Len(all) \/ OverCap(d))
                            THEN SyncOutcomes(d, kept) ELSE {[disk |-> d, kept |-> kept]}
  <1>0. /\ disk \in Files /\ count \in Counts /\ channel \in Seq(Entry) /\ pending \in Seq(Entry)
        /\ QueueSize \in Nat /\ MaxBytes \in Nat /\ Len(pending) \in Nat /\ Len(channel) \in Nat
    BY DEF Stores, GoAssumption
  <1>1. channel' = <<>> /\ \E d \in appended : \E r \in outcomes(d) :
            /\ disk' = r.disk /\ pending' = r.kept
            /\ count' = [count EXCEPT !.dropped = @ + Len(all) - Len(r.kept)]
    BY Zenon DEF Admit
  <1>2. all \in Seq(Entry) /\ Len(all) = Len(pending) + Len(channel)
    BY <1>0, JoinEntries
  <1>3. kept \in Seq(Entry) /\ Len(kept) \in Nat /\ Len(kept) <= Len(all)
        /\ (Len(all) <= QueueSize => kept = all) /\ (Len(all) > QueueSize => Len(kept) < Len(all))
    <2> HIDE DEF all
    <2>1. /\ kept \in Seq(Entry) /\ Len(kept) \in Nat /\ Len(all) \in Nat /\ Len(kept) <= QueueSize
          /\ Len(kept) <= Len(all) /\ (Len(all) <= QueueSize => kept = all)
      BY <1>0, <1>2, NewestIs
    <2> HIDE DEF kept
    <2> QED BY <1>0, <2>1
  <1>4. PICK d \in appended : \E r \in outcomes(d) :
            /\ disk' = r.disk /\ pending' = r.kept
            /\ count' = [count EXCEPT !.dropped = @ + Len(all) - Len(r.kept)]
    BY <1>1, Zenon
  <1>5. PICK r \in outcomes(d) :
            /\ disk' = r.disk /\ pending' = r.kept
            /\ count' = [count EXCEPT !.dropped = @ + Len(all) - Len(r.kept)]
    BY <1>4, Zenon
  <1> HIDE DEF all, kept
  <1>6. d \in Files /\ (cfg.disk => Appends(disk, channel, d)) /\ (~cfg.disk => d = disk)
    <2>1. CASE cfg.disk
      <3>1. Appends(disk, channel, d)
        BY <1>0, <2>1, AppendIs
      <3> QED BY <2>1, <3>1 DEF Appends
    <2>2. CASE ~cfg.disk
      BY <1>0, <2>2
    <2> QED BY <2>1, <2>2
  <1>7. /\ disk' \in Files /\ pending' \in Seq(Entry) /\ Len(pending') <= Len(kept)
        /\ \/ cfg.disk /\ Rewrites(d, kept, disk', pending')
           \/ cfg.disk /\ kept = all /\ (d.broken \/ Len(d.lines) <= MaxBytes)
              /\ disk' = d /\ pending' = all
           \/ ~cfg.disk /\ disk' = d /\ pending' = kept
    <2>1. CASE cfg.disk /\ (Len(kept) # Len(all) \/ OverCap(d))
      <3>1. r \in SyncOutcomes(d, kept)
        BY <2>1
      <3>2. r.disk \in Files /\ Rewrites(d, kept, r.disk, r.kept)
        BY <1>3, <1>6, <3>1, SyncIs
      <3>3. Newest(MaxBytes, kept) \in Seq(Entry) /\ Len(Newest(MaxBytes, kept)) <= Len(kept)
        BY <1>0, <1>3, NewestIs
      <3>4. r.kept \in Seq(Entry) /\ Len(r.kept) <= Len(kept)
        BY <1>3, <3>2, <3>3 DEF Rewrites
      <3> QED BY <1>5, <2>1, <3>2, <3>4
    <2>2. CASE cfg.disk /\ ~(Len(kept) # Len(all) \/ OverCap(d))
      <3>1. r = [disk |-> d, kept |-> kept]
        BY <2>2
      <3>2. disk' = d /\ pending' = kept
        BY <1>5, <3>1
      <3>3. Len(kept) = Len(all) /\ ~OverCap(d)
        BY <2>2
      <3>4. kept = all
        BY <1>0, <1>2, <1>3, <3>3
      <3>5. d.broken \/ Len(d.lines) <= MaxBytes
        <4>1. Len(d.lines) \in Nat
          BY <1>6, OfEntries DEF Files
        <4> QED BY <1>0, <3>3, <4>1 DEF OverCap
      <3> QED BY <1>3, <1>6, <2>2, <3>2, <3>4, <3>5
    <2>3. CASE ~cfg.disk
      <3>1. r = [disk |-> d, kept |-> kept]
        BY <2>3
      <3>2. disk' = d /\ pending' = kept
        BY <1>5, <3>1
      <3> QED BY <1>3, <1>6, <2>3, <3>2
    <2> QED BY <2>1, <2>2, <2>3
  <1> HIDE DEF outcomes, appended
  <1>8. Len(pending') \in Nat /\ Len(pending') <= Len(pending) + Len(channel)
    BY <1>0, <1>2, <1>3, <1>7
  <1>9. Admits
    BY <1>1, <1>6, <1>7 DEF Admits, all, kept
  <1>10. Pays(Len(pending) + Len(channel) - Len(pending'))
    <2>1. PICK k \in Nat : k = Len(pending) + Len(channel) - Len(pending')
      <3>1. Len(pending) + Len(channel) - Len(pending') \in Nat
        BY <1>0, <1>8
      <3> QED BY <3>1
    <2>2. count.dropped \in Nat /\ count.dropped + Len(all) - Len(pending') = count.dropped + k
      <3>1. count.dropped \in Nat
        BY <1>0 DEF Counts
      <3> QED BY <1>0, <1>2, <1>8, <2>1, <3>1
    <2>3. count' = [count EXCEPT !.dropped = count.dropped + Len(all) - Len(pending')]
      BY <1>5
    <2>4. count' = [count EXCEPT !.dropped = count.dropped + k]
      BY <2>2, <2>3
    <2>5. count' \in Counts /\ count'.taken = count.taken /\ count'.sent = count.sent
          /\ count'.dropped = count.dropped + k /\ count.sent \in Nat
      <3>1. count.dropped + k \in Nat /\ count.sent \in Nat
        BY <1>0, <2>2, CountsAre
      <3>2. PICK a \in Nat : a = count.dropped + k
        BY <3>1
      <3>3. count' = [count EXCEPT !.dropped = a]
        BY <2>4, <3>2
      <3>4. /\ count' \in Counts /\ count'.taken = count.taken /\ count'.sent = count.sent
            /\ count'.dropped = a
        BY <1>0, <3>3 DEF Counts
      <3> QED BY <3>1, <3>2, <3>4
    <2>6. count'.sent + count'.dropped = count.sent + count.dropped + k
      BY <2>2, <2>5
    <2>7. Pays(k)
      BY <2>5, <2>6 DEF Pays
    <2> QED BY <2>1, <2>7
  <1> QED BY <1>8, <1>9, <1>10

-------------------------------------------------------------------------------
(* The kinds of steps.                                                     *)

\* The kinds of steps, by what they do to the entries.  Some leave them alone.
Still ==
    /\ UNCHANGED <<cfg, next, recording, channel, pending, left, disk, count, acked, run>>
    /\ Delivering' <=> Delivering
    /\ at' = "select" => at = "select"
    /\ goal' = "close" => goal = "close"

\* A Log begins ...
Started ==
    /\ recording = 0 /\ recording' = next /\ next <= MaxId /\ next' = next + 1
    /\ count' = [count EXCEPT !.taken = @ + 1]
    /\ UNCHANGED <<cfg, channel, goal, at, pending, left, disk, acked, run>>

\* ... and ends.
Queued ==
    /\ recording # 0 /\ recording' = 0
    /\ \/ Len(channel) < QueueSize /\ channel' = Append(channel, recording) /\ count' = count
       \/ Len(channel) >= QueueSize /\ channel' = Append(Tail(channel), recording) /\ Pays(1)
    /\ UNCHANGED <<cfg, next, goal, at, pending, left, disk, acked, run>>

\* The sender empties the channel, ...
Took ==
    /\ at = "select" /\ at' \in {"select", "deliver"} /\ (goal' = "close" => at' = "deliver")
    /\ Admits /\ Len(pending') <= Len(pending) + Len(channel)
    /\ Pays(Len(pending) + Len(channel) - Len(pending'))
    /\ UNCHANGED <<cfg, next, recording, left, acked, run>>

\* ... makes batches of the backlog, ...
Regrouped ==
    /\ at = "deliver" /\ at' = "ready" /\ pending # <<>> /\ left' = Grouped(pending)
    /\ UNCHANGED <<cfg, next, recording, channel, goal, pending, disk, count, acked, run>>

\* ... settles one, with others to go, ...
Advanced ==
    /\ at = "posting" /\ at' = "ready" /\ Rest # <<>> /\ left' = Rest
    /\ Pays(Len(Batch)) /\ acked' \in {acked, acked \cup ToSet(Batch)}
    /\ UNCHANGED <<cfg, next, recording, channel, goal, pending, disk, run>>

\* ... or the last one, ...
Finished ==
    /\ at = "posting" /\ at' = (IF goal = "close" THEN "exited" ELSE "select")
    /\ left' = <<>> /\ Returns(<<>>) /\ pending' = <<>>
    /\ Pays(Len(left)) /\ acked' \in {acked, acked \cup ToSet(left)}
    /\ UNCHANGED <<cfg, next, recording, channel, goal, run>>

\* ... or keeps what it holds for later.
Returned ==
    /\ at \notin {"select", "exited"} /\ at' = (IF goal = "close" THEN "exited" ELSE "select")
    /\ left' = <<>> /\ Returns(Held) /\ Len(pending') <= Len(Held)
    /\ goal = "close" => Pays(0)
    /\ goal # "close" => Pays(Len(Held) - Len(pending'))
    /\ UNCHANGED <<cfg, next, recording, channel, goal, acked, run>>

\* The next process starts from the file.
Restarted ==
    /\ cfg.disk /\ run < MaxRuns /\ run' = run + 1
    /\ disk' \in Files /\ disk'.lines = disk.lines /\ disk'.torn = disk.torn
    /\ pending' \in Seq(Entry) /\ Len(pending') <= QueueSize /\ Len(pending') <= Len(disk.lines)
    /\ Bad \in ToSet(disk.lines) => Len(pending') < Len(disk.lines)
    /\ ToSet(pending') \subseteq ToSet(disk.lines) \ {Bad}
    /\ Ordered(disk.lines) => Ordered(pending')
    /\ count' = [taken |-> Len(pending'), sent |-> 0, dropped |-> 0]
    /\ recording' = 0 /\ channel' = <<>> /\ left' = <<>>
    /\ goal' = "loop" /\ at' \in {"select", "deliver"}
    /\ UNCHANGED <<cfg, next, acked>>

Kinds ==
    \/ Still \/ Started \/ Queued \/ Took \/ Regrouped \/ Returned \/ Finished \/ Advanced
    \/ Restarted

\* What comes back from a failed attempt is all that was held.
LEMMA GivesHeld ==
    ASSUME GoAssumption, Stores, Holding, Room
    PROVE  /\ Held \in Seq(Entry) /\ Newest(QueueSize, Held) = Held
           /\ Newest(QueueSize, pending) = pending
           /\ Len(Held) \in Nat /\ Len(Held) <= Len(pending)
  <1>1. pending \in Seq(Entry) /\ left \in Seq(Entry) /\ QueueSize \in Nat
        /\ Len(pending) \in Nat /\ Len(left) \in Nat
    BY DEF Stores, GoAssumption
  <1>2. Len(pending) <= QueueSize /\ (Delivering => Len(left) <= Len(pending))
    BY DEF Room, Buffers, Holding
  <1>3. Held \in Seq(Entry) /\ Len(Held) \in Nat /\ Len(Held) <= Len(pending)
    BY <1>1, <1>2 DEF Held
  <1>4. Len(Held) <= QueueSize
    BY <1>1, <1>2, <1>3
  <1> QED BY <1>1, <1>2, <1>3, <1>4, NewestIs

\* A failed attempt returns it.
LEMMA GivenBack ==
    ASSUME GoAssumption, Stores, Holding, Room, Return(Held, 0, 0), at \notin {"select", "exited"},
           UNCHANGED <<cfg, next, recording, channel, goal, acked, run>>
    PROVE  Returned
  <1>1. Held \in Seq(Entry) /\ Len(Held) \in Nat
    BY GivesHeld
  <1>2. /\ Returns(Held) /\ Len(pending') <= Len(Held)
        /\ goal = "close" => Pays(0 + 0)
        /\ goal # "close" => Pays(0 + 0 + (Len(Held) - Len(pending')))
    BY <1>1, ReturnMoves
  <1>3. left' = <<>> /\ at' = (IF goal = "close" THEN "exited" ELSE "select")
    BY ReturnIs
  <1>4. Len(pending') \in Nat
    BY <1>2 DEF Returns
  <1>5. 0 + 0 = 0 /\ 0 + 0 + (Len(Held) - Len(pending')) = Len(Held) - Len(pending')
    BY <1>1, <1>4
  <1> QED BY <1>2, <1>3, <1>5 DEF Returned

\* A settled batch is the last one or not.
LEMMA SettledIs ==
    ASSUME GoAssumption, Stores, Holding, at = "posting", NEW s \in Nat, NEW n \in Nat,
           s + n = Len(Batch), Settled(s, n), acked' \in {acked, acked \cup ToSet(Batch)},
           UNCHANGED <<cfg, next, recording, channel, goal, run>>
    PROVE  Finished \/ Advanced
  <1>0. left \in Seq(Entry) /\ left # <<>> /\ count \in Counts
    BY DEF Stores, Holding, Delivering
  <1>1. /\ Batch \in Seq(Entry) /\ Rest \in Seq(Entry)
        /\ Len(Batch) \in Nat /\ Len(Rest) \in Nat /\ Len(left) = Len(Batch) + Len(Rest)
        /\ ToSet(left) = ToSet(Batch) \cup ToSet(Rest)
    BY <1>0, BatchIs
  <1>2. CASE Rest # <<>>
    <2>1. /\ left' = Rest /\ at' = "ready" /\ UNCHANGED <<pending, disk>>
          /\ count' = [count EXCEPT !.sent = count.sent + s, !.dropped = count.dropped + n]
      BY <1>2 DEF Settled
    <2>2. count.sent \in Nat /\ count.dropped \in Nat
      BY <1>0, CountsAre
    <2>3. PICK a \in Nat : a = count.sent + s
      BY <2>2
    <2>4. PICK b \in Nat : b = count.dropped + n
      BY <2>2
    <2>5. count' = [count EXCEPT !.sent = a, !.dropped = b]
      BY <2>1, <2>3, <2>4
    <2>6. count' \in Counts /\ count'.taken = count.taken /\ count'.sent = a /\ count'.dropped = b
      BY <1>0, <2>5 DEF Counts
    <2>7. a + b = count.sent + count.dropped + Len(Batch)
      <3>1. PICK x \in Nat, y \in Nat : x = count.sent /\ y = count.dropped
        BY <2>2
      <3>2. a = x + s /\ b = y + n
        BY <2>3, <2>4, <3>1
      <3>3. a + b = x + y + (s + n)
        BY <3>2
      <3> QED BY <3>1, <3>3
    <2>8. Pays(Len(Batch))
      BY <2>6, <2>7 DEF Pays
    <2> QED BY <1>2, <2>1, <2>8 DEF Advanced
  <1>3. CASE Rest = <<>>
    <2>1. Return(<<>>, s, n)
      BY <1>3 DEF Settled
    <2>2. <<>> \in Seq(Entry) /\ Len(<<>>) = 0 /\ ToSet(<<>>) = {}
      BY EmptySet
    <2>3. /\ Returns(<<>>) /\ Len(pending') <= Len(<<>>)
          /\ goal = "close" => Pays(s + n)
          /\ goal # "close" => Pays(s + n + (Len(<<>>) - Len(pending')))
      BY <2>1, <2>2, ReturnMoves
    <2>4. pending' \in Seq(Entry) /\ Len(pending') \in Nat
      BY <2>3 DEF Returns
    <2>5. Len(pending') = 0
      BY <2>2, <2>3, <2>4
    <2>6. pending' = <<>>
      BY <2>4, <2>5
    <2>7. Len(left) = Len(Batch) /\ ToSet(left) = ToSet(Batch)
      BY <1>1, <1>3, <2>2
    <2>8. s + n = Len(left) /\ s + n + (Len(<<>>) - Len(pending')) = Len(left)
      BY <1>1, <2>2, <2>5, <2>7
    <2>9. Pays(Len(left))
      BY <2>3, <2>8
    <2>10. left' = <<>> /\ at' = (IF goal = "close" THEN "exited" ELSE "select")
      BY <2>1, ReturnIs
    <2> QED BY <2>3, <2>6, <2>7, <2>9, <2>10 DEF Finished
  <1> QED BY <1>2, <1>3

\* Every step is of one of the kinds.
LEMMA StepKind == GoAssumption /\ TypeOK /\ Holding /\ Room /\ [Next]_vars => Kinds
  <1> SUFFICES ASSUME GoAssumption, TypeOK, Holding, Room, [Next]_vars PROVE Kinds
    OBVIOUS
  <1> USE DEF callerVars, timeVars
  <1>0. Stores /\ count \in Counts /\ disk \in Files /\ channel \in Seq(Entry)
    BY Parts DEF Stores
  <1>a. /\ Newest(QueueSize, Held) = Held /\ Newest(QueueSize, pending) = pending
    BY <1>0, GivesHeld
  <1>1. CASE LogStart
    BY <1>1 DEF Kinds, LogStart, Started
  <1>2. CASE Enqueue
    <2>1. CASE Len(channel) < QueueSize
      <3>1. Len(channel) \in Nat /\ QueueSize \in Nat /\ ~(Len(channel) >= QueueSize)
        BY <1>0, <2>1 DEF GoAssumption
      <3>2. channel' = Append(channel, recording)
            /\ count' = [count EXCEPT !.dropped = count.dropped + 0]
        BY <1>2, <3>1 DEF Enqueue
      <3>3. count.dropped \in Nat
        BY <1>0, CountsAre
      <3>4. count.dropped + 0 = count.dropped
        BY <3>3
      <3>5. count' = count
        BY <1>0, <3>2, <3>4 DEF Counts
      <3> QED BY <1>2, <2>1, <3>2, <3>5 DEF Enqueue, Queued, Kinds
    <2>2. CASE ~(Len(channel) < QueueSize)
      <3>1. Len(channel) >= QueueSize
        BY <1>0, <2>2 DEF GoAssumption
      <3>2. channel' = Append(Tail(channel), recording)
            /\ count' = [count EXCEPT !.dropped = count.dropped + 1]
        BY <1>2, <3>1 DEF Enqueue
      <3>3. count.dropped \in Nat /\ count.sent \in Nat
        BY <1>0, CountsAre
      <3>4. PICK b \in Nat : b = count.dropped + 1
        BY <3>3
      <3>5. count' = [count EXCEPT !.dropped = b]
        BY <3>2, <3>4
      <3>6. count' \in Counts /\ count'.taken = count.taken /\ count'.sent = count.sent /\ count'.dropped = b
        BY <1>0, <3>5 DEF Counts
      <3>7. count.sent + b = count.sent + count.dropped + 1
        BY <3>3, <3>4
      <3>8. Pays(1)
        BY <3>6, <3>7 DEF Pays
      <3> QED BY <1>2, <3>1, <3>2, <3>8 DEF Enqueue, Queued, Kinds
    <2> QED BY <2>1, <2>2
  <1>3. CASE FlushAsk
    BY <1>3 DEF Kinds, FlushAsk, Still, Delivering
  <1>4. CASE FlushGivesUp
    BY <1>4 DEF Kinds, FlushGivesUp, Still, Delivering
  <1>5. CASE Close
    BY <1>5 DEF Kinds, Close, Still, Delivering
  <1>6. CASE Receive
    <2>1. Admit
      BY <1>6 DEF Receive
    <2>2. /\ Admits /\ Len(pending') <= Len(pending) + Len(channel)
          /\ Pays(Len(pending) + Len(channel) - Len(pending'))
      BY <1>0, <2>1, AdmitMoves
    <2>3. /\ at = "select" /\ at' \in {"select", "deliver"} /\ (goal' = "close" => at' = "deliver")
          /\ UNCHANGED <<cfg, next, recording, left, acked, run>>
      BY <1>6, LoopTopIs DEF Receive, Holding
    <2> QED BY <2>2, <2>3 DEF Took, Kinds
  <1>7. CASE Tick
    BY <1>7 DEF Kinds, Tick, Still, Delivering
  <1>8. CASE RetryFires
    BY <1>8 DEF Kinds, RetryFires, Still, Delivering
  <1>9. CASE FlushTaken
    <2>1. Admit
      BY <1>9 DEF FlushTaken
    <2>2. /\ Admits /\ Len(pending') <= Len(pending) + Len(channel)
          /\ Pays(Len(pending) + Len(channel) - Len(pending'))
      BY <1>0, <2>1, AdmitMoves
    <2>3. /\ at = "select" /\ at' \in {"select", "deliver"} /\ (goal' = "close" => at' = "deliver")
          /\ UNCHANGED <<cfg, next, recording, left, acked, run>>
      BY <1>9, LoopTopIs DEF FlushTaken, Holding
    <2> QED BY <2>2, <2>3 DEF Took, Kinds
  <1>10. CASE Quit
    <2>1. Admit
      BY <1>10 DEF Quit
    <2>2. /\ Admits /\ Len(pending') <= Len(pending) + Len(channel)
          /\ Pays(Len(pending) + Len(channel) - Len(pending'))
      BY <1>0, <2>1, AdmitMoves
    <2>3. /\ at = "select" /\ at' \in {"select", "deliver"} /\ (goal' = "close" => at' = "deliver")
          /\ UNCHANGED <<cfg, next, recording, left, acked, run>>
      BY <1>10, LoopTopIs DEF Quit, Holding
    <2> QED BY <2>2, <2>3 DEF Took, Kinds
  <1>11. CASE Deliver
    <2>1. Held = pending /\ at \notin {"select", "exited"}
          /\ UNCHANGED <<cfg, next, recording, channel, goal, acked, run>>
      BY <1>11 DEF Deliver, Held, Delivering
    <2>2. CASE Return(Held, 0, 0)
      BY <1>0, <2>1, <2>2, GivenBack DEF Kinds
    <2>3. CASE ~Return(Held, 0, 0)
      <3>1. Newest(QueueSize, pending) = Held
        BY <1>a, <2>1
      <3>2. /\ pending # <<>> /\ left' = Grouped(pending) /\ at' = "ready"
            /\ UNCHANGED <<pending, disk, count>>
        BY <1>11, <2>1, <2>3, <3>1 DEF Deliver
      <3> QED BY <1>11, <2>1, <3>2 DEF Deliver, Regrouped, Kinds
    <2> QED BY <2>2, <2>3
  <1>12. CASE Attempt
    <2>1. CASE budget = "spent"
      <3>1. Held = left
        BY <1>12 DEF Attempt, Held, Delivering
      <3>2. Return(Held, 0, 0)
        BY <1>a, <1>12, <2>1, <3>1 DEF Attempt, GiveBack
      <3>3. at \notin {"select", "exited"} /\ UNCHANGED <<cfg, next, recording, channel, goal, acked, run>>
        BY <1>12 DEF Attempt
      <3> QED BY <1>0, <3>2, <3>3, GivenBack DEF Kinds
    <2>2. CASE ~(budget = "spent")
      BY <1>12, <2>2 DEF Attempt, Still, Delivering, Kinds
    <2> QED BY <2>1, <2>2
  <1>13. CASE Accepted
    <2>1. left \in Seq(Entry) /\ left # <<>>
      BY <1>0, <1>13 DEF Stores, Holding, Delivering, Accepted
    <2>2. Len(Batch) \in Nat /\ 0 + Len(Batch) = Len(Batch) /\ Len(Batch) + 0 = Len(Batch)
      <3>1. Len(Batch) \in Nat
        BY <2>1, BatchIs
      <3> QED BY <3>1
    <2>3. /\ at = "posting" /\ Settled(Len(Batch), 0) /\ acked' \in {acked, acked \cup ToSet(Batch)}
          /\ UNCHANGED <<cfg, next, recording, channel, goal, run>>
      BY <1>13 DEF Accepted
    <2> QED BY <1>0, <2>2, <2>3, SettledIs DEF Kinds
  <1>14. CASE Refused
    <2>1. left \in Seq(Entry) /\ left # <<>>
      BY <1>0, <1>14 DEF Stores, Holding, Delivering, Refused
    <2>2. Len(Batch) \in Nat /\ 0 + Len(Batch) = Len(Batch) /\ Len(Batch) + 0 = Len(Batch)
      <3>1. Len(Batch) \in Nat
        BY <2>1, BatchIs
      <3> QED BY <3>1
    <2>3. /\ at = "posting" /\ Settled(0, Len(Batch)) /\ acked' \in {acked, acked \cup ToSet(Batch)}
          /\ UNCHANGED <<cfg, next, recording, channel, goal, run>>
      BY <1>14 DEF Refused
    <2> QED BY <1>0, <2>2, <2>3, SettledIs DEF Kinds
  <1>15. CASE Failed
    <2>1. CASE try >= MaxRetries
      <3>1. Held = left
        BY <1>15 DEF Failed, Held, Delivering
      <3>2. Return(Held, 0, 0)
        BY <1>a, <1>15, <2>1, <3>1 DEF Failed, GiveBack
      <3>3. at \notin {"select", "exited"} /\ UNCHANGED <<cfg, next, recording, channel, goal, acked, run>>
        BY <1>15 DEF Failed
      <3> QED BY <1>0, <3>2, <3>3, GivenBack DEF Kinds
    <2>2. CASE ~(try >= MaxRetries)
      BY <1>15, <2>2 DEF Failed, Still, Delivering, Kinds
    <2> QED BY <2>1, <2>2
  <1>16. CASE BackoffEnds
    BY <1>16 DEF Kinds, BackoffEnds, Still, Delivering
  <1>17. CASE BackoffCut
    <2>1. CASE TRUE
      <3>1. Held = left
        BY <1>17 DEF BackoffCut, Held, Delivering
      <3>2. Return(Held, 0, 0)
        BY <1>a, <1>17, <2>1, <3>1 DEF BackoffCut, GiveBack
      <3>3. at \notin {"select", "exited"} /\ UNCHANGED <<cfg, next, recording, channel, goal, acked, run>>
        BY <1>17 DEF BackoffCut
      <3> QED BY <1>0, <3>2, <3>3, GivenBack DEF Kinds
    <2>2. CASE ~(TRUE)
      BY <1>17, <2>2 DEF BackoffCut, Still, Delivering, Kinds
    <2> QED BY <2>1, <2>2
  <1>18. CASE Clock
    BY <1>18 DEF Kinds, Clock, Still, Delivering
  <1>19. CASE Expire
    BY <1>19 DEF Kinds, Expire, Still, Delivering
  <1>20. CASE Restart
    <2>1. PICK r \in LoadOutcomes(disk, QueueSize) :
             /\ disk' = r.disk /\ pending' = r.kept
             /\ count' = [taken |-> Len(r.kept), sent |-> 0, dropped |-> 0]
             /\ at' = IF r.kept # <<>> /\ cfg.schedule # "manual" THEN "deliver" ELSE "select"
      BY <1>20 DEF Restart
    <2>2. /\ r.disk \in Files /\ r.disk.lines = disk.lines /\ r.disk.torn = disk.torn
          /\ r.kept \in Seq(Entry) /\ Len(r.kept) \in Nat /\ Len(r.kept) <= QueueSize
          /\ Len(r.kept) <= Len(disk.lines) /\ Len(disk.lines) \in Nat
          /\ Bad \in ToSet(disk.lines) => Len(r.kept) < Len(disk.lines)
          /\ ToSet(r.kept) \subseteq ToSet(disk.lines) \ {Bad}
          /\ Ordered(disk.lines) => Ordered(r.kept)
      BY <1>0, LoadIs
    <2>3. /\ cfg.disk /\ run < MaxRuns /\ run' = run + 1
          /\ recording' = 0 /\ channel' = <<>> /\ left' = <<>> /\ goal' = "loop"
          /\ UNCHANGED <<cfg, next, acked>>
      BY <1>20 DEF Restart
    <2>4. at' \in {"select", "deliver"} /\ count' = [taken |-> Len(pending'), sent |-> 0, dropped |-> 0]
      BY <2>1
    <2>5. disk' = r.disk /\ pending' = r.kept
      BY <2>1
    <2> QED BY <2>2, <2>3, <2>4, <2>5 DEF Restarted, Kinds
  <1>21. CASE UNCHANGED vars
    BY <1>21 DEF Kinds, Still, Delivering, vars
  <1> QED
    BY <1>1, <1>2, <1>3, <1>4, <1>5, <1>6, <1>7, <1>8, <1>9, <1>10, <1>11, <1>12,
       <1>13, <1>14, <1>15, <1>16, <1>17, <1>18, <1>19, <1>20, <1>21
    DEF Next, Sender

-------------------------------------------------------------------------------
(* Types, what is left, and the breaker.                                   *)

\* The bounds and numbers keep their types,
LEMMA NumbersStep == Kinds /\ GoAssumption /\ TypeOK => Numbers'
  <1> SUFFICES ASSUME Kinds, GoAssumption, TypeOK PROVE Numbers'
    OBVIOUS
  <1>0. Numbers
    BY Parts
  <1>a. MaxId \in Nat /\ MaxRuns \in Nat
    BY DEF GoAssumption
  <1>1. CASE Still
    BY <1>0, <1>a, <1>1 DEF Numbers, Still
  <1>2. CASE Started
    BY <1>0, <1>a, <1>2 DEF Numbers, Started
  <1>3. CASE Queued
    BY <1>0, <1>a, <1>3 DEF Numbers, Queued
  <1>4. CASE Took
    BY <1>0, <1>a, <1>4 DEF Numbers, Took
  <1>5. CASE Regrouped
    BY <1>0, <1>a, <1>5 DEF Numbers, Regrouped
  <1>6. CASE Returned
    BY <1>0, <1>a, <1>6 DEF Numbers, Returned
  <1>7. CASE Finished
    BY <1>0, <1>a, <1>7 DEF Numbers, Finished
  <1>8. CASE Advanced
    BY <1>0, <1>a, <1>8 DEF Numbers, Advanced
  <1>9. CASE Restarted
    BY <1>0, <1>a, <1>9 DEF Numbers, Restarted
  <1> QED
    BY <1>1, <1>2, <1>3, <1>4, <1>5, <1>6, <1>7, <1>8, <1>9 DEF Kinds

\* the queues, the file and the counters theirs,
LEMMA StoresStep == Kinds /\ GoAssumption /\ TypeOK /\ Holding => Stores'
  <1> SUFFICES ASSUME Kinds, GoAssumption, TypeOK, Holding PROVE Stores'
    OBVIOUS
  <1>0. Stores /\ recording \in 0..MaxId /\ next \in 1..(MaxId + 1) /\ MaxId \in Nat
    BY Parts DEF Numbers, GoAssumption
  <1>a. \A s \in Seq(Entry) : ToSet(s) \subseteq Entry
    BY OfEntries
  <1>b. <<>> \in Seq(Entry)
    OBVIOUS
  <1>1. CASE Still
    BY <1>0, <1>1 DEF Stores, Still
  <1>2. CASE Started
    <2>1. PICK a \in Nat : a = count.taken + 1
      <3>1. count.taken \in Nat
        BY <1>0, CountsAre DEF Stores
      <3> QED BY <3>1
    <2>2. count' = [count EXCEPT !.taken = a]
      BY <1>2, <2>1 DEF Started
    <2>3. count' \in Counts
      BY <1>0, <2>2 DEF Counts, Stores
    <2> QED BY <1>0, <1>2, <2>3 DEF Stores, Started
  <1>3. CASE Queued
    <2>1. recording \in Entry /\ channel \in Seq(Entry) /\ QueueSize \in Nat \ {0}
      BY <1>0, <1>3 DEF Queued, Entry, Stores, GoAssumption
    <2>2. count' \in Counts
      BY <1>0, <1>3 DEF Queued, Stores, Pays
    <2>3. channel' \in Seq(Entry)
      <3>1. CASE channel' = Append(channel, recording)
        BY <2>1, <3>1
      <3>2. CASE Len(channel) >= QueueSize /\ channel' = Append(Tail(channel), recording)
        <4>1. channel # <<>>
          BY <2>1, <3>2
        <4>2. Tail(channel) \in Seq(Entry)
          BY <2>1, <4>1
        <4> QED BY <2>1, <3>2, <4>2
      <3> QED BY <1>3, <3>1, <3>2 DEF Queued
    <2> QED BY <1>0, <1>3, <2>2, <2>3 DEF Stores, Queued
  <1>4. CASE Took
    BY <1>0, <1>4 DEF Stores, Took, Admits, Pays
  <1>5. CASE Regrouped
    BY <1>0, <1>5, GroupedIs DEF Stores, Regrouped
  <1>6. CASE Returned
    BY <1>0, <1>6, <1>b DEF Stores, Returned, Returns, Pays
  <1>7. CASE Finished
    BY <1>0, <1>7, <1>a, <1>b DEF Stores, Finished, Returns, Pays
  <1>8. CASE Advanced
    <2>1. left \in Seq(Entry) /\ left # <<>>
      BY <1>0, <1>8 DEF Stores, Holding, Delivering, Advanced
    <2>2. Rest \in Seq(Entry) /\ Batch \in Seq(Entry)
      BY <2>1, BatchIs
    <2>3. ToSet(Batch) \subseteq Entry
      BY <1>a, <2>2
    <2> QED BY <1>0, <1>8, <2>2, <2>3 DEF Stores, Advanced, Pays
  <1>9. CASE Restarted
    <2>1. Len(pending') \in Nat
      BY <1>9 DEF Restarted
    <2>2. count' \in Counts
      BY <1>9, <2>1 DEF Restarted, Counts
    <2> QED BY <1>0, <1>b, <1>9, <2>2 DEF Stores, Restarted
  <1> QED
    BY <1>1, <1>2, <1>3, <1>4, <1>5, <1>6, <1>7, <1>8, <1>9 DEF Kinds

\* and so all does.
LEMMA TypeStep == GoAssumption /\ TypeOK /\ Holding /\ Room /\ [Next]_vars => TypeOK'
  BY StepKind, NumbersStep, StoresStep, PlacesStep, TimersStep, PartsNext

\* What is left stays part of the backlog.
LEMMA HoldingStep == Kinds /\ GoAssumption /\ TypeOK /\ Holding => Holding'
  <1> SUFFICES ASSUME Kinds, GoAssumption, TypeOK, Holding PROVE Holding'
    OBVIOUS
  <1>0. Holding /\ left \in Seq(Entry) /\ pending \in Seq(Entry) /\ Len(left) \in Nat /\ Len(pending) \in Nat
    BY Parts DEF Stores
  <1>1. CASE Still
    BY <1>0, <1>1 DEF Holding, Delivering, Still
  <1>2. CASE Started
    BY <1>0, <1>2 DEF Holding, Delivering, Started
  <1>3. CASE Queued
    BY <1>0, <1>3 DEF Holding, Delivering, Queued
  <1>4. CASE Took
    BY <1>0, <1>4 DEF Holding, Delivering, Took
  <1>5. CASE Regrouped
    <2>1. /\ left' = Grouped(pending) /\ Len(left') = Len(pending) /\ ToSet(left') = ToSet(pending)
          /\ left' \in Seq(Entry)
      BY <1>0, <1>5, GroupedIs DEF Regrouped
    <2>2. left' # <<>>
      BY <1>0, <1>5, <2>1 DEF Regrouped
    <2>3. /\ left' # <<>> /\ Len(left') <= Len(pending) /\ ToSet(left') \subseteq ToSet(pending)
          /\ (Len(left') = Len(pending) => ToSet(left') = ToSet(pending))
      BY <1>0, <2>1, <2>2
    <2> QED BY <1>5, <2>3 DEF Holding, Regrouped
  <1>6. CASE Returned
    BY <1>0, <1>6 DEF Holding, Delivering, Returned
  <1>7. CASE Finished
    BY <1>0, <1>7 DEF Holding, Delivering, Finished
  <1>8. CASE Advanced
    <2>1. left # <<>> /\ Len(left) <= Len(pending) /\ ToSet(left) \subseteq ToSet(pending)
      BY <1>0, <1>8 DEF Holding, Delivering, Advanced
    <2>2. /\ Len(Batch) \in Nat \ {0} /\ Len(Rest) \in Nat /\ Len(left) = Len(Batch) + Len(Rest)
          /\ ToSet(left) = ToSet(Batch) \cup ToSet(Rest)
      BY <1>0, <2>1, BatchIs
    <2>3. Len(Rest) < Len(pending) /\ ToSet(Rest) \subseteq ToSet(pending)
      BY <1>0, <2>1, <2>2
    <2>4. /\ Rest # <<>> /\ Len(Rest) <= Len(pending) /\ ToSet(Rest) \subseteq ToSet(pending)
          /\ (Len(Rest) = Len(pending) => ToSet(Rest) = ToSet(pending))
      BY <1>0, <1>8, <2>2, <2>3 DEF Advanced
    <2> QED BY <1>8, <2>4 DEF Holding, Advanced
  <1>9. CASE Restarted
    BY <1>0, <1>9 DEF Holding, Delivering, Restarted
  <1> QED
    BY <1>1, <1>2, <1>3, <1>4, <1>5, <1>6, <1>7, <1>8, <1>9 DEF Kinds

\* What is about to make its first request has been let through.
LEMMA FreshStep == GoAssumption /\ TypeOK /\ Fresh /\ [Next]_vars => Fresh'
  <1> SUFFICES ASSUME GoAssumption, TypeOK, Fresh, [Next]_vars PROVE Fresh'
    OBVIOUS
  <1> USE DEF callerVars, timeVars
  <1>0. Timers /\ Fresh /\ ~IsOpen(Success) /\ breaker.cool \in Nat
    <2>1. ~IsOpen(Success)
      BY DEF GoAssumption, IsOpen, Success
    <2>2. breaker.cool \in Nat
      BY Parts DEF Timers, Breakers, GoAssumption
    <2> QED BY <2>1, <2>2, Parts
  <1>1. CASE LogStart
    BY <1>0, <1>1 DEF Fresh, IsOpen, LogStart
  <1>2. CASE Enqueue
    BY <1>0, <1>2 DEF Fresh, IsOpen, Enqueue
  <1>3. CASE FlushAsk
    BY <1>0, <1>3 DEF Fresh, IsOpen, FlushAsk
  <1>4. CASE FlushGivesUp
    BY <1>0, <1>4 DEF Fresh, IsOpen, FlushGivesUp
  <1>5. CASE Close
    BY <1>0, <1>5 DEF Fresh, IsOpen, Close
  <1>6. CASE Receive
    BY <1>0, <1>6, LoopTopIs DEF Fresh, IsOpen, Receive
  <1>7. CASE Tick
    BY <1>0, <1>7 DEF Fresh, IsOpen, Tick
  <1>8. CASE RetryFires
    BY <1>0, <1>8 DEF Fresh, IsOpen, RetryFires
  <1>9. CASE FlushTaken
    BY <1>0, <1>9 DEF Fresh, IsOpen, FlushTaken
  <1>10. CASE Quit
    BY <1>0, <1>10 DEF Fresh, IsOpen, Quit
  <1>11. CASE Deliver
    <2>1. \/ at' \in {"select", "exited"}
          \/ at' = "ready" /\ Allows(breaker) /\ breaker' = Taken(breaker)
      BY <1>11, ReturnIs DEF Deliver
    <2>2. CASE at' \in {"select", "exited"}
      BY <2>2 DEF Fresh
    <2>3. CASE at' = "ready" /\ Allows(breaker) /\ breaker' = Taken(breaker)
      <3>1. CASE IsOpen(breaker)
        <4>1. breaker' = [breaker EXCEPT !.probing = TRUE] /\ breaker.cool = 0
          BY <2>3, <3>1 DEF Taken, Allows
        <4>2. breaker'.cool = 0 /\ breaker'.probing
          BY <1>0, <4>1 DEF Timers, Breakers
        <4> QED BY <2>3, <4>2 DEF Fresh
      <3>2. CASE ~IsOpen(breaker)
        <4>1. breaker' = breaker
          BY <2>3, <3>2 DEF Taken
        <4> QED BY <2>3, <3>2, <4>1 DEF Fresh, IsOpen
      <3> QED BY <3>1, <3>2
    <2> QED BY <2>1, <2>2, <2>3
  <1>12. CASE Attempt
    BY <1>0, <1>12, ReturnIs DEF Fresh, IsOpen, Attempt, GiveBack
  <1>13. CASE Accepted
    <2>1. at' \in {"ready", "select", "exited"} /\ breaker' = Success
      BY <1>13, ReturnIs DEF Accepted, Settled
    <2>2. ~IsOpen(breaker')
      BY <1>0, <2>1
    <2>3. ~(IsOpen(breaker)')
      BY <2>2 DEF IsOpen
    <2> QED BY <2>1, <2>3 DEF Fresh
  <1>14. CASE Refused
    <2>1. at' \in {"ready", "select", "exited"} /\ breaker' = Success
      BY <1>14, ReturnIs DEF Refused, Settled
    <2>2. ~IsOpen(breaker')
      BY <1>0, <2>1
    <2>3. ~(IsOpen(breaker)')
      BY <2>2 DEF IsOpen
    <2> QED BY <2>1, <2>3 DEF Fresh
  <1>15. CASE Failed
    <2>1. at' \in {"select", "exited"} \/ (at' = "backoff" /\ try' = try + 1)
      BY <1>15, ReturnIs DEF Failed, GiveBack
    <2>2. try + 1 > 0
      BY <1>0 DEF Timers, GoAssumption
    <2> QED BY <2>1, <2>2 DEF Fresh
  <1>16. CASE BackoffEnds
    <2>1. try > 0 /\ try' = try /\ try \in Nat /\ at' = "ready"
      BY <1>0, <1>16 DEF Fresh, IsOpen, BackoffEnds, Timers, GoAssumption
    <2> QED BY <2>1 DEF Fresh
  <1>17. CASE BackoffCut
    BY <1>0, <1>17, ReturnIs DEF Fresh, IsOpen, BackoffCut, GiveBack
  <1>18. CASE Clock
    <2>1. breaker' = [breaker EXCEPT !.cool = Less(breaker.cool)] /\ UNCHANGED <<at, try>>
      BY <1>18 DEF Clock
    <2>2. /\ breaker'.failures = breaker.failures /\ breaker'.probing = breaker.probing
          /\ breaker'.cool = Less(breaker.cool)
      <3> HIDE DEF Less
      <3> QED BY <1>0, <2>1 DEF Timers, Breakers
    <2>3. breaker.cool = 0 => breaker'.cool = 0
      BY <2>2 DEF Less
    <2> QED BY <1>0, <2>1, <2>2, <2>3 DEF Fresh, IsOpen
  <1>19. CASE Expire
    BY <1>0, <1>19 DEF Fresh, IsOpen, Expire
  <1>20. CASE Restart
    <2>1. at' \in {"select", "deliver"}
      BY <1>20 DEF Restart
    <2> QED BY <2>1 DEF Fresh
  <1>21. CASE UNCHANGED vars
    BY <1>0, <1>21 DEF Fresh, vars, IsOpen
  <1> QED
    BY <1>1, <1>2, <1>3, <1>4, <1>5, <1>6, <1>7, <1>8, <1>9, <1>10, <1>11, <1>12,
       <1>13, <1>14, <1>15, <1>16, <1>17, <1>18, <1>19, <1>20, <1>21
    DEF Next, Sender

-------------------------------------------------------------------------------
(* Room.                                                                   *)

\* The caps of one run and of the next.
LEMMA CapIs ==
    ASSUME GoAssumption, NEW r \in Nat \ {0}
    PROVE  /\ High(r) \in Nat /\ Low(r) \in Nat
           /\ MaxBytes <= Low(r) /\ Low(r) + QueueSize = High(r)
           /\ Low(r + 1) = High(r) /\ High(r) <= High(r + 1)
  <1>0. MaxBytes \in Nat /\ QueueSize \in Nat
    BY DEF GoAssumption
  <1>1. PICK p \in Nat : p = (r - 1) * QueueSize
    <2>1. r - 1 \in Nat
      OBVIOUS
    <2>2. \A a, b \in Nat : a * b \in Nat
      OBVIOUS
    <2> QED BY <1>0, <2>1, <2>2
  <1>2. r * QueueSize = p + QueueSize /\ (r + 1) * QueueSize = p + QueueSize + QueueSize
    <2>1. \A a \in Nat \ {0}, q \in Nat : /\ a * q = (a - 1) * q + q
                                          /\ (a + 1) * q = (a - 1) * q + q + q
      OBVIOUS
    <2> QED BY <1>0, <1>1, <2>1
  <1>3. Low(r) = MaxBytes + p
    BY <1>1 DEF Low
  <1>4. (r + 1) - 1 = r
    OBVIOUS
  <1>5. High(r) = MaxBytes + (p + QueueSize)
    BY <1>2 DEF High
  <1>6. Low(r + 1) = MaxBytes + (p + QueueSize)
    BY <1>2, <1>4 DEF Low
  <1>7. High(r + 1) = MaxBytes + (p + QueueSize + QueueSize)
    BY <1>2 DEF High
  <1> QED BY <1>0, <1>1, <1>3, <1>5, <1>6, <1>7

\* A rewrite keeps within the cap of the run, and a file it leaves in use within MaxBytes.
LEMMA RewriteFits ==
    ASSUME GoAssumption, NEW r \in Nat \ {0}, NEW d \in Files, NEW items \in Seq(Entry),
           NEW e \in Files, NEW kept, Rewrites(d, items, e, kept),
           Len(d.lines) <= High(r)
    PROVE  /\ Fits(e, r) /\ (~e.broken => Len(e.lines) <= MaxBytes)
           /\ Len(kept) <= Len(items)
  <1>0. MaxBytes \in Nat /\ Len(items) \in Nat
    BY DEF GoAssumption
  <1>1. /\ High(r) \in Nat /\ Low(r) \in Nat /\ MaxBytes <= Low(r)
        /\ MaxBytes <= High(r)
    <2>1. Low(r) + QueueSize = High(r) /\ MaxBytes <= Low(r)
          /\ High(r) \in Nat /\ Low(r) \in Nat /\ QueueSize \in Nat
      BY CapIs DEF GoAssumption
    <2> QED BY <1>0, <2>1
  <1>2. /\ e.broken \in BOOLEAN /\ Len(e.lines) \in Nat
        /\ Len(Newest(MaxBytes, items)) <= MaxBytes /\ Len(Newest(MaxBytes, items)) <= Len(items)
    BY <1>0, NewestIs, OfEntries DEF Files
  <1>3. CASE kept = items /\ e.broken /\ e.lines = d.lines
    <2>1. e.broken = TRUE
      BY <1>2, <1>3
    <2> QED BY <1>0, <1>3, <2>1 DEF Fits
  <1>4. CASE kept = Newest(MaxBytes, items) /\ e.lines = kept
    <2>1. Len(e.lines) <= MaxBytes /\ Len(kept) <= Len(items)
      BY <1>2, <1>4
    <2>2. MaxBytes <= (IF e.broken THEN High(r) ELSE Low(r)) /\ (IF e.broken THEN High(r) ELSE Low(r)) \in Nat
      BY <1>1, <1>2
    <2>3. Len(e.lines) <= (IF e.broken THEN High(r) ELSE Low(r))
      BY <1>0, <1>2, <2>1, <2>2
    <2> QED BY <2>1, <2>3 DEF Fits
  <1> QED BY <1>3, <1>4 DEF Rewrites

\* The end of a delivery keeps the file in its room,
LEMMA ReturnsFits ==
    ASSUME GoAssumption, Stores, FileRoom, run \in Nat \ {0}, NEW out \in Seq(Entry), Returns(out),
           UNCHANGED <<cfg, run, goal>>
    PROVE  FileRoom'
  <1> SUFFICES ASSUME cfg.disk
               PROVE  Fits(disk', run) /\ (goal = "close" /\ ~disk'.broken => Len(disk'.lines) <= MaxBytes)
    BY DEF FileRoom, Fits
  <1>0. disk \in Files /\ disk.broken \in BOOLEAN /\ disk' \in Files /\ Len(disk.lines) \in Nat
    BY OfEntries DEF Stores, Returns, Files
  <1>1. CASE Rewrites(disk, out, disk', pending')
    <2>1. Len(disk.lines) <= High(run)
      <3>1. /\ Low(run) + QueueSize = High(run) /\ QueueSize \in Nat
            /\ High(run) \in Nat /\ Low(run) \in Nat
        BY CapIs DEF GoAssumption
      <3>2. CASE disk.broken
        <4>1. disk.broken = TRUE
          BY <1>0, <3>2
        <4> QED BY <4>1 DEF FileRoom, Fits
      <3>3. CASE ~disk.broken
        <4>1. disk.broken = FALSE
          BY <1>0, <3>3
        <4>2. Len(disk.lines) <= Low(run)
          BY <4>1 DEF FileRoom, Fits
        <4> QED BY <1>0, <3>1, <4>2
      <3> QED BY <3>2, <3>3
    <2> QED BY <1>0, <1>1, <2>1, RewriteFits
  <1>2. CASE disk' = disk /\ goal # "close"
    BY <1>2 DEF FileRoom
  <1> QED BY <1>1, <1>2 DEF Returns

\* a drain keeps the file and the backlog in theirs,
LEMMA AdmitsFits ==
    ASSUME GoAssumption, Stores, Buffers, FileRoom, run \in Nat \ {0}, Admits, UNCHANGED <<cfg, run>>
    PROVE  FileRoom' /\ Buffers'
  <1> DEFINE all  == pending \o channel
             kept == Newest(QueueSize, all)
  <1>0. /\ disk \in Files /\ disk.broken \in BOOLEAN /\ disk' \in Files /\ Len(disk.lines) \in Nat
        /\ channel \in Seq(Entry) /\ pending \in Seq(Entry) /\ QueueSize \in Nat
        /\ Len(channel) \in Nat /\ Len(channel) <= QueueSize
    BY OfEntries DEF Stores, Admits, Files, GoAssumption, Buffers
  <1>1. /\ kept \in Seq(Entry) /\ Len(kept) <= QueueSize /\ Len(kept) \in Nat
    <2>1. all \in Seq(Entry)
      BY <1>0, JoinEntries
    <2> HIDE DEF all
    <2> QED BY <1>0, <2>1, NewestIs
  <1> HIDE DEF all, kept
  <1>2. /\ channel' = <<>> /\ pending' \in Seq(Entry)
        /\ \/ ~cfg.disk /\ disk' = disk /\ pending' = kept
           \/ cfg.disk /\ \E d \in Files :
                 /\ Appends(disk, channel, d)
                 /\ \/ kept = all /\ (d.broken \/ Len(d.lines) <= MaxBytes)
                       /\ disk' = d /\ pending' = kept
                    \/ Rewrites(d, kept, disk', pending')
    <2>1. Admits
      OBVIOUS
    <2> QED BY <2>1 DEF Admits, all, kept
  <1>c. /\ Low(run) + QueueSize = High(run) /\ MaxBytes <= Low(run)
        /\ High(run) \in Nat /\ Low(run) \in Nat /\ MaxBytes \in Nat
    BY CapIs DEF GoAssumption
  <1>3. CASE ~cfg.disk
    <2>1. pending' = kept /\ channel' = <<>> /\ Len(<<>>) <= QueueSize
      BY <1>0, <1>2, <1>3
    <2> QED BY <1>1, <1>3, <2>1 DEF FileRoom, Buffers
  <1>4. CASE cfg.disk
    <2>1. PICK d \in Files :
              /\ Appends(disk, channel, d)
              /\ \/ kept = all /\ (d.broken \/ Len(d.lines) <= MaxBytes)
                    /\ disk' = d /\ pending' = kept
                 \/ Rewrites(d, kept, disk', pending')
      BY <1>2, <1>4
    <2>2. Len(d.lines) \in Nat /\ d.broken \in BOOLEAN
      BY OfEntries DEF Files
    <2>3. Len(d.lines) <= High(run)
      <3>1. CASE disk.broken
        <4>1. d = disk /\ disk.broken = TRUE
          BY <1>0, <2>1, <3>1 DEF Appends
        <4> QED BY <1>4, <4>1 DEF FileRoom, Fits
      <3>2. CASE ~disk.broken
        <4>1. disk.broken = FALSE
          BY <1>0, <3>2
        <4>2. Len(disk.lines) <= Low(run)
          BY <1>4, <4>1 DEF FileRoom, Fits
        <4>3. Len(d.lines) <= Len(disk.lines) + Len(channel)
          BY <2>1 DEF Appends
        <4> QED BY <1>0, <1>c, <2>2, <4>2, <4>3
      <3> QED BY <3>1, <3>2
    <2>4. /\ Fits(disk', run) /\ (~disk'.broken => Len(disk'.lines) <= MaxBytes)
          /\ Len(pending') <= QueueSize
      <3>1. CASE Rewrites(d, kept, disk', pending')
        <4>1. /\ Fits(disk', run) /\ (~disk'.broken => Len(disk'.lines) <= MaxBytes)
              /\ Len(pending') <= Len(kept)
          BY <1>0, <1>1, <2>3, <3>1, RewriteFits
        <4>2. Len(pending') \in Nat
          BY <1>2
        <4> QED BY <1>0, <1>1, <4>1, <4>2
      <3>2. CASE (d.broken \/ Len(d.lines) <= MaxBytes) /\ disk' = d /\ pending' = kept
        <4>1. CASE d.broken
          <5>1. d.broken = TRUE
            BY <2>2, <4>1
          <5> QED BY <1>1, <2>3, <3>2, <5>1 DEF Fits
        <4>2. CASE ~d.broken
          <5>1. d.broken = FALSE /\ Len(d.lines) <= MaxBytes
            BY <2>2, <3>2, <4>2
          <5>2. Len(d.lines) <= Low(run)
            BY <1>c, <2>2, <5>1
          <5> QED BY <1>1, <3>2, <5>1, <5>2 DEF Fits
        <4> QED BY <4>1, <4>2
      <3> QED BY <2>1, <3>1, <3>2
    <2>5. Len(channel') <= QueueSize
      BY <1>0, <1>2
    <2> QED BY <2>4, <2>5 DEF FileRoom, Buffers, Fits
  <1> QED BY <1>3, <1>4

\* and so does every step.
LEMMA RoomStep == Kinds /\ GoAssumption /\ TypeOK /\ Holding /\ Room => Room'
  <1> SUFFICES ASSUME Kinds, GoAssumption, TypeOK, Holding, Room PROVE Room'
    OBVIOUS
  <1> SUFFICES (Buffers /\ FileRoom)'
    BY DEF Room
  <1>0. /\ Stores /\ Buffers /\ FileRoom /\ run \in Nat \ {0} /\ QueueSize \in Nat \ {0}
        /\ channel \in Seq(Entry) /\ Len(channel) \in Nat /\ Len(pending) \in Nat
        /\ <<>> \in Seq(Entry) /\ Len(<<>>) = 0
    BY Parts DEF Room, Stores, Numbers, GoAssumption
  <1>a. Held \in Seq(Entry) /\ Len(Held) \in Nat /\ Len(Held) <= Len(pending)
    BY <1>0, GivesHeld
  <1>1. CASE Still
    BY <1>0, <1>1 DEF Buffers, FileRoom, Fits, Still
  <1>2. CASE Started
    BY <1>0, <1>2 DEF Buffers, FileRoom, Fits, Started
  <1>3. CASE Queued
    <2>1. Len(channel') <= QueueSize
      <3>1. CASE Len(channel) < QueueSize /\ channel' = Append(channel, recording)
        <4>1. Len(channel') = Len(channel) + 1
          BY <1>0, <3>1
        <4> QED BY <1>0, <3>1, <4>1
      <3>2. CASE Len(channel) >= QueueSize /\ channel' = Append(Tail(channel), recording)
        <4>1. channel # <<>>
          BY <1>0, <3>2
        <4>2. Tail(channel) \in Seq(Entry) /\ Len(Tail(channel)) = Len(channel) - 1
          BY <1>0, <4>1
        <4>3. Len(channel') = Len(Tail(channel)) + 1
          BY <3>2, <4>2
        <4> QED BY <1>0, <3>2, <4>2, <4>3 DEF Buffers
      <3> QED BY <1>3, <3>1, <3>2 DEF Queued
    <2> QED BY <1>0, <1>3, <2>1 DEF Buffers, FileRoom, Fits, Queued
  <1>4. CASE Took
    BY <1>0, <1>4, AdmitsFits DEF Took
  <1>5. CASE Regrouped
    BY <1>0, <1>5 DEF Buffers, FileRoom, Fits, Regrouped
  <1>6. CASE Returned
    <2>1. FileRoom'
      BY <1>0, <1>a, <1>6, ReturnsFits DEF Returned
    <2>2. Len(pending') <= QueueSize /\ Len(channel') <= QueueSize
      <3>1. Len(pending') \in Nat
        BY <1>6 DEF Returned, Returns
      <3> QED BY <1>0, <1>a, <1>6, <3>1 DEF Returned, Buffers
    <2> QED BY <2>1, <2>2 DEF Buffers
  <1>7. CASE Finished
    <2>1. FileRoom'
      BY <1>0, <1>7, ReturnsFits DEF Finished
    <2>2. Len(pending') <= QueueSize /\ Len(channel') <= QueueSize
      BY <1>0, <1>7 DEF Finished, Buffers
    <2> QED BY <2>1, <2>2 DEF Buffers
  <1>8. CASE Advanced
    BY <1>0, <1>8 DEF Buffers, FileRoom, Fits, Advanced
  <1>9. CASE Restarted
    <2>1. cfg.disk => Fits(disk', run')
      <3> SUFFICES ASSUME cfg.disk PROVE Len(disk.lines) <= (IF disk'.broken THEN High(run + 1) ELSE Low(run + 1))
        BY <1>9 DEF Restarted, Fits
      <3>1. /\ High(run) \in Nat /\ Low(run) \in Nat /\ QueueSize \in Nat
            /\ Low(run) + QueueSize = High(run)
            /\ Low(run + 1) = High(run) /\ High(run) <= High(run + 1)
            /\ High(run + 1) \in Nat
        <4>1. run + 1 \in Nat \ {0}
          BY <1>0
        <4>2. High(run + 1) \in Nat
          BY <4>1, CapIs
        <4> QED BY <1>0, <4>2, CapIs
      <3>2. disk.broken \in BOOLEAN /\ disk'.broken \in BOOLEAN /\ Len(disk.lines) \in Nat
        BY <1>0, <1>9, OfEntries DEF Stores, Files, Restarted
      <3>3. Len(disk.lines) <= High(run)
        <4>1. CASE disk.broken = TRUE
          BY <1>0, <4>1 DEF FileRoom, Fits
        <4>2. CASE disk.broken = FALSE
          <5>1. Len(disk.lines) <= Low(run)
            BY <1>0, <4>2 DEF FileRoom, Fits
          <5> QED BY <3>1, <3>2, <5>1
        <4> QED BY <3>2, <4>1, <4>2
      <3>4. CASE disk'.broken = TRUE
        BY <3>1, <3>2, <3>3, <3>4
      <3>5. CASE disk'.broken = FALSE
        BY <3>1, <3>3, <3>5
      <3> QED BY <3>2, <3>4, <3>5
    <2>2. Len(channel') = 0
      BY <1>0, <1>9 DEF Restarted
    <2> QED BY <1>0, <1>9, <2>1, <2>2 DEF Buffers, FileRoom, Restarted
  <1> QED
    BY <1>1, <1>2, <1>3, <1>4, <1>5, <1>6, <1>7, <1>8, <1>9 DEF Kinds

-------------------------------------------------------------------------------
(* The mirror.                                                             *)

TornIsBad(d) == d.torn => Bad \in ToSet(d.lines)

\* A file covers a backlog: entry by entry, if it has no bad line.
Longs(d, s)  == Len(s) <= Len(d.lines) - (IF d.torn THEN 1 ELSE 0)
Covers(d, s) == Bad \notin ToSet(d.lines) =>
                    /\ ToSet(s) \subseteq ToSet(d.lines)
                    /\ run = 1 => ToSet(d.lines) = ToSet(s)

\* Mirror says so of the file and the backlog,
LEMMA MirrorIs ==
    Mirror <=> /\ TornIsBad(disk)
               /\ cfg.disk /\ ~disk.broken => Longs(disk, pending) /\ Covers(disk, pending)
  BY DEF Mirror, TornIsBad, Longs, Covers

\* before and after a step.
LEMMA MirrorIsNext ==
    Mirror' <=> (/\ TornIsBad(disk)
                 /\ cfg.disk /\ ~disk.broken => Longs(disk, pending) /\ Covers(disk, pending))'
  BY MirrorIs, PTL

\* A rewrite leaves a mirror of what it keeps, or no file in use.
LEMMA RewriteMirrors ==
    ASSUME GoAssumption, NEW d \in Files, NEW items \in Seq(Entry), NEW e \in Files,
           NEW kept, Rewrites(d, items, e, kept), TornIsBad(d)
    PROVE  TornIsBad(e) /\ (~e.broken => Longs(e, kept) /\ Covers(e, kept))
  <1>1. CASE d.broken /\ e = d
    BY <1>1
  <1>2. CASE e.broken /\ e.lines = d.lines /\ e.torn = d.torn
    BY <1>2 DEF TornIsBad
  <1>3. CASE e.lines = kept /\ ~e.torn
    <2>1. Len(e.lines) \in Nat /\ e.torn \in BOOLEAN
      BY OfEntries DEF Files
    <2>2. e.torn = FALSE
      BY <1>3, <2>1
    <2>3. Longs(e, kept)
      BY <1>3, <2>1, <2>2 DEF Longs
    <2> QED BY <1>3, <2>3 DEF TornIsBad, Covers
  <1> QED BY <1>1, <1>2, <1>3 DEF Rewrites

\* The end of a delivery,
LEMMA ReturnsMirrors ==
    ASSUME GoAssumption, Stores, Mirror, NEW out \in Seq(Entry), Returns(out),
           Len(out) = Len(pending) => ToSet(out) = ToSet(pending),
           UNCHANGED <<cfg, run>>
    PROVE  Mirror'
  <1>0. disk \in Files /\ disk' \in Files
    BY DEF Stores, Returns
  <1>1. TornIsBad(disk) /\ (cfg.disk /\ ~disk.broken => Longs(disk, pending) /\ Covers(disk, pending))
    BY MirrorIs
  <1>2. CASE cfg.disk /\ Rewrites(disk, out, disk', pending')
    <2>1. /\ TornIsBad(disk')
          /\ ~disk'.broken => Longs(disk', pending') /\ Covers(disk', pending')
      BY <1>0, <1>1, <1>2, RewriteMirrors
    <2> QED BY <2>1, MirrorIsNext DEF Covers, Longs, TornIsBad
  <1>3. CASE disk' = disk /\ pending' = out /\ (cfg.disk => Len(out) = Len(pending))
    BY <1>1, <1>3, MirrorIsNext DEF Covers, Longs, TornIsBad
  <1> QED BY <1>2, <1>3 DEF Returns

\* a drain,
LEMMA AdmitsMirrors ==
    ASSUME GoAssumption, Stores, Mirror, Admits, UNCHANGED <<cfg, run>>
    PROVE  Mirror'
  <1> DEFINE all  == pending \o channel
             kept == Newest(QueueSize, all)
  <1>0. /\ disk \in Files /\ disk' \in Files /\ channel \in Seq(Entry) /\ pending \in Seq(Entry)
        /\ QueueSize \in Nat /\ Len(channel) \in Nat /\ Len(pending) \in Nat
    BY OfEntries DEF Stores, Admits, GoAssumption
  <1>1. TornIsBad(disk) /\ (cfg.disk /\ ~disk.broken => Longs(disk, pending) /\ Covers(disk, pending))
    BY MirrorIs
  <1>2. /\ all \in Seq(Entry) /\ Len(all) = Len(pending) + Len(channel)
        /\ ToSet(all) = ToSet(pending) \cup ToSet(channel)
    BY <1>0, JoinEntries
  <1>3. \/ ~cfg.disk /\ disk' = disk
        \/ cfg.disk /\ \E d \in Files :
              /\ Appends(disk, channel, d)
              /\ \/ disk' = d /\ pending' = all
                 \/ Rewrites(d, kept, disk', pending')
    BY DEF Admits
  <1> HIDE DEF all
  <1>4. kept \in Seq(Entry)
    BY <1>0, <1>2, NewestIs
  <1> HIDE DEF kept
  <1>5. CASE ~cfg.disk /\ disk' = disk
    BY <1>1, <1>5, MirrorIsNext DEF TornIsBad
  <1>6. CASE cfg.disk
    <2>1. PICK d \in Files : /\ Appends(disk, channel, d)
                             /\ \/ disk' = d /\ pending' = all
                                \/ Rewrites(d, kept, disk', pending')
      BY <1>3, <1>6
    <2>2. TornIsBad(d)
      BY <1>1, <2>1 DEF Appends, TornIsBad
    <2>3. CASE Rewrites(d, kept, disk', pending')
      <3>1. /\ TornIsBad(disk')
            /\ ~disk'.broken => Longs(disk', pending') /\ Covers(disk', pending')
        BY <1>0, <1>4, <2>2, <2>3, RewriteMirrors
      <3> QED BY <3>1, MirrorIsNext DEF Covers, Longs, TornIsBad
    <2>4. CASE disk' = d /\ pending' = all
      <3>1. ASSUME ~d.broken PROVE Longs(d, all)
        <4>1. /\ Longs(disk, pending)
              /\ Len(disk.lines) - (IF disk.torn THEN 1 ELSE 0) + Len(channel)
                    <= Len(d.lines) - (IF d.torn THEN 1 ELSE 0)
          BY <1>1, <1>6, <2>1, <3>1 DEF Appends
        <4>2. Len(disk.lines) \in Nat /\ Len(d.lines) \in Nat
          BY <1>0, OfEntries DEF Files
        <4>3. PICK a \in {0, 1} : a = (IF disk.torn THEN 1 ELSE 0)
          OBVIOUS
        <4>4. PICK b \in {0, 1} : b = (IF d.torn THEN 1 ELSE 0)
          OBVIOUS
        <4>5. Len(pending) <= Len(disk.lines) - a /\ Len(disk.lines) - a + Len(channel) <= Len(d.lines) - b
          BY <4>1, <4>3, <4>4 DEF Longs
        <4>6. Len(all) <= Len(d.lines) - b
          BY <1>0, <1>2, <4>2, <4>5
        <4> QED BY <4>4, <4>6 DEF Longs
      <3>2. ASSUME ~d.broken PROVE Covers(d, all)
        <4>1. SUFFICES ASSUME Bad \notin ToSet(d.lines)
                       PROVE  /\ ToSet(all) \subseteq ToSet(d.lines)
                              /\ run = 1 => ToSet(d.lines) = ToSet(all)
          BY DEF Covers
        <4>2. ~disk.broken /\ ToSet(disk.lines) \subseteq ToSet(d.lines)
          BY <2>1, <3>2 DEF Appends
        <4>3. Bad \notin ToSet(disk.lines) /\ ~disk.torn
          BY <1>1, <4>1, <4>2 DEF TornIsBad
        <4>4. ToSet(d.lines) = ToSet(disk.lines) \cup ToSet(channel)
          BY <2>1, <3>2, <4>3 DEF Appends
        <4>5. ToSet(pending) \subseteq ToSet(disk.lines) /\ (run = 1 => ToSet(disk.lines) = ToSet(pending))
          BY <1>1, <1>6, <4>2, <4>3 DEF Covers
        <4> QED BY <1>2, <4>4, <4>5
      <3> QED BY <2>2, <2>4, <3>1, <3>2, MirrorIsNext DEF Covers, Longs, TornIsBad
    <2> QED BY <2>1, <2>3, <2>4
  <1> QED BY <1>3, <1>5, <1>6

\* and every step keep the mirror.
LEMMA MirrorStep == Kinds /\ GoAssumption /\ TypeOK /\ Holding /\ Room /\ Mirror => Mirror'
  <1> SUFFICES ASSUME Kinds, GoAssumption, TypeOK, Holding, Room, Mirror PROVE Mirror'
    OBVIOUS
  <1>0. Stores /\ run \in Nat \ {0}
    BY Parts DEF Numbers
  <1>1. CASE Still
    BY <1>0, <1>1 DEF Mirror, Still
  <1>2. CASE Started
    BY <1>0, <1>2 DEF Mirror, Started
  <1>3. CASE Queued
    BY <1>0, <1>3 DEF Mirror, Queued
  <1>4. CASE Took
    BY <1>0, <1>4, AdmitsMirrors DEF Took
  <1>5. CASE Regrouped
    BY <1>0, <1>5 DEF Mirror, Regrouped
  <1>6. CASE Returned
    <2>1. Held \in Seq(Entry)
      BY <1>0, GivesHeld
    <2>2. Len(Held) = Len(pending) => ToSet(Held) = ToSet(pending)
      BY DEF Held, Holding
    <2> QED BY <1>0, <1>6, <2>1, <2>2, ReturnsMirrors DEF Returned
  <1>7. CASE Finished
    <2>1. <<>> \in Seq(Entry) /\ Len(<<>>) = 0
      OBVIOUS
    <2>2. Len(pending) = 0 => pending = <<>>
      BY <1>0 DEF Stores
    <2> QED BY <1>0, <1>7, <2>1, <2>2, ReturnsMirrors DEF Finished
  <1>8. CASE Advanced
    BY <1>0, <1>8 DEF Mirror, Advanced
  <1>9. CASE Restarted
    <2>0. /\ disk \in Files /\ disk' \in Files /\ disk'.lines = disk.lines /\ disk'.torn = disk.torn
          /\ Len(disk.lines) \in Nat /\ disk.torn \in BOOLEAN
          /\ Len(pending') \in Nat /\ TornIsBad(disk)
      BY <1>0, <1>9, OfEntries, MirrorIs DEF Stores, Files, Restarted
    <2>1. TornIsBad(disk')
      BY <2>0 DEF TornIsBad
    <2>2. Longs(disk', pending')
      <3>1. CASE disk.torn = TRUE
        <4>1. Bad \in ToSet(disk.lines)
          BY <2>0, <3>1 DEF TornIsBad
        <4>2. Len(pending') < Len(disk.lines)
          BY <1>9, <4>1 DEF Restarted
        <4>3. Len(pending') <= Len(disk.lines) - 1
          BY <2>0, <4>2
        <4> QED BY <2>0, <3>1, <4>3 DEF Longs
      <3>2. CASE disk.torn = FALSE
        <4>1. Len(pending') <= Len(disk.lines)
          BY <1>9 DEF Restarted
        <4>2. Len(pending') <= Len(disk.lines) - 0
          BY <2>0, <4>1
        <4> QED BY <2>0, <3>2, <4>2 DEF Longs
      <3> QED BY <2>0, <3>1, <3>2
    <2>3. ToSet(pending') \subseteq ToSet(disk'.lines) /\ run' # 1
      BY <1>0, <1>9 DEF Restarted
    <2> QED BY <2>1, <2>2, <2>3, MirrorIsNext DEF Covers, Longs, TornIsBad
  <1> QED
    BY <1>1, <1>2, <1>3, <1>4, <1>5, <1>6, <1>7, <1>8, <1>9 DEF Kinds

-------------------------------------------------------------------------------
(* The books.                                                              *)

\* An entry on its way from Log to the channel counts for one.
Carried == IF recording = 0 THEN 0 ELSE 1

\* It is none or one.
LEMMA CarriedIs == Carried \in {0, 1} /\ Carried' \in {0, 1}
  BY DEF Carried

\* The books in these words,
LEMMA BooksAre ==
    Books <=> count.taken = Carried + Len(channel) + Len(Held) + count.sent + count.dropped
  BY DEF Books, Carried

\* before and after a step.
LEMMA BooksAreNext ==
    Books' <=> count'.taken = Carried' + Len(channel') + Len(Held') + count'.sent + count'.dropped
  <1>1. Books' <=> (count.taken = Carried + Len(channel) + Len(Held) + count.sent + count.dropped)'
    BY BooksAre, PTL
  <1> QED BY <1>1

\* The books stay in balance when what leaves the queues is what they pay out.
LEMMA PaysBalances ==
    ASSUME Stores, Books, NEW n \in Nat, Pays(n),
           Len(channel) \in Nat, Len(channel') \in Nat, Len(Held) \in Nat, Len(Held') \in Nat,
           Carried + Len(channel) + Len(Held) = Carried' + Len(channel') + Len(Held') + n
    PROVE  Books'
  <1>1. PICK c \in Nat, h \in Nat, r \in Nat : c = Len(channel) /\ h = Len(Held) /\ r = Carried
    BY CarriedIs
  <1>2. PICK c1 \in Nat, h1 \in Nat, r1 \in Nat : c1 = Len(channel') /\ h1 = Len(Held') /\ r1 = Carried'
    BY CarriedIs
  <1>3. PICK t \in Nat, s \in Nat, d \in Nat : t = count.taken /\ s = count.sent /\ d = count.dropped
    BY CountsAre DEF Stores
  <1>4. PICK s1 \in Nat, d1 \in Nat : s1 = count'.sent /\ d1 = count'.dropped /\ count'.taken = t
    BY <1>3, CountsAre DEF Pays
  <1>5. s1 + d1 = s + d + n
    BY <1>3, <1>4 DEF Pays
  <1>6. t = r + c + h + s + d
    BY <1>1, <1>3, BooksAre
  <1>7. r + c + h = r1 + c1 + h1 + n
    BY <1>1, <1>2
  <1>8. t = r1 + c1 + h1 + s1 + d1
    BY <1>5, <1>6, <1>7
  <1> QED BY <1>2, <1>4, <1>8, BooksAreNext

\* A closing client's last word cuts nothing that was not counted before.
LEMMA LastWord ==
    ASSUME GoAssumption, TypeOK, Holding, Room, Mirror, goal = "close", Returns(Held)
    PROVE  pending' = Held
  <1>0. /\ Stores /\ Held \in Seq(Entry) /\ Len(Held) \in Nat /\ Len(Held) <= Len(pending)
        /\ MaxBytes \in Nat /\ disk \in Files /\ Len(pending) \in Nat
    BY Parts, GivesHeld DEF GoAssumption, Stores
  <1>1. CASE cfg.disk /\ ~disk.broken /\ pending' = Newest(MaxBytes, Held)
    <2>1. Len(disk.lines) <= MaxBytes /\ Longs(disk, pending) /\ Len(disk.lines) \in Nat
      BY <1>0, <1>1, MirrorIs, OfEntries DEF Room, FileRoom, Files
    <2>2. Len(pending) <= Len(disk.lines)
      <3>1. PICK a \in {0, 1} : a = (IF disk.torn THEN 1 ELSE 0)
        OBVIOUS
      <3>2. Len(pending) <= Len(disk.lines) - a
        BY <2>1, <3>1 DEF Longs
      <3> QED BY <1>0, <2>1, <3>2
    <2>3. Len(Held) <= MaxBytes
      BY <1>0, <2>1, <2>2
    <2> QED BY <1>0, <1>1, <2>3, NewestIs
  <1>2. CASE pending' = Held
    BY <1>2
  <1> QED BY <1>1, <1>2 DEF Returns, Rewrites

\* Every step keeps the books.
LEMMA BooksStep == Kinds /\ GoAssumption /\ TypeOK /\ Holding /\ Room /\ Mirror /\ Books => Books'
  <1> SUFFICES ASSUME Kinds, GoAssumption, TypeOK, Holding, Room, Mirror, Books PROVE Books'
    OBVIOUS
  <1>0. /\ Stores /\ Len(channel) \in Nat /\ Len(pending) \in Nat /\ Len(left) \in Nat
        /\ Held \in Seq(Entry) /\ Len(Held) \in Nat /\ Len(Held) <= Len(pending)
        /\ recording \in Nat /\ next \in Nat \ {0} /\ Len(<<>>) = 0
    BY Parts, GivesHeld, OfEntries DEF Stores, Numbers
  <1>1. CASE Still
    <2>1. Held' = Held
      BY <1>1 DEF Still, Held, Delivering
    <2> QED BY <1>1, <2>1 DEF Still, Books
  <1>2. CASE Started
    <2>1. Held' = Held
      BY <1>2 DEF Started, Held, Delivering
    <2>2. PICK c \in Nat, h \in Nat, t \in Nat : c = Len(channel) /\ h = Len(Held) /\ t = count.taken
      BY <1>0, CountsAre DEF Stores
    <2>3. PICK s \in Nat, d \in Nat : s = count.sent /\ d = count.dropped
      BY <1>0, CountsAre DEF Stores
    <2>4. Carried = 0 /\ Carried' = 1
      BY <1>0, <1>2 DEF Started, Carried
    <2>5. t = 0 + c + h + s + d
      BY <2>2, <2>3, <2>4, BooksAre
    <2>6. PICK u \in Nat : u = t + 1
      OBVIOUS
    <2>7. count' = [count EXCEPT !.taken = u]
      BY <1>2, <2>2, <2>6 DEF Started
    <2>8. count'.taken = u /\ count'.sent = s /\ count'.dropped = d
      BY <1>0, <2>3, <2>7 DEF Stores, Counts
    <2>9. u = 1 + c + h + s + d
      BY <2>5, <2>6
    <2> QED BY <1>2, <2>1, <2>2, <2>4, <2>8, <2>9, BooksAreNext DEF Started
  <1>3. CASE Queued
    <2>1. Held' = Held
      BY <1>3 DEF Queued, Held, Delivering
    <2>2. Carried = 1 /\ Carried' = 0
      BY <1>3 DEF Queued, Carried
    <2>3. recording \in Entry /\ channel \in Seq(Entry) /\ QueueSize \in Nat \ {0}
      BY <1>0, <1>3, Parts DEF Queued, Numbers, Entry, GoAssumption, Stores
    <2>4. CASE Len(channel) < QueueSize /\ channel' = Append(channel, recording) /\ count' = count
      <3>1. Len(channel') = Len(channel) + 1
        BY <2>3, <2>4, AppendedSet
      <3>2. PICK c \in Nat, h \in Nat : c = Len(channel) /\ h = Len(Held)
        BY <1>0
      <3>3. PICK s \in Nat, d \in Nat : s = count.sent /\ d = count.dropped
        BY <1>0, CountsAre DEF Stores
      <3>4. count.taken = 1 + c + h + s + d
        BY <2>2, <3>2, <3>3, BooksAre
      <3>5. count.taken = 0 + (c + 1) + h + s + d
        BY <3>4
      <3> QED BY <2>1, <2>2, <2>4, <3>1, <3>2, <3>3, <3>5, BooksAreNext
    <2>5. CASE Len(channel) >= QueueSize /\ channel' = Append(Tail(channel), recording) /\ Pays(1)
      <3>1. channel # <<>>
        BY <1>0, <2>3, <2>5
      <3>2. Tail(channel) \in Seq(Entry) /\ Len(Tail(channel)) = Len(channel) - 1
        BY <2>3, <3>1
      <3>3. Len(channel') = Len(Tail(channel)) + 1
        BY <2>3, <2>5, <3>2, AppendedSet
      <3>4. Len(channel') = Len(channel)
        BY <1>0, <3>2, <3>3
      <3>5. Carried + Len(channel) + Len(Held) = Carried' + Len(channel') + Len(Held') + 1
        BY <1>0, <2>1, <2>2, <3>4
      <3> QED BY <1>0, <2>1, <2>5, <3>4, <3>5, PaysBalances
    <2> QED BY <1>3, <2>4, <2>5 DEF Queued
  <1>4. CASE Took
    <2>1. Held = pending /\ Held' = pending' /\ Carried' = Carried
      BY <1>4 DEF Took, Held, Delivering, Carried
    <2>2. Len(channel') = 0 /\ Len(pending') \in Nat /\ Len(pending') <= Len(pending) + Len(channel)
      BY <1>0, <1>4 DEF Took, Admits
    <2>3. PICK n \in Nat : n = Len(pending) + Len(channel) - Len(pending')
      BY <1>0, <2>2
    <2>4. Pays(n)
      BY <1>4, <2>3 DEF Took
    <2>5. Carried + Len(channel) + Len(Held) = Carried' + Len(channel') + Len(Held') + n
      BY <1>0, <2>1, <2>2, <2>3, CarriedIs
    <2> QED BY <1>0, <2>1, <2>2, <2>4, <2>5, PaysBalances
  <1>5. CASE Regrouped
    <2>1. Held = pending /\ Held' = Grouped(pending) /\ Carried' = Carried
      BY <1>5 DEF Regrouped, Held, Delivering, Carried
    <2>2. Len(Held') = Len(Held)
      BY <1>0, <2>1, GroupedIs DEF Stores
    <2> QED BY <1>5, <2>1, <2>2, BooksAre, BooksAreNext DEF Regrouped
  <1>6. CASE Returned
    <2>1. Held' = pending' /\ Carried' = Carried /\ Len(channel') = Len(channel)
      BY <1>6 DEF Returned, Held, Delivering, Carried
    <2>2. Len(pending') \in Nat /\ Len(pending') <= Len(Held)
      BY <1>6 DEF Returned, Returns
    <2>3. PICK n \in Nat : n = Len(Held) - Len(pending')
      BY <1>0, <2>2
    <2>4. Pays(n)
      <3>1. CASE goal = "close"
        <4>1. Len(pending') = Len(Held)
          BY <1>6, <3>1, LastWord DEF Returned
        <4>2. n = 0
          BY <1>0, <2>3, <4>1
        <4> QED BY <1>6, <3>1, <4>2 DEF Returned
      <3>2. CASE goal # "close"
        BY <1>6, <2>3, <3>2 DEF Returned
      <3> QED BY <3>1, <3>2
    <2>5. Carried + Len(channel) + Len(Held) = Carried' + Len(channel') + Len(Held') + n
      BY <1>0, <2>1, <2>2, <2>3, CarriedIs
    <2> QED BY <1>0, <2>1, <2>2, <2>4, <2>5, PaysBalances
  <1>7. CASE Finished
    <2>1. Held = left /\ Held' = <<>> /\ Carried' = Carried /\ Len(channel') = Len(channel)
      BY <1>7 DEF Finished, Held, Delivering, Carried
    <2>2. Carried + Len(channel) + Len(Held) = Carried' + Len(channel') + Len(Held') + Len(left)
      BY <1>0, <2>1, CarriedIs
    <2>3. Pays(Len(left))
      BY <1>7 DEF Finished
    <2> QED BY <1>0, <2>1, <2>2, <2>3, PaysBalances
  <1>8. CASE Advanced
    <2>1. Held = left /\ Held' = Rest /\ Carried' = Carried /\ Len(channel') = Len(channel)
      BY <1>8 DEF Advanced, Held, Delivering, Carried
    <2>2. left \in Seq(Entry) /\ left # <<>>
      BY <1>0, <1>8 DEF Advanced, Stores, Holding, Delivering
    <2>3. Len(Batch) \in Nat /\ Len(Rest) \in Nat /\ Len(left) = Len(Batch) + Len(Rest)
      BY <2>2, BatchIs
    <2>4. Carried + Len(channel) + Len(Held) = Carried' + Len(channel') + Len(Held') + Len(Batch)
      BY <1>0, <2>1, <2>3, CarriedIs
    <2>5. Pays(Len(Batch))
      BY <1>8 DEF Advanced
    <2> QED BY <1>0, <2>1, <2>3, <2>4, <2>5, PaysBalances
  <1>9. CASE Restarted
    <2>1. Held' = pending' /\ Carried' = 0 /\ Len(channel') = 0 /\ Len(pending') \in Nat
      BY <1>9 DEF Restarted, Held, Delivering, Carried
    <2>2. PICK n \in Nat : n = Len(pending')
      BY <2>1
    <2>3. count' = [taken |-> n, sent |-> 0, dropped |-> 0]
      BY <1>9, <2>2 DEF Restarted
    <2>4. n = 0 + 0 + n + 0 + 0
      OBVIOUS
    <2> QED BY <2>1, <2>2, <2>3, <2>4, BooksAreNext
  <1> QED
    BY <1>1, <1>2, <1>3, <1>4, <1>5, <1>6, <1>7, <1>8, <1>9 DEF Kinds

-------------------------------------------------------------------------------
(* What is known, and what is newer.                                       *)

\* What the backlog and the file hold after a rewrite, after a delivery and
\* after a drain was there before, in order.
LEMMA RewriteHolds ==
    ASSUME GoAssumption, NEW d \in Files, NEW items \in Seq(Entry), NEW e \in Files,
           NEW kept, Rewrites(d, items, e, kept)
    PROVE  /\ ToSet(kept) \subseteq ToSet(items)
           /\ ToSet(e.lines) \subseteq ToSet(d.lines) \cup ToSet(items)
           /\ Ordered(items) => Ordered(kept)
           /\ Ordered(items) /\ Ordered(d.lines) => Ordered(e.lines)
  <1>1. CASE e.lines = d.lines /\ kept = items
    BY <1>1
  <1>2. CASE kept = Newest(MaxBytes, items) /\ e.lines = kept
    <2>1. MaxBytes \in Nat
      BY DEF GoAssumption
    <2>2. /\ ToSet(Newest(MaxBytes, items)) \subseteq ToSet(items)
          /\ Ordered(items) => Ordered(Newest(MaxBytes, items))
      BY <2>1, NewestIs
    <2> QED BY <1>2, <2>2
  <1> QED BY <1>1, <1>2 DEF Rewrites

\* So it is at the end of a delivery,
LEMMA ReturnsHolds ==
    ASSUME GoAssumption, Stores, NEW out \in Seq(Entry), Returns(out)
    PROVE  /\ ToSet(pending') \subseteq ToSet(out)
           /\ ToSet(disk'.lines) \subseteq ToSet(disk.lines) \cup ToSet(out)
           /\ Ordered(out) => Ordered(pending')
           /\ Ordered(out) /\ Ordered(disk.lines) => Ordered(disk'.lines)
  <1>1. disk \in Files /\ disk' \in Files
    BY DEF Stores, Returns
  <1>2. CASE disk' = disk /\ pending' = out
    BY <1>2
  <1>3. CASE Rewrites(disk, out, disk', pending')
    BY <1>1, <1>3, RewriteHolds
  <1> QED BY <1>2, <1>3 DEF Returns

\* and after a drain.
LEMMA AdmitsHolds ==
    ASSUME GoAssumption, Stores, Admits
    PROVE  /\ ToSet(pending') \subseteq ToSet(pending) \cup ToSet(channel)
           /\ ToSet(disk'.lines) \subseteq ToSet(disk.lines) \cup ToSet(pending)
                                              \cup ToSet(channel) \cup {Bad}
           /\ Ordered(pending \o channel) => Ordered(pending')
           /\ Ordered(pending \o channel) /\ Ordered(disk.lines) /\ Behind(disk, channel)
                 => Ordered(disk'.lines)
  <1> DEFINE all  == pending \o channel
             kept == Newest(QueueSize, all)
  <1>0. /\ disk \in Files /\ disk' \in Files /\ channel \in Seq(Entry) /\ pending \in Seq(Entry)
        /\ QueueSize \in Nat
    BY DEF Stores, Admits, GoAssumption
  <1>1. all \in Seq(Entry) /\ ToSet(all) = ToSet(pending) \cup ToSet(channel)
    BY <1>0, JoinEntries
  <1>2. \/ disk' = disk /\ pending' = kept
        \/ \E d \in Files : /\ Appends(disk, channel, d)
                            /\ \/ kept = all /\ disk' = d /\ pending' = kept
                               \/ Rewrites(d, kept, disk', pending')
    <2> HIDE DEF all, kept
    <2>1. \/ disk' = disk /\ pending' = kept
          \/ \E d \in Files : /\ Appends(disk, channel, d)
                              /\ \/ kept = all /\ disk' = d /\ pending' = all
                                 \/ Rewrites(d, kept, disk', pending')
      BY DEF Admits, all, kept
    <2> QED BY <2>1
  <1>3. SUFFICES /\ ToSet(pending') \subseteq ToSet(all)
                 /\ ToSet(disk'.lines) \subseteq ToSet(disk.lines) \cup ToSet(all) \cup {Bad}
                 /\ Ordered(all) => Ordered(pending')
                 /\ Ordered(all) /\ Ordered(disk.lines) /\ Behind(disk, channel) => Ordered(disk'.lines)
    BY <1>1
  <1>c. ToSet(channel) \subseteq ToSet(all)
    BY <1>1
  <1> HIDE DEF all
  <1>4. kept \in Seq(Entry) /\ ToSet(kept) \subseteq ToSet(all) /\ (Ordered(all) => Ordered(kept))
    BY <1>0, <1>1, NewestIs
  <1> HIDE DEF kept
  <1>5. CASE disk' = disk /\ pending' = kept
    BY <1>4, <1>5
  <1>6. ASSUME NEW d \in Files, Appends(disk, channel, d),
               \/ kept = all /\ disk' = d /\ pending' = kept
               \/ Rewrites(d, kept, disk', pending')
        PROVE  /\ ToSet(pending') \subseteq ToSet(all)
               /\ ToSet(disk'.lines) \subseteq ToSet(disk.lines) \cup ToSet(all) \cup {Bad}
               /\ Ordered(all) => Ordered(pending')
               /\ Ordered(all) /\ Ordered(disk.lines) /\ Behind(disk, channel) => Ordered(disk'.lines)
    <2>1. /\ ToSet(d.lines) \subseteq ToSet(disk.lines) \cup ToSet(channel) \cup {Bad}
          /\ Behind(disk, channel) => Ordered(d.lines)
      BY <1>6 DEF Appends
    <2>2. CASE disk' = d /\ pending' = kept
      BY <1>4, <1>c, <2>1, <2>2
    <2>3. CASE Rewrites(d, kept, disk', pending')
      <3>1. /\ ToSet(pending') \subseteq ToSet(kept)
            /\ ToSet(disk'.lines) \subseteq ToSet(d.lines) \cup ToSet(kept)
            /\ Ordered(kept) => Ordered(pending')
            /\ Ordered(kept) /\ Ordered(d.lines) => Ordered(disk'.lines)
        BY <1>0, <1>4, <2>3, RewriteHolds
      <3> QED BY <1>4, <1>c, <2>1, <3>1
    <2> QED BY <1>6, <2>2, <2>3
  <1> QED BY <1>2, <1>5, <1>6

\* What is left of a queue that gives up its oldest.
LEMMA TailIs ==
    ASSUME GoAssumption, NEW s \in Seq(Entry), s # <<>>
    PROVE  /\ Tail(s) \in Seq(Entry) /\ ToSet(Tail(s)) \subseteq ToSet(s)
           /\ Increasing(s) => Increasing(Tail(s))
  <1> DEFINE r == Tail(s)
  <1>1. r \in Seq(Entry) /\ Len(r) \in Nat /\ Len(r) + 1 = Len(s) /\ \A i \in 1..Len(r) : r[i] = s[i + 1]
    OBVIOUS
  <1>2. s \in Seq(Line) /\ r \in Seq(Line)
    BY <1>1, OfEntries
  <1> HIDE DEF r
  <1>3. Len(r) + 1 <= Len(s)
    BY <1>1
  <1>4. ToSet(r) \subseteq ToSet(s) /\ (Increasing(s) => Increasing(r))
    BY <1>1, <1>2, <1>3, WindowIs
  <1> QED BY <1>1, <1>4 DEF r

\* A Log that ends adds its entry to the channel.
LEMMA QueuedHolds ==
    ASSUME GoAssumption, TypeOK, Queued
    PROVE  ToSet(channel') \subseteq ToSet(channel) \cup {recording}
  <1>1. channel \in Seq(Entry) /\ Len(channel) \in Nat
    BY Parts DEF Stores
  <1>2. recording \in Entry /\ QueueSize \in Nat \ {0}
    BY Parts DEF Numbers, Entry, GoAssumption, Queued
  <1>3. CASE channel' = Append(channel, recording)
    BY <1>1, <1>2, <1>3, AppendedSet
  <1>4. CASE Len(channel) >= QueueSize /\ channel' = Append(Tail(channel), recording)
    <2>1. channel # <<>>
      BY <1>1, <1>2, <1>4
    <2>2. Tail(channel) \in Seq(Entry) /\ ToSet(Tail(channel)) \subseteq ToSet(channel)
      BY <1>1, <2>1, TailIs
    <2>3. PICK r \in Seq(Entry) : r = Tail(channel)
      BY <2>2
    <2>4. channel' = Append(r, recording)
      BY <1>4, <2>3
    <2>5. ToSet(channel') = ToSet(r) \cup {recording}
      BY <1>2, <2>4, AppendedSet
    <2> QED BY <2>2, <2>3, <2>5
  <1> QED BY <1>3, <1>4 DEF Queued

\* Where entries are known to be, and that they are numbers.
LEMMA KnownAre ==
    ASSUME GoAssumption, TypeOK
    PROVE  /\ Known \subseteq Entry /\ ToSet(channel) \subseteq Entry /\ Entry \subseteq Nat
           /\ recording \in Nat /\ next \in Nat
  <1>1. Stores /\ Numbers
    BY Parts
  <1>2. Entry \subseteq Nat /\ \A s \in Seq(Entry) : ToSet(s) \subseteq Entry
    BY OfEntries
  <1>3. ToSet(disk.lines) \subseteq Line
    BY <1>1, OfEntries DEF Stores, Files
  <1>4. Line \ {Bad} \subseteq Entry
    BY DEF Line
  <1>5. recording \in Nat /\ next \in Nat
    <2>1. MaxId \in Nat
      BY DEF GoAssumption
    <2> QED BY <1>1, <2>1 DEF Numbers
  <1> QED BY <1>1, <1>2, <1>3, <1>4, <1>5 DEF Known, Stores

\* What is known stays below what is still to come, if nothing new is known.
LEMMA RankKept ==
    ASSUME Ranked, UNCHANGED <<next, recording>>,
           \/ channel' = channel /\ Known' \subseteq Known
           \/ channel' = <<>> /\ Known' \subseteq Known \cup ToSet(channel)
    PROVE  Ranked'
  <1>1. ToSet(<<>>) = {}
    BY EmptySet
  <1>2. /\ Known' \subseteq Known \cup ToSet(channel)
        /\ \/ channel' = channel /\ Known' \subseteq Known
           \/ ToSet(channel') = {}
    BY <1>1
  <1> QED BY <1>2 DEF Ranked

\* Whatever comes later is newer.
LEMMA RankedStep == Kinds /\ GoAssumption /\ TypeOK /\ Holding /\ Room /\ Ranked => Ranked'
  <1> SUFFICES ASSUME Kinds, GoAssumption, TypeOK, Holding, Room, Ranked PROVE Ranked'
    OBVIOUS
  <1>0. /\ Stores /\ Known \subseteq Nat /\ ToSet(channel) \subseteq Nat /\ recording \in Nat
        /\ next \in Nat /\ channel \in Seq(Entry) /\ pending \in Seq(Entry) /\ left \in Seq(Entry)
    BY Parts, KnownAre DEF Stores
  <1>e. ToSet(<<>>) = {}
    BY EmptySet
  <1>1. CASE Still
    BY <1>1, RankKept DEF Still, Known
  <1>2. CASE Started
    <2>1. /\ UNCHANGED channel /\ recording = 0 /\ recording' = next /\ next' = next + 1
          /\ Known' = Known
      BY <1>2 DEF Started, Known
    <2>2. recording' < next'
      BY <1>0, <2>1
    <2>3. ASSUME NEW x \in Known \cup ToSet(channel) PROVE x < next' /\ x < recording'
      <3>1. x \in Nat /\ x < next
        BY <1>0 DEF Ranked
      <3> QED BY <1>0, <2>1, <3>1
    <2> QED BY <2>1, <2>2, <2>3 DEF Ranked
  <1>3. CASE Queued
    <2>1. /\ recording # 0 /\ recording' = 0 /\ next' = next /\ Known' = Known
      BY <1>3 DEF Queued, Known
    <2>3. ToSet(channel') \subseteq ToSet(channel) \cup {recording}
      BY <1>3, QueuedHolds
    <2>4. 0 < next
      BY <1>0, <2>1 DEF Ranked
    <2> QED BY <1>0, <2>1, <2>3, <2>4 DEF Ranked
  <1>4. CASE Took
    <2>1. /\ UNCHANGED <<next, recording, left, acked>> /\ Admits /\ channel' = <<>>
      BY <1>4 DEF Took, Admits
    <2>2. /\ ToSet(pending') \subseteq ToSet(pending) \cup ToSet(channel)
          /\ ToSet(disk'.lines) \subseteq ToSet(disk.lines) \cup ToSet(pending)
                                             \cup ToSet(channel) \cup {Bad}
      BY <1>0, <2>1, AdmitsHolds
    <2>3. Known' \subseteq Known \cup ToSet(channel)
      BY <2>1, <2>2 DEF Known
    <2> QED BY <2>1, <2>3, RankKept
  <1>5. CASE Regrouped
    <2>1. ToSet(left') = ToSet(pending)
      BY <1>0, <1>5, GroupedIs DEF Regrouped
    <2>2. Known' \subseteq Known
      BY <1>5, <2>1 DEF Known, Regrouped
    <2> QED BY <1>5, <2>2, RankKept DEF Regrouped
  <1>6. CASE Returned
    <2>1. Held \in Seq(Entry) /\ (Held = pending \/ Held = left)
      BY <1>0, GivesHeld DEF Held
    <2>2. ToSet(pending') \subseteq ToSet(Held) /\ ToSet(disk'.lines) \subseteq ToSet(disk.lines) \cup ToSet(Held)
      BY <1>0, <1>6, <2>1, ReturnsHolds DEF Returned
    <2>3. left' = <<>> /\ acked' = acked
      BY <1>6 DEF Returned
    <2>4. Known' \subseteq Known
      BY <1>e, <2>1, <2>2, <2>3 DEF Known
    <2> QED BY <1>6, <2>4, RankKept DEF Returned
  <1>7. CASE Finished
    <2>1. ToSet(disk'.lines) \subseteq ToSet(disk.lines)
      <3>1. <<>> \in Seq(Entry)
        OBVIOUS
      <3> QED BY <1>0, <1>e, <1>7, <3>1, ReturnsHolds DEF Finished
    <2>2. left' = <<>> /\ pending' = <<>> /\ acked' \subseteq acked \cup ToSet(left)
      BY <1>7 DEF Finished
    <2>3. Known' \subseteq Known
      BY <1>e, <2>1, <2>2 DEF Known
    <2> QED BY <1>7, <2>3, RankKept DEF Finished
  <1>8. CASE Advanced
    <2>1. left # <<>>
      BY <1>8 DEF Advanced, Holding, Delivering
    <2>2. ToSet(left) = ToSet(Batch) \cup ToSet(Rest)
      BY <1>0, <2>1, BatchIs
    <2>3. ToSet(left') \subseteq ToSet(left) /\ acked' \subseteq acked \cup ToSet(left)
      BY <1>8, <2>2 DEF Advanced
    <2>4. Known' \subseteq Known
      BY <1>8, <2>3 DEF Known, Advanced
    <2> QED BY <1>8, <2>4, RankKept DEF Advanced
  <1>9. CASE Restarted
    <2>1. /\ channel' = <<>> /\ left' = <<>> /\ UNCHANGED <<next, acked>> /\ recording' = 0
          /\ disk'.lines = disk.lines /\ ToSet(pending') \subseteq ToSet(disk.lines) \ {Bad}
      BY <1>9 DEF Restarted
    <2>2. Known' \subseteq Known
      BY <1>e, <2>1 DEF Known
    <2>3. 0 < next
      BY <1>0 DEF Ranked
    <2> QED BY <1>e, <2>1, <2>2, <2>3 DEF Ranked
  <1> QED
    BY <1>1, <1>2, <1>3, <1>4, <1>5, <1>6, <1>7, <1>8, <1>9 DEF Kinds

-------------------------------------------------------------------------------
(* Order, and what is not sent again.                                      *)

\* The backlog, what is left, the file and the channel stay in order.
LEMMA SortedStep == Kinds /\ GoAssumption /\ TypeOK /\ Holding /\ Room /\ Ranked /\ Sorted => Sorted'
  <1> SUFFICES ASSUME Kinds, GoAssumption, TypeOK, Holding, Room, Ranked, Sorted PROVE Sorted'
    OBVIOUS
  <1>0. /\ Stores /\ Known \subseteq Nat /\ ToSet(channel) \subseteq Nat
        /\ channel \in Seq(Entry) /\ pending \in Seq(Entry) /\ left \in Seq(Entry)
        /\ disk \in Files
    BY Parts, KnownAre DEF Stores
  <1>e. Ordered(<<>>) /\ Increasing(<<>>)
    BY EmptyOrders
  <1>1. CASE Still
    BY <1>0, <1>1 DEF Sorted, Still
  <1>2. CASE Started
    BY <1>0, <1>2 DEF Sorted, Started
  <1>3. CASE Queued
    <2>1. /\ recording # 0 /\ UNCHANGED <<pending, left, disk>>
      BY <1>3 DEF Queued
    <2>2. recording \in Entry /\ QueueSize \in Nat \ {0} /\ Len(channel) \in Nat
      BY <1>0, <2>1, Parts DEF Numbers, Entry, GoAssumption
    <2>3. Increasing(channel) /\ \A x \in ToSet(channel) : x < recording
      BY <2>1 DEF Sorted, Ranked
    <2>4. Increasing(channel')
      <3>1. CASE channel' = Append(channel, recording)
        BY <1>0, <2>2, <2>3, <3>1, AppendIncreases
      <3>2. CASE Len(channel) >= QueueSize /\ channel' = Append(Tail(channel), recording)
        <4>1. channel # <<>>
          BY <1>0, <2>2, <3>2
        <4>2. PICK r \in Seq(Entry) : r = Tail(channel) /\ ToSet(r) \subseteq ToSet(channel) /\ Increasing(r)
          BY <1>0, <2>3, <4>1, TailIs
        <4>3. \A x \in ToSet(r) : x < recording
          BY <2>3, <4>2
        <4>4. Increasing(Append(r, recording))
          BY <2>2, <4>2, <4>3, AppendIncreases
        <4> QED BY <3>2, <4>2, <4>4
      <3> QED BY <1>3, <3>1, <3>2 DEF Queued
    <2> QED BY <2>1, <2>4 DEF Sorted
  <1>4. CASE Took
    <2>1. Admits /\ channel' = <<>> /\ UNCHANGED left
      BY <1>4 DEF Took, Admits
    <2>2. /\ Ordered(pending) /\ Ordered(channel) /\ Ordered(disk.lines) /\ Ordered(left)
      BY IncreasingOrders DEF Sorted
    <2>3. /\ \A x \in ToSet(pending), y \in ToSet(channel) : x < y
          /\ \A x \in ToSet(disk.lines) \ {Bad}, y \in ToSet(channel) : x < y
      BY DEF Ranked, Known
    <2>4. Ordered(pending \o channel)
      <3>1. Entry \subseteq Line
        BY DEF Line
      <3> QED BY <1>0, <2>2, <2>3, <3>1, JoinIs
    <2>5. Behind(disk, channel)
      BY <2>2, <2>3 DEF Behind
    <2>6. Ordered(pending') /\ Ordered(disk'.lines)
      BY <1>0, <2>1, <2>2, <2>4, <2>5, AdmitsHolds
    <2> QED BY <1>e, <2>1, <2>2, <2>6 DEF Sorted
  <1>5. CASE Regrouped
    <2>1. Ordered(left')
      BY <1>0, <1>5, GroupedIs DEF Regrouped, Sorted
    <2> QED BY <1>5, <2>1 DEF Sorted, Regrouped
  <1>6. CASE Returned
    <2>1. Held \in Seq(Entry) /\ Ordered(Held)
      BY <1>0, GivesHeld DEF Held, Sorted
    <2>2. Ordered(pending') /\ Ordered(disk'.lines)
      BY <1>0, <1>6, <2>1, ReturnsHolds DEF Returned, Sorted
    <2>3. left' = <<>> /\ channel' = channel
      BY <1>6 DEF Returned
    <2> QED BY <1>e, <2>2, <2>3 DEF Sorted
  <1>7. CASE Finished
    <2>1. Ordered(disk'.lines)
      <3>1. <<>> \in Seq(Entry)
        OBVIOUS
      <3> QED BY <1>0, <1>e, <1>7, <3>1, ReturnsHolds DEF Finished, Sorted
    <2>2. left' = <<>> /\ pending' = <<>> /\ channel' = channel
      BY <1>7 DEF Finished
    <2> QED BY <1>e, <2>1, <2>2 DEF Sorted
  <1>8. CASE Advanced
    <2>1. left # <<>>
      BY <1>8 DEF Advanced, Holding, Delivering
    <2>2. Ordered(left')
      BY <1>0, <1>8, <2>1, BatchIs DEF Sorted, Advanced
    <2> QED BY <1>8, <2>2 DEF Sorted, Advanced
  <1>9. CASE Restarted
    <2>1. /\ channel' = <<>> /\ left' = <<>> /\ disk'.lines = disk.lines
          /\ Ordered(disk.lines) => Ordered(pending')
      BY <1>9 DEF Restarted
    <2> QED BY <1>e, <2>1 DEF Sorted
  <1> QED
    BY <1>1, <1>2, <1>3, <1>4, <1>5, <1>6, <1>7, <1>8, <1>9 DEF Kinds

\* Nothing a 2xx has answered for is held again.
LEMMA UnsentStep == Kinds /\ GoAssumption /\ TypeOK /\ Holding /\ Room /\ Ranked /\ Sorted /\ Unsent => Unsent'
  <1> SUFFICES ASSUME Kinds, GoAssumption, TypeOK, Holding, Room, Ranked, Sorted, Unsent PROVE Unsent'
    OBVIOUS
  <1>0. /\ Stores /\ channel \in Seq(Entry) /\ pending \in Seq(Entry) /\ left \in Seq(Entry)
        /\ acked \subseteq Nat
    BY Parts, KnownAre DEF Stores, Known
  <1>e. ToSet(<<>>) = {}
    BY EmptySet
  <1>1. CASE Still
    BY <1>0, <1>1 DEF Unsent, Held, Delivering, Still
  <1>2. CASE Started
    BY <1>0, <1>2 DEF Unsent, Held, Delivering, Started
  <1>3. CASE Queued
    BY <1>0, <1>3 DEF Unsent, Held, Delivering, Queued
  <1>4. CASE Took
    <2>1. Admits /\ acked' = acked /\ run' = run /\ Held = pending /\ Held' = pending'
      BY <1>4 DEF Took, Held, Delivering
    <2>2. ToSet(pending') \subseteq ToSet(pending) \cup ToSet(channel)
      BY <1>0, <2>1, AdmitsHolds
    <2>3. ToSet(channel) \cap acked = {}
      <3>1. \A x \in acked, y \in ToSet(channel) : x < y
        BY DEF Ranked, Known
      <3>2. \A z \in Nat : ~(z < z)
        OBVIOUS
      <3> QED BY <1>0, <3>1, <3>2
    <2> QED BY <2>1, <2>2, <2>3 DEF Unsent
  <1>5. CASE Regrouped
    <2>1. Held = pending /\ Held' = Grouped(pending) /\ acked' = acked /\ run' = run
      BY <1>5 DEF Regrouped, Held, Delivering
    <2>2. ToSet(Held') = ToSet(Held)
      BY <1>0, <2>1, GroupedIs
    <2> QED BY <2>1, <2>2 DEF Unsent
  <1>6. CASE Returned
    <2>1. Held \in Seq(Entry) /\ Held' = pending' /\ acked' = acked /\ run' = run
      BY <1>0, <1>6, GivesHeld DEF Returned, Held, Delivering
    <2>2. ToSet(pending') \subseteq ToSet(Held)
      BY <1>0, <1>6, <2>1, ReturnsHolds DEF Returned
    <2> QED BY <2>1, <2>2 DEF Unsent
  <1>7. CASE Finished
    <2>1. Held' = <<>>
      BY <1>7 DEF Finished, Held, Delivering
    <2> QED BY <1>e, <2>1 DEF Unsent
  <1>8. CASE Advanced
    <2>1. left # <<>> /\ Held = left /\ Held' = Rest /\ run' = run
      BY <1>8 DEF Advanced, Holding, Held, Delivering
    <2>2. ToSet(left) = ToSet(Batch) \cup ToSet(Rest) /\ ToSet(Batch) \cap ToSet(Rest) = {}
      BY <1>0, <2>1, BatchIs DEF Sorted
    <2>3. acked' \subseteq acked \cup ToSet(Batch)
      BY <1>8 DEF Advanced
    <2> QED BY <2>1, <2>2, <2>3 DEF Unsent
  <1>9. CASE Restarted
    <2>1. run \in Nat \ {0} /\ run' = run + 1
      BY <1>9, Parts DEF Restarted, Numbers
    <2>2. run' # 1
      BY <2>1
    <2> QED BY <2>2 DEF Unsent
  <1> QED
    BY <1>1, <1>2, <1>3, <1>4, <1>5, <1>6, <1>7, <1>8, <1>9 DEF Kinds

-------------------------------------------------------------------------------
(* The theorems.                                                           *)

Ind ==
    /\ TypeOK /\ Holding /\ Fresh /\ Room /\ Mirror /\ Books
    /\ Ranked /\ Sorted /\ Unsent

\* Ind holds at the start ...
LEMMA InitInd == GoAssumption /\ Init => Ind
  <1> SUFFICES ASSUME GoAssumption, Init PROVE Ind
    OBVIOUS
  <1>0. ToSet(<<>>) = {} /\ <<>> \in Seq(Entry) /\ <<>> \in Seq(Line) /\ Len(<<>>) = 0
    BY EmptySet
  <1>1. TypeOK
    <2>1. Numbers
      BY DEF Numbers, Init, GoAssumption
    <2>2. Stores
      <3>1. disk \in Files
        <4>1. cfg.disk \in BOOLEAN
          BY DEF Init, GoAssumption
        <4>2. disk.lines = <<>> /\ disk = [lines |-> <<>>, torn |-> FALSE, broken |-> ~cfg.disk]
          BY DEF Init
        <4> QED BY <1>0, <4>1, <4>2 DEF Files
      <3>2. count \in Counts
        BY DEF Init, Counts
      <3> QED BY <1>0, <3>1, <3>2 DEF Stores, Init
    <2>3. Places
      BY DEF Places, Init
    <2>4. Timers
      <3>1. Longer \in Nat
        BY DEF GoAssumption, Longer
      <3>2. Success \in Breakers
        BY DEF GoAssumption, Success, Breakers
      <3> QED BY <3>1, <3>2 DEF Timers, Init, GoAssumption
    <2> QED BY <2>1, <2>2, <2>3, <2>4, Parts
  <1>2. Holding /\ Fresh
    BY DEF Init, Holding, Fresh, Delivering
  <1>3. disk.lines = <<>> /\ disk.torn = FALSE /\ disk.broken = (~cfg.disk)
    BY DEF Init
  <1>4. Room
    <2>1. Len(channel) = 0 /\ Len(pending) = 0 /\ QueueSize \in Nat /\ MaxBytes \in Nat /\ run = 1
      BY <1>0 DEF Init, GoAssumption
    <2>2. MaxBytes <= Low(1) /\ Low(1) \in Nat /\ High(1) \in Nat
      BY CapIs
    <2>3. Fits(disk, run)
      <3>1. 0 <= Low(1) /\ 0 <= High(1)
        BY <2>2
      <3> QED BY <1>0, <1>3, <2>1, <3>1 DEF Fits
    <2> QED BY <1>0, <1>3, <2>1, <2>3 DEF Room, Buffers, FileRoom
  <1>5. Mirror
    <2>1. pending = <<>> /\ Len(pending) <= Len(disk.lines) - 0
      BY <1>0, <1>3 DEF Init
    <2> QED BY <1>0, <1>3, <2>1 DEF Mirror
  <1>6. Books
    <2>1. /\ recording = 0 /\ Len(channel) = 0 /\ Len(Held) = 0
          /\ count = [taken |-> 0, sent |-> 0, dropped |-> 0]
      BY <1>0 DEF Init, Held, Delivering
    <2> QED BY <2>1 DEF Books
  <1>7. Known = {} /\ ToSet(channel) = {} /\ acked = {}
    BY <1>0, <1>3 DEF Known, Init
  <1>8. Ranked
    BY <1>7 DEF Ranked, Init
  <1>9. Sorted
    BY <1>3, EmptyOrders DEF Sorted, Init
  <1>10. Unsent
    BY <1>7 DEF Unsent
  <1> QED BY <1>1, <1>2, <1>4, <1>5, <1>6, <1>8, <1>9, <1>10 DEF Ind

\* ... and is kept by every step.
LEMMA StepInd == GoAssumption /\ Ind /\ [Next]_vars => Ind'
  BY StepKind, TypeStep, HoldingStep, FreshStep, RoomStep, MirrorStep, BooksStep, RankedStep,
     SortedStep, UnsentStep DEF Ind

\* Ind holds in every state.
THEOREM Invariance == Spec => []Ind
  BY GoAssumption, InitInd, StepInd, PTL DEF Spec

\* The contract follows.
LEMMA IndGives == GoAssumption /\ Ind => Contract
  <1> SUFFICES ASSUME GoAssumption, Ind PROVE Contract
    OBVIOUS
  <1> USE DEF Ind
  <1>0. /\ Stores /\ Numbers /\ Held \in Seq(Entry) /\ Len(Held) \in Nat /\ Len(Held) <= Len(pending)
        /\ channel \in Seq(Entry) /\ pending \in Seq(Entry) /\ left \in Seq(Entry)
        /\ Len(pending) \in Nat /\ QueueSize \in Nat
    BY Parts, GivesHeld DEF Stores, GoAssumption
  <1>1. (Held = pending \/ Held = left) /\ ToSet(Held) \subseteq ToSet(pending)
    BY DEF Held, Holding
  <1>2. Bounded
    <2>1. Len(channel) <= QueueSize /\ Len(Held) <= QueueSize
      BY <1>0 DEF Room, Buffers
    <2>2. run \in Nat /\ run - 0 = run
      BY <1>0 DEF Numbers
    <2>3. cfg.disk => Len(disk.lines) <= MaxBytes + (run - (IF disk.broken THEN 0 ELSE 1)) * QueueSize
      BY <2>2 DEF Room, FileRoom, Fits, High, Low
    <2> QED BY <2>1, <2>3 DEF Bounded
  <1>3. InOrder
    <2>1. Ordered(Held) /\ Ordered(channel)
      BY <1>1, IncreasingOrders DEF Sorted
    <2>2. \A x \in ToSet(Held) \ {Bad}, y \in ToSet(channel) \ {Bad} : x < y
      BY <1>1 DEF Ranked, Known
    <2>3. PICK line \in Seq(Entry) : line = Held \o channel /\ Ordered(line)
      <3>1. Entry \subseteq Line
        BY DEF Line
      <3> QED BY <1>0, <2>1, <2>2, <3>1, JoinIs
    <2>4. \A i \in 1..Len(line) : line[i] # Bad
      <3>1. Bad \notin Entry
        BY OfEntries
      <3> QED BY <2>3, <3>1
    <2> QED BY <2>3, <2>4 DEF InOrder, Ordered
  <1>4. NoResend
    <2>1. ToSet(channel) \cap acked = {}
      <3>1. \A x \in acked, y \in ToSet(channel) : x < y
        BY DEF Ranked, Known
      <3>2. \A z \in Nat : ~(z < z)
        OBVIOUS
      <3> QED BY <3>1, <3>2, KnownAre DEF Known
    <2> QED BY <2>1 DEF NoResend, Unsent
  <1>5. Mirrored
    <2>1. SUFFICES ASSUME cfg.disk, ~disk.broken, Bad \notin ToSet(disk.lines)
                   PROVE  /\ ToSet(Held) \subseteq ToSet(disk.lines)
                          /\ run = 1 /\ at = "select" => ToSet(disk.lines) = ToSet(pending)
      BY DEF Mirrored
    <2>2. /\ ToSet(pending) \subseteq ToSet(disk.lines)
          /\ run = 1 => ToSet(disk.lines) = ToSet(pending)
      BY <2>1 DEF Mirror
    <2> QED BY <1>1, <2>2
  <1> QED BY <1>2, <1>3, <1>4, <1>5 DEF Contract

\* The types of the Go client hold for any sizes, groups, policies and runs.
THEOREM TypesHold == Spec => []TypeOK
  BY Invariance, PTL DEF Ind

\* firstrun.go, diskqueue.go: whatever callers, the server, the clock and the disk
\* do, every entry is on its way to the channel, in it, held or counted once; the
\* bounds hold; a group leaves in the order of recording; nothing a 2xx answered
\* goes out again in its run; and the file has what is not sent.
THEOREM ContractHolds == Spec => []Contract
  BY GoAssumption, Invariance, IndGives, PTL

\* retry.go: an open breaker lets a batch begin only once it has cooled, as the
\* one probe.
THEOREM FreshGatedHolds == Spec => FreshBatchGated
  <1>1. Ind /\ [Next]_vars => [at = "ready" /\ at' = "posting" /\ try = 0 /\ IsOpen(breaker)
                                  => breaker.cool = 0 /\ breaker.probing]_vars
    BY DEF Ind, Fresh
  <1> QED BY <1>1, Invariance, PTL DEF Spec, FreshBatchGated

\* Where an entry that still has to be sent may be.
Stored == ToSet(channel) \cup ToSet(Held) \cup (IF cfg.disk THEN ToSet(disk.lines) ELSE {})

\* The verdict on one entry.
Verdicts == \A e \in Entry :
    Status[e] = IF e \in acked THEN "sent"
                ELSE IF e = recording \/ e \in Stored THEN "pending"
                ELSE IF e < next THEN "lost" ELSE "new"

\* What is held is left of a delivery or the backlog.
HeldTyped == Held \in Seq(Entry) /\ channel \in Seq(Entry)

\* It is a sequence of entries, like the channel.
LEMMA HeldIs == TypeOK => HeldTyped
  <1> SUFFICES ASSUME TypeOK PROVE HeldTyped
    OBVIOUS
  <1>1. left \in Seq(Entry) /\ pending \in Seq(Entry) /\ channel \in Seq(Entry)
    BY Parts DEF Stores
  <1> QED BY <1>1 DEF Held, HeldTyped

\* Status gives these verdicts,
LEMMA Judged == GoAssumption /\ TypeOK => Verdicts
  <1> SUFFICES ASSUME GoAssumption, TypeOK PROVE Verdicts
    OBVIOUS
  <1>1. ToSet(channel \o Held) = ToSet(channel) \cup ToSet(Held)
    BY HeldIs, JoinEntries DEF HeldTyped
  <1> QED BY <1>1 DEF Status, Verdicts, Stored

\* before and after a step.
LEMMA JudgedNext == TypeOK' => Verdicts'
  BY Judged, GoAssumption, PTL

\* A step moves no entry back: what is carried or stored after it was so before,
\* and what it settles was held; only Log brings a new one.
Quiet ==
    /\ next' = next /\ acked \subseteq acked' /\ acked' \subseteq acked \cup Stored
    /\ \A e \in Entry : e = recording' \/ e \in Stored' => e = recording \/ e \in Stored
Brings ==
    /\ recording = 0 /\ recording' = next /\ next' = next + 1
    /\ Stored' = Stored /\ acked' = acked
Fates == Quiet \/ Brings

\* Every step is one or the other.
LEMMA FatesStep == Kinds /\ GoAssumption /\ TypeOK /\ Holding /\ Room => Fates
  <1> SUFFICES ASSUME Kinds, GoAssumption, TypeOK, Holding, Room PROVE Fates
    OBVIOUS
  <1>0. /\ Stores /\ channel \in Seq(Entry) /\ pending \in Seq(Entry) /\ left \in Seq(Entry)
        /\ Held \in Seq(Entry)
    BY Parts, GivesHeld DEF Stores
  <1>e. /\ ToSet(<<>>) = {} /\ <<>> \in Seq(Entry)
        /\ \A e \in Entry : e # Bad /\ e # 0
    <2>1. \A e \in Entry : e # Bad /\ e # 0
      BY OfEntries DEF Bad
    <2> QED BY <2>1, EmptySet
  <1>1. CASE Still
    <2>1. Held' = Held
      BY <1>1 DEF Still, Held, Delivering
    <2> QED BY <1>1, <2>1 DEF Still, Fates, Quiet, Stored
  <1>2. CASE Started
    <2>1. Held' = Held
      BY <1>2 DEF Started, Held, Delivering
    <2> QED BY <1>2, <2>1 DEF Started, Fates, Brings, Stored
  <1>3. CASE Queued
    <2>1. Held' = Held /\ recording # 0 /\ recording' = 0
      BY <1>3 DEF Queued, Held, Delivering
    <2>3. ToSet(channel') \subseteq ToSet(channel) \cup {recording}
      BY <1>3, QueuedHolds
    <2>4. UNCHANGED <<next, acked, cfg, disk>>
      BY <1>3 DEF Queued
    <2> QED BY <1>e, <2>1, <2>3, <2>4 DEF Fates, Quiet, Stored
  <1>4. CASE Took
    <2>1. /\ UNCHANGED <<cfg, next, recording, acked>> /\ Admits /\ channel' = <<>>
          /\ Held = pending /\ Held' = pending'
      BY <1>4 DEF Took, Admits, Held, Delivering
    <2>2. /\ ToSet(pending') \subseteq ToSet(pending) \cup ToSet(channel)
          /\ ToSet(disk'.lines) \subseteq ToSet(disk.lines) \cup ToSet(pending)
                                             \cup ToSet(channel) \cup {Bad}
      BY <1>0, <2>1, AdmitsHolds
    <2>3. \A e \in Entry : e \in Stored' => e \in Stored
      BY <1>e, <2>1, <2>2 DEF Stored
    <2> QED BY <2>1, <2>3 DEF Fates, Quiet
  <1>5. CASE Regrouped
    <2>1. Held = pending /\ Held' = Grouped(pending) /\ UNCHANGED <<cfg, next, recording, channel, disk, acked>>
      BY <1>5 DEF Regrouped, Held, Delivering
    <2>2. ToSet(Held') = ToSet(Held)
      BY <1>0, <2>1, GroupedIs
    <2> QED BY <2>1, <2>2 DEF Fates, Quiet, Stored
  <1>6. CASE Returned
    <2>1. Held' = pending' /\ UNCHANGED <<cfg, next, recording, channel, acked>>
      BY <1>6 DEF Returned, Held, Delivering
    <2>2. /\ ToSet(pending') \subseteq ToSet(Held)
          /\ ToSet(disk'.lines) \subseteq ToSet(disk.lines) \cup ToSet(Held)
      BY <1>0, <1>6, ReturnsHolds DEF Returned
    <2> QED BY <2>1, <2>2 DEF Fates, Quiet, Stored
  <1>7. CASE Finished
    <2>1. Held = left /\ Held' = <<>> /\ UNCHANGED <<cfg, next, recording, channel>>
      BY <1>7 DEF Finished, Held, Delivering
    <2>2. ToSet(disk'.lines) \subseteq ToSet(disk.lines)
      BY <1>0, <1>e, <1>7, ReturnsHolds DEF Finished
    <2>3. acked \subseteq acked' /\ acked' \subseteq acked \cup ToSet(left)
      BY <1>7 DEF Finished
    <2> QED BY <1>e, <2>1, <2>2, <2>3 DEF Fates, Quiet, Stored
  <1>8. CASE Advanced
    <2>1. /\ left # <<>> /\ Held = left /\ Held' = Rest
          /\ UNCHANGED <<cfg, next, recording, channel, disk>>
      BY <1>8 DEF Advanced, Holding, Held, Delivering
    <2>2. ToSet(left) = ToSet(Batch) \cup ToSet(Rest)
      BY <1>0, <2>1, BatchIs
    <2>3. acked \subseteq acked' /\ acked' \subseteq acked \cup ToSet(Batch)
      BY <1>8 DEF Advanced
    <2> QED BY <2>1, <2>2, <2>3 DEF Fates, Quiet, Stored
  <1>9. CASE Restarted
    <2>1. /\ channel' = <<>> /\ recording' = 0 /\ Held' = pending' /\ cfg.disk
          /\ UNCHANGED <<cfg, next, acked>> /\ disk'.lines = disk.lines
          /\ ToSet(pending') \subseteq ToSet(disk.lines) \ {Bad}
      BY <1>9 DEF Restarted, Held, Delivering
    <2> QED BY <1>e, <2>1 DEF Fates, Quiet, Stored
  <1> QED
    BY <1>1, <1>2, <1>3, <1>4, <1>5, <1>6, <1>7, <1>8, <1>9 DEF Kinds

\* A step of the client is one of Delivery, or none.
LEMMA StepDelivers == GoAssumption /\ Ind /\ Ind' /\ [Next]_vars => [D!Step]_Status
  <1> SUFFICES ASSUME GoAssumption, Ind, Ind', [Next]_vars PROVE D!Step
    OBVIOUS
  <1>0. TypeOK /\ TypeOK' /\ Ranked /\ Holding /\ Room
    BY DEF Ind
  <1>1. Fates
    BY <1>0, StepKind, FatesStep
  <1>2. recording \in Nat /\ next \in Nat
    BY <1>0, KnownAre
  <1>3. ASSUME NEW e \in Entry PROVE /\ Status'[e] \in D!Statuses
                                     /\ Status'[e] # Status[e] => <<Status[e], Status'[e]>> \in D!Moves
    <2> DEFINE P == e = recording \/ e \in Stored
    <2>0. e \in Nat /\ e # Bad /\ e # 0
      BY OfEntries DEF Bad
    <2>1. Status[e] = IF e \in acked THEN "sent" ELSE IF P THEN "pending"
                      ELSE IF e < next THEN "lost" ELSE "new"
      BY <1>0, Judged DEF Verdicts
    <2>2. Status'[e] = IF e \in acked' THEN "sent" ELSE IF P' THEN "pending"
                       ELSE IF e < next' THEN "lost" ELSE "new"
      BY <1>0, JudgedNext DEF Verdicts
    <2>3. e \in Stored \cup acked => e < next
      <3>1. e \in Stored \cup acked => e \in Known \cup ToSet(channel)
        BY <1>0, <2>0 DEF Stored, Known, Held, Holding
      <3> QED BY <1>0, <3>1 DEF Ranked
    <2>4. P \/ e \in acked => e < next
      BY <1>0, <2>3 DEF Ranked
    <2>5. CASE Quiet
      <3>1. /\ e \in acked => e \in acked'
            /\ e \in acked' => e \in acked \/ P
            /\ P' => P
            /\ next' = next
        BY <2>5 DEF Quiet
      <3> HIDE DEF P
      <3>2. CASE e \in acked
        BY <2>1, <2>2, <3>1, <3>2 DEF D!Statuses
      <3>3. CASE e \notin acked /\ P
        <4>1. Status[e] = "pending" /\ Status'[e] \in {"sent", "pending", "lost"}
          BY <2>1, <2>2, <2>4, <3>1, <3>3
        <4> QED BY <4>1 DEF D!Statuses, D!Moves
      <3>4. CASE e \notin acked /\ ~P
        <4>1. Status'[e] = Status[e] /\ Status[e] \in {"lost", "new"}
          BY <2>1, <2>2, <3>1, <3>4
        <4> QED BY <4>1 DEF D!Statuses
      <3> QED BY <3>2, <3>3, <3>4
    <2>6. CASE Brings
      <3>1. /\ recording = 0 /\ recording' = next /\ next' = next + 1
            /\ Stored' = Stored /\ acked' = acked
        BY <2>6 DEF Brings
      <3>2. CASE e = next
        <4>1. ~(e < next)
          BY <1>2, <3>2
        <4>2. ~P /\ e \notin acked /\ P' /\ e \notin acked'
          BY <2>4, <3>1, <3>2, <4>1
        <4>3. Status[e] = "new" /\ Status'[e] = "pending"
          BY <2>1, <2>2, <4>1, <4>2
        <4> QED BY <4>3 DEF D!Statuses, D!Moves
      <3>3. CASE e # next
        <4>1. (P' <=> P) /\ (e < next' <=> e < next) /\ (e \in acked' <=> e \in acked)
          BY <1>2, <2>0, <3>1, <3>3
        <4>2. Status'[e] = Status[e] /\ Status[e] \in {"sent", "pending", "lost", "new"}
          BY <2>1, <2>2, <4>1
        <4> QED BY <4>2 DEF D!Statuses
      <3> QED BY <3>2, <3>3
    <2> QED BY <1>1, <2>5, <2>6 DEF Fates
  <1>4. Status' = [e \in Entry |-> Status'[e]]
    BY DEF Status
  <1> QED BY <1>3, <1>4 DEF D!Step, Status

\* At the start no entry has been seen.
LEMMA StartsNew == GoAssumption /\ Init => D!Init
  <1> SUFFICES ASSUME GoAssumption, Init PROVE D!Init
    OBVIOUS
  <1>1. TypeOK /\ next = 1 /\ recording = 0 /\ acked = {}
    BY InitInd DEF Ind, Init
  <1>2. Stored = {}
    <2>1. channel = <<>> /\ Held = <<>> /\ disk.lines = <<>>
      BY DEF Init, Held, Delivering
    <2> QED BY <2>1, EmptySet DEF Stored
  <1>3. ASSUME NEW e \in Entry PROVE Status[e] = "new"
    <2>1. e \in Nat /\ e # 0 /\ ~(e < 1)
      <3>1. e \in Nat /\ e # 0
        BY OfEntries DEF Bad
      <3> QED BY <3>1
    <2> QED BY <1>1, <1>2, <2>1, Judged DEF Verdicts
  <1>4. Status = [e \in Entry |-> Status[e]]
    BY DEF Status
  <1> QED BY <1>3, <1>4 DEF D!Init

\* Through kills, restarts, refused and torn writes, an entry is sent, or lost
\* once and for good.
THEOREM DeliveryImplemented == Spec => ImplementsDelivery
  BY GoAssumption, Invariance, StartsNew, StepDelivers, PTL DEF Spec, ImplementsDelivery, D!Spec
===============================================================================
