--------------------------- MODULE TauriWorkerProofs ---------------------------
(***************************************************************************)
(* That the breaker of the desktop client lets one request through per     *)
(* cooldown; that its queue keeps its books, resends what was settled only  *)
(* after a kill, and stays within its limits; that a flush is told the truth;    *)
(* and that the client implements Delivery.  For any threshold, limits and *)
(* batch size, any number of entries, flushes and runs, and whatever       *)
(* becomes of the process and, where a property does not ask for a disk    *)
(* that works, of the file.                                                *)
(***************************************************************************)
EXTENDS TauriDelivery, FiniteSetTheorems, WellFoundedInduction, SequenceTheorems, TLAPS

(* The breaker. *)

\* drain() clears circuit_open before it sends, so while a request is out the
\* flag says nothing.  What does is the count of failures: at the threshold,
\* either the flag is up or the cooldown is over.
BreakerInv ==
    /\ failures \in 0..Threshold
    /\ failures = Threshold => open \/ ~cooling
    /\ at \in {"sending", "settling"} => ~open

-------------------------------------------------------------------------------
LEMMA StartsClosed == Init => BreakerInv
BY WorkerAssumption DEF Init, Start, BreakerInv

\* Steps of the host, of the queue and of the clocks leave the breaker alone, or
\* end its cooldown.
LEMMA OthersKeep ==
    ASSUME BreakerInv, UNCHANGED <<failures, open, at>>, cooling' = cooling \/ ~cooling'
    PROVE  BreakerInv'
BY DEF BreakerInv

\* Leaving the await for the request, or for the channel, lets nothing else out.
LEMMA MovesKeep ==
    ASSUME BreakerInv, UNCHANGED <<failures, open, cooling>>,
           at' \in {"sending", "settling"} => at = "sending"
    PROVE  BreakerInv'
BY DEF BreakerInv

\* drain() past the breaker: the flag is down and the cooldown of a breaker at
\* its threshold is over.
LEMMA DialKeeps ==
    ASSUME BreakerInv, Dialling, UNCHANGED <<failures, cooling>>
    PROVE  BreakerInv'
BY DEF BreakerInv, Dialling, MayDial

LEMMA SucceedsKeeps ==
    ASSUME BreakerInv, Succeeds
    PROVE  BreakerInv'
<1>1. 0 \in 0..Threshold /\ 0 # Threshold
  BY WorkerAssumption
<1>2. failures' = 0 /\ at' = "drain"
  BY DEF Succeeds
<1> QED
  BY <1>1, <1>2 DEF BreakerInv

\* on_failure() raises the flag as soon as the count is at the threshold.
LEMMA TransientKeeps ==
    ASSUME BreakerInv, RespondTransient
    PROVE  BreakerInv'
<1>1. Failed(failures) \in 0..Threshold
  BY WorkerAssumption DEF BreakerInv, Failed
<1>2. failures' = Failed(failures) /\ at' \notin {"sending", "settling"} /\ (failures' >= Threshold => open')
  BY DEF RespondTransient, Return
<1> QED
  BY <1>1, <1>2, WorkerAssumption DEF BreakerInv

LEMMA RestartKeeps ==
    ASSUME Restart
    PROVE  BreakerInv'
<1>1. 0 \in 0..Threshold /\ 0 # Threshold
  BY WorkerAssumption
<1>2. failures' = 0 /\ at' = "drain"
  BY DEF Restart
<1> QED
  BY <1>1, <1>2 DEF BreakerInv

-------------------------------------------------------------------------------
LEMMA DrainKeeps ==
    ASSUME BreakerInv, Drain
    PROVE  BreakerInv'
<1>1. CASE DrainEmpty \/ DrainHeld
  BY <1>1, MovesKeep DEF DrainEmpty, DrainHeld, Return, Unchanged
<1>2. CASE DrainGivesUp \/ DrainSleeps \/ DrainUnread \/ DrainSends
  BY <1>2, DialKeeps DEF DrainGivesUp, DrainSleeps, DrainUnread, DrainSends, Unchanged
<1> QED
  BY <1>1, <1>2 DEF Drain

LEMMA ReceiveKeeps ==
    ASSUME BreakerInv, Receive \/ Fire \/ Schedule
    PROVE  BreakerInv'
<1>1. CASE EnqueueOk \/ EnqueueTrims \/ EnqueueFails
  BY <1>1, OthersKeep
     DEF EnqueueOk, EnqueueTrims, EnqueueFails, Enqueue, drainVars, clock, breakerVars
<1>2. CASE TakeFlush \/ TakeShutdown \/ Fire \/ Schedule
  BY <1>2, MovesKeep
     DEF TakeFlush, TakeShutdown, Fire, Schedule, Begin, clock, breakerVars
<1> QED
  BY <1>1, <1>2 DEF Receive

LEMMA HostKeeps ==
    ASSUME BreakerInv,
           Log \/ Flush \/ Drop \/ BackoffElapses \/ CooldownElapses \/ DeadlinePasses
    PROVE  BreakerInv'
BY OthersKeep
   DEF Log, Flush, Drop, Sends, BackoffElapses, CooldownElapses, DeadlinePasses,
       drainVars, clock, breakerVars

LEMMA StepKeepsBreaker == BreakerInv /\ [Next]_vars => BreakerInv'
<1> SUFFICES ASSUME BreakerInv, [Next]_vars PROVE BreakerInv'
  OBVIOUS
<1>1. CASE Log \/ Flush \/ Drop \/ BackoffElapses \/ CooldownElapses \/ DeadlinePasses
  BY <1>1, HostKeeps
<1>2. CASE Receive \/ Fire \/ Schedule
  BY <1>2, ReceiveKeeps
<1>3. CASE Drain
  BY <1>3, DrainKeeps
<1>4. CASE Answered
  BY <1>4, MovesKeep DEF Answered, clock, breakerVars
<1>8. CASE Settle \/ SettleFails
  BY <1>8, SucceedsKeeps DEF Settle, SettleFails
<1>5. CASE RespondTransient
  BY <1>5, TransientKeeps
<1>6. CASE Killed \/ KilledWriting
  BY <1>6, RestartKeeps DEF Killed, KilledWriting
<1>7. CASE UNCHANGED vars
  BY <1>7, OthersKeep DEF vars, drainVars, clock, breakerVars
<1> QED
  BY <1>1, <1>2, <1>3, <1>4, <1>5, <1>6, <1>7, <1>8 DEF Next, Receive, Drain

\* Nothing is dialled while the breaker cools down, and each cooldown buys one
\* request (OneProbe), however flushes and retries fall.
THEOREM OneProbeHolds == Spec => []OneProbe
<1>1. BreakerInv => OneProbe
  BY DEF BreakerInv, OneProbe
<1> QED
  BY StartsClosed, StepKeepsBreaker, <1>1, PTL DEF Spec

-------------------------------------------------------------------------------
(* What read_lines keeps.  The recursion is over the lines read so far, so *)
(* a claim about it that fails has a first line it fails for.              *)

\* A nonempty set of natural numbers has a least one: of the intervals up to its
\* members, one contains no other.
LEMMA First ==
    ASSUME NEW C \in SUBSET Nat, C # {}
    PROVE  \E n \in C : \A m \in C : n <= m
<1>1. PICK c \in C : TRUE
  OBVIOUS
<1> DEFINE I == {0..m : m \in {k \in C : k <= c}}
<1>2. I \in SUBSET FiniteSubsetsOf(0..c)
  <2>1. IsFiniteSet(0..c)
    BY FS_Interval
  <2>2. FiniteSubsetsOf(0..c) = SUBSET (0..c)
    BY <2>1, FS_FiniteSubsetsOfFinite
  <2>3. \A m \in C : m <= c => 0..m \in SUBSET (0..c)
    OBVIOUS
  <2> QED
    BY <2>2, <2>3
<1>3. 0..c \in I
  OBVIOUS
<1>4. PICK T \in I : \A U \in I : <<U, T>> \notin StrictSubsetOrdering(0..c)
  <2> HIDE DEF I
  <2> QED
    BY <1>2, <1>3, FS_StrictSubsetOrderingWellFounded, WFMin
<1>5. PICK n \in C : n <= c /\ T = 0..n
  BY <1>4
<1>6. ASSUME NEW m \in C, ~ n <= m
      PROVE  FALSE
  <2>1. m <= c /\ 0..m \in I
    BY <1>5, <1>6
  <2>2. 0..m \subseteq 0..n /\ n \in 0..n /\ n \notin 0..m
    BY <1>6
  <2>3. 0..m \in SUBSET (0..c) /\ 0..n \in SUBSET (0..c)
    BY <1>5, <2>1
  <2> QED
    BY <1>4, <1>5, <2>1, <2>2, <2>3 DEF StrictSubsetOrdering
<1> QED
  BY <1>6

\* g holds what is kept of the first n lines, for each n up to N.
Keeps(g, lines, N) ==
    g = [n \in 0..N |->
          IF n = 0 THEN <<>>
          ELSE IF lines[n].entry = Corrupt THEN g[n - 1]
          ELSE Append(g[n - 1], lines[n])]

LEMMA KeepsAgree ==
    ASSUME NEW g, NEW h, NEW s, NEW t, NEW M \in Nat, NEW N \in Nat, NEW K \in Nat,
           Keeps(g, s, M), Keeps(h, t, N), K <= M, K <= N, \A i \in 1..K : s[i] = t[i]
    PROVE  \A n \in 0..K : g[n] = h[n]
<1> DEFINE C == {n \in 0..K : g[n] # h[n]}
<1> SUFFICES ASSUME C # {} PROVE FALSE
  OBVIOUS
<1>1. PICK n \in C : \A m \in C : n <= m
  <2>1. C \in SUBSET Nat
    OBVIOUS
  <2> HIDE DEF C
  <2> QED
    BY <2>1, First
<1>2. n # 0
  BY DEF Keeps
<1>3. n - 1 \in 0..K /\ n - 1 \notin C
  BY <1>1, <1>2
<1>4. g[n - 1] = h[n - 1] /\ s[n] = t[n] /\ n \in 0..M /\ n \in 0..N
  BY <1>2, <1>3
<1>5. g[n] = IF s[n].entry = Corrupt THEN g[n - 1] ELSE Append(g[n - 1], s[n])
  BY <1>2, <1>4 DEF Keeps
<1>6. h[n] = IF t[n].entry = Corrupt THEN h[n - 1] ELSE Append(h[n - 1], t[n])
  BY <1>2, <1>4 DEF Keeps
<1> QED
  BY <1>4, <1>5, <1>6

LEMMA KeepsExist ==
    ASSUME NEW s
    PROVE  \A N \in Nat : \E g : Keeps(g, s, N)
<1> DEFINE C == {N \in Nat : ~ \E g : Keeps(g, s, N)}
<1> SUFFICES ASSUME C # {} PROVE FALSE
  OBVIOUS
<1>1. PICK N \in C : \A m \in C : N <= m
  <2>1. C \in SUBSET Nat
    OBVIOUS
  <2> HIDE DEF C
  <2> QED
    BY <2>1, First
<1>2. N # 0
  <2> DEFINE g == [n \in 0..0 |-> <<>>]
  <2>1. Keeps(g, s, 0)
    BY DEF Keeps
  <2> QED
    BY <2>1
<1>3. PICK g : Keeps(g, s, N - 1)
  BY <1>1, <1>2
<1> DEFINE value(n, f) == IF n = 0 THEN <<>>
                          ELSE IF s[n].entry = Corrupt THEN f[n - 1]
                          ELSE Append(f[n - 1], s[n])
           h == [n \in 0..N |-> value(n, g)]
<1>4. ASSUME NEW n \in 0..N
      PROVE  h[n] = value(n, h)
  <2>1. CASE n = 0
    BY <2>1
  <2>2. CASE n # 0
    <3>1. n - 1 \in 0..(N - 1) /\ n - 1 \in 0..N
      BY <2>2
    <3>2. g[n - 1] = value(n - 1, g)
      BY <1>3, <3>1 DEF Keeps
    <3>3. h[n - 1] = g[n - 1]
      BY <3>1, <3>2
    <3> QED
      BY <2>2, <3>3
  <2> QED
    BY <2>1, <2>2
<1>5. Keeps(h, s, N)
  <2> DEFINE again == [n \in 0..N |-> value(n, h)]
  <2>1. h = again
    <3> HIDE DEF value
    <3> QED
      BY <1>4
  <2> QED
    BY <2>1 DEF Keeps
<1> QED
  BY <1>1, <1>5

LEMMA ParsedKeeps ==
    ASSUME NEW s, Len(s) \in Nat
    PROVE  \E g : Keeps(g, s, Len(s)) /\ Parsed(s) = g[Len(s)]
<1> DEFINE g == CHOOSE f : Keeps(f, s, Len(s))
<1>1. Keeps(g, s, Len(s))
  BY KeepsExist
<1>2. Parsed(s) = g[Len(s)]
  BY DEF Parsed, Keeps
<1> QED
  BY <1>1, <1>2

Kept == {l \in Line : l.entry # Corrupt}

\* What is parsed is the lines that hold an entry, and nothing else.
LEMMA ParsedOf ==
    ASSUME NEW s \in Seq(Line)
    PROVE  /\ Parsed(s) \in Seq(Kept)
           /\ Len(Parsed(s)) <= Len(s)
           /\ ToSet(Parsed(s)) = ToSet(s) \cap Kept
<1> DEFINE upTo(n) == {s[i] : i \in 1..n} \cap Kept
           Claim(n, p) == p \in Seq(Kept) /\ Len(p) <= n /\ ToSet(p) = upTo(n)
<1>1. PICK g : Keeps(g, s, Len(s)) /\ Parsed(s) = g[Len(s)]
  BY ParsedKeeps
<1> DEFINE C == {n \in 0..Len(s) : ~ Claim(n, g[n])}
<1>2. C = {}
  <2> SUFFICES ASSUME C # {} PROVE FALSE
    OBVIOUS
  <2>1. PICK n \in C : \A m \in C : n <= m
    <3>1. C \in SUBSET Nat
      OBVIOUS
    <3> HIDE DEF C
    <3> QED
      BY <3>1, First
  <2>2. CASE n = 0
    <3>1. g[0] = <<>>
      BY <1>1 DEF Keeps
    <3>2. ToSet(<<>>) = {} /\ upTo(0) = {}
      <4>1. DOMAIN <<>> = {} /\ 1..0 = {}
        OBVIOUS
      <4> QED
        BY <4>1 DEF ToSet
    <3>3. <<>> \in Seq(Kept) /\ Len(<<>>) = 0
      OBVIOUS
    <3> QED
      BY <2>1, <2>2, <3>1, <3>2, <3>3
  <2>3. CASE n # 0
    <3>1. n \in 1..Len(s) /\ n - 1 \in 0..Len(s) /\ s[n] \in Line
      BY <2>1, <2>3
    <3>2. Claim(n - 1, g[n - 1])
      <4> HIDE DEF Claim
      <4> QED
        BY <2>1, <3>1
    <3>3. g[n] = IF s[n].entry = Corrupt THEN g[n - 1] ELSE Append(g[n - 1], s[n])
      BY <1>1, <2>3, <3>1 DEF Keeps
    <3>4. upTo(n) = upTo(n - 1) \cup ({s[n]} \cap Kept)
      BY <3>1
    <3> DEFINE p == g[n - 1]
               l == s[n]
    <3>5. CASE l.entry = Corrupt
      BY <2>1, <3>1, <3>2, <3>3, <3>4, <3>5 DEF Kept
    <3>6. CASE l.entry # Corrupt
      <4>1. l \in Kept /\ g[n] = Append(p, l) /\ upTo(n) = upTo(n - 1) \cup {l}
        BY <3>1, <3>3, <3>4, <3>6 DEF Kept
      <4>2. p \in Seq(Kept) /\ Len(p) <= n - 1 /\ ToSet(p) = upTo(n - 1)
        BY <3>2
      <4> HIDE DEF upTo, p, l
      <4>3. Append(p, l) \in Seq(Kept) /\ Len(Append(p, l)) = Len(p) + 1
        BY <4>1, <4>2
      <4>4. ToSet(Append(p, l)) = ToSet(p) \cup {l}
        <5> DEFINE q == Append(p, l)
        <5>1. /\ DOMAIN p = 1..Len(p) /\ DOMAIN q = 1..(Len(p) + 1) /\ Len(p) \in Nat
              /\ \A i \in 1..Len(p) : q[i] = p[i]
              /\ q[Len(p) + 1] = l
          BY <4>1, <4>2
        <5> HIDE DEF q
        <5>2. ToSet(q) \subseteq ToSet(p) \cup {l}
          BY <5>1 DEF ToSet
        <5>3. ToSet(p) \cup {l} \subseteq ToSet(q)
          BY <5>1 DEF ToSet
        <5> QED
          BY <5>2, <5>3 DEF q
      <4>5. Claim(n, g[n])
        BY <3>1, <4>1, <4>2, <4>3, <4>4
      <4> QED
        BY <2>1, <4>5
    <3> QED
      BY <3>5, <3>6
  <2> QED
    BY <2>2, <2>3
<1>3. Claim(Len(s), Parsed(s))
  BY <1>1, <1>2
<1>4. upTo(Len(s)) = ToSet(s) \cap Kept
  BY DEF ToSet
<1> QED
  BY <1>3, <1>4

\* Where every line holds an entry, that is all of them, in their order.
LEMMA ParsedAll ==
    ASSUME NEW s \in Seq(Kept)
    PROVE  Parsed(s) = s
<1>1. PICK g : Keeps(g, s, Len(s)) /\ Parsed(s) = g[Len(s)]
  BY ParsedKeeps
<1> DEFINE C == {n \in 0..Len(s) : g[n] # SubSeq(s, 1, n)}
<1>2. C = {}
  <2> SUFFICES ASSUME C # {} PROVE FALSE
    OBVIOUS
  <2>1. PICK n \in C : \A m \in C : n <= m
    <3>1. C \in SUBSET Nat
      OBVIOUS
    <3> HIDE DEF C
    <3> QED
      BY <3>1, First
  <2>2. CASE n = 0
    <3>1. g[0] = <<>>
      BY <1>1 DEF Keeps
    <3>2. SubSeq(s, 1, 0) = <<>>
      OBVIOUS
    <3> QED
      BY <2>1, <2>2, <3>1, <3>2
  <2>3. CASE n # 0
    <3>1. n \in 1..Len(s) /\ n - 1 \in 0..Len(s) /\ s[n] \in Kept
      BY <2>1, <2>3
    <3>2. g[n - 1] = SubSeq(s, 1, n - 1)
      BY <2>1, <3>1
    <3>3. g[n] = Append(g[n - 1], s[n])
      BY <1>1, <2>3, <3>1 DEF Keeps, Kept
    <3>4. Append(SubSeq(s, 1, n - 1), s[n]) = SubSeq(s, 1, n)
      <4> DEFINE a == Append(SubSeq(s, 1, n - 1), s[n])
                 b == SubSeq(s, 1, n)
      <4>1. /\ SubSeq(s, 1, n - 1) \in Seq(Kept) /\ Len(SubSeq(s, 1, n - 1)) = n - 1
            /\ \A i \in 1..(n - 1) : SubSeq(s, 1, n - 1)[i] = s[i]
        BY <3>1
      <4>2. b \in Seq(Kept) /\ Len(b) = n /\ \A i \in 1..n : b[i] = s[i]
        BY <3>1
      <4>3. a \in Seq(Kept) /\ Len(a) = n /\ \A i \in 1..n : a[i] = s[i]
        BY <3>1, <4>1
      <4> HIDE DEF a, b
      <4> QED
        BY <3>1, <4>2, <4>3, SeqEqual
    <3> QED
      BY <2>1, <3>2, <3>3, <3>4
  <2> QED
    BY <2>2, <2>3
<1>3. Parsed(s) = SubSeq(s, 1, Len(s))
  BY <1>1, <1>2
<1> QED
  BY <1>3

-------------------------------------------------------------------------------
(* The channel. *)

Queued(ch) == {i \in DOMAIN ch : ch[i] = "entry"}

LEMMA QueuedFinite ==
    ASSUME NEW M, NEW ch \in Seq(M)
    PROVE  IsFiniteSet(Queued(ch)) /\ Cardinality(Queued(ch)) \in Nat
<1>1. IsFiniteSet(1..Len(ch)) /\ Queued(ch) \in SUBSET (1..Len(ch))
  BY FS_Interval DEF Queued
<1> QED
  BY <1>1, FS_Subset, FS_CardinalityType

LEMMA ChannelGrows ==
    ASSUME NEW M, NEW ch \in Seq(M), NEW m \in M
    PROVE  /\ Append(ch, m) \in Seq(M)
           /\ Cardinality(Queued(Append(ch, m))) =
                 Cardinality(Queued(ch)) + (IF m = "entry" THEN 1 ELSE 0)
<1> DEFINE grown == Append(ch, m)
<1>1. /\ grown \in Seq(M) /\ Len(grown) = Len(ch) + 1 /\ grown[Len(ch) + 1] = m
      /\ \A i \in 1..Len(ch) : grown[i] = ch[i]
  OBVIOUS
<1>2. DOMAIN grown = 1..(Len(ch) + 1) /\ DOMAIN ch = 1..Len(ch) /\ Len(ch) \in Nat
  OBVIOUS
<1> HIDE DEF grown
<1>3. Queued(grown) = Queued(ch) \cup (IF m = "entry" THEN {Len(ch) + 1} ELSE {})
  BY <1>1, <1>2 DEF Queued
<1>4. Len(ch) + 1 \notin Queued(ch)
  BY <1>2 DEF Queued
<1>5. IsFiniteSet(Queued(ch)) /\ Cardinality(Queued(ch)) \in Nat
  BY QueuedFinite
<1>6. CASE m = "entry"
  <2>1. Cardinality(Queued(ch) \cup {Len(ch) + 1}) = Cardinality(Queued(ch)) + 1
    BY <1>4, <1>5, FS_AddElement
  <2> QED
    BY <1>1, <1>3, <1>6, <2>1 DEF grown
<1>7. CASE m # "entry"
  BY <1>1, <1>3, <1>5, <1>7 DEF grown
<1> QED
  BY <1>6, <1>7

LEMMA ChannelShrinks ==
    ASSUME NEW M, NEW ch \in Seq(M), ch # <<>>
    PROVE  /\ Tail(ch) \in Seq(M)
           /\ Cardinality(Queued(Tail(ch))) =
                 Cardinality(Queued(ch)) - (IF Head(ch) = "entry" THEN 1 ELSE 0)
<1> DEFINE rest == Tail(ch)
           Moved == [i \in Queued(rest) |-> i + 1]
<1>1. /\ rest \in Seq(M) /\ Len(rest) = Len(ch) - 1 /\ Head(ch) = ch[1]
      /\ \A i \in 1..(Len(ch) - 1) : rest[i] = ch[i + 1]
  OBVIOUS
<1>2. DOMAIN rest = 1..(Len(ch) - 1) /\ DOMAIN ch = 1..Len(ch) /\ Len(ch) \in Nat /\ Len(ch) > 0
  OBVIOUS
<1>3. IsFiniteSet(Queued(ch)) /\ Cardinality(Queued(ch)) \in Nat /\ IsFiniteSet(Queued(rest))
  BY <1>1, QueuedFinite
<1> HIDE DEF rest
<1>4. Moved \in Bijection(Queued(rest), Queued(ch) \ {1})
  <2>1. Moved \in [Queued(rest) -> Queued(ch) \ {1}]
    BY <1>1, <1>2 DEF Queued
  <2>2. \A i, j \in Queued(rest) : Moved[i] = Moved[j] => i = j
    BY <1>2 DEF Queued
  <2>3. \A j \in Queued(ch) \ {1} : \E i \in Queued(rest) : Moved[i] = j
    <3> TAKE j \in Queued(ch) \ {1}
    <3>1. j - 1 \in Queued(rest) /\ (j - 1) + 1 = j
      BY <1>1, <1>2 DEF Queued
    <3> QED
      BY <3>1
  <2> QED
    BY <2>1, <2>2, <2>3 DEF Bijection, Injection, Surjection, IsInjective
<1>5. Cardinality(Queued(ch) \ {1}) = Cardinality(Queued(rest))
  BY <1>3, <1>4, FS_Bijection DEF ExistsBijection
<1>6. 1 \in Queued(ch) <=> Head(ch) = "entry"
  BY <1>1, <1>2 DEF Queued
<1>7. Cardinality(Queued(ch) \ {1}) =
        IF Head(ch) = "entry" THEN Cardinality(Queued(ch)) - 1 ELSE Cardinality(Queued(ch))
  BY <1>3, <1>6, FS_RemoveElement
<1> QED
  BY <1>1, <1>3, <1>5, <1>7 DEF rest

(* The queue. *)

\* Only the last line can lack its newline.
Lines(s) == s \in Seq(Line) /\ \A i \in 1..(Len(s) - 1) : s[i].ended

\* The entries in a queue's lines, and in those that a call joins or keeps.
Held(s) == {l.entry : l \in ToSet(s) \cap Kept}

\* What a disk that never failed leaves: every line whole, in the order recorded.
Clean(s) ==
    /\ \A i \in DOMAIN s : s[i] = Whole(s[i].entry) /\ s[i].entry # Corrupt
    /\ \A i, j \in DOMAIN s : i < j => s[i].entry < s[j].entry

\* The entries of s that are in A are its first, a batch of them at most.
Fronted(s, A) ==
    \E n \in 0..MaxBatch :
        /\ n <= Len(s)
        /\ \A i \in DOMAIN s : s[i].entry \in A <=> i <= n

LEMMA FrontedGrows ==
    ASSUME NEW s \in Seq(Line), NEW t \in Seq(Line), NEW A, Fronted(s, A),
           Len(t) = Len(s) + 1, \A i \in 1..Len(s) : t[i] = s[i], t[Len(s) + 1].entry \notin A
    PROVE  Fronted(t, A)
<1>1. PICK n \in 0..MaxBatch : n <= Len(s) /\ \A i \in DOMAIN s : s[i].entry \in A <=> i <= n
  BY DEF Fronted
<1>2. DOMAIN s = 1..Len(s) /\ DOMAIN t = 1..(Len(s) + 1) /\ Len(s) \in Nat /\ n \in Nat
  BY WorkerAssumption
<1>3. ASSUME NEW i \in DOMAIN t PROVE t[i].entry \in A <=> i <= n
  <2>1. CASE i = Len(s) + 1
    BY <1>1, <1>2, <2>1
  <2>2. CASE i # Len(s) + 1
    BY <1>1, <1>2, <1>3, <2>2
  <2> QED
    BY <2>1, <2>2
<1> QED
  BY <1>1, <1>2, <1>3 DEF Fronted

LEMMA FrontedShrinks ==
    ASSUME NEW s \in Seq(Line), NEW t \in Seq(Line), NEW A, Fronted(s, A),
           NEW k \in 0..Len(s), Len(t) = Len(s) - k, \A i \in 1..Len(t) : t[i] = s[k + i]
    PROVE  Fronted(t, A)
<1>1. PICK n \in 0..MaxBatch : n <= Len(s) /\ \A i \in DOMAIN s : s[i].entry \in A <=> i <= n
  BY DEF Fronted
<1>2. /\ DOMAIN s = 1..Len(s) /\ DOMAIN t = 1..Len(t) /\ Len(s) \in Nat /\ Len(t) \in Nat
      /\ n \in Nat /\ MaxBatch \in Nat
  BY WorkerAssumption
<1>3. ASSUME NEW i \in DOMAIN t PROVE t[i].entry \in A <=> k + i <= n
  <2>1. i \in 1..Len(t) /\ k + i \in DOMAIN s
    BY <1>2
  <2>2. t[i] = s[k + i]
    BY <2>1
  <2> QED
    BY <1>1, <2>1, <2>2
<1>4. CASE n <= k
  <2>1. \A i \in DOMAIN t : t[i].entry \in A <=> i <= 0
    BY <1>2, <1>3, <1>4
  <2> QED
    BY <1>2, <2>1 DEF Fronted
<1>5. CASE n > k
  <2>1. n - k \in 0..MaxBatch /\ n - k <= Len(t)
    BY <1>1, <1>2, <1>5
  <2>2. \A i \in DOMAIN t : t[i].entry \in A <=> i <= n - k
    BY <1>2, <1>3
  <2> QED
    BY <2>1, <2>2 DEF Fronted
<1> QED
  BY <1>2, <1>4, <1>5

LEMMA WaitingIsHeld ==
    ASSUME file \in Seq(Line)
    PROVE  /\ Waiting \in Seq(Entry) /\ Len(Waiting) = Len(Parsed(file))
           /\ ToSet(Waiting) = Held(file)
<1> DEFINE p == Parsed(file)
<1>1. p \in Seq(Kept) /\ ToSet(p) = ToSet(file) \cap Kept
  BY ParsedOf
<1>2. Waiting = [i \in 1..Len(p) |-> p[i].entry] /\ Len(p) \in Nat
  BY <1>1 DEF Waiting
<1> HIDE DEF p
<1>3. \A i \in 1..Len(p) : p[i].entry \in Entry /\ p[i] \in ToSet(p)
  BY <1>1 DEF Kept, Line, ToSet
<1>4. Waiting \in Seq(Entry) /\ Len(Waiting) = Len(p)
  BY <1>2, <1>3
<1>5. ToSet(Waiting) = {p[i].entry : i \in 1..Len(p)}
  BY <1>2 DEF ToSet
<1>6. ToSet(p) = {p[i] : i \in 1..Len(p)}
  BY <1>1 DEF ToSet
<1>7. Held(file) = {l.entry : l \in ToSet(p)}
  BY <1>1 DEF Held
<1> QED
  BY <1>4, <1>5, <1>6, <1>7 DEF p

LEMMA CleanWaiting ==
    ASSUME file \in Seq(Line), Clean(file)
    PROVE  /\ file \in Seq(Kept) /\ Parsed(file) = file /\ Readable
           /\ Len(Waiting) = Len(file)
           /\ \A i \in DOMAIN file : Waiting[i] = file[i].entry
<1>1. file \in Seq(Kept) /\ DOMAIN file = 1..Len(file)
  BY DEF Clean, Kept
<1>2. Parsed(file) = file
  BY <1>1, ParsedAll
<1>3. Readable
  BY DEF Readable, Clean, Whole
<1> QED
  BY <1>1, <1>2, <1>3 DEF Waiting

\* A tail of lines that are all terminated.
LEMMA TailOfLines ==
    ASSUME NEW s \in Seq(Line), \A i \in DOMAIN s : s[i].ended, NEW n \in 0..Len(s)
    PROVE  LET t == SubSeq(s, n + 1, Len(s)) IN
             /\ Lines(t) /\ Len(t) = Len(s) - n
             /\ \A i \in 1..Len(t) : t[i] = s[n + i]
             /\ Held(t) \subseteq Held(s)
             /\ Clean(s) => Clean(t)
<1> DEFINE t == SubSeq(s, n + 1, Len(s))
<1>1. /\ t \in Seq(Line) /\ Len(t) = Len(s) - n
      /\ \A i \in 1..Len(t) : t[i] = s[n + i]
  OBVIOUS
<1>2. /\ DOMAIN t = 1..Len(t) /\ Len(t) \in Nat /\ DOMAIN s = 1..Len(s) /\ Len(s) \in Nat
      /\ \A i \in 1..Len(t) : n + i \in 1..Len(s)
  BY <1>1
<1> HIDE DEF t
<1>3. ToSet(t) \subseteq ToSet(s)
  BY <1>1, <1>2 DEF ToSet
<1>4. Held(t) \subseteq Held(s)
  BY <1>3 DEF Held
<1>5. ASSUME Clean(s) PROVE Clean(t)
  <2>1. \A i \in DOMAIN t : t[i] = Whole(t[i].entry) /\ t[i].entry # Corrupt
    BY <1>1, <1>2, <1>5 DEF Clean
  <2>2. ASSUME NEW i \in DOMAIN t, NEW j \in DOMAIN t, i < j
        PROVE  t[i].entry < t[j].entry
    <3>1. n + i \in DOMAIN s /\ n + j \in DOMAIN s /\ n + i < n + j
      BY <1>2, <2>2
    <3>2. s[n + i].entry < s[n + j].entry
      BY <1>5, <3>1 DEF Clean
    <3>3. t[i] = s[n + i] /\ t[j] = s[n + j]
      BY <1>1, <1>2
    <3> QED
      BY <3>2, <3>3
  <2> QED
    BY <2>1, <2>2 DEF Clean
<1>6. Lines(t)
  BY <1>1, <1>2 DEF Lines
<1> QED
  BY <1>1, <1>4, <1>5, <1>6 DEF t

LEMMA TerminatedLines ==
    ASSUME NEW s \in Seq(Line)
    PROVE  LET t == Terminated(Parsed(s)) IN
             /\ t \in Seq(Line) /\ Len(t) = Len(Parsed(s)) /\ Len(t) \in Nat
             /\ \A i \in DOMAIN t : t[i].ended
             /\ Held(t) = Held(s)
             /\ Clean(s) => t = s /\ Parsed(s) = s
<1> DEFINE p == Parsed(s)
           t == Terminated(p)
<1>1. p \in Seq(Kept) /\ ToSet(p) = ToSet(s) \cap Kept
  BY ParsedOf
<1>2. ASSUME Clean(s) PROVE p = s
  <2>1. s \in Seq(Kept)
    BY <1>2 DEF Clean, Kept
  <2> QED
    BY <2>1, ParsedAll
<1> HIDE DEF p
<1>3. Len(p) \in Nat /\ DOMAIN p = 1..Len(p) /\ \A i \in 1..Len(p) : p[i] \in Kept
  BY <1>1
<1>4. t = [i \in 1..Len(p) |-> [p[i] EXCEPT !.ended = TRUE]]
  BY <1>3 DEF Terminated
<1>5. \A i \in 1..Len(p) : t[i] \in Kept /\ t[i].ended /\ t[i].entry = p[i].entry
  BY <1>3, <1>4 DEF Kept, Line
<1>6. t \in Seq(Kept) /\ Len(t) = Len(p) /\ DOMAIN t = 1..Len(p)
  BY <1>3, <1>4, <1>5
<1> HIDE DEF t
<1>7. Held(t) = {t[i].entry : i \in 1..Len(p)}
  <2>1. ToSet(t) \cap Kept = {t[i] : i \in 1..Len(p)}
    BY <1>5, <1>6 DEF ToSet
  <2> QED
    BY <2>1 DEF Held
<1>8. Held(s) = {p[i].entry : i \in 1..Len(p)}
  <2>1. ToSet(s) \cap Kept = {p[i] : i \in 1..Len(p)}
    BY <1>1, <1>3 DEF ToSet
  <2> QED
    BY <2>1 DEF Held
<1>9. Held(t) = Held(s)
  BY <1>5, <1>7, <1>8
<1>10. ASSUME Clean(s) PROVE t = s
  <2>1. p = s /\ \A i \in 1..Len(p) : p[i] = Whole(p[i].entry)
    BY <1>2, <1>3, <1>10 DEF Clean
  <2>2. \A i \in 1..Len(p) : [p[i] EXCEPT !.ended = TRUE] = p[i]
    <3> TAKE i \in 1..Len(p)
    <3>1. p[i] \in Line /\ p[i].utf8 = TRUE /\ p[i].ended = TRUE
      BY <1>3, <2>1 DEF Kept, Whole
    <3> QED
      BY <3>1 DEF Line
  <2>3. t \in Seq(Kept) /\ s \in Seq(Kept) /\ Len(t) = Len(s) /\ \A i \in 1..Len(t) : t[i] = s[i]
    BY <1>1, <1>3, <1>4, <1>6, <2>1, <2>2 DEF t
  <2> QED
    BY <2>3, SeqEqual
<1>11. t \in Seq(Line)
  BY <1>6 DEF Kept
<1> QED
  BY <1>2, <1>3, <1>5, <1>6, <1>9, <1>10, <1>11 DEF t, p

\* A line joined to the file.
LEMMA JoinedLines ==
    ASSUME Lines(file), NEW l \in Line
    PROVE  /\ Lines(Joined(l)) /\ Len(Joined(l)) \in Nat
           /\ Held(Joined(l)) \subseteq Held(file) \cup ({l.entry} \ {Corrupt})
<1> DEFINE s == Joined(l)
<1>1. CASE file = <<>> \/ Last(file).ended
  <2>1. s = Append(file, l)
    BY <1>1 DEF Joined
  <2>2. /\ s \in Seq(Line) /\ Len(s) = Len(file) + 1 /\ s[Len(file) + 1] = l
        /\ \A i \in 1..Len(file) : s[i] = file[i]
    BY <2>1 DEF Lines
  <2>3. \A i \in 1..Len(file) : file[i].ended
    BY <1>1 DEF Lines, Last
  <2>4. /\ Len(file) \in Nat /\ DOMAIN s = 1..(Len(file) + 1) /\ DOMAIN file = 1..Len(file)
    BY <2>2 DEF Lines
  <2> HIDE DEF s
  <2>5. Lines(s)
    BY <2>2, <2>3, <2>4 DEF Lines
  <2>6. ToSet(s) \subseteq ToSet(file) \cup {l}
    BY <2>2, <2>4 DEF ToSet
  <2>7. Held(s) \subseteq Held(file) \cup ({l.entry} \ {Corrupt})
    BY <2>6 DEF Held, Kept
  <2> QED
    BY <2>2, <2>4, <2>5, <2>7 DEF s
<1>2. CASE ~(file = <<>> \/ Last(file).ended)
  <2> DEFINE m == [entry |-> Corrupt, utf8 |-> Last(file).utf8 /\ l.utf8, ended |-> l.ended]
  <2>1. s = Append(Front(file), m)
    BY <1>2 DEF Joined
  <2>0. file \in Seq(Line) /\ Len(file) \in Nat \ {0}
    BY <1>2 DEF Lines
  <2>2. Last(file) \in Line /\ m \in Line /\ m.entry = Corrupt
    <3>1. Last(file) \in Line
      BY <2>0 DEF Last
    <3>2. (Last(file).utf8 /\ l.utf8) \in BOOLEAN /\ l.ended \in BOOLEAN
      BY DEF Line
    <3> QED
      BY <3>1, <3>2 DEF Line
  <2>3. /\ Front(file) \in Seq(Line) /\ Len(Front(file)) = Len(file) - 1
        /\ \A i \in 1..(Len(file) - 1) : Front(file)[i] = file[i]
    <3>1. Front(file) = SubSeq(file, 1, Len(file) - 1)
      BY DEF Front
    <3>2. ASSUME NEW q \in Seq(Line), NEW n \in 0..Len(q)
          PROVE  /\ SubSeq(q, 1, n) \in Seq(Line) /\ Len(SubSeq(q, 1, n)) = n
                 /\ \A i \in 1..n : SubSeq(q, 1, n)[i] = q[i]
      OBVIOUS
    <3>3. Len(file) - 1 \in 0..Len(file)
      BY <2>0
    <3> DEFINE k == Len(file) - 1
    <3> HIDE DEF s, m, k
    <3>4. /\ SubSeq(file, 1, k) \in Seq(Line) /\ Len(SubSeq(file, 1, k)) = k
          /\ \A i \in 1..k : SubSeq(file, 1, k)[i] = file[i]
      BY <2>0, <3>2, <3>3 DEF k
    <3>5. Front(file) = SubSeq(file, 1, k)
      BY <3>1 DEF k
    <3>6. /\ Front(file) \in Seq(Line) /\ Len(Front(file)) = k
          /\ \A i \in 1..k : Front(file)[i] = file[i]
      BY <3>4, <3>5
    <3> QED
      BY <3>6 DEF k
  <2> DEFINE f == Front(file)
  <2> HIDE DEF m, f
  <2>4. /\ s \in Seq(Line) /\ Len(s) = Len(file) /\ s[Len(file)] = m
        /\ \A i \in 1..(Len(file) - 1) : s[i] = file[i]
    BY <1>2, <2>1, <2>2, <2>3 DEF Lines, f
  <2>5. /\ Len(file) \in Nat /\ DOMAIN s = 1..Len(file) /\ DOMAIN file = 1..Len(file)
    BY <2>4 DEF Lines
  <2> HIDE DEF s
  <2>6. Lines(s)
    BY <2>4, <2>5 DEF Lines
  <2>7. ToSet(s) \subseteq ToSet(file) \cup {m}
    BY <2>4, <2>5 DEF ToSet
  <2>8. m \notin Kept
    BY <2>2 DEF Kept
  <2>9. Held(s) \subseteq Held(file)
    BY <2>7, <2>8 DEF Held
  <2> QED
    BY <2>4, <2>5, <2>6, <2>9 DEF s
<1> QED
  BY <1>1, <1>2

\* Where nothing failed, an entry younger than all the others goes to the end.
LEMMA CleanJoined ==
    ASSUME file \in Seq(Line), Clean(file), NEW e \in Entry, \A k \in Held(file) : k < e
    PROVE  LET s == Joined(Whole(e)) IN
             /\ s \in Seq(Line) /\ Clean(s) /\ Len(s) = Len(file) + 1
             /\ \A i \in DOMAIN s : s[i].utf8 /\ s[i].ended
             /\ Held(s) = Held(file) \cup {e}
             /\ s[Len(file) + 1].entry = e /\ \A i \in 1..Len(file) : s[i] = file[i]
<1> DEFINE s == Joined(Whole(e))
<1>1. file = <<>> \/ Last(file).ended
  BY DEF Clean, Last, Whole
<1>2. s = Append(file, Whole(e)) /\ Whole(e) \in Line /\ Whole(e).entry = e /\ e # Corrupt
  BY <1>1 DEF Joined, Whole, Line, Entry, Corrupt
<1>3. /\ s \in Seq(Line) /\ Len(s) = Len(file) + 1 /\ s[Len(file) + 1] = Whole(e)
      /\ \A i \in 1..Len(file) : s[i] = file[i]
  BY <1>2
<1>4. Len(file) \in Nat /\ DOMAIN s = 1..(Len(file) + 1) /\ DOMAIN file = 1..Len(file)
  BY <1>3
<1> HIDE DEF s
<1>5. \A i \in 1..Len(file) : file[i] \in Kept /\ file[i] = Whole(file[i].entry)
  BY <1>4 DEF Clean, Kept
<1>6. Held(file) = {file[i].entry : i \in 1..Len(file)}
  <2>1. ToSet(file) \cap Kept = {file[i] : i \in 1..Len(file)}
    BY <1>4, <1>5 DEF ToSet
  <2> QED
    BY <2>1 DEF Held
<1>7. Clean(s)
  <2>1. \A i \in DOMAIN s : s[i] = Whole(s[i].entry) /\ s[i].entry # Corrupt
    BY <1>2, <1>3, <1>4 DEF Clean
  <2>2. ASSUME NEW i \in DOMAIN s, NEW j \in DOMAIN s, i < j
        PROVE  s[i].entry < s[j].entry
    <3>1. CASE j = Len(file) + 1
      BY <1>2, <1>3, <1>4, <1>6, <2>2, <3>1
    <3>2. CASE j # Len(file) + 1
      BY <1>3, <1>4, <2>2, <3>2 DEF Clean
    <3> QED
      BY <3>1, <3>2
  <2> QED
    BY <2>1, <2>2 DEF Clean
<1>8. Held(s) = Held(file) \cup {e}
  <2>1. \A i \in 1..(Len(file) + 1) : s[i] \in Kept
    BY <1>2, <1>3, <1>5 DEF Kept
  <2>2. ToSet(s) \cap Kept = {s[i] : i \in 1..(Len(file) + 1)}
    BY <1>4, <2>1 DEF ToSet
  <2>3. Held(s) = {s[i].entry : i \in 1..(Len(file) + 1)}
    BY <2>2 DEF Held
  <2>4. Held(s) \subseteq Held(file) \cup {e}
    BY <1>2, <1>3, <1>6, <2>3
  <2>5. Held(file) \cup {e} \subseteq Held(s)
    BY <1>2, <1>3, <1>4, <1>6, <2>3
  <2> QED
    BY <2>4, <2>5
<1>9. \A i \in DOMAIN s : s[i].utf8 /\ s[i].ended
  BY <1>7 DEF Clean, Whole
<1> QED
  BY <1>2, <1>3, <1>7, <1>8, <1>9 DEF s

-------------------------------------------------------------------------------
(* The invariant of the queue and of the thread that empties it. *)

\* Every entry this run appended or found is waiting, or counted once.
Account == count.restored + count.appended + Unsettled = len + count.settled + count.overflow

\* Every entry queued or settled left the channel, in the order of their ids.
Ids ==
    /\ Oldest \in Nat \ {0}
    /\ \A e \in Held(file) \cup acked : e < Oldest

\* The request that is out, or answered, holds the front of the queue, and as
\* much of it as a request may: what an earlier run had answered is in it again.
AtFront ==
    at \in {"sending", "settling"} =>
        /\ Readable /\ Len(batch) <= Len(Waiting) /\ batch = SubSeq(Waiting, 1, Len(batch))
        /\ Len(batch) = MaxBatch \/ Len(batch) = Len(Waiting)

\* What this run has had answered is off the queue, or about to be.
Own == Held(file) \cap mine = IF at = "settling" THEN ToSet(batch) ELSE {}

Sound ==
    ~faulted =>
        /\ Clean(file) /\ len = Len(file) /\ Account
        /\ Fronted(file, acked) /\ Own
        /\ len <= MaxEntries /\ Len(file) <= MaxBytes

Told == at = "after" /\ emptied /\ ~faulted => file = <<>>

QueueInv == TypeOK /\ BreakerInv /\ Ids /\ AtFront /\ Sound /\ Told

\* The ids below Oldest have left the channel.
LEMMA OldestIs ==
    ASSUME TypeOK
    PROVE  Oldest = next - Cardinality(Queued(channel)) /\ Oldest \in Int
<1>1. IsFiniteSet(Queued(channel)) /\ Cardinality(Queued(channel)) \in Nat
  BY QueuedFinite DEF TypeOK
<1>2. Oldest = next - Cardinality(Queued(channel))
  BY DEF Oldest, Queued
<1>3. next \in Int
  BY WorkerAssumption, QueueAssumption DEF TypeOK
<1> QED
  BY <1>1, <1>2, <1>3

LEMMA OldestPrimed ==
    Oldest' = next' - Cardinality(Queued(channel'))
BY DEF Oldest, Queued

LEMMA HeldEntries ==
    ASSUME NEW s \in Seq(Line)
    PROVE  Held(s) \subseteq Entry
<1>1. \A l \in ToSet(s) : l \in Line
  BY DEF ToSet
<1> QED
  BY <1>1 DEF Held, Kept, Line

LEMMA HeldTyped ==
    ASSUME QueueInv
    PROVE  Held(file) \subseteq Entry /\ acked \subseteq Entry /\ Entry \subseteq Int
<1>1. file \in Seq(Line) /\ acked \subseteq Entry
  BY DEF QueueInv, TypeOK, QueueTypeOK
<1>2. Entry \subseteq Int
  BY QueueAssumption DEF Entry
<1> QED
  BY <1>1, <1>2, HeldEntries

LEMMA QueueTypesKeep ==
    ASSUME QueueTypeOK, UNCHANGED <<durable, file, len>>
    PROVE  QueueTypeOK'
BY DEF QueueTypeOK

\* What a step may do to the entries recorded: one is settled from the queue, and
\* queued from the channel, or recorded.
Carries ==
    /\ acked \subseteq acked' /\ acked' \subseteq acked \cup Held(file)
    /\ Held(file') \subseteq Held(file) \cup (Oldest..(next - 1))
    /\ Oldest' >= Oldest
    /\ next' = next \/ (next' = next + 1 /\ Oldest' = Oldest)

\* Nothing is queued or settled in a step that leaves the queue, the books and
\* the oldest entry on the channel alone.
LEMMA QuietKeeps ==
    ASSUME QueueInv, TypeOK', BreakerInv',
           UNCHANGED <<file, len, count, acked, mine, faulted>>,
           at' = "settling" <=> at = "settling", at = "settling" => batch' = batch,
           Oldest' \in Nat, Oldest' >= Oldest,
           next' = next \/ (next' = next + 1 /\ Oldest' = Oldest),
           at' = "sending" =>
              \/ at = "sending" /\ batch' = batch
              \/ /\ Readable /\ Len(batch') <= Len(Waiting) /\ batch' = SubSeq(Waiting, 1, Len(batch'))
                 /\ Len(batch') = MaxBatch \/ Len(batch') = Len(Waiting),
           at' = "after" /\ emptied' => (at = "after" /\ emptied) \/ len = 0 \/ Waiting = <<>>
    PROVE  QueueInv' /\ Carries
<1>0. Held(file) \subseteq Entry /\ acked \subseteq Entry /\ Entry \subseteq Int
  BY HeldTyped
<1>1. Ids'
  <2>1. Held(file)' = Held(file)
    BY DEF Held
  <2>2. Oldest \in Nat \ {0} /\ \A e \in Held(file) \cup acked : e < Oldest
    BY DEF QueueInv, Ids
  <2>3. \A e \in Int : e < Oldest => e < Oldest'
    BY <2>2
  <2>4. Oldest' \in Nat \ {0}
    BY <2>2
  <2>5. \A e \in Held(file) \cup acked : e < Oldest'
    BY <1>0, <2>2, <2>3
  <2>6. \A e \in Held(file)' \cup acked' : e < Oldest'
    BY <2>1, <2>5
  <2> QED
    BY <2>4, <2>6 DEF Ids
<1>2. AtFront'
  BY DEF QueueInv, AtFront, Readable, Waiting
<1>3. Sound'
  <2>1. Unsettled' = Unsettled
    BY DEF Unsettled
  <2>2. Account' <=> Account
    BY <2>1 DEF Account
  <2>3. (Own' <=> Own) /\ (Clean(file)' <=> Clean(file)) /\ (Fronted(file, acked)' <=> Fronted(file, acked))
    BY DEF Own, Held, Clean, Fronted
  <2> QED
    BY <2>2, <2>3 DEF QueueInv, Sound
<1>4. Told'
  <2> SUFFICES ASSUME at' = "after", emptied', ~faulted, ~(at = "after" /\ emptied)
               PROVE  file = <<>>
    BY DEF Told, QueueInv
  <2>1. file \in Seq(Line) /\ Clean(file) /\ len = Len(file)
    BY DEF QueueInv, Sound, TypeOK, QueueTypeOK
  <2>2. Len(Waiting) = Len(file)
    BY <2>1, CleanWaiting
  <2>3. len = 0 \/ Waiting = <<>>
    OBVIOUS
  <2>4. Len(file) = 0
    BY <2>1, <2>2, <2>3
  <2> QED
    BY <2>1, <2>4, EmptySeq
<1>5. Carries
  <2>1. Held(file') = Held(file) /\ acked' = acked
    OBVIOUS
  <2> QED
    BY <2>1 DEF Carries
<1> QED
  BY <1>1, <1>2, <1>3, <1>4, <1>5 DEF QueueInv

LEMMA HostQueues ==
    ASSUME QueueInv, Log \/ Flush \/ Drop
    PROVE  QueueInv' /\ Carries
<1>1. PICK m \in {"entry", "flush", "shutdown"} :
        /\ channel' = Append(channel, m)
        /\ next' = IF m = "entry" THEN next + 1 ELSE next
        /\ m = "entry" => next <= MaxId
        /\ UNCHANGED <<queueVars, policy, drainVars, sendAt, clock, breakerVars, bookVars, run>>
        /\ flushes' \in 0..MaxFlushes
  BY WorkerAssumption DEF Log, Flush, Drop, Sends, bounds, QueueInv, TypeOK
<1>2. /\ channel' \in Seq({"entry", "flush", "shutdown"})
      /\ Cardinality(Queued(channel')) =
            Cardinality(Queued(channel)) + (IF m = "entry" THEN 1 ELSE 0)
  BY <1>1, ChannelGrows DEF QueueInv, TypeOK
<1>3. Cardinality(Queued(channel)) \in Nat /\ next \in Nat
  BY QueuedFinite, QueueAssumption DEF QueueInv, TypeOK
<1>4. Oldest' = Oldest
  BY <1>1, <1>2, <1>3, OldestIs, OldestPrimed DEF QueueInv
<1>5. next' \in 1..(MaxId + 1)
  BY <1>1, QueueAssumption DEF QueueInv, TypeOK
<1>6. TypeOK'
  BY <1>1, <1>2, <1>5
     DEF QueueInv, TypeOK, QueueTypeOK, queueVars, policy, drainVars, clock, breakerVars, bookVars
<1>7. BreakerInv'
  BY HostKeeps DEF QueueInv
<1>8. Oldest \in Nat
  BY DEF QueueInv, Ids
<1> QED
  BY <1>1, <1>4, <1>6, <1>7, <1>8, QuietKeeps
     DEF queueVars, drainVars, bookVars, QueueInv, TypeOK

LEMMA ClocksQueue ==
    ASSUME QueueInv, BackoffElapses \/ CooldownElapses \/ DeadlinePasses
    PROVE  QueueInv' /\ Carries
<1>0. QueueTypeOK'
  BY QueueTypesKeep
     DEF BackoffElapses, CooldownElapses, DeadlinePasses, queueVars, QueueInv, TypeOK
<1>1. TypeOK'
  <2>1. /\ UNCHANGED <<channel, at, goal, emptied, batch, sendAt, open, failures, count, faulted,
                        acked, mine, next, run, flushes>>
        /\ late' \in {late, TRUE} /\ backoff' \in {backoff, FALSE}
        /\ cooling' \in {cooling, FALSE}
    BY DEF BackoffElapses, CooldownElapses, DeadlinePasses,
           policy, drainVars, clock, breakerVars, bookVars, bounds
  <2>2. late' \in BOOLEAN /\ backoff' \in BOOLEAN /\ cooling' \in BOOLEAN
    BY <2>1, Zenon DEF QueueInv, TypeOK
  <2> QED
    BY <1>0, <2>1, <2>2 DEF QueueInv, TypeOK
<1>2. BreakerInv'
  BY HostKeeps DEF QueueInv
<1>3. /\ UNCHANGED <<file, len, count, acked, mine, faulted, next, channel, at, emptied, batch>>
  BY DEF BackoffElapses, CooldownElapses, DeadlinePasses,
         queueVars, drainVars, bookVars, bounds
<1>4. Oldest' = Oldest /\ Oldest \in Nat
  BY <1>3 DEF Oldest, QueueInv, Ids
<1> QED
  BY <1>1, <1>2, <1>3, <1>4, QuietKeeps

LEMMA TakesQueue ==
    ASSUME QueueInv, TakeFlush \/ TakeShutdown \/ Fire \/ Schedule
    PROVE  QueueInv' /\ Carries
<1>1. /\ UNCHANGED <<file, len, durable, count, acked, mine, faulted, next, run, flushes, batch,
                    backoff, cooling, open, failures>>
      /\ at \notin {"sending", "settling"} /\ at' \in {"drain", "recv", "exited"}
      /\ goal' \in {"run", "flush", "exit"} /\ late' \in BOOLEAN /\ emptied' \in BOOLEAN
      /\ sendAt' \in BOOLEAN
  BY DEF TakeFlush, TakeShutdown, Fire, Schedule, Begin, Received, queueVars, bookVars, bounds,
         clock, breakerVars, ScheduledAfterDrain, QueueInv, TypeOK, Gated
<1>2. /\ channel' \in Seq({"entry", "flush", "shutdown"})
      /\ Cardinality(Queued(channel')) = Cardinality(Queued(channel))
  <2>1. CASE TakeFlush \/ TakeShutdown
    <3>1. channel # <<>> /\ channel' = Tail(channel) /\ Head(channel) # "entry"
      BY <2>1 DEF TakeFlush, TakeShutdown, Received
    <3>2. Cardinality(Queued(channel)) \in Nat
      BY QueuedFinite DEF QueueInv, TypeOK
    <3> QED
      BY <3>1, <3>2, ChannelShrinks DEF QueueInv, TypeOK
  <2>2. CASE Fire \/ Schedule
    BY <2>2 DEF Fire, Schedule, QueueInv, TypeOK
  <2> QED
    BY <2>1, <2>2
<1>3. Oldest' = Oldest /\ Oldest \in Nat
  BY <1>1, <1>2, OldestIs, OldestPrimed DEF QueueInv, Ids
<1>4. TypeOK'
  BY <1>1, <1>2 DEF QueueInv, TypeOK, QueueTypeOK
<1>5. BreakerInv'
  BY ReceiveKeeps DEF QueueInv, Receive
<1> QED
  BY <1>1, <1>3, <1>4, <1>5, QuietKeeps

LEMMA DrainQueues ==
    ASSUME QueueInv, DrainEmpty \/ DrainHeld \/ DrainGivesUp \/ DrainSleeps \/ DrainUnread
    PROVE  QueueInv' /\ Carries
<1>1. /\ UNCHANGED <<file, len, durable, channel, count, acked, mine, faulted, next, run, flushes, goal, late,
                    cooling, failures, sendAt>>
      /\ backoff' \in BOOLEAN
      /\ open' \in BOOLEAN /\ (open' => open)
      /\ at = "drain" /\ at' \in {"drain", "after", "exited"} /\ batch' = <<>>
      /\ emptied' \in BOOLEAN
      /\ at' = "after" /\ emptied' => len = 0 \/ Waiting = <<>>
  <2> USE DEF Return, Unchanged, queueVars, bookVars, bounds, QueueInv, TypeOK
  <2>1. CASE DrainEmpty
    BY <2>1 DEF DrainEmpty
  <2>2. CASE DrainHeld
    BY <2>2 DEF DrainHeld
  <2>3. CASE DrainGivesUp
    BY <2>3 DEF DrainGivesUp, Dialling
  <2>4. CASE DrainSleeps
    BY <2>4 DEF DrainSleeps, Dialling, drainVars
  <2>5. CASE DrainUnread
    <3>1. Readable \in BOOLEAN
      BY DEF Readable
    <3>2. /\ Dialling /\ Return(Readable) /\ (~Readable \/ Waiting = <<>>)
          /\ Unchanged(<<queueVars, backoff>>)
      BY <2>5 DEF DrainUnread
    <3> QED
      BY <3>1, <3>2 DEF Dialling
  <2> QED
    BY <2>1, <2>2, <2>3, <2>4, <2>5
<1>2. TypeOK'
  <2>1. QueueTypeOK'
    BY <1>1, QueueTypesKeep DEF QueueInv, TypeOK
  <2>2. <<>> \in Seq(Entry) /\ Len(<<>>) = 0
    OBVIOUS
  <2>3. batch' \in Seq(Entry) /\ Len(batch') <= MaxBatch /\ (at' \in {"sending", "settling"} <=> batch' # <<>>)
    BY <1>1, <2>2, WorkerAssumption
  <2>4. open' \in BOOLEAN /\ failures' \in 0..Threshold /\ (open' => failures' = Threshold)
    BY <1>1 DEF QueueInv, TypeOK
  <2> QED
    BY <1>1, <2>1, <2>3, <2>4 DEF QueueInv, TypeOK
<1>3. BreakerInv'
  BY DrainKeeps DEF QueueInv, Drain
<1>4. Oldest' = Oldest /\ Oldest \in Nat
  BY <1>1 DEF Oldest, QueueInv, Ids
<1> QED
  BY <1>1, <1>2, <1>3, <1>4, QuietKeeps

LEMMA MinTwo ==
    ASSUME NEW a \in Nat, NEW b \in Nat
    PROVE  Min({a, b}) \in {a, b} /\ Min({a, b}) <= a /\ Min({a, b}) <= b
<1>1. \E x \in {a, b} : \A y \in {a, b} : x <= y
  <2>1. CASE a <= b
    BY <2>1
  <2>2. CASE ~ a <= b
    BY <2>2
  <2> QED
    BY <2>1, <2>2
<1> QED
  BY <1>1 DEF Min

LEMMA SendsFront ==
    ASSUME QueueInv, DrainSends
    PROVE  QueueInv' /\ Carries
<1> DEFINE n == Min({MaxBatch, Len(Waiting)})
<1>1. Waiting \in Seq(Entry) /\ Waiting # <<>> /\ Readable
  BY WaitingIsHeld DEF QueueInv, TypeOK, QueueTypeOK, DrainSends
<1>2. n \in 1..Len(Waiting) /\ n <= MaxBatch /\ n \in {MaxBatch, Len(Waiting)}
  <2>1. Len(Waiting) \in Nat \ {0}
    BY <1>1
  <2> QED
    BY <2>1, MinTwo, WorkerAssumption
<1>3. batch' = SubSeq(Waiting, 1, n)
  BY DEF DrainSends
<1> HIDE DEF n
<1>4. batch' \in Seq(Entry) /\ Len(batch') = n
  BY <1>1, <1>2, <1>3
<1>5. /\ UNCHANGED <<file, len, durable, channel, count, acked, mine, faulted, next, run, flushes, goal, late,
                    cooling, failures, sendAt, backoff, emptied>>
      /\ open' = FALSE /\ at = "drain" /\ at' = "sending"
  BY DEF DrainSends, Dialling, Unchanged, queueVars, bookVars, bounds
<1>6. TypeOK'
  <2>1. QueueTypeOK'
    BY <1>5, QueueTypesKeep DEF QueueInv, TypeOK
  <2>2. batch' # <<>> /\ Len(batch') <= MaxBatch
    BY <1>2, <1>4
  <2> QED
    BY <1>4, <1>5, <2>1, <2>2 DEF QueueInv, TypeOK
<1>7. BreakerInv'
  BY DrainKeeps DEF QueueInv, Drain
<1>8. Oldest' = Oldest /\ Oldest \in Nat
  BY <1>5 DEF Oldest, QueueInv, Ids
<1>9. /\ Readable /\ Len(batch') <= Len(Waiting) /\ batch' = SubSeq(Waiting, 1, Len(batch'))
      /\ Len(batch') = MaxBatch \/ Len(batch') = Len(Waiting)
  BY <1>1, <1>2, <1>3, <1>4
<1> QED
  BY <1>5, <1>6, <1>7, <1>8, <1>9, QuietKeeps

LEMMA TransientQueues ==
    ASSUME QueueInv, RespondTransient
    PROVE  QueueInv' /\ Carries
<1>1. /\ UNCHANGED <<file, len, durable, channel, count, acked, mine, faulted, next, run, flushes, goal, late,
                    sendAt>>
      /\ failures' = Failed(failures) /\ backoff' = TRUE
      /\ at' \in {"exited", "after"} /\ emptied' = FALSE /\ batch' = <<>>
      /\ at = "sending"
      /\ \/ failures' >= Threshold /\ open' = TRUE /\ cooling' = TRUE
         \/ open' = open /\ cooling' = cooling
  BY DEF RespondTransient, Return, queueVars, bookVars, bounds
<1>2. failures' \in 0..Threshold /\ (failures' >= Threshold => failures' = Threshold)
  BY <1>1, WorkerAssumption DEF Failed, QueueInv, TypeOK
<1>3. TypeOK'
  <2>1. QueueTypeOK'
    BY <1>1, QueueTypesKeep DEF QueueInv, TypeOK
  <2>2. <<>> \in Seq(Entry) /\ Len(<<>>) = 0
    OBVIOUS
  <2>3. batch' \in Seq(Entry) /\ Len(batch') <= MaxBatch /\ (at' \in {"sending", "settling"} <=> batch' # <<>>)
    BY <1>1, <2>2, WorkerAssumption
  <2>4. open' \in BOOLEAN /\ cooling' \in BOOLEAN /\ (open' => failures' = Threshold)
    <3>1. open = FALSE /\ cooling \in BOOLEAN
      BY <1>1 DEF QueueInv, BreakerInv, TypeOK
    <3> QED
      BY <1>1, <1>2, <3>1
  <2> QED
    BY <1>1, <1>2, <2>1, <2>3, <2>4 DEF QueueInv, TypeOK
<1>4. BreakerInv'
  BY TransientKeeps DEF QueueInv
<1>5. Oldest' = Oldest /\ Oldest \in Nat
  BY <1>1 DEF Oldest, QueueInv, Ids
<1> QED
  BY <1>1, <1>3, <1>4, <1>5, QuietKeeps

LEMMA CountsFields ==
    ASSUME QueueInv
    PROVE  /\ count.restored \in Nat /\ count.appended \in Nat /\ count.overflow \in Nat
           /\ count.refused \in Nat /\ count.settled \in Nat /\ len \in Nat
           /\ count = [restored |-> count.restored, appended |-> count.appended,
                       overflow |-> count.overflow, refused |-> count.refused,
                       settled |-> count.settled]
BY DEF QueueInv, TypeOK, QueueTypeOK, Counts

\* The batch that is out, or answered, is the front of the queue.
LEMMA BatchIsFront ==
    ASSUME QueueInv, at \in {"sending", "settling"}
    PROVE  /\ Waiting \in Seq(Entry) /\ Readable
           /\ Len(batch) \in 0..Len(Waiting) /\ batch = SubSeq(Waiting, 1, Len(batch))
           /\ ToSet(batch) \subseteq Held(file) /\ Held(file) \subseteq Entry
           /\ \A i \in 1..Len(batch) : batch[i] = Waiting[i]
           /\ ToSet(batch) = {batch[i] : i \in 1..Len(batch)}
<1>1. /\ Waiting \in Seq(Entry) /\ ToSet(Waiting) = Held(file) /\ Held(file) \subseteq Entry
  BY WaitingIsHeld, HeldEntries DEF QueueInv, TypeOK, QueueTypeOK
<1>2. /\ Readable /\ batch \in Seq(Entry)
      /\ Len(batch) \in 0..Len(Waiting) /\ batch = SubSeq(Waiting, 1, Len(batch))
  BY <1>1 DEF QueueInv, AtFront, TypeOK
<1>3. \A i \in 1..Len(batch) : batch[i] = Waiting[i]
  BY <1>1, <1>2
<1>4. DOMAIN batch = 1..Len(batch) /\ DOMAIN Waiting = 1..Len(Waiting) /\ Len(batch) <= Len(Waiting)
      /\ Len(batch) \in Nat /\ Len(Waiting) \in Nat
  BY <1>1, <1>2
<1>5. ToSet(batch) \subseteq ToSet(Waiting) /\ ToSet(batch) = {batch[i] : i \in 1..Len(batch)}
  BY <1>3, <1>4 DEF ToSet
<1> QED
  BY <1>1, <1>2, <1>3, <1>5

\* On a file that never failed, the lines of the batch are exactly the first.
LEMMA BatchLines ==
    ASSUME QueueInv, at \in {"sending", "settling"}, ~faulted
    PROVE  \A i \in DOMAIN file : file[i].entry \in ToSet(batch) <=> i <= Len(batch)
<1>1. file \in Seq(Line) /\ Clean(file)
  BY DEF QueueInv, Sound, TypeOK, QueueTypeOK
<1>2. /\ Len(Waiting) = Len(file) /\ \A i \in DOMAIN file : Waiting[i] = file[i].entry
  BY <1>1, CleanWaiting
<1>3. /\ DOMAIN file = 1..Len(file) /\ Len(file) \in Nat /\ Len(batch) \in 0..Len(file)
      /\ \A i \in 1..Len(batch) : batch[i] = file[i].entry
      /\ ToSet(batch) = {batch[i] : i \in 1..Len(batch)}
  BY <1>1, <1>2, BatchIsFront
<1>4. \A i \in DOMAIN file : file[i].entry \in Int
  <2>1. \A i \in DOMAIN file : file[i] \in Line
    BY <1>1
  <2> QED
    BY <2>1, QueueAssumption DEF Line, Entry, Corrupt
<1>5. ASSUME NEW i \in DOMAIN file, file[i].entry \in ToSet(batch) PROVE i <= Len(batch)
  <2>1. PICK j \in 1..Len(batch) : file[i].entry = file[j].entry
    BY <1>3, <1>5
  <2>2. j \in DOMAIN file
    BY <1>3
  <2>3. CASE i < j
    BY <1>1, <1>4, <2>1, <2>2, <2>3 DEF Clean
  <2>4. CASE j < i
    BY <1>1, <1>4, <2>1, <2>2, <2>4 DEF Clean
  <2> QED
    BY <1>3, <2>2, <2>3, <2>4
<1>6. ASSUME NEW i \in DOMAIN file, i <= Len(batch) PROVE file[i].entry \in ToSet(batch)
  <2>1. i \in 1..Len(batch)
    BY <1>3, <1>6
  <2>2. batch[i] \in ToSet(batch)
    BY <1>3, <2>1
  <2> QED
    BY <1>3, <2>1, <2>2
<1> QED
  BY <1>5, <1>6

\* An answer is counted before the queue is touched.
LEMMA AnsweredQueues ==
    ASSUME QueueInv, Answered
    PROVE  QueueInv' /\ Carries
<1>1. /\ acked' = acked \cup ToSet(batch) /\ mine' = mine \cup ToSet(batch)
      /\ count' = [count EXCEPT !.settled = @ + Len(batch)]
      /\ UNCHANGED <<file, len, durable, channel, goal, late, emptied, batch, sendAt, backoff, cooling,
                     open, failures, faulted, next, run, flushes>>
      /\ at = "sending" /\ at' = "settling"
  BY DEF Answered, queueVars, policy, clock, breakerVars, bounds
<1>2. /\ Waiting \in Seq(Entry) /\ Readable /\ Len(batch) \in 0..Len(Waiting)
      /\ ToSet(batch) \subseteq Held(file) /\ Held(file) \subseteq Entry
  BY <1>1, BatchIsFront
<1>3. TypeOK'
  <2>1. count' \in Counts
    <3>1. count \in Counts /\ count.settled + Len(batch) \in Nat
      BY <1>1, <1>2 DEF QueueInv, TypeOK, Counts
    <3> QED
      BY <1>1, <3>1 DEF Counts
  <2>2. acked' \subseteq Entry /\ mine' \subseteq acked'
    BY <1>1, <1>2 DEF QueueInv, TypeOK
  <2>3. QueueTypeOK'
    BY <1>1, QueueTypesKeep DEF QueueInv, TypeOK
  <2> QED
    BY <1>1, <2>1, <2>2, <2>3 DEF QueueInv, TypeOK
<1>4. BreakerInv'
  BY <1>1, MovesKeep DEF QueueInv
<1>5. Held(file)' = Held(file) /\ Held(file') = Held(file) /\ Oldest' = Oldest /\ Oldest \in Int
  BY <1>1, OldestIs DEF Held, Oldest, QueueInv
<1>6. Ids'
  BY <1>1, <1>2, <1>5 DEF Ids, QueueInv
<1>7. AtFront'
  BY <1>1 DEF QueueInv, AtFront, Readable, Waiting
<1>8. Sound'
  <2> SUFFICES ASSUME ~faulted
               PROVE  Clean(file) /\ len = Len(file) /\ Account' /\ Fronted(file, acked') /\ Own'
                      /\ len <= MaxEntries /\ Len(file) <= MaxBytes
    BY <1>1 DEF Sound, Clean, Fronted
  <2>1. /\ Clean(file) /\ len = Len(file) /\ Account /\ Fronted(file, acked) /\ Own
        /\ len <= MaxEntries /\ Len(file) <= MaxBytes /\ file \in Seq(Line)
    BY DEF QueueInv, Sound, TypeOK, QueueTypeOK
  <2>2. Account'
    <3> DEFINE k == Len(batch)
    <3>1. Unsettled = 0 /\ Unsettled' = k
      BY <1>1 DEF Unsettled
    <3>2. /\ count'.restored = count.restored /\ count'.appended = count.appended
          /\ count'.settled = count.settled + k /\ count'.overflow = count.overflow /\ len' = len
      BY <1>1, CountsFields
    <3>3. k \in Nat
      BY <1>2
    <3> HIDE DEF k
    <3>4. count.restored + count.appended = len + count.settled + count.overflow
      BY <2>1, <3>1, CountsFields DEF Account
    <3>5. count.restored + count.appended + k = len + (count.settled + k) + count.overflow
      BY <3>3, <3>4, CountsFields
    <3> QED
      BY <3>1, <3>2, <3>5 DEF Account
  <2>3. Own'
    BY <1>1, <1>2, <1>5, <2>1 DEF Own
  <2>4. Fronted(file, acked')
    <3>1. PICK n \in 0..MaxBatch : n <= Len(file) /\ \A i \in DOMAIN file : file[i].entry \in acked <=> i <= n
      BY <2>1 DEF Fronted
    <3>2. \A i \in DOMAIN file : file[i].entry \in ToSet(batch) <=> i <= Len(batch)
      BY <1>1, BatchLines
    <3>3. Len(Waiting) = Len(file)
      BY <2>1, CleanWaiting
    <3>4. Len(batch) \in 0..MaxBatch /\ (Len(batch) = MaxBatch \/ Len(batch) = Len(file))
          /\ Len(file) \in Nat /\ MaxBatch \in Nat /\ Len(batch) <= Len(file) /\ n \in Nat
      BY <1>1, <1>2, <2>1, <3>1, <3>3, WorkerAssumption DEF QueueInv, AtFront, TypeOK
    <3>5. n <= Len(batch)
      BY <3>1, <3>4
    <3>6. ASSUME NEW i \in DOMAIN file PROVE file[i].entry \in acked' <=> i <= Len(batch)
      <4>1. i \in Int /\ (i <= n => i <= Len(batch))
        BY <2>1, <3>4, <3>5
      <4> QED
        BY <1>1, <3>1, <3>2, <4>1
    <3> QED
      BY <3>4, <3>6 DEF Fronted
  <2> QED
    BY <2>1, <2>2, <2>3, <2>4
<1>9. Carries
  BY <1>1, <1>2, <1>5 DEF Carries
<1> QED
  BY <1>1, <1>3, <1>4, <1>6, <1>7, <1>8, <1>9 DEF QueueInv, Told

\* Back to the drain, whether or not the queue was rewritten.
LEMMA SucceedsBooks ==
    ASSUME QueueInv, Succeeds
    PROVE  /\ UNCHANGED <<channel, acked, mine, count, next, run, flushes>>
           /\ at = "settling" /\ at' = "drain"
           /\ BreakerInv'
           /\ (QueueTypeOK' /\ faulted' \in BOOLEAN => TypeOK')
           /\ Oldest' = Oldest /\ Oldest \in Int
<1>1. /\ UNCHANGED <<channel, next, run, flushes, goal, late, emptied, sendAt, cooling, open, count, acked, mine>>
      /\ at = "settling" /\ at' = "drain" /\ batch' = <<>> /\ failures' = 0 /\ backoff' = FALSE
  BY DEF Succeeds, bounds
<1>2. BreakerInv'
  BY SucceedsKeeps DEF QueueInv
<1>3. ASSUME QueueTypeOK', faulted' \in BOOLEAN PROVE TypeOK'
  <2>1. <<>> \in Seq(Entry) /\ Len(<<>>) = 0
    OBVIOUS
  <2>2. batch' \in Seq(Entry) /\ Len(batch') <= MaxBatch
        /\ (at' \in {"sending", "settling"} <=> batch' # <<>>)
    BY <1>1, <2>1, WorkerAssumption
  <2>3. failures' \in 0..Threshold /\ open' \in BOOLEAN /\ (open' => failures' = Threshold)
    <3>1. open = FALSE
      BY <1>1 DEF QueueInv, BreakerInv
    <3>2. 0 \in 0..Threshold
      BY WorkerAssumption
    <3> QED
      BY <1>1, <3>1, <3>2
  <2> QED
    BY <1>1, <1>3, <2>2, <2>3 DEF QueueInv, TypeOK
<1>4. Oldest' = Oldest /\ Oldest \in Int
  BY <1>1, OldestIs DEF Oldest, QueueInv
<1> QED
  BY <1>1, <1>2, <1>3, <1>4

LEMMA UnsettledQueues ==
    ASSUME QueueInv, SettleFails
    PROVE  QueueInv' /\ Carries
<1>1. Succeeds /\ UNCHANGED queueVars /\ faulted' = TRUE
  BY DEF SettleFails, DropFails
<1>2. QueueTypeOK'
  BY <1>1, QueueTypesKeep DEF queueVars, QueueInv, TypeOK
<1>3. TypeOK' /\ BreakerInv' /\ at' = "drain" /\ acked' = acked /\ Oldest' = Oldest /\ next' = next
      /\ Oldest \in Int
  BY <1>1, <1>2, SucceedsBooks
<1>4. Held(file)' = Held(file) /\ Held(file') = Held(file)
  BY <1>1 DEF Held, queueVars
<1>5. Ids' /\ Carries
  BY <1>3, <1>4 DEF Ids, Carries, QueueInv
<1> QED
  BY <1>1, <1>3, <1>5 DEF QueueInv, AtFront, Sound, Told

LEMMA SettledQueues ==
    ASSUME QueueInv, Settle
    PROVE  QueueInv' /\ Carries
<1> DEFINE k == Len(batch)
           t == Terminated(Parsed(file))
<1>1. Succeeds /\ DropFront(k) /\ faulted' = faulted
  BY DEF Settle, Drops
<1>2. file \in Seq(Line) /\ Len(Waiting) = Len(Parsed(file)) /\ ToSet(Waiting) = Held(file)
  BY WaitingIsHeld DEF QueueInv, TypeOK, QueueTypeOK
<1>3. /\ t \in Seq(Line) /\ Len(t) = Len(Parsed(file)) /\ Len(t) \in Nat
      /\ \A i \in DOMAIN t : t[i].ended
      /\ Held(t) = Held(file)
      /\ Clean(file) => t = file /\ Parsed(file) = file
  BY <1>2, TerminatedLines
<1>4. file' = SubSeq(t, k + 1, Len(t)) /\ len' = Len(file') /\ durable' = durable
  BY <1>1, <1>3 DEF DropFront
<1>0. /\ UNCHANGED <<acked, mine, count, next>> /\ at = "settling" /\ at' = "drain"
      /\ Oldest' = Oldest /\ Oldest \in Int
  BY <1>1, SucceedsBooks
<1>5. k \in 0..Len(t)
  BY <1>0, <1>2, <1>3, BatchIsFront
<1> HIDE DEF t, k
<1>6. /\ Lines(file') /\ Len(file') = Len(t) - k
      /\ \A i \in 1..Len(file') : file'[i] = t[k + i]
      /\ Held(file') \subseteq Held(file)
      /\ Clean(t) => Clean(file')
  BY <1>3, <1>4, <1>5, TailOfLines
<1>7. QueueTypeOK'
  BY <1>4, <1>6 DEF QueueTypeOK, Lines, QueueInv, TypeOK
<1>8. faulted' \in BOOLEAN
  BY <1>1 DEF QueueInv, TypeOK
<1>9. TypeOK' /\ BreakerInv'
  BY <1>1, <1>7, <1>8, SucceedsBooks
<1>10. Ids'
  <2>1. Held(file)' = Held(file')
    BY DEF Held
  <2> QED
    BY <1>0, <1>6, <2>1 DEF Ids, QueueInv
<1>11. Sound'
  <2> SUFFICES ASSUME ~faulted PROVE
        /\ Clean(file') /\ len' = Len(file') /\ Account'
        /\ Fronted(file', acked') /\ Held(file') \cap mine' = {}
        /\ len' <= MaxEntries /\ Len(file') <= MaxBytes
    BY <1>0, <1>1 DEF Sound, Own, Clean, Held, Fronted
  <2>1. /\ Clean(file) /\ len = Len(file) /\ Account /\ Fronted(file, acked) /\ Own
        /\ len <= MaxEntries /\ Len(file) <= MaxBytes
    BY DEF QueueInv, Sound
  <2>2. t = file /\ Parsed(file) = file
    BY <1>3, <2>1
  <2>3. Clean(file') /\ len' = len - k /\ len' <= len /\ Len(file') <= Len(file)
        /\ len \in Nat /\ k \in Nat
    BY <1>3, <1>4, <1>5, <1>6, <2>1, <2>2
  <2>4. Account'
    <3>1. Unsettled = k /\ Unsettled' = 0
      BY <1>0 DEF Unsettled, k
    <3>2. count.restored + count.appended + k = len + count.settled + count.overflow
      BY <2>1, <3>1 DEF Account
    <3>3. count.restored + count.appended + 0 = (len - k) + count.settled + count.overflow
      <4>1. /\ count.restored \in Nat /\ count.appended \in Nat /\ count.overflow \in Nat
            /\ count.settled \in Nat /\ len \in Nat /\ k \in Nat
        BY <2>3, CountsFields
      <4> QED
        BY <3>2, <4>1
    <3> QED
      BY <1>0, <2>3, <3>1, <3>3 DEF Account
  <2>5. Held(file') \cap ToSet(batch) = {}
    <3>1. ASSUME NEW l \in ToSet(file'), l.entry \in ToSet(batch) PROVE FALSE
      <4>1. PICK i \in 1..Len(file') : l = file'[i]
        BY <1>6, <3>1 DEF ToSet, Lines
      <4>2. l = file[k + i] /\ k + i \in DOMAIN file
        BY <1>6, <2>2, <2>3, <4>1, <1>2
      <4>3. k + i <= k
        BY <1>0, <3>1, <4>2, BatchLines DEF k
      <4> QED
        BY <2>3, <4>1, <4>3
    <3> QED
      BY <3>1 DEF Held
  <2>6. Held(file') \cap mine' = {}
    BY <1>0, <1>6, <2>1, <2>5 DEF Own
  <2>7. Fronted(file', acked')
    <3>1. Fronted(t, acked) /\ file' \in Seq(Line)
      BY <1>6, <2>1, <2>2 DEF Lines
    <3> QED
      BY <1>0, <1>3, <1>5, <1>6, <3>1, FrontedShrinks
  <2>8. len' <= MaxEntries /\ Len(file') <= MaxBytes
    BY <1>4, <2>1, <2>3, QueueAssumption
  <2> QED
    BY <1>4, <2>3, <2>4, <2>6, <2>7, <2>8
<1>12. Carries
  BY <1>0, <1>6 DEF Carries
<1> QED
  BY <1>0, <1>9, <1>10, <1>11, <1>12 DEF QueueInv, AtFront, Told

LEMMA QueuedHead ==
    ASSUME QueueInv, Received("entry")
    PROVE  Oldest \in Oldest..(next - 1) /\ next \in Int
<1>1. channel \in Seq({"entry", "flush", "shutdown"}) /\ channel # <<>> /\ channel[1] = "entry"
  BY DEF QueueInv, TypeOK, Received
<1>2. 1 \in Queued(channel) /\ IsFiniteSet(Queued(channel)) /\ Cardinality(Queued(channel)) \in Nat
  BY <1>1, QueuedFinite DEF Queued
<1>3. Cardinality(Queued(channel)) \in Nat \ {0}
  BY <1>2, FS_EmptySet
<1>4. next \in Nat
  BY QueueAssumption DEF QueueInv, TypeOK
<1> QED
  BY <1>3, <1>4, OldestIs DEF QueueInv, Ids

\* Taking an entry off the channel: what is left to show is what became of the file.
LEMMA EnqueueKeeps ==
    ASSUME QueueInv, Received("entry"), channel' = Tail(channel), sendAt' \in BOOLEAN,
           UNCHANGED <<policy, drainVars, clock, breakerVars, acked, mine, bounds>>,
           Lines(file'), len' \in Nat, durable' = durable, Held(file') \subseteq Held(file) \cup {Oldest},
           count' \in Counts, faulted' \in BOOLEAN, Sound'
    PROVE  QueueInv' /\ Carries
<1>1. /\ channel' \in Seq({"entry", "flush", "shutdown"})
      /\ Cardinality(Queued(channel')) = Cardinality(Queued(channel)) - 1
  BY ChannelShrinks DEF QueueInv, TypeOK, Received
<1>2. Oldest' = Oldest + 1 /\ Oldest \in Nat \ {0}
  <2>1. Cardinality(Queued(channel)) \in Nat /\ next \in Nat
    BY QueuedFinite, QueueAssumption DEF QueueInv, TypeOK
  <2> QED
    BY <1>1, <2>1, OldestIs, OldestPrimed DEF bounds, QueueInv, Ids
<1>3. TypeOK'
  <2>1. QueueTypeOK'
    BY DEF QueueTypeOK, Lines, QueueInv, TypeOK
  <2> QED
    BY <1>1, <2>1 DEF QueueInv, TypeOK, policy, drainVars, clock, breakerVars, bounds
<1>4. BreakerInv'
  BY OthersKeep DEF QueueInv, drainVars, clock, breakerVars
<1>5. Ids'
  <2>1. Held(file)' = Held(file') /\ acked' = acked
    BY DEF Held
  <2>2. Held(file) \subseteq Entry /\ acked \subseteq Entry /\ Entry \subseteq Int
    BY HeldTyped
  <2>3. \A e \in Held(file) \cup acked : e < Oldest
    BY DEF QueueInv, Ids
  <2>4. \A e \in Held(file) \cup acked \cup {Oldest} : e < Oldest + 1
    <3>1. ASSUME NEW e \in Held(file) \cup acked PROVE e < Oldest + 1
      <4>1. e \in Int /\ e < Oldest
        BY <2>2, <2>3
      <4> QED
        BY <1>2, <4>1
    <3>2. Oldest < Oldest + 1
      BY <1>2
    <3> QED
      BY <3>1, <3>2
  <2>5. \A e \in Held(file)' \cup acked' : e < Oldest'
    BY <1>2, <2>1, <2>4
  <2>6. Oldest' \in Nat \ {0}
    BY <1>2
  <2> QED
    BY <2>5, <2>6 DEF Ids
<1>6. at' = "recv"
  BY DEF Received, drainVars
<1>7. Carries
  <2>1. Oldest \in Oldest..(next - 1)
    BY QueuedHead
  <2>2. Oldest' >= Oldest /\ next' = next
    BY <1>2 DEF bounds
  <2> QED
    BY <2>1, <2>2 DEF Carries
<1> QED
  BY <1>3, <1>4, <1>5, <1>6, <1>7 DEF QueueInv, AtFront, Told

LEMMA Scheduled ==
    ASSUME NEW e
    PROVE  ScheduledAfter(e) \in BOOLEAN
BY DEF ScheduledAfter

\* The entry received is one that was recorded.
LEMMA ReceivedEntry ==
    ASSUME QueueInv, Received("entry")
    PROVE  Oldest \in Entry
<1>1. Cardinality(Queued(channel)) \in Nat /\ Cardinality(Queued(Tail(channel))) \in Nat
      /\ Cardinality(Queued(Tail(channel))) = Cardinality(Queued(channel)) - 1
  <2>1. channel \in Seq({"entry", "flush", "shutdown"}) /\ channel # <<>> /\ Head(channel) = "entry"
    BY DEF QueueInv, TypeOK, Received
  <2>2. Tail(channel) \in Seq({"entry", "flush", "shutdown"})
    BY <2>1
  <2> QED
    BY <2>1, <2>2, QueuedFinite, ChannelShrinks
<1>2. next \in 1..(MaxId + 1)
  BY DEF QueueInv, TypeOK
<1>3. Oldest >= 1 /\ Oldest = next - Cardinality(Queued(channel))
  BY OldestIs DEF QueueInv, Ids
<1> QED
  BY <1>1, <1>2, <1>3, QueueAssumption DEF Entry

LEMMA SoundJoined ==
    ASSUME QueueInv, Received("entry"), ~faulted
    PROVE  LET lines == Joined(Whole(Oldest)) IN
             /\ lines \in Seq(Line) /\ Clean(lines) /\ Len(lines) = len + 1
             /\ \A i \in DOMAIN lines : lines[i].utf8 /\ lines[i].ended
             /\ Held(lines) = Held(file) \cup {Oldest}
             /\ Fronted(lines, acked) /\ Held(lines) \cap mine = {}
<1>1. /\ file \in Seq(Line) /\ Clean(file) /\ len = Len(file) /\ Fronted(file, acked)
      /\ Held(file) \cap mine = {} /\ mine \subseteq acked
  BY DEF QueueInv, Sound, Own, Received, TypeOK, QueueTypeOK
<1>2. Oldest \in Entry /\ \A e \in Held(file) \cup acked : e < Oldest
  BY ReceivedEntry DEF QueueInv, Ids
<1>3. Oldest \notin acked
  BY <1>2, QueueAssumption DEF Entry
<1> DEFINE lines == Joined(Whole(Oldest))
<1>4. /\ lines \in Seq(Line) /\ Clean(lines) /\ Len(lines) = Len(file) + 1
      /\ \A i \in DOMAIN lines : lines[i].utf8 /\ lines[i].ended
      /\ Held(lines) = Held(file) \cup {Oldest}
      /\ lines[Len(file) + 1].entry = Oldest /\ \A i \in 1..Len(file) : lines[i] = file[i]
  BY <1>1, <1>2, CleanJoined
<1> HIDE DEF lines
<1>5. Fronted(lines, acked)
  BY <1>1, <1>3, <1>4, FrontedGrows
<1> QED
  BY <1>1, <1>3, <1>4, <1>5 DEF lines

LEMMA JoinedTyped ==
    ASSUME QueueInv, Received("entry"), NEW l \in Line, l.entry \in {Oldest, Corrupt}
    PROVE  /\ Lines(Joined(l)) /\ Len(Joined(l)) \in Nat
           /\ Held(Joined(l)) \subseteq Held(file) \cup {Oldest}
<1>1. Lines(file)
  BY DEF Lines, QueueInv, TypeOK, QueueTypeOK
<1> QED
  BY <1>1, JoinedLines

LEMMA ReceivedStays ==
    ASSUME Received("entry"), UNCHANGED drainVars
    PROVE  at = "recv" /\ at' = "recv" /\ Unsettled = 0 /\ Unsettled' = 0
BY DEF Received, drainVars, Unsettled

LEMMA EnqueueOkQueues ==
    ASSUME QueueInv, EnqueueOk
    PROVE  QueueInv' /\ Carries
<1> DEFINE l == Whole(Oldest)
<1>1. /\ Received("entry") /\ channel' = Tail(channel) /\ sendAt' = ScheduledAfter(Oldest)
      /\ UNCHANGED <<policy, drainVars, clock, breakerVars, acked, mine, bounds>>
      /\ faulted' = faulted /\ count' = [count EXCEPT !.appended = @ + 1]
      /\ len + 1 <= MaxEntries /\ Len(Joined(l)) <= MaxBytes
      /\ file' = Joined(l) /\ len' = len + 1 /\ durable' = durable
  BY DEF EnqueueOk, Enqueue, AppendOk, QueueInv, TypeOK
<1>2. l \in Line /\ l.entry = Oldest
  BY <1>1, ReceivedEntry DEF Whole, Line
<1> HIDE DEF l
<1>3. Lines(file') /\ Held(file') \subseteq Held(file) \cup {Oldest}
  BY <1>1, <1>2, JoinedTyped
<1>4. /\ count \in Counts /\ count' \in Counts /\ len \in Nat /\ len' \in Nat /\ faulted' \in BOOLEAN
      /\ sendAt' \in BOOLEAN
  <2>1. count' \in Counts
    BY <1>1, CountsFields DEF Counts
  <2>2. count \in Counts /\ len \in Nat /\ len' \in Nat /\ faulted' \in BOOLEAN
    BY <1>1 DEF QueueInv, TypeOK, QueueTypeOK
  <2> QED
    BY <1>1, <2>1, <2>2, Scheduled
<1>5. Sound'
  <2> SUFFICES ASSUME ~faulted PROVE
        /\ Clean(file') /\ len' = Len(file') /\ Account'
        /\ Fronted(file', acked') /\ Held(file') \cap mine' = {}
        /\ len' <= MaxEntries /\ Len(file') <= MaxBytes
    BY <1>1, ReceivedStays DEF Sound, Own, Clean, Held, Fronted
  <2>1. Clean(file') /\ len' = Len(file') /\ Fronted(file', acked') /\ Held(file') \cap mine' = {}
    BY <1>1, SoundJoined DEF l
  <2>2. Account
    BY DEF QueueInv, Sound
  <2>3. Account'
    <3>1. /\ count'.restored = count.restored /\ count'.appended = count.appended + 1
          /\ count'.settled = count.settled /\ count'.overflow = count.overflow /\ len' = len + 1
      BY <1>1, CountsFields
    <3>2. (count.restored + count.appended) + 1 = ((len + 1) + count.settled) + count.overflow
      BY <1>1, <2>2, CountsFields, ReceivedStays DEF Account
    <3>3. count.restored + (count.appended + 1) = (len + 1) + count.settled + count.overflow
      BY <3>2, CountsFields
    <3>4. Unsettled' = 0
      BY <1>1, ReceivedStays
    <3>5. count'.restored + count'.appended = len' + count'.settled + count'.overflow
      BY <3>1, <3>3
    <3>6. count'.restored + count'.appended \in Nat
      BY <1>4 DEF Counts
    <3> QED
      BY <3>4, <3>5, <3>6 DEF Account
  <2> QED
    BY <1>1, <2>1, <2>3
<1> QED
  BY <1>1, <1>3, <1>4, <1>5, EnqueueKeeps

LEMMA TrimmedTo ==
    ASSUME NEW s \in Seq(Line), \A i \in DOMAIN s : s[i].ended
    PROVE  \E n \in 0..Len(s) :
              /\ Trimmed(s) = SubSeq(s, n + 1, Len(s))
              /\ n >= Len(s) - MaxEntries /\ n >= Len(s) - MaxBytes
<1> DEFINE a == Len(s) - MaxEntries
           b == Len(s) - MaxBytes
           n == Max({0, a, b})
<1>1. a \in Int /\ b \in Int /\ a <= Len(s) /\ b <= Len(s) /\ Len(s) \in Nat
  BY QueueAssumption
<1> HIDE DEF a, b
<1>2. \E x \in {0, a, b} : \A y \in {0, a, b} : x >= y
  <2>1. \E x \in {a, b} : x >= a /\ x >= b
    <3>1. CASE a >= b
      BY <1>1, <3>1
    <3>2. CASE ~ a >= b
      BY <1>1, <3>2
    <3> QED
      BY <3>1, <3>2
  <2>2. PICK x \in {a, b} : x >= a /\ x >= b
    BY <2>1
  <2>3. CASE x >= 0
    BY <1>1, <2>2, <2>3
  <2>4. CASE ~ x >= 0
    BY <1>1, <2>2, <2>4
  <2> QED
    BY <2>3, <2>4
<1>3. n \in {0, a, b} /\ n >= 0 /\ n >= a /\ n >= b
  BY <1>2 DEF Max
<1> HIDE DEF n
<1>4. n \in 0..Len(s)
  BY <1>1, <1>3
<1>5. Trimmed(s) = SubSeq(s, n + 1, Len(s))
  BY DEF Trimmed, n, a, b
<1> QED
  BY <1>3, <1>4, <1>5 DEF a, b

LEMMA EnqueueTrimsQueues ==
    ASSUME QueueInv, EnqueueTrims
    PROVE  QueueInv' /\ Carries
<1> DEFINE l == Whole(Oldest)
           lines == Joined(l)
           t == Terminated(Parsed(lines))
           kept == Len(Parsed(lines))
<1>1. /\ Received("entry") /\ channel' = Tail(channel) /\ sendAt' = ScheduledAfter(Oldest)
      /\ UNCHANGED <<policy, drainVars, clock, breakerVars, acked, mine, bounds>>
      /\ faulted' = faulted
      /\ count' = [count EXCEPT !.appended = @ + 1, !.overflow = @ + kept - len']
      /\ file' = Trimmed(t) /\ len' = Len(file') /\ durable' = durable
  BY DEF EnqueueTrims, Enqueue, AppendTrims, QueueInv, TypeOK
<1>2. l \in Line /\ l.entry = Oldest
  BY <1>1, ReceivedEntry DEF Whole, Line
<1>3. lines \in Seq(Line) /\ Held(lines) \subseteq Held(file) \cup {Oldest}
  <2> HIDE DEF l
  <2> QED
    BY <1>1, <1>2, JoinedTyped DEF Lines
<1>4. /\ t \in Seq(Line) /\ Len(t) = kept /\ kept \in Nat /\ \A i \in DOMAIN t : t[i].ended
      /\ Held(t) = Held(lines) /\ (Clean(lines) => t = lines /\ Parsed(lines) = lines)
  <2> HIDE DEF lines
  <2> QED
    BY <1>3, TerminatedLines
<1>5. /\ ~faulted => /\ Clean(lines) /\ Len(lines) = len + 1
                   /\ Fronted(lines, acked) /\ Held(lines) \cap mine = {}
  BY <1>1, SoundJoined
<1> HIDE DEF l, lines, t
<1>6. PICK n \in 0..kept : /\ file' = SubSeq(t, n + 1, Len(t))
                           /\ n >= Len(t) - MaxEntries /\ n >= Len(t) - MaxBytes
  BY <1>1, <1>4, TrimmedTo
<1>7. /\ Lines(file') /\ Len(file') = kept - n /\ Held(file') \subseteq Held(t) /\ (Clean(t) => Clean(file'))
      /\ \A i \in 1..Len(file') : file'[i] = t[n + i]
  BY <1>4, <1>6, TailOfLines
<1>8. /\ count \in Counts /\ count' \in Counts /\ len \in Nat /\ len' \in Nat /\ faulted' \in BOOLEAN
      /\ sendAt' \in BOOLEAN
  <2>1. count \in Counts /\ len \in Nat /\ len' \in Nat /\ faulted' \in BOOLEAN
    BY <1>1, <1>4, <1>7 DEF QueueInv, TypeOK, QueueTypeOK
  <2>2. count.overflow + kept - len' \in Nat /\ count.appended + 1 \in Nat
    BY <1>1, <1>4, <1>7, <2>1 DEF Counts
  <2>3. count' \in Counts
    BY <1>1, <2>1, <2>2 DEF Counts
  <2>4. sendAt' \in BOOLEAN
    BY <1>1, Scheduled
  <2> QED
    BY <2>1, <2>3, <2>4
<1>9. Sound'
  <2> SUFFICES ASSUME ~faulted PROVE
        /\ Clean(file') /\ len' = Len(file') /\ Account'
        /\ Fronted(file', acked') /\ Held(file') \cap mine' = {}
        /\ len' <= MaxEntries /\ Len(file') <= MaxBytes
    BY <1>1, ReceivedStays DEF Sound, Own, Clean, Held, Fronted
  <2>1. /\ t = lines /\ kept = len + 1 /\ Clean(file') /\ Held(file') \cap mine' = {}
    BY <1>1, <1>4, <1>5, <1>7
  <2>5. Fronted(file', acked')
    <3>1. Fronted(t, acked) /\ acked' = acked
      BY <1>1, <1>5, <2>1
    <3>2. n \in 0..Len(t) /\ Len(file') = Len(t) - n /\ file' \in Seq(Line)
      BY <1>4, <1>6, <1>7 DEF Lines
    <3> QED
      BY <1>4, <1>7, <3>1, <3>2, FrontedShrinks
  <2>2. Account
    BY DEF QueueInv, Sound
  <2>3. Account'
    <3>1. /\ count'.restored = count.restored /\ count'.appended = count.appended + 1
          /\ count'.settled = count.settled /\ count'.overflow = count.overflow + kept - len'
      BY <1>1, <1>8 DEF Counts
    <3> DEFINE m == len'
    <3>2. m \in Nat
      BY <1>8
    <3> HIDE DEF m
    <3>3. count.restored + (count.appended + 1) = m + count.settled + (count.overflow + (len + 1) - m)
      <4> DEFINE r == count.restored
                 a == count.appended
                 o == count.overflow
                 w == count.settled
                 q == len
      <4>1. r \in Nat /\ a \in Nat /\ o \in Nat /\ w \in Nat /\ q \in Nat
        BY CountsFields
      <4>2. count.restored + count.appended = len + count.settled + count.overflow
        BY <1>1, <2>2, CountsFields, ReceivedStays DEF Account
      <4> SUFFICES r + (a + 1) = m + w + (o + (q + 1) - m)
        OBVIOUS
      <4>3. r + a = q + w + o
        BY <4>2
      <4> HIDE DEF r, a, o, w, q
      <4> QED
        BY <3>2, <4>1, <4>3
    <3>4. count'.overflow = count.overflow + (len + 1) - m
      BY <2>1, <3>1 DEF m
    <3>5. Unsettled' = 0
      BY <1>1, ReceivedStays
    <3>6. count'.restored + count'.appended = len' + count'.settled + count'.overflow
      BY <3>1, <3>3, <3>4 DEF m
    <3>7. count'.restored + count'.appended \in Nat
      BY <1>8 DEF Counts
    <3> QED
      BY <3>5, <3>6, <3>7 DEF Account
  <2>4. len' <= MaxEntries /\ Len(file') <= MaxBytes
    BY <1>1, <1>4, <1>6, <1>7, QueueAssumption
  <2> QED
    BY <1>1, <2>1, <2>3, <2>4, <2>5
<1>10. Held(file') \subseteq Held(file) \cup {Oldest}
  BY <1>3, <1>4, <1>7
<1> QED
  BY <1>1, <1>7, <1>8, <1>9, <1>10, EnqueueKeeps

LEMMA PartsAreLines ==
    ASSUME NEW e \in Entry, NEW l \in Parts(e)
    PROVE  l \in Line /\ l.entry \in {e, Corrupt}
<1>1. CASE l = [entry |-> e, utf8 |-> TRUE, ended |-> FALSE]
  BY <1>1 DEF Line
<1>2. CASE \E u \in BOOLEAN : l = [entry |-> Corrupt, utf8 |-> u, ended |-> FALSE]
  BY <1>2 DEF Line
<1> QED
  BY <1>1, <1>2 DEF Parts

LEMMA EnqueueFailsQueues ==
    ASSUME QueueInv, EnqueueFails
    PROVE  QueueInv' /\ Carries
<1>1. /\ Received("entry") /\ channel' = Tail(channel) /\ sendAt' = ScheduledAfter(Oldest)
      /\ UNCHANGED <<policy, drainVars, clock, breakerVars, acked, mine, bounds>>
      /\ faulted' = TRUE
      /\ count' = [count EXCEPT !.refused = @ + 1]
      /\ TrimFails(Oldest) \/ AppendFails(Oldest)
  BY DEF EnqueueFails, Enqueue, QueueInv, TypeOK
<1>2. Oldest \in Entry
  BY <1>1, ReceivedEntry
<1>3. /\ Lines(file') /\ len' \in Nat /\ durable' = durable
      /\ Held(file') \subseteq Held(file) \cup {Oldest}
  <2>1. CASE TrimFails(Oldest)
    <3>1. Whole(Oldest) \in Line /\ Whole(Oldest).entry = Oldest
      BY <1>2 DEF Whole, Line
    <3>2. file' = Joined(Whole(Oldest)) /\ len' = len + 1 /\ durable' = durable
      BY <2>1 DEF TrimFails
    <3> QED
      BY <1>1, <3>1, <3>2, JoinedTyped DEF QueueInv, TypeOK, QueueTypeOK
  <2>2. CASE AppendFails(Oldest)
    <3>1. len' = len /\ durable' = durable /\ len \in Nat /\ Lines(file)
      BY <2>2 DEF AppendFails, QueueInv, TypeOK, QueueTypeOK, Lines
    <3>2. CASE file' = file
      BY <3>1, <3>2
    <3>3. CASE file' # file
      <4>1. PICK l \in Parts(Oldest) : file' = Joined(l)
        BY <2>2, <3>3 DEF AppendFails
      <4>2. l \in Line /\ l.entry \in {Oldest, Corrupt}
        BY <1>2, PartsAreLines
      <4>3. Lines(Joined(l)) /\ Held(Joined(l)) \subseteq Held(file) \cup {Oldest}
        BY <1>1, <4>2, JoinedTyped
      <4> QED
        BY <3>1, <4>1, <4>3
    <3> QED
      BY <3>2, <3>3
  <2> QED
    BY <1>1, <2>1, <2>2
<1>4. count' \in Counts /\ sendAt' \in BOOLEAN
  BY <1>1, CountsFields, Scheduled DEF Counts
<1>5. Sound'
  BY <1>1 DEF Sound
<1>6. faulted' \in BOOLEAN
  BY <1>1
<1> QED
  BY <1>1, <1>3, <1>4, <1>5, <1>6, EnqueueKeeps

\* The process ends and the next one opens what is left of the file.
LEMMA RestartQueues ==
    ASSUME QueueInv, Restart, Lines(file'), faulted' \in BOOLEAN,
           Held(file') \subseteq Held(file) \cup (Oldest..(next - 1)),
           ~faulted' => ~faulted /\ file' \in {file, <<>>}
    PROVE  QueueInv' /\ Carries
<1>1. /\ run' = run + 1 /\ run < MaxRuns /\ len' = Opened' /\ count' = Fresh(len')
      /\ channel' = <<>> /\ at' = "drain" /\ goal' = "run" /\ late' = FALSE
      /\ emptied' = FALSE /\ batch' = <<>> /\ sendAt' = FALSE
      /\ backoff' = FALSE /\ cooling' = FALSE /\ open' = FALSE /\ failures' = 0
      /\ mine' = {} /\ UNCHANGED <<durable, acked, next, flushes>>
  BY DEF Restart
<1>2. file' \in Seq(Line) /\ Parsed(file') \in Seq(Kept)
  BY ParsedOf DEF Lines
<1>3. Waiting' = [i \in 1..Len(Parsed(file')) |-> Parsed(file')[i].entry] /\ Len(Parsed(file')) \in Nat
  BY <1>2 DEF Waiting
<1>4. Len(Waiting') = Len(Parsed(file'))
  <2> DEFINE p == Parsed(file')
  <2>1. \A i \in 1..Len(p) : p[i].entry \in Entry
    BY <1>2 DEF Kept, Line
  <2> HIDE DEF p
  <2>2. [i \in 1..Len(p) |-> p[i].entry] \in Seq(Entry) /\ Len([i \in 1..Len(p) |-> p[i].entry]) = Len(p)
    BY <1>3, <2>1 DEF p
  <2> QED
    BY <1>3, <2>2 DEF p
<1>5. len' = IF Readable' THEN Len(Parsed(file')) ELSE 0
  BY <1>1, <1>4 DEF Opened
<1>6. len' \in Nat
  BY <1>3, <1>5
<1>7. TypeOK'
  <2>1. QueueTypeOK'
    BY <1>1, <1>6 DEF QueueTypeOK, Lines, QueueInv, TypeOK
  <2>2. count' \in Counts
    BY <1>1, <1>6 DEF Fresh, Counts
  <2>3. <<>> \in Seq(Entry) /\ Len(<<>>) = 0 /\ <<>> \in Seq({"entry", "flush", "shutdown"})
    OBVIOUS
  <2>4. batch' \in Seq(Entry) /\ Len(batch') <= MaxBatch /\ (at' \in {"sending", "settling"} <=> batch' # <<>>)
    BY <1>1, <2>3, WorkerAssumption
  <2>5. run' \in 1..MaxRuns /\ failures' \in 0..Threshold
    BY <1>1, WorkerAssumption DEF QueueInv, TypeOK
  <2> QED
    BY <1>1, <2>1, <2>2, <2>3, <2>4, <2>5 DEF QueueInv, TypeOK
<1>8. BreakerInv'
  BY RestartKeeps
<1>9. Oldest' = next /\ next \in 1..(MaxId + 1)
  <2>1. Queued(channel') = {}
    BY <1>1 DEF Queued
  <2> QED
    BY <1>1, <2>1, OldestPrimed, FS_EmptySet, QueueAssumption DEF QueueInv, TypeOK
<1>10. Ids'
  <2>1. Held(file)' = Held(file') /\ acked' = acked
    BY <1>1 DEF Held
  <2>2. Oldest = next - Cardinality(Queued(channel)) /\ Cardinality(Queued(channel)) \in Nat
    BY OldestIs, QueuedFinite DEF QueueInv, TypeOK
  <2>3. Held(file) \subseteq Entry /\ acked \subseteq Entry /\ Entry \subseteq Int
    BY HeldTyped
  <2>4. ASSUME NEW e \in Held(file) \cup acked PROVE e < next
    <3>1. e \in Int /\ e < Oldest
      BY <2>3, <2>4 DEF QueueInv, Ids
    <3> QED
      BY <1>9, <2>2, <3>1, QueueAssumption
  <2>5. \A e \in Oldest..(next - 1) : e < next
    BY <1>9, QueueAssumption
  <2>6. \A e \in Held(file)' \cup acked' : e < next
    BY <2>1, <2>4, <2>5
  <2>7. next \in Nat \ {0}
    BY <1>9, QueueAssumption
  <2> QED
    BY <1>9, <2>6, <2>7 DEF Ids
<1>11. Sound'
  <2> SUFFICES ASSUME ~faulted' PROVE
        /\ Clean(file') /\ len' = Len(file') /\ Account'
        /\ Fronted(file', acked')
        /\ len' <= MaxEntries /\ Len(file') <= MaxBytes
    BY <1>1 DEF Sound, Own, Clean, Held, Fronted
  <2>1. /\ Clean(file) /\ len = Len(file) /\ Fronted(file, acked) /\ len \in Nat
        /\ len <= MaxEntries /\ Len(file) <= MaxBytes
    BY DEF QueueInv, Sound, TypeOK, QueueTypeOK
  <2>2. Clean(<<>>) /\ Held(<<>>) = {} /\ Len(<<>>) = 0
    <3>1. DOMAIN <<>> = {}
      OBVIOUS
    <3> QED
      BY <3>1 DEF Clean, Held, ToSet
  <2>3. Clean(file') /\ Held(file') \subseteq Held(file) /\ Len(file') <= len /\ Len(file') \in Nat
    BY <1>2, <2>1, <2>2
  <2>4. file' \in Seq(Kept) /\ Readable'
    <3>1. \A i \in DOMAIN file' : file'[i] \in Line /\ file'[i].entry # Corrupt /\ file'[i].utf8
      BY <1>2, <2>3 DEF Clean, Whole
    <3>2. DOMAIN file' = 1..Len(file')
      BY <1>2
    <3>3. file' \in Seq(Kept)
      BY <1>2, <3>1, <3>2 DEF Kept
    <3> QED
      BY <3>1, <3>3 DEF Readable
  <2>5. len' = Len(file')
    BY <1>5, <2>4, ParsedAll
  <2>6. Account'
    BY <1>1, <1>6 DEF Account, Fresh, Unsettled
  <2>7. len' <= MaxEntries /\ Len(file') <= MaxBytes
    BY <2>1, <2>3, <2>5, QueueAssumption
  <2>8. Fronted(file', acked')
    <3>1. Fronted(<<>>, acked)
      <4>1. DOMAIN <<>> = {} /\ Len(<<>>) = 0
        OBVIOUS
      <4> QED
        BY <4>1, WorkerAssumption DEF Fronted
    <3> QED
      BY <1>1, <2>1, <3>1
  <2> QED
    BY <2>3, <2>5, <2>6, <2>7, <2>8
<1>12. Carries
  <2>1. Oldest <= next
    BY <1>9, OldestIs, QueuedFinite, QueueAssumption DEF QueueInv, TypeOK
  <2> QED
    BY <1>1, <1>9, <2>1 DEF Carries
<1> QED
  BY <1>1, <1>7, <1>8, <1>10, <1>11, <1>12 DEF QueueInv, AtFront, Told

LEMMA KilledQueues ==
    ASSUME QueueInv, Killed
    PROVE  QueueInv' /\ Carries
<1>1. file' \in {file, <<>>} /\ Restart /\ faulted' = faulted
  BY DEF Killed
<1>2. Lines(file) /\ Lines(<<>>) /\ Held(<<>>) = {} /\ faulted \in BOOLEAN
  <2>1. <<>> \in Seq(Line) /\ Len(<<>>) = 0 /\ DOMAIN <<>> = {} /\ 1..(0 - 1) = {}
    OBVIOUS
  <2> QED
    BY <2>1 DEF Lines, Held, ToSet, QueueInv, TypeOK, QueueTypeOK
<1>3. Lines(file') /\ Held(file') \subseteq Held(file)
  BY <1>1, <1>2
<1> QED
  BY <1>1, <1>2, <1>3, RestartQueues

LEMMA KilledWritingQueues ==
    ASSUME QueueInv, KilledWriting
    PROVE  QueueInv' /\ Carries
<1>1. Received("entry") /\ Torn(Oldest) /\ Restart /\ faulted' = TRUE
  BY DEF KilledWriting
<1>2. Oldest \in Entry
  BY <1>1, ReceivedEntry
<1>3. PICK l \in Line : l.entry \in {Oldest, Corrupt} /\ file' = Joined(l)
  BY <1>1, <1>2, PartsAreLines DEF Torn
<1>4. Lines(file') /\ Held(file') \subseteq Held(file) \cup {Oldest}
  BY <1>1, <1>3, JoinedTyped
<1>5. Oldest \in Oldest..(next - 1)
  BY <1>1, QueuedHead
<1> QED
  BY <1>1, <1>4, <1>5, RestartQueues

-------------------------------------------------------------------------------
LEMMA StartsQueue == Init => QueueInv
<1> SUFFICES ASSUME Init PROVE QueueInv
  OBVIOUS
<1>1. /\ durable \in Backings /\ file = <<>> /\ len = 0
      /\ count = Fresh(0) /\ acked = {} /\ mine = {} /\ faulted = FALSE
      /\ next = 1 /\ run = 1 /\ flushes = 0
      /\ channel = <<>> /\ at = "drain" /\ goal = "run" /\ late = FALSE
      /\ emptied = FALSE /\ batch = <<>> /\ sendAt = FALSE
      /\ backoff = FALSE /\ cooling = FALSE /\ open = FALSE /\ failures = 0
  BY DEF Init, Start
<1>2. /\ <<>> \in Seq(Entry) /\ <<>> \in Seq(Line) /\ <<>> \in Seq({"entry", "flush", "shutdown"})
      /\ Len(<<>>) = 0 /\ DOMAIN <<>> = {} /\ 1..(0 - 1) = {}
  OBVIOUS
<1>3. QueueTypeOK
  BY <1>1, <1>2, WorkerAssumption DEF QueueTypeOK
<1>4. TypeOK
  <2>1. count \in Counts
    BY <1>1 DEF Fresh, Counts
  <2>2. batch \in Seq(Entry) /\ Len(batch) <= MaxBatch /\ (at \in {"sending", "settling"} <=> batch # <<>>)
    BY <1>1, <1>2, WorkerAssumption
  <2>3. /\ next \in 1..(MaxId + 1) /\ run \in 1..MaxRuns /\ flushes \in 0..MaxFlushes
        /\ failures \in 0..Threshold
    BY <1>1, WorkerAssumption, QueueAssumption
  <2> QED
    BY <1>1, <1>2, <1>3, <2>1, <2>2, <2>3 DEF TypeOK
<1>5. Oldest = 1
  <2>1. Queued(channel) = {}
    BY <1>1, <1>2 DEF Queued
  <2>2. Cardinality(Queued(channel)) = 0
    BY <2>1, FS_EmptySet
  <2>3. Oldest = next - Cardinality(Queued(channel))
    BY <1>4, OldestIs
  <2> QED
    BY <1>1, <2>2, <2>3
<1>6. Held(file) = {} /\ Clean(file)
  BY <1>1, <1>2 DEF Held, Clean, ToSet
<1>7. Ids
  BY <1>1, <1>5, <1>6 DEF Ids
<1>8. Sound
  <2>1. Account /\ Own
    BY <1>1 DEF Account, Fresh, Unsettled, Own
  <2>2. Fronted(file, acked)
    BY <1>1, <1>2, WorkerAssumption DEF Fronted
  <2> QED
    BY <1>1, <1>2, <1>6, <2>1, <2>2, QueueAssumption DEF Sound
<1> QED
  BY <1>1, <1>4, <1>7, <1>8, StartsClosed DEF QueueInv, AtFront, Told

LEMMA StepKeepsQueue == QueueInv /\ [Next]_vars => QueueInv' /\ Carries
<1> SUFFICES ASSUME QueueInv, [Next]_vars PROVE QueueInv' /\ Carries
  OBVIOUS
<1>1. CASE UNCHANGED vars
  <2>1. /\ UNCHANGED <<file, len, durable, channel, count, acked, mine, faulted, next, run, flushes, goal, late,
                      cooling, failures, sendAt, backoff, open, at, emptied, batch>>
    BY <1>1 DEF vars, queueVars, drainVars, clock, breakerVars, bookVars, bounds
  <2>2. TypeOK'
    BY <2>1, QueueTypesKeep DEF QueueInv, TypeOK
  <2>3. BreakerInv'
    BY <2>1 DEF QueueInv, BreakerInv
  <2>4. Oldest' = Oldest /\ Oldest \in Nat
    BY <2>1 DEF Oldest, QueueInv, Ids
  <2> QED
    BY <2>1, <2>2, <2>3, <2>4, QuietKeeps
<1> QED
  BY <1>1, HostQueues, ClocksQueue, TakesQueue, DrainQueues, SendsFront, TransientQueues,
     AnsweredQueues, UnsettledQueues, SettledQueues, EnqueueOkQueues, EnqueueTrimsQueues, EnqueueFailsQueues,
     KilledQueues, KilledWritingQueues DEF Next

\* Every reachable state keeps the queue, its file, its books and its batch together.
THEOREM QueueKept == Spec => []QueueInv
BY StartsQueue, StepKeepsQueue, PTL DEF Spec

LEMMA BooksFollow ==
    ASSUME QueueInv
    PROVE  QueueContract /\ FlushTrue
<1>1. file \in Seq(Line) /\ TypeOK /\ Waiting \in Seq(Entry) /\ ToSet(Waiting) = Held(file)
  BY WaitingIsHeld DEF QueueInv, TypeOK, QueueTypeOK
<1>2. ASSUME ~faulted
      PROVE  /\ len = Len(Waiting) /\ Account /\ Own
             /\ len <= MaxEntries /\ Len(file) <= MaxBytes
             /\ \E n \in 0..MaxBatch :
                  n <= Len(Waiting) /\ ToSet(Waiting) \cap acked = ToSet(SubSeq(Waiting, 1, n))
  <2>1. /\ Clean(file) /\ len = Len(file) /\ Account /\ Own /\ Fronted(file, acked)
        /\ len <= MaxEntries /\ Len(file) <= MaxBytes
    BY <1>2 DEF QueueInv, Sound
  <2>2. Len(Waiting) = Len(file) /\ \A i \in DOMAIN file : Waiting[i] = file[i].entry
    BY <1>1, <2>1, CleanWaiting
  <2>3. PICK n \in 0..MaxBatch : n <= Len(file) /\ \A i \in DOMAIN file : file[i].entry \in acked <=> i <= n
    BY <2>1 DEF Fronted
  <2> DEFINE w == Waiting
             f == SubSeq(w, 1, n)
  <2>4. /\ DOMAIN file = 1..Len(w) /\ DOMAIN w = 1..Len(w) /\ Len(w) \in Nat /\ n \in 0..Len(w)
        /\ \A i \in 1..Len(w) : w[i] \in acked <=> i <= n
    BY <1>1, <2>2, <2>3, WorkerAssumption
  <2>5. w \in Seq(Entry)
    BY <1>1
  <2> HIDE DEF w
  <2>6. Len(f) = n /\ DOMAIN f = 1..n /\ \A i \in 1..n : f[i] = w[i]
    BY <2>4, <2>5
  <2> HIDE DEF f
  <2>7. ToSet(w) \cap acked = ToSet(f)
    <3>1. ToSet(w) = {w[i] : i \in 1..Len(w)} /\ ToSet(f) = {f[i] : i \in 1..n}
      BY <2>4, <2>6 DEF ToSet
    <3>2. ASSUME NEW e \in ToSet(w), e \in acked PROVE e \in ToSet(f)
      <4>1. PICK i \in 1..Len(w) : e = w[i]
        BY <3>1
      <4>2. i \in 1..n
        BY <2>4, <3>2, <4>1
      <4> QED
        BY <2>6, <3>1, <4>1, <4>2
    <3>3. ASSUME NEW e \in ToSet(f) PROVE e \in ToSet(w) /\ e \in acked
      <4>1. PICK i \in 1..n : e = w[i]
        BY <2>6, <3>1
      <4>2. i \in 1..Len(w) /\ i <= n
        BY <2>4
      <4> QED
        BY <2>4, <3>1, <4>1, <4>2
    <3> QED
      BY <3>2, <3>3
  <2> QED
    BY <2>1, <2>2, <2>3, <2>4, <2>7 DEF w, f
<1>3. QueueContract
  <2>1. NoResend
    BY <1>1, <1>2 DEF NoResend, Own
  <2> QED
    BY <1>1, <1>2, <2>1 DEF QueueContract, Books, Limited, Account
<1>4. ASSUME at = "after", emptied, ~faulted
      PROVE  Waiting = <<>>
  <2>1. file = <<>> /\ len = 0
    BY <1>4 DEF QueueInv, Told, Sound
  <2> QED
    BY <1>1, <1>2, <1>4, <2>1, WaitingIsHeld, EmptySeq
<1> QED
  BY <1>3, <1>4 DEF FlushTrue

\* The queue keeps its books and stays within its limits, whatever is killed,
\* retried or trimmed; a run resends nothing that was answered to it, and kills
\* between an answer and drop_front leave one batch at most to be sent again, the
\* oldest entries (QueueContract).
THEOREM QueueContractHolds == Spec => []QueueContract
BY QueueKept, BooksFollow, PTL

\* A flush that is told true has left nothing waiting (FlushTrue).
THEOREM FlushTrueHolds == Spec => []FlushTrue
BY QueueKept, BooksFollow, PTL

-------------------------------------------------------------------------------
(* The entries of a run, as Delivery has them. *)

Recorded == {e \in Entry : e < next}
OnItsWay == OnChannel \cup ToSet(Waiting)

OnlyRecorded ==
    /\ OnItsWay = (Oldest..(next - 1)) \cup Held(file)
    /\ OnItsWay \subseteq Recorded /\ acked \subseteq Recorded
    /\ Oldest \in Int /\ next \in Int /\ Oldest >= 1 /\ Oldest <= next

LEMMA RecordedOnly == QueueInv => OnlyRecorded
<1> SUFFICES ASSUME QueueInv PROVE OnlyRecorded
  OBVIOUS
<1>1. ToSet(Waiting) = Held(file)
  BY WaitingIsHeld DEF QueueInv, TypeOK, QueueTypeOK
<1>2. /\ Oldest \in Int /\ next \in 1..(MaxId + 1) /\ Oldest >= 1 /\ Oldest <= next
  BY OldestIs, QueuedFinite, QueueAssumption DEF QueueInv, TypeOK, Ids
<1>3. OnChannel = Oldest..(next - 1)
  BY <1>2, QueueAssumption DEF OnChannel, Entry
<1>4. ASSUME NEW e \in Held(file) \cup acked
      PROVE  e \in Recorded
  <2>1. e \in Entry /\ e \in Int /\ e < Oldest
    BY <1>4, HeldTyped DEF QueueInv, Ids
  <2>2. e < next
    BY <1>2, <2>1, QueueAssumption
  <2> QED
    BY <2>1, <2>2 DEF Recorded
<1>5. OnChannel \subseteq Recorded
  BY DEF OnChannel, Recorded
<1> QED
  BY <1>1, <1>2, <1>3, <1>4, <1>5, QueueAssumption DEF OnItsWay, OnlyRecorded

\* What was recorded is sent, on its way, or lost.
LEMMA StatusIs ==
    /\ Status \in [Entry -> {"new", "pending", "sent", "lost"}]
    /\ \A e \in Entry :
          /\ Status[e] = "sent" <=> e \in acked
          /\ Status[e] = "pending" <=> e \notin acked /\ e \in OnItsWay
          /\ Status[e] = "lost" <=> e \notin acked /\ e \notin OnItsWay /\ e \in Recorded
          /\ Status[e] = "new" <=> e \notin acked /\ e \notin OnItsWay /\ e \notin Recorded
BY DEF Status, OnItsWay, Recorded

LEMMA StatusPrimed ==
    /\ Status' \in [Entry -> {"new", "pending", "sent", "lost"}]
    /\ \A e \in Entry :
          /\ Status'[e] = "sent" <=> e \in acked'
          /\ Status'[e] = "pending" <=> e \notin acked' /\ e \in OnItsWay'
          /\ Status'[e] = "lost" <=> e \notin acked' /\ e \notin OnItsWay' /\ e \in Recorded'
          /\ Status'[e] = "new" <=> e \notin acked' /\ e \notin OnItsWay' /\ e \notin Recorded'
BY DEF Status, OnItsWay, Recorded

LEMMA RecordedOnlyNext == QueueInv' => OnlyRecorded'
BY RecordedOnly, PTL

\* A step leaves what was settled settled, and what was lost lost; an entry comes
\* on its way when it is recorded, and only then.
LEMMA StepDelivers == QueueInv /\ [Next]_vars => [D!Step]_Status
<1> SUFFICES ASSUME QueueInv, [Next]_vars PROVE D!Step
  OBVIOUS
<1>1. QueueInv' /\ Carries
  BY StepKeepsQueue
<1>2. OnlyRecorded /\ OnlyRecorded'
  BY <1>1, RecordedOnly, RecordedOnlyNext
<1>3. acked \subseteq acked' /\ acked' \subseteq acked \cup OnItsWay
  BY <1>1, <1>2 DEF Carries, OnlyRecorded
<1>4. Recorded \subseteq Recorded'
  <2>1. \A e \in Entry : e < next => e < next'
    BY <1>1, <1>2, QueueAssumption DEF Carries, OnlyRecorded, Entry
  <2> QED
    BY <2>1 DEF Recorded
<1>5. OnItsWay' \cap Recorded \subseteq OnItsWay
  <2> SUFFICES ASSUME NEW e \in OnItsWay', e \in Recorded PROVE e \in OnItsWay
    OBVIOUS
  <2>1. e \in Int /\ e < next
    BY QueueAssumption DEF Recorded, Entry
  <2>2. CASE e \in Held(file')
    BY <1>1, <1>2, <2>2 DEF Carries, OnlyRecorded
  <2>3. CASE e \notin Held(file')
    <3>1. Held(file)' = Held(file')
      BY DEF Held
    <3>2. e \in Oldest'..(next' - 1)
      BY <1>2, <2>3, <3>1 DEF OnlyRecorded
    <3>3. e >= Oldest
      BY <1>1, <1>2, <2>1, <3>2 DEF Carries, OnlyRecorded
    <3> QED
      BY <1>2, <2>1, <3>3 DEF OnlyRecorded
  <2> QED
    BY <2>2, <2>3
<1>6. Recorded' \ Recorded \subseteq OnItsWay'
  <2> SUFFICES ASSUME NEW e \in Recorded', e \notin Recorded PROVE e \in OnItsWay'
    OBVIOUS
  <2>1. e \in Entry /\ e \in Int /\ e < next' /\ ~ e < next
    BY QueueAssumption DEF Recorded, Entry
  <2>2. next' = next + 1 /\ Oldest' = Oldest
    BY <1>1, <2>1 DEF Carries
  <2>3. e \in Oldest'..(next' - 1)
    BY <1>2, <2>1, <2>2 DEF OnlyRecorded
  <2> QED
    BY <1>2, <2>3 DEF OnlyRecorded
<1>7. Status' \in [Entry -> D!Statuses]
  BY StatusPrimed DEF D!Statuses
<1>8. ASSUME NEW e \in Entry, Status'[e] # Status[e]
      PROVE  <<Status[e], Status'[e]>> \in D!Moves
  <2>1. /\ acked \subseteq Recorded /\ OnItsWay \subseteq Recorded
        /\ acked' \subseteq Recorded' /\ OnItsWay' \subseteq Recorded'
    BY <1>2 DEF OnlyRecorded
  <2>2. Status[e] \in {"new", "pending", "sent", "lost"} /\ Status'[e] \in {"new", "pending", "sent", "lost"}
    BY StatusIs, StatusPrimed
  <2>3. CASE Status[e] = "sent"
    BY <1>3, <1>8, <2>3, StatusIs, StatusPrimed
  <2>4. CASE Status[e] = "lost"
    BY <1>3, <1>4, <1>5, <1>8, <2>4, StatusIs, StatusPrimed
  <2>5. CASE Status[e] = "pending"
    <3>1. Status'[e] # "new"
      BY <1>4, <2>1, <2>5, StatusIs, StatusPrimed
    <3> QED
      BY <1>8, <2>2, <2>5, <3>1 DEF D!Moves
  <2>6. CASE Status[e] = "new"
    <3>1. e \notin acked' /\ e \notin Recorded
      BY <1>3, <2>1, <2>6, StatusIs
    <3>2. Status'[e] \in {"new", "pending"}
      BY <1>6, <2>1, <2>2, <3>1, StatusPrimed
    <3> QED
      BY <1>8, <2>6, <3>2 DEF D!Moves
  <2> QED
    BY <2>2, <2>3, <2>4, <2>5, <2>6
<1> QED
  BY <1>7, <1>8 DEF D!Step

LEMMA StartsNew == Init => D!Init
<1> SUFFICES ASSUME Init PROVE D!Init
  OBVIOUS
<1>1. QueueInv /\ next = 1 /\ acked = {}
  BY StartsQueue DEF Init
<1>2. Recorded = {}
  BY <1>1, QueueAssumption DEF Recorded, Entry
<1>3. OnItsWay = {}
  BY <1>1, <1>2, RecordedOnly DEF OnlyRecorded
<1>4. \A e \in Entry : Status[e] = "new"
  BY <1>1, <1>2, <1>3, StatusIs
<1> QED
  BY <1>4 DEF D!Init, Status

\* A recorded entry is settled, or lost once and for good, through kills, restarts,
\* torn lines and refused writes: the desktop client implements Delivery.
THEOREM DeliveryImplemented == Spec => ImplementsDelivery
BY QueueKept, StartsNew, StepDelivers, PTL DEF Spec, ImplementsDelivery, D!Spec
===============================================================================
