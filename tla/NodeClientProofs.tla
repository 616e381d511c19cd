---------------------------- MODULE NodeClientProofs ----------------------------
(***************************************************************************)
(* Proofs about NodeClient and NodeDelivery, for every policy, size and    *)
(* number of runs.  They rest on ClientAssumption and StoreAssumption.     *)
(*                                                                         *)
(* IInv, below, is inductive: the types, the books, the bounds and the     *)
(* interval timer, together with Custody, which says that entries are in   *)
(* the sender's hands only during its await.  Without Custody a drain that *)
(* starts could overwrite what another still held.                         *)
(*                                                                         *)
(* DInv, further down, is inductive with it: the order of what is held,    *)
(* and a copy of it in the segment or in the chain of writes that no later *)
(* snapshot leaves out.  It also says what load() and a memory queue can   *)
(* have found, and that everything known was recorded before `next`;       *)
(* without these an entry could come back that was answered for.           *)
(***************************************************************************)
EXTENDS NodeDelivery, SequenceTheorems, FiniteSetTheorems, TLAPS

-------------------------------------------------------------------------------
(* What the operators of queue.ts, and the grouping of a slice, return.    *)

\* trim() keeps what it does not count as dropped, and never more than fits.
LEMMA TrimKeeps ==
    ASSUME NEW q \in Seq(Entry)
    PROVE  /\ Trim(q) \in Seq(Entry)
           /\ Overflow(q) \in Nat
           /\ Len(Trim(q)) + Overflow(q) = Len(q)
           /\ Len(Trim(q)) <= Capacity
<1>1. Len(q) \in Nat /\ Overflow(q) \in Nat /\ Overflow(q) <= Len(q)
  BY ClientAssumption, LenProperties DEF Overflow
<1>2. \A i \in (Overflow(q) + 1)..Len(q) : q[i] \in Entry
  BY <1>1, ElementOfSeq
<1>3. /\ SubSeq(q, Overflow(q) + 1, Len(q)) \in Seq(Entry)
      /\ Len(SubSeq(q, Overflow(q) + 1, Len(q))) =
           IF Overflow(q) + 1 <= Len(q) THEN Len(q) - (Overflow(q) + 1) + 1 ELSE 0
  BY <1>1, <1>2, SubSeqProperties
<1>4. Len(Trim(q)) = Len(q) - Overflow(q)
  BY <1>1, <1>3 DEF Trim
<1>5. Len(q) - Overflow(q) <= Capacity
  BY <1>1, ClientAssumption DEF Overflow
<1> QED
  BY <1>1, <1>3, <1>4, <1>5 DEF Trim

\* take() splits a queue that is not empty: nothing is lost between the parts.
LEMMA TakeSplits ==
    ASSUME NEW q \in Seq(Entry), q # <<>>
    PROVE  /\ Taken(q) \in Seq(Entry) /\ Rest(q) \in Seq(Entry)
           /\ Len(Taken(q)) + Len(Rest(q)) = Len(q)
           /\ Len(Taken(q)) \in 1..MaxEntriesPerFlush
<1> DEFINE m == Smaller(MaxEntriesPerFlush, Len(q))
<1>1. Len(q) \in Nat \ {0} /\ m \in 1..Len(q) /\ m <= MaxEntriesPerFlush
  BY ClientAssumption, EmptySeq, LenProperties DEF Smaller
<1>2. \A i \in 1..Len(q) : q[i] \in Entry
  BY ElementOfSeq
<1>3. SubSeq(q, 1, m) \in Seq(Entry) /\ Len(SubSeq(q, 1, m)) = m
  BY <1>1, <1>2, SubSeqProperties
<1>4. /\ SubSeq(q, m + 1, Len(q)) \in Seq(Entry)
      /\ Len(SubSeq(q, m + 1, Len(q))) = Len(q) - m
  <2>1. /\ SubSeq(q, m + 1, Len(q)) \in Seq(Entry)
        /\ Len(SubSeq(q, m + 1, Len(q))) =
             IF m + 1 <= Len(q) THEN Len(q) - (m + 1) + 1 ELSE 0
    BY <1>1, <1>2, SubSeqProperties
  <2> QED BY <1>1, <2>1
<1> QED
  BY <1>1, <1>3, <1>4 DEF Taken, Rest

\* groupIntoBatches() rearranges a slice: it adds and loses no entry.
LEMMA GroupedPermutes ==
    ASSUME NEW s \in Seq(Entry), NEW t \in Grouped(s)
    PROVE  t \in Seq(Entry) /\ Len(t) = Len(s)
<1>1. PICK p \in [1..Len(s) -> 1..Len(s)] : t = [k \in 1..Len(s) |-> s[p[k]]]
  BY DEF Grouped
<1>2. Len(s) \in Nat /\ \A k \in 1..Len(s) : s[p[k]] \in Entry
  BY <1>1, LenProperties, ElementOfSeq
<1>3. t \in [1..Len(s) -> Entry]
  BY <1>1, <1>2
<1> QED
  BY <1>2, <1>3, LenProperties

\* The first batch of a slice has at least one entry and no more than the slice.
LEMMA BatchNotEmpty ==
    ASSUME NEW s \in Seq(Entry), s # <<>>
    PROVE  BatchLen(s) \in 1..Len(s)
<1> DEFINE B == {n \in 1..Len(s) :
                   n <= MaxBatch /\ \A i \in 1..n : GroupOf[s[i]] = GroupOf[s[1]]}
<1>1. Len(s) \in Nat \ {0}
  BY EmptySeq
<1>2. IsFiniteSet(1..Len(s)) /\ Cardinality(1..Len(s)) = Len(s)
  BY <1>1, FS_Interval
<1>3. IsFiniteSet(B) /\ Cardinality(B) \in Nat /\ Cardinality(B) <= Len(s)
  BY <1>2, FS_Subset, FS_CardinalityType
<1>4. 1 \in B
  BY <1>1, ClientAssumption
<1>5. Cardinality(B) # 0
  BY <1>3, <1>4, FS_EmptySet
<1> QED
  BY <1>1, <1>3, <1>5 DEF BatchLen

-------------------------------------------------------------------------------
(* The types of the store.                                                 *)

\* What a failed or interrupted write leaves is a file of whole lines.
LEMMA TornTyped ==
    ASSUME WriteTypeOK, NEW f \in Torn
    PROVE  f \in Seq(Entry)
<1>1. CASE tail = <<>> \/ degraded
  BY <1>1 DEF Torn, WriteTypeOK
<1>2. CASE ~(tail = <<>> \/ degraded)
  <2> DEFINE w == Head(tail)
  <2>1. w \in WriteOp
    BY <1>2, HeadTailProperties DEF WriteTypeOK
  <2>2. w.lines \in Seq(Entry) /\ Len(w.lines) \in Nat
    BY <2>1, LenProperties DEF WriteOp
  <2>3. ASSUME NEW n \in 0..Len(w.lines)
        PROVE  file \o SubSeq(w.lines, 1, n) \in Seq(Entry)
    <3>1. \A i \in 1..n : w.lines[i] \in Entry
      BY <2>2, ElementOfSeq
    <3>2. SubSeq(w.lines, 1, n) \in Seq(Entry)
      BY <2>2, <3>1, SubSeqProperties
    <3> QED
      BY <3>2, ConcatProperties DEF WriteTypeOK
  <2>4. f = file \/ f = w.lines \/ \E n \in 0..Len(w.lines) : f = file \o SubSeq(w.lines, 1, n)
    BY <1>2 DEF Torn
  <2> QED
    BY <2>2, <2>3, <2>4 DEF WriteTypeOK
<1> QED BY <1>1, <1>2

\* record() keeps the types of the store.
LEMMA RecordTyped ==
    ASSUME WriteTypeOK, NEW e \in Entry, Record(e)
    PROVE  WriteTypeOK'
<1>1. Append(buffered, e) \in Seq(Entry)
  BY AppendProperties DEF WriteTypeOK
<1> QED
  BY <1>1 DEF Record, WriteTypeOK

\* checkpoint() and close() keep the types of the store.
LEMMA SnapshotTyped ==
    ASSUME WriteTypeOK, NEW pending \in Seq(Entry),
           Checkpoint(pending) \/ CloseStore(pending)
    PROVE  WriteTypeOK'
<1> DEFINE w == [op |-> "replace", lines |-> pending]
<1>1. w \in WriteOp /\ Append(tail, w) \in Seq(WriteOp)
  BY AppendProperties DEF WriteOp, WriteTypeOK
<1>2. <<>> \in Seq(Entry)
  BY EmptySeq
<1>3. CASE Checkpoint(pending)
  BY <1>1, <1>2, <1>3 DEF Checkpoint, Compact, WriteTypeOK
<1>4. CASE CloseStore(pending)
  <2>1. Len(Append(tail, w)) \in Nat
    BY <1>1, LenProperties
  <2> QED
    BY <1>1, <1>2, <1>4, <2>1 DEF CloseStore, Compact, WriteTypeOK
<1> QED BY <1>3, <1>4

\* What the store does by itself keeps its types.
LEMMA StorageTyped ==
    ASSUME StoreTypeOK,
           \/ FlushBuffer \/ WriteDone \/ WriteFails
           \/ ReadSegment \/ ReadFails \/ UnlinkSegment \/ UnlinkFails
    PROVE  StoreTypeOK'
<1> USE DEF StoreTypeOK, WriteTypeOK, LoadTypeOK
<1>0. <<>> \in Seq(Entry)
  BY EmptySeq
<1>1. CASE FlushBuffer
  <2> DEFINE w == [op |-> "append", lines |-> buffered]
  <2>1. w \in WriteOp /\ Append(tail, w) \in Seq(WriteOp)
    BY AppendProperties DEF WriteOp
  <2> QED
    BY <1>0, <1>1, <2>1 DEF FlushBuffer, loadVars
<1>2. CASE WriteDone
  <2> DEFINE w == Head(tail)
  <2>1. w \in WriteOp /\ Tail(tail) \in Seq(WriteOp)
    BY <1>2, HeadTailProperties DEF WriteDone
  <2>2. w.lines \in Seq(Entry) /\ Len(w.lines) \in Nat
    BY <2>1, LenProperties DEF WriteOp
  <2>3. file \o w.lines \in Seq(Entry)
    BY <2>2, ConcatProperties
  <2>4. /\ file' = file \/ file' = file \o w.lines \/ file' = w.lines
        /\ appended' = appended \/ appended' = appended + Len(w.lines) \/ appended' = 0
    BY <1>2 DEF WriteDone
  <2> HIDE DEF w
  <2>5. file' \in Seq(Entry)
    BY <2>2, <2>3, <2>4
  <2>7. appended' \in Nat
    BY <2>2, <2>4
  <2>6. /\ tail' = Tail(tail) /\ awaited' \in Nat
        /\ UNCHANGED <<buffered, writeTimer, degraded, segments, loading, cursor, adopted>>
    BY <1>2 DEF WriteDone, Shift, loadVars
  <2> QED
    BY <2>1, <2>5, <2>6, <2>7 DEF w
<1>3. CASE WriteFails
  <2>1. file' \in Seq(Entry) /\ Tail(tail) \in Seq(WriteOp)
    BY <1>3, TornTyped, HeadTailProperties DEF WriteFails
  <2>2. awaited' \in Nat
    BY <1>3 DEF WriteFails, Shift
  <2> QED
    BY <1>0, <1>3, <2>1, <2>2 DEF WriteFails, Shift, loadVars
<1>4. CASE ReadSegment
  <2>1. cursor \in 1..Len(segments)
    BY <1>4, LenProperties DEF ReadSegment
  <2>2. segments[cursor] \in Seq(Entry)
    BY <2>1, ElementOfSeq
  <2>3. adopted \o segments[cursor] \in Seq(Entry)
    BY <2>2, ConcatProperties
  <2> QED
    BY <1>4, <2>3 DEF ReadSegment, writeVars
<1>5. CASE ReadFails
  BY <1>0, <1>5 DEF ReadFails
<1>6. CASE UnlinkSegment
  <2> DEFINE S == Seq(Entry)
  <2>1. Len(segments) \in Nat /\ \A i \in 1..Len(segments) : segments[i] \in S
    BY LenProperties, ElementOfSeq
  <2>2. cursor <= Len(segments)
    BY <1>6 DEF UnlinkSegment
  <2>3. SubSeq(segments, 1, cursor - 1) \in Seq(S)
    BY <2>1, <2>2, SubSeqProperties
  <2>4. SubSeq(segments, cursor + 1, Len(segments)) \in Seq(S)
    BY <2>1, <2>2, SubSeqProperties
  <2>5. segments' \in Seq(S)
    BY <1>6, <2>3, <2>4, ConcatProperties DEF UnlinkSegment
  <2> QED
    BY <1>6, <2>5 DEF UnlinkSegment, writeVars
<1>7. CASE UnlinkFails
  <2> DEFINE emptied == [segments EXCEPT ![cursor] = <<>>]
  <2>1. emptied \in Seq(Seq(Entry)) /\ segments' \in {segments, emptied}
    BY <1>0, <1>7, ExceptSeq DEF UnlinkFails
  <2> HIDE DEF emptied
  <2>2. cursor + 1 \in Nat \ {0}
    OBVIOUS
  <2> QED
    BY <1>7, <2>1, <2>2 DEF UnlinkFails, writeVars
<1> QED BY <1>1, <1>2, <1>3, <1>4, <1>5, <1>6, <1>7

-------------------------------------------------------------------------------
(* The steps handlers share.                                               *)

\* The breaker's operations stay within its states; allow() changes no failure count.
LEMMA BreakerTyped ==
    ASSUME NEW b \in BreakerState
    PROVE  /\ Allowed(b) \in BreakerState /\ Allowed(b).failures = b.failures
           /\ Failed(b) \in BreakerState
           /\ Closed \in BreakerState /\ ~IsOpen(Closed)
<1>1. Threshold \in Nat \ {0}
  BY ClientAssumption
<1>2. Smaller(b.failures + 1, Threshold) \in 0..Threshold
  BY <1>1 DEF BreakerState, Smaller
<1>3. Failed(b) \in BreakerState
  BY <1>2 DEF Failed, BreakerState
<1>4. IsOpen(b) \in BOOLEAN
  BY DEF IsOpen
<1>5. Allowed(b) \in BreakerState /\ Allowed(b).failures = b.failures
  BY <1>4 DEF Allowed, BreakerState
<1> QED
  BY <1>1, <1>3, <1>5 DEF Closed, IsOpen, BreakerState

\* What a turn of the drain loop does with the queue q it is given.
LEMMA DrainKeeps ==
    ASSUME NEW q \in Seq(Entry), NEW b \in BreakerState, NEW retry \in BOOLEAN,
           NEW n \in Nat, Drain(q, b, retry, n)
    PROVE  /\ queue' \in Seq(Entry) /\ inflight' \in Seq(Entry)
           /\ Len(queue') + Len(inflight') = Len(q)
           /\ Len(queue') <= Len(q) /\ Len(inflight') <= MaxEntriesPerFlush
           /\ pump' \in {"sending", "ending"}
           /\ pump' = "sending" <=> inflight' # <<>>
           /\ requests' \in Nat /\ retryTimer' \in BOOLEAN
           /\ breaker' \in BreakerState /\ breaker'.failures = b.failures
           /\ inflight' # <<>> => ~Holds(b)
<1> DEFINE stop == q = <<>> \/ n >= MaxRequests \/ Holds(b)
<1>1. breaker' \in BreakerState /\ breaker'.failures = b.failures
  BY BreakerTyped DEF Drain
<1>2. CASE stop
  <2>1. /\ pump' = "ending" /\ inflight' = <<>> /\ queue' = q
        /\ requests' = 0 /\ retryTimer' = (retry \/ q # <<>>)
    BY <1>2 DEF Drain
  <2> QED
    BY <1>1, <2>1, EmptySeq, LenProperties, ClientAssumption
<1>3. CASE ~stop
  <2>1. /\ pump' = "sending" /\ inflight' \in Grouped(Taken(q))
        /\ queue' = Rest(q) /\ requests' = n + 1 /\ retryTimer' = retry
    BY <1>3 DEF Drain
  <2>2. /\ Taken(q) \in Seq(Entry) /\ Rest(q) \in Seq(Entry)
        /\ Len(Taken(q)) + Len(Rest(q)) = Len(q)
        /\ Len(Taken(q)) \in 1..MaxEntriesPerFlush
    BY <1>3, TakeSplits
  <2>3. inflight' \in Seq(Entry) /\ Len(inflight') = Len(Taken(q))
    BY <2>1, <2>2, GroupedPermutes
  <2>4. Len(Rest(q)) \in Nat /\ MaxEntriesPerFlush \in Nat
    BY <2>2, LenProperties, ClientAssumption
  <2>5. inflight' # <<>>
    BY <2>2, <2>3, <2>4, EmptySeq
  <2> QED
    BY <1>1, <1>3, <2>1, <2>2, <2>3, <2>4, <2>5
<1> QED BY <1>2, <1>3

\* The counters seen as one sum: c accounts for n entries still in custody.
Accounts(c, n) ==
    c.accepted + c.restored = n + c.sent + c.abandoned + c.dropped + c.left

\* Counting n dropped entries balances custody of n fewer.
LEMMA ShedCounts ==
    ASSUME NEW c \in Counts, NEW n \in Nat
    PROVE  /\ Shed(c, n) \in Counts
           /\ \A m, k \in Nat : Accounts(c, m) /\ m = k + n => Accounts(Shed(c, n), k)
  BY DEF Shed, Counts, Accounts

\* Counting n accepted or restored entries balances custody of n more.
LEMMA AddCounts ==
    ASSUME NEW c \in Counts, NEW n \in Nat, NEW d,
           \/ d = [c EXCEPT !.accepted = @ + n]
           \/ d = [c EXCEPT !.restored = @ + n]
    PROVE  d \in Counts /\ \A m \in Nat : Accounts(c, m) => Accounts(d, m + n)
<1>1. d \in Counts
  BY DEF Counts
<1>2. ASSUME NEW m \in Nat, Accounts(c, m)
      PROVE  Accounts(d, m + n)
  <2>1. CASE d = [c EXCEPT !.accepted = @ + n]
    BY <1>2, <2>1 DEF Counts, Accounts
  <2>2. CASE d = [c EXCEPT !.restored = @ + n]
    BY <1>2, <2>2 DEF Counts, Accounts
  <2> QED BY <2>1, <2>2
<1> QED BY <1>1, <1>2

\* Counting n entries as settled balances custody of n fewer.
LEMMA SettleCounts ==
    ASSUME NEW c \in Counts, NEW n \in Nat, NEW d,
           \/ d = [c EXCEPT !.sent = @ + n]
           \/ d = [c EXCEPT !.abandoned = @ + n]
           \/ d = [c EXCEPT !.left = @ + n]
    PROVE  d \in Counts /\ \A m, k \in Nat : Accounts(c, m) /\ m = k + n => Accounts(d, k)
  BY DEF Counts, Accounts

\* The sender holds entries exactly while it is in its await.
Custody == pump = "sending" <=> inflight # <<>>

\* pump() moves entries from the queue q to the sender, or leaves both alone.
LEMMA StartPumpKeeps ==
    ASSUME NEW q \in Seq(Entry), NEW retry \in BOOLEAN,
           SendTypeOK, Custody, Len(inflight) <= MaxEntriesPerFlush,
           StartPump(q, retry)
    PROVE  /\ queue' \in Seq(Entry) /\ inflight' \in Seq(Entry)
           /\ Len(queue') + Len(inflight') = Len(q) + Len(inflight)
           /\ Len(queue') <= Len(q) /\ Len(inflight') <= MaxEntriesPerFlush
           /\ pump' \in {"idle", "sending", "ending"}
           /\ Custody'
           /\ pump' = "idle" => pump = "idle"
           /\ requests' \in Nat /\ retryTimer' \in BOOLEAN
           /\ breaker' \in BreakerState /\ breaker'.failures = breaker.failures
           /\ requests' # requests /\ inflight' # <<>> => ~Holds(breaker)
<1>1. CASE pump = "idle" /\ ~Holds(breaker)
  <2>1. Drain(q, breaker, retry, 0)
    BY <1>1 DEF StartPump
  <2>2. inflight = <<>> /\ Len(inflight) = 0 /\ Len(q) \in Nat
    BY <1>1, EmptySeq, LenProperties DEF Custody
  <2> QED
    BY <1>1, <2>1, <2>2, DrainKeeps DEF SendTypeOK, Custody
<1>2. CASE ~(pump = "idle" /\ ~Holds(breaker))
  <2>1. /\ queue' = q /\ retryTimer' = (retry \/ pump = "idle")
        /\ UNCHANGED <<inflight, pump, requests, breaker>>
    BY <1>2 DEF StartPump
  <2> QED
    BY <2>1, LenProperties DEF SendTypeOK, Custody
<1> QED BY <1>1, <1>2

-------------------------------------------------------------------------------
(* The inductive invariant.                                                *)

IInv == TypeOK /\ Custody /\ Accounted /\ Bounded /\ TimerFollowsBreaker

\* What the shared steps leave true when a handler has made the queue q.
Kept(q) ==
    /\ SendTypeOK' /\ Custody' /\ retryTimer' \in BOOLEAN
    /\ Len(queue') + Len(inflight') = Len(q) + Len(inflight)
    /\ Len(queue') <= Len(q) /\ Len(inflight') <= MaxEntriesPerFlush
    /\ pump' = "idle" => pump = "idle"
    /\ IsOpen(breaker') <=> IsOpen(breaker)

\* A handler that calls pump(), or does not, keeps what it put in the queue.
LEMMA StepKeeps ==
    ASSUME IInv, NEW q \in Seq(Entry), attempt' = attempt,
           StartPump(q, retryTimer) \/ StartPump(q, FALSE) \/ NoPump(q)
    PROVE  Kept(q)
<1>1. SendTypeOK /\ retryTimer \in BOOLEAN /\ Len(inflight) <= MaxEntriesPerFlush
  BY DEF IInv, TypeOK, TimerTypeOK, Bounded
<1>2. CASE StartPump(q, retryTimer)
  BY <1>1, <1>2, StartPumpKeeps DEF IInv, Kept, SendTypeOK, IsOpen
<1>3. CASE StartPump(q, FALSE)
  BY <1>1, <1>3, StartPumpKeeps DEF IInv, Kept, SendTypeOK, IsOpen
<1>4. CASE NoPump(q)
  BY <1>1, <1>4, LenProperties DEF NoPump, IInv, Kept, SendTypeOK, IsOpen, Custody
<1> QED BY <1>2, <1>3, <1>4

\* The constructor establishes the invariant.
LEMMA InitIInv ==
    ASSUME Init
    PROVE  IInv
<1>1. <<>> \in Seq(Entry) /\ <<>> \in Seq(Seq(Entry)) /\ <<>> \in Seq(WriteOp)
      /\ Len(<<>>) = 0
  BY EmptySeq
<1>2. cfg \in Config /\ cfg.disk \in BOOLEAN /\ cfg.mode \in Modes
  BY ClientAssumption DEF Init, Config
<1>3. StoreTypeOK
  <2>1. loading \in {"none", "reading"}
    BY DEF Init, StoreInit
  <2>2. WriteTypeOK
    BY <1>1 DEF Init, StoreInit, WriteTypeOK
  <2> QED
    BY <1>1, <2>1, <2>2 DEF Init, StoreInit, StoreTypeOK, LoadTypeOK
<1>4. SendTypeOK /\ Custody /\ ~IsOpen(breaker)
  BY <1>1, ClientAssumption DEF Init, SendTypeOK, Custody, Closed, IsOpen, BreakerState
<1>5. TimerTypeOK /\ CallTypeOK
  BY DEF Init, TimerTypeOK, CallTypeOK
<1>6. BookTypeOK
  BY ClientAssumption DEF Init, BookTypeOK, Counts, NoCounts
<1>7. Accounted /\ Bounded
  BY <1>1, ClientAssumption DEF Init, Accounted, NoCounts, Bounded
<1>8. TimerFollowsBreaker
  BY <1>4 DEF Init, TimerFollowsBreaker
<1> QED
  BY <1>2, <1>3, <1>4, <1>5, <1>6, <1>7, <1>8 DEF IInv, TypeOK

\* enqueue() preserves it: an overflow is counted where it happens.
LEMMA EnqueueIInv ==
    ASSUME IInv, NEW urgent \in BOOLEAN, Enqueue(urgent)
    PROVE  IInv'
<1> DEFINE pushed == Append(queue, next)
           q == Trim(pushed)
<1>1. next \in Entry /\ next' \in 1..(MaxId + 1)
  BY ClientAssumption DEF Enqueue, IInv, TypeOK, BookTypeOK
<1>2. pushed \in Seq(Entry) /\ Len(pushed) = Len(queue) + 1
  BY <1>1, AppendProperties DEF IInv, TypeOK, SendTypeOK
<1>3. /\ q \in Seq(Entry) /\ Overflow(pushed) \in Nat
      /\ Len(q) + Overflow(pushed) = Len(pushed) /\ Len(q) <= Capacity
  BY <1>2, TrimKeeps
<1>4. Kept(q)
  <2>1. attempt' = attempt /\ (StartPump(q, retryTimer) \/ NoPump(q))
    BY DEF Enqueue
  <2> QED BY <1>3, <2>1, StepKeeps
<1> DEFINE more == [count EXCEPT !.accepted = @ + 1]
<1>5. /\ count' \in Counts
      /\ \A k \in Nat : k + Overflow(pushed) = Len(queue) + Len(inflight) + 1
                           => Accounts(count', k)
  <2>1. count \in Counts /\ Accounts(count, Len(queue) + Len(inflight))
        /\ Len(queue) + Len(inflight) \in Nat
    BY LenProperties DEF IInv, TypeOK, SendTypeOK, BookTypeOK, Accounted, Accounts
  <2>2. more \in Counts /\ Accounts(more, Len(queue) + Len(inflight) + 1)
    BY <2>1, AddCounts
  <2>3. count' = Shed(more, Overflow(pushed))
    BY DEF Enqueue
  <2> HIDE DEF more, pushed
  <2> QED
    BY <1>3, <2>1, <2>2, <2>3, ShedCounts
<1>6. /\ coalesceTimer' \in BOOLEAN
      /\ UNCHANGED <<cfg, intervalTimer, calls, closing, gaveUp, run, acked, exposed,
                     segments, loading, cursor, adopted>>
  <2>1. coalesceTimer \in BOOLEAN
    BY DEF IInv, TypeOK, TimerTypeOK
  <2>2. \/ coalesceTimer' = coalesceTimer
        \/ coalesceTimer' = (coalesceTimer \/ (cfg.mode = "immediate" /\ pump = "idle"))
    BY DEF Enqueue
  <2> QED
    BY <2>1, <2>2 DEF Enqueue, callVars, loadVars
<1>7. WriteTypeOK'
  BY <1>1, RecordTyped DEF Enqueue, IInv, TypeOK, StoreTypeOK
<1>8. BookTypeOK'
  BY <1>1, <1>5, <1>6 DEF IInv, TypeOK, BookTypeOK
<1>9. Accounted'
  <2>1. /\ Len(queue) \in Nat /\ Len(inflight) \in Nat
        /\ Len(queue') \in Nat /\ Len(inflight') \in Nat
    BY <1>4, LenProperties DEF IInv, TypeOK, SendTypeOK, Kept
  <2>2. Len(queue') + Len(inflight') + Overflow(pushed) = Len(queue) + Len(inflight) + 1
    BY <1>2, <1>3, <1>4, <2>1 DEF Kept
  <2> HIDE DEF pushed
  <2>3. Accounts(count', Len(queue') + Len(inflight'))
    BY <1>5, <2>1, <2>2
  <2> QED
    BY <2>3 DEF Accounted, Accounts
<1>10. TypeOK'
  BY <1>4, <1>6, <1>7, <1>8
     DEF IInv, TypeOK, StoreTypeOK, LoadTypeOK, TimerTypeOK, CallTypeOK, Kept
<1>11. Bounded'
  <2>1. Len(q) \in Nat /\ Len(queue') \in Nat /\ Capacity \in Nat
    BY <1>3, <1>4, LenProperties, ClientAssumption DEF Kept, SendTypeOK
  <2> QED
    BY <1>3, <1>4, <2>1 DEF Kept, Bounded
<1>12. TimerFollowsBreaker'
  BY <1>4, <1>6 DEF Kept, IInv, TimerFollowsBreaker
<1> QED
  BY <1>4, <1>9, <1>10, <1>11, <1>12 DEF IInv, Kept

\* The elements of a sequence of entries are entries.
LEMMA ToSetTyped ==
    ASSUME NEW s \in Seq(Entry)
    PROVE  ToSet(s) \subseteq Entry
  BY ElementOfSeq DEF ToSet

\* The bound load() applies returns a sequence of entries.
LEMMA WithinDiskBoundTyped ==
    ASSUME NEW s \in Seq(Entry)
    PROVE  WithinDiskBound(s) \in Seq(Entry)
<1>1. Len(s) \in Nat /\ MaxDiskEntries \in Nat
  BY LenProperties, StoreAssumption
<1>2. CASE Len(s) > MaxDiskEntries
  <2>1. \A i \in (Len(s) - MaxDiskEntries + 1)..Len(s) : s[i] \in Entry
    BY <1>1, <1>2, ElementOfSeq
  <2> QED
    BY <1>1, <1>2, <2>1, SubSeqProperties DEF WithinDiskBound
<1> QED
  BY <1>1, <1>2 DEF WithinDiskBound

\* The history variable exposed stays a set of entries.
LEMMA ExposeTyped ==
    ASSUME exposed \subseteq Entry, NEW S \in SUBSET Entry, Expose(S)
    PROVE  exposed' \subseteq Entry
  BY DEF Expose

\* Steps that leave everything in custody where it is.
LEMMA IdleIInv ==
    ASSUME IInv, UNCHANGED <<cfg, sendVars, count, next, run, acked>>,
           exposed' \subseteq Entry, StoreTypeOK', TimerTypeOK', CallTypeOK',
           closing' = "open" => closing = "open" /\ intervalTimer' = intervalTimer
    PROVE  IInv'
<1> USE DEF sendVars
<1>1. TypeOK'
  BY DEF IInv, TypeOK, SendTypeOK, BookTypeOK
<1>2. Custody' /\ Accounted' /\ Bounded'
  BY DEF IInv, Custody, Accounted, Bounded
<1>3. TimerFollowsBreaker'
  BY DEF IInv, TimerFollowsBreaker, IsOpen
<1> QED BY <1>1, <1>2, <1>3 DEF IInv

\* flush() and the exit hook preserve it, apart from the turn that pumps.
LEMMA FlushIInv ==
    ASSUME IInv,
           \/ UserFlush \/ ExitHook \/ UserReturns \/ ExitReturns
           \/ \E c \in Callers : FlushTimeout(c)
    PROVE  IInv'
<1>1. /\ StoreTypeOK /\ TimerTypeOK /\ CallTypeOK /\ exposed \subseteq Entry
      /\ queue \in Seq(Entry) /\ inflight \in Seq(Entry)
  BY DEF IInv, TypeOK, BookTypeOK, SendTypeOK
<1>2. UNCHANGED <<cfg, sendVars, timerVars, closing, count, next, run, acked, loadVars>>
  BY DEF UserFlush, ExitHook, UserReturns, ExitReturns, FlushTimeout, bookVars, storeVars
<1>3. CallTypeOK'
  BY <1>1 DEF CallTypeOK, Ask, UserFlush, ExitHook, UserReturns, ExitReturns, FlushTimeout
<1>4. WriteTypeOK' /\ exposed' \subseteq Entry
  <2>1. CASE ExitReturns
    <3>1. \/ Checkpoint(queue) /\ Expose(ToSet(inflight))
          \/ UNCHANGED <<writeVars, exposed>>
      BY <2>1 DEF ExitReturns
    <3>2. Checkpoint(queue) => WriteTypeOK'
      BY <1>1, SnapshotTyped DEF StoreTypeOK
    <3> QED
      BY <1>1, <3>1, <3>2, ExposeTyped, ToSetTyped DEF StoreTypeOK, WriteTypeOK, writeVars
  <2>2. CASE ~ExitReturns
    <3>1. UNCHANGED <<writeVars, exposed>>
      BY <2>2 DEF UserFlush, ExitHook, UserReturns, FlushTimeout, bookVars, storeVars
    <3> QED
      BY <1>1, <3>1 DEF StoreTypeOK, WriteTypeOK, writeVars
  <2> QED BY <2>1, <2>2
<1>5. StoreTypeOK' /\ TimerTypeOK'
  BY <1>1, <1>2, <1>4 DEF StoreTypeOK, LoadTypeOK, loadVars, TimerTypeOK, timerVars
<1> QED
  BY <1>2, <1>3, <1>4, <1>5, IdleIInv DEF timerVars, CallTypeOK

\* Steps that hand the queue q to the shared steps, having counted already.
LEMMA SendIInv ==
    ASSUME IInv, NEW q \in Seq(Entry), Kept(q), Len(q) <= Capacity,
           UNCHANGED <<cfg, intervalTimer, closing>>,
           StoreTypeOK', coalesceTimer' \in BOOLEAN, CallTypeOK', BookTypeOK',
           Accounts(count', Len(q) + Len(inflight))
    PROVE  IInv'
<1>1. TypeOK'
  BY DEF IInv, TypeOK, Kept, TimerTypeOK
<1>2. Accounted'
  BY DEF Accounted, Accounts, Kept
<1>3. Bounded'
  <2>1. Len(q) \in Nat /\ Len(queue') \in Nat /\ Capacity \in Nat
    BY LenProperties, ClientAssumption DEF Kept, SendTypeOK
  <2> QED
    BY <2>1 DEF Kept, Bounded
<1>4. TimerFollowsBreaker'
  BY DEF Kept, IInv, TimerFollowsBreaker
<1> QED BY <1>1, <1>2, <1>3, <1>4 DEF IInv, Kept

\* The timers and the pumping turn of flush() preserve it.
LEMMA TimerIInv ==
    ASSUME IInv, IntervalFires \/ RetryFires \/ CoalesceFires \/ \E c \in Callers : FlushGo(c)
    PROVE  IInv'
<1>1. /\ queue \in Seq(Entry) /\ Len(queue) <= Capacity
      /\ Accounts(count, Len(queue) + Len(inflight))
      /\ SendTypeOK /\ coalesceTimer \in BOOLEAN /\ CallTypeOK /\ BookTypeOK /\ StoreTypeOK
  BY DEF IInv, TypeOK, SendTypeOK, TimerTypeOK, Bounded, Accounted, Accounts
<1>2. /\ UNCHANGED <<cfg, intervalTimer, closing, gaveUp, bookVars, storeVars>>
      /\ coalesceTimer' = coalesceTimer \/ coalesceTimer' = FALSE
  BY DEF IntervalFires, RetryFires, CoalesceFires, FlushGo, TimerUnchanged, callVars
<1>3. Kept(queue)
  <2>1. CASE StartPump(queue, retryTimer) \/ StartPump(queue, FALSE)
    <3>1. attempt' = attempt
      BY DEF IntervalFires, RetryFires, CoalesceFires, FlushGo, TimerUnchanged, sendVars
    <3> QED BY <1>1, <2>1, <3>1, StepKeeps
  <2>2. CASE UNCHANGED <<sendVars, retryTimer>>
    BY <1>1, <2>2, LenProperties
       DEF sendVars, Kept, IInv, TypeOK, SendTypeOK, TimerTypeOK, Custody, Bounded
  <2> QED
    BY <2>1, <2>2 DEF IntervalFires, RetryFires, CoalesceFires, FlushGo
<1>4. CallTypeOK'
  BY <1>1 DEF CallTypeOK, IntervalFires, RetryFires, CoalesceFires, FlushGo, TimerUnchanged, callVars
<1>5. StoreTypeOK' /\ BookTypeOK' /\ Accounts(count', Len(queue) + Len(inflight))
  BY <1>1, <1>2 DEF storeVars, writeVars, loadVars, bookVars, StoreTypeOK, WriteTypeOK,
                    LoadTypeOK, BookTypeOK, Accounts
<1> QED
  BY <1>1, <1>2, <1>3, <1>4, <1>5, SendIInv

\* A cooldown that elapses preserves it.
LEMMA CooldownIInv ==
    ASSUME IInv, CooldownElapses
    PROVE  IInv'
<1>1. /\ breaker' \in BreakerState /\ breaker'.failures = breaker.failures
  BY DEF CooldownElapses, IInv, TypeOK, SendTypeOK, BreakerState
<1>2. UNCHANGED <<cfg, queue, inflight, pump, requests, attempt, timerVars, callVars, bookVars, storeVars>>
  BY DEF CooldownElapses, TimerUnchanged
<1>3. TypeOK'
  BY <1>1, <1>2 DEF IInv, TypeOK, SendTypeOK, TimerTypeOK, CallTypeOK, BookTypeOK, StoreTypeOK,
       WriteTypeOK, LoadTypeOK, timerVars, callVars, bookVars, storeVars, writeVars, loadVars
<1>4. Custody' /\ Accounted' /\ Bounded' /\ TimerFollowsBreaker'
  BY <1>1, <1>2 DEF IInv, Custody, Accounted, Bounded, TimerFollowsBreaker, IsOpen,
       timerVars, callVars, bookVars
<1> QED BY <1>3, <1>4 DEF IInv

\* pump()'s finally block preserves it: syncTimer() re-establishes the timer.
LEMMA PumpEndIInv ==
    ASSUME IInv, PumpEnd
    PROVE  IInv'
<1>1. /\ pump = "ending" /\ pump' = "idle" /\ inflight = <<>>
      /\ UNCHANGED <<cfg, queue, inflight, requests, attempt, breaker, retryTimer,
                     coalesceTimer, closing, gaveUp, bookVars, loadVars>>
  BY DEF PumpEnd, IInv, Custody
<1>2. intervalTimer' = TimerWanted
  BY DEF PumpEnd
<1>3. WriteTypeOK'
  BY SnapshotTyped DEF PumpEnd, IInv, TypeOK, StoreTypeOK, SendTypeOK
<1>4. CallTypeOK'
  BY <1>1 DEF PumpEnd, Settle, IInv, TypeOK, CallTypeOK
<1>5. TimerTypeOK' /\ TimerFollowsBreaker'
  BY <1>1, <1>2 DEF IInv, TypeOK, TimerTypeOK, TimerFollowsBreaker, TimerWanted, IsClosed, IsOpen
<1>6. TypeOK'
  BY <1>1, <1>3, <1>4, <1>5 DEF IInv, TypeOK, SendTypeOK, BookTypeOK, StoreTypeOK, LoadTypeOK,
       bookVars, loadVars
<1>7. Custody' /\ Accounted' /\ Bounded'
  BY <1>1 DEF IInv, Custody, Accounted, Bounded, bookVars
<1> QED BY <1>5, <1>6, <1>7 DEF IInv

\* The last write of close() keeps the types.
LEMMA ReleaseTyped ==
    ASSUME IInv, Release
    PROVE  WriteTypeOK' /\ exposed' \subseteq Entry /\ TimerTypeOK'
<1>1. /\ WriteTypeOK /\ queue \in Seq(Entry) /\ inflight \in Seq(Entry)
      /\ exposed \subseteq Entry
  BY DEF IInv, TypeOK, StoreTypeOK, SendTypeOK, BookTypeOK
<1>2. WriteTypeOK'
  BY <1>1, SnapshotTyped DEF Release
<1>3. exposed' \subseteq Entry
  BY <1>1, ToSetTyped, ExposeTyped DEF Release
<1> QED BY <1>2, <1>3 DEF Release, TimerTypeOK

\* close() preserves it up to its last write.
LEMMA CloseIInv ==
    ASSUME IInv, Close \/ CloseFlushed
    PROVE  IInv'
<1>1. UNCHANGED <<cfg, sendVars, gaveUp, count, next, run, acked, loadVars>> /\ closing' # "open"
  BY DEF Close, CloseFlushed, Release
<1>2. WriteTypeOK' /\ exposed' \subseteq Entry /\ TimerTypeOK'
  <2>1. CASE Release
    BY <2>1, ReleaseTyped
  <2>2. CASE UNCHANGED <<timerVars, writeVars, exposed>>
    BY <2>2 DEF IInv, TypeOK, StoreTypeOK, WriteTypeOK, TimerTypeOK, BookTypeOK, timerVars, writeVars
  <2> QED BY <2>1, <2>2 DEF Close, CloseFlushed
<1>3. CallTypeOK'
  <2>1. calls' \in [Callers -> {"none", "asked", "waiting", "drained", "gaveup"}]
    BY DEF IInv, TypeOK, CallTypeOK, Close, CloseFlushed, Ask
  <2>2. closing' \in {"flushing", "storing"}
    BY DEF Close, CloseFlushed, Release
  <2> QED
    BY <1>1, <2>1, <2>2 DEF IInv, TypeOK, CallTypeOK
<1>4. StoreTypeOK'
  BY <1>1, <1>2 DEF IInv, TypeOK, StoreTypeOK, LoadTypeOK, loadVars
<1> QED
  BY <1>1, <1>2, <1>3, <1>4, IdleIInv

\* The end of close() preserves it: what is left in the queue is counted.
LEMMA CloseDoneIInv ==
    ASSUME IInv, CloseDone
    PROVE  IInv'
<1>1. /\ closing' = "closed" /\ queue' = <<>> /\ pump' = pump
      /\ UNCHANGED <<cfg, inflight, requests, attempt, breaker, timerVars, gaveUp,
                     next, run, acked, exposed, storeVars>>
  BY DEF CloseDone
<1>2. <<>> \in Seq(Entry) /\ Len(<<>>) = 0 /\ Len(queue) \in Nat /\ Len(inflight) \in Nat
  BY EmptySeq, LenProperties DEF IInv, TypeOK, SendTypeOK
<1>3. count' \in Counts /\ Accounts(count', Len(inflight))
  <2>1. count \in Counts /\ Accounts(count, Len(queue) + Len(inflight))
    BY DEF IInv, TypeOK, BookTypeOK, Accounted, Accounts
  <2>2. \/ count' = [count EXCEPT !.left = @ + Len(queue)]
        \/ count' = [count EXCEPT !.abandoned = @ + Len(queue)]
    BY DEF CloseDone
  <2> QED
    BY <1>2, <2>1, <2>2, SettleCounts
<1>4. CallTypeOK'
  BY <1>1 DEF CloseDone, Settle, IInv, TypeOK, CallTypeOK
<1>5. TypeOK'
  BY <1>1, <1>2, <1>3, <1>4 DEF IInv, TypeOK, SendTypeOK, TimerTypeOK, BookTypeOK, StoreTypeOK,
       WriteTypeOK, LoadTypeOK, timerVars, storeVars, writeVars, loadVars
<1>6. Accounted'
  BY <1>1, <1>2, <1>3 DEF Accounted, Accounts
<1>7. Custody' /\ Bounded' /\ TimerFollowsBreaker'
  BY <1>1, <1>2, ClientAssumption DEF IInv, Custody, Bounded, TimerFollowsBreaker
<1> QED BY <1>5, <1>6, <1>7 DEF IInv

\* Arithmetic for the balance of a batch.
LEMMA NatSums ==
    ASSUME NEW a \in Nat, NEW b \in Nat, NEW c \in Nat, NEW d \in Nat, c + d = b
    PROVE  a + b \in Nat /\ a + c \in Nat /\ a + b = a + c + d
  OBVIOUS

\* A batch and the ones behind it make up what is in flight.
LEMMA BatchSplits ==
    ASSUME inflight \in Seq(Entry), inflight # <<>>
    PROVE  /\ Batch \in Seq(Entry) /\ Later \in Seq(Entry)
           /\ Len(Batch) \in Nat /\ Len(Later) \in Nat
           /\ Len(Batch) + Len(Later) = Len(inflight)
<1> DEFINE n == BatchLen(inflight)
<1>1. n \in 1..Len(inflight) /\ Len(inflight) \in Nat
  BY BatchNotEmpty, LenProperties
<1> HIDE DEF n
<1>2. \A i \in 1..Len(inflight) : inflight[i] \in Entry
  BY ElementOfSeq
<1>3. SubSeq(inflight, 1, n) \in Seq(Entry) /\ Len(SubSeq(inflight, 1, n)) = n
  BY <1>1, <1>2, SubSeqProperties
<1>4. /\ SubSeq(inflight, n + 1, Len(inflight)) \in Seq(Entry)
      /\ Len(SubSeq(inflight, n + 1, Len(inflight))) =
           IF n + 1 <= Len(inflight) THEN Len(inflight) - (n + 1) + 1 ELSE 0
  BY <1>1, <1>2, SubSeqProperties
<1>5. /\ Len(SubSeq(inflight, n + 1, Len(inflight))) = Len(inflight) - n
  BY <1>1, <1>4
<1> QED
  BY <1>1, <1>3, <1>4, <1>5 DEF Batch, Later, n

\* What an answer leaves untouched.
RespondFrame ==
    UNCHANGED <<cfg, intervalTimer, coalesceTimer, callVars, next, run, exposed, storeVars>>

\* What an answer does not touch keeps its type.
LEMMA FrameTyped ==
    ASSUME IInv, RespondFrame
    PROVE  /\ cfg' \in Config /\ StoreTypeOK' /\ CallTypeOK' /\ closing' = closing
           /\ intervalTimer' = intervalTimer /\ intervalTimer \in BOOLEAN
           /\ coalesceTimer' \in BOOLEAN
           /\ next' \in 1..(MaxId + 1) /\ run' \in 1..MaxRuns /\ exposed' \subseteq Entry
  BY DEF RespondFrame, IInv, TypeOK, StoreTypeOK, WriteTypeOK, LoadTypeOK, CallTypeOK, BookTypeOK,
         TimerTypeOK, callVars, storeVars, writeVars, loadVars

\* A 2xx or a refusal preserves it: the batch is settled, the rest stays in custody.
LEMMA AnsweredIInv ==
    ASSUME IInv, NEW ok \in BOOLEAN, Answered(ok), RespondFrame
    PROVE  IInv'
<1>1. /\ pump = "sending" /\ inflight # <<>> /\ inflight \in Seq(Entry)
      /\ queue \in Seq(Entry) /\ Len(queue) \in Nat /\ Len(inflight) \in Nat
      /\ Len(queue) <= Capacity /\ Len(inflight) <= MaxEntriesPerFlush
      /\ requests \in Nat /\ retryTimer \in BOOLEAN /\ attempt \in 0..MaxRetries
  BY LenProperties DEF Answered, IInv, Custody, TypeOK, SendTypeOK, TimerTypeOK, Bounded
<1>2. /\ Batch \in Seq(Entry) /\ Later \in Seq(Entry)
      /\ Len(Batch) \in Nat /\ Len(Later) \in Nat
      /\ Len(Batch) + Len(Later) = Len(inflight)
  BY <1>1, BatchSplits
<1>3. /\ queue' \in Seq(Entry) /\ inflight' \in Seq(Entry)
      /\ Len(queue') + Len(inflight') = Len(queue) + Len(Later)
      /\ Len(queue') <= Len(queue) /\ Len(inflight') <= MaxEntriesPerFlush
      /\ pump' \in {"sending", "ending"} /\ Custody'
      /\ requests' \in Nat /\ retryTimer' \in BOOLEAN /\ breaker' \in BreakerState
  <2>1. Closed \in BreakerState
    BY BreakerTyped DEF IInv, TypeOK, SendTypeOK
  <2>2. CASE Later # <<>>
    <3>1. /\ inflight' = Later /\ requests' = requests + 1 /\ breaker' = Closed
          /\ UNCHANGED <<queue, pump, retryTimer>>
      BY <2>2 DEF Answered
    <3>2. MaxEntriesPerFlush \in Nat
      BY ClientAssumption
    <3> QED
      BY <1>1, <1>2, <2>1, <2>2, <3>1, <3>2 DEF Custody
  <2>3. CASE Later = <<>>
    <3>1. Drain(queue, Closed, retryTimer, requests)
      BY <2>3 DEF Answered
    <3>2. Len(Later) = 0
      BY <2>3, EmptySeq
    <3> QED
      BY <1>1, <2>1, <3>1, <3>2, DrainKeeps DEF Custody
  <2> QED BY <2>2, <2>3
<1>4. attempt' \in 0..MaxRetries /\ acked' \subseteq Entry
  <2>1. acked \subseteq Entry /\ 0 \in 0..MaxRetries
    BY ClientAssumption DEF IInv, TypeOK, BookTypeOK
  <2> QED
    BY <1>1, <1>2, <2>1, ToSetTyped DEF Answered
<1>5. count' \in Counts /\ Accounts(count', Len(queue) + Len(Later))
  <2>1. count \in Counts /\ Accounts(count, Len(queue) + Len(inflight))
    BY DEF IInv, TypeOK, BookTypeOK, Accounted, Accounts
  <2>2. \/ count' = [count EXCEPT !.sent = @ + Len(Batch)]
        \/ count' = [count EXCEPT !.abandoned = @ + Len(Batch)]
    BY DEF Answered
  <2>3. /\ Len(queue) + Len(inflight) \in Nat /\ Len(queue) + Len(Later) \in Nat
        /\ Len(queue) + Len(inflight) = Len(queue) + Len(Later) + Len(Batch)
    <3>1. Len(Later) + Len(Batch) = Len(inflight)
      BY <1>2
    <3>2. /\ Len(queue) \in Nat /\ Len(inflight) \in Nat
          /\ Len(Later) \in Nat /\ Len(Batch) \in Nat
      BY <1>1, <1>2
    <3> QED
      BY <3>1, <3>2, NatSums
  <2>4. count' \in Counts
    BY <1>2, <2>1, <2>2, SettleCounts
  <2>5. Accounts(count', Len(queue) + Len(Later))
    BY <1>2, <2>1, <2>2, <2>3, SettleCounts
  <2> QED
    BY <2>4, <2>5
<1>6. TypeOK'
  BY <1>3, <1>4, <1>5, FrameTyped DEF TypeOK, SendTypeOK, TimerTypeOK, BookTypeOK
<1>7. Accounted'
  BY <1>3, <1>5 DEF Accounted, Accounts
<1>8. Bounded'
  <2>1. Len(queue') \in Nat /\ Capacity \in Nat
    BY <1>3, LenProperties, ClientAssumption
  <2> QED
    BY <1>1, <1>3, <2>1 DEF Bounded
<1>9. TimerFollowsBreaker'
  BY <1>3 DEF TimerFollowsBreaker
<1> QED BY <1>3, <1>6, <1>7, <1>8, <1>9 DEF IInv

\* A transient failure preserves it: entries go back, overflow, or are given up.
LEMMA TransientIInv ==
    ASSUME IInv, Transient, RespondFrame
    PROVE  IInv'
<1> DEFINE put == PutBack(inflight, queue)
<1>1. /\ inflight \in Seq(Entry) /\ queue \in Seq(Entry)
      /\ Len(queue) \in Nat /\ Len(inflight) \in Nat /\ Len(queue) <= Capacity
      /\ attempt \in 0..MaxRetries /\ breaker \in BreakerState
      /\ count \in Counts /\ Accounts(count, Len(queue) + Len(inflight))
      /\ acked \subseteq Entry /\ retryTimer \in BOOLEAN
  BY LenProperties DEF IInv, TypeOK, SendTypeOK, TimerTypeOK, BookTypeOK, Bounded, Accounted, Accounts
<1>2. /\ breaker' = Failed(breaker) /\ pump' = "ending" /\ inflight' = <<>>
      /\ requests' = 0 /\ acked' = acked
  BY DEF Transient
<1>3. <<>> \in Seq(Entry) /\ Len(<<>>) = 0 /\ MaxRetries \in Nat /\ MaxEntriesPerFlush \in Nat
  BY EmptySeq, ClientAssumption
<1>4. breaker' \in BreakerState
  BY <1>1, <1>2, BreakerTyped
<1>5. /\ queue' \in Seq(Entry) /\ Len(queue') <= Capacity
      /\ attempt' \in 0..MaxRetries /\ retryTimer' \in BOOLEAN
      /\ count' \in Counts /\ Accounts(count', Len(queue'))
  <2>1. CASE OutOfRetries
    <3>1. /\ count' = [count EXCEPT !.abandoned = @ + Len(inflight)]
          /\ attempt' = 0 /\ UNCHANGED <<queue, retryTimer>>
      BY <2>1 DEF Transient, GivenUp
    <3>2. count' \in Counts /\ Accounts(count', Len(queue))
      BY <1>1, <3>1, SettleCounts
    <3> QED
      BY <1>1, <1>3, <3>1, <3>2
  <2>2. CASE ~OutOfRetries
    <3>1. /\ queue' = Trim(put) /\ count' = Shed(count, Overflow(put))
          /\ attempt' = attempt + 1 /\ retryTimer' = TRUE
      BY <2>2 DEF Transient
    <3>2. put \in Seq(Entry) /\ Len(put) = Len(inflight) + Len(queue)
      BY <1>1, ConcatProperties DEF PutBack
    <3>3. /\ Trim(put) \in Seq(Entry) /\ Overflow(put) \in Nat
          /\ Len(Trim(put)) + Overflow(put) = Len(put) /\ Len(Trim(put)) <= Capacity
      BY <3>2, TrimKeeps
    <3> HIDE DEF put
    <3>4. Len(Trim(put)) \in Nat /\ Len(queue) + Len(inflight) = Len(Trim(put)) + Overflow(put)
      BY <1>1, <3>2, <3>3, LenProperties
    <3>5. count' \in Counts /\ Accounts(count', Len(Trim(put)))
      BY <1>1, <3>1, <3>3, <3>4, ShedCounts
    <3>6. attempt' \in 0..MaxRetries
      BY <1>1, <1>3, <2>2, <3>1 DEF OutOfRetries
    <3> QED
      BY <3>1, <3>3, <3>5, <3>6
  <2> QED BY <2>1, <2>2
<1>6. TypeOK'
  BY <1>1, <1>2, <1>3, <1>4, <1>5, FrameTyped DEF TypeOK, SendTypeOK, TimerTypeOK, BookTypeOK
<1>7. Accounted'
  <2>1. Len(queue') \in Nat
    BY <1>5, LenProperties
  <2> QED
    BY <1>2, <1>3, <1>5, <2>1 DEF Accounted, Accounts
<1>8. Custody' /\ Bounded' /\ TimerFollowsBreaker'
  BY <1>2, <1>3, <1>5 DEF Custody, Bounded, TimerFollowsBreaker
<1> QED BY <1>6, <1>7, <1>8 DEF IInv

\* Every outcome of a request preserves it.
LEMMA RespondIInv ==
    ASSUME IInv, Respond
    PROVE  IInv'
<1>1. RespondFrame /\ (Answered(TRUE) \/ Answered(FALSE) \/ Transient)
  BY DEF Respond, RespondFrame
<1> QED
  BY <1>1, AnsweredIInv, TransientIInv

\* restore() preserves it: adopted entries are counted, and so is their overflow.
LEMMA RestoreIInv ==
    ASSUME IInv, Restore
    PROVE  IInv'
<1> DEFINE lines == WithinDiskBound(adopted)
           put == PutBack(lines, queue)
           q == Trim(put)
           early == IsClosed \/ lines = <<>>
<1>1. /\ StoreTypeOK /\ adopted \in Seq(Entry) /\ inflight \in Seq(Entry) /\ queue \in Seq(Entry)
      /\ Len(queue) \in Nat /\ Len(inflight) \in Nat
      /\ count \in Counts /\ Accounts(count, Len(queue) + Len(inflight))
      /\ exposed \subseteq Entry /\ acked \subseteq Entry
      /\ coalesceTimer \in BOOLEAN /\ intervalTimer \in BOOLEAN
  BY LenProperties DEF IInv, TypeOK, StoreTypeOK, LoadTypeOK, SendTypeOK, TimerTypeOK, BookTypeOK,
       Accounted, Accounts
<1>2. /\ lines \in Seq(Entry) /\ Len(lines) \in Nat
      /\ put \in Seq(Entry) /\ Len(put) = Len(lines) + Len(queue)
  BY <1>1, WithinDiskBoundTyped, LenProperties, ConcatProperties DEF PutBack
<1>3. /\ q \in Seq(Entry) /\ Overflow(put) \in Nat /\ Len(q) \in Nat
      /\ Len(q) + Overflow(put) = Len(put) /\ Len(q) <= Capacity
  BY <1>2, TrimKeeps, LenProperties
<1>4. /\ loading' = "read" /\ adopted' = <<>>
      /\ UNCHANGED <<cfg, callVars, next, run, acked, segments, cursor>>
  BY DEF Restore
<1>5. LoadTypeOK' /\ CallTypeOK'
  BY <1>1, <1>4, EmptySeq DEF IInv, TypeOK, StoreTypeOK, LoadTypeOK, CallTypeOK, callVars
<1>6. CASE early
  <2>1. UNCHANGED <<sendVars, timerVars, count, exposed, writeVars>>
    BY <1>6 DEF Restore
  <2>2. StoreTypeOK' /\ TimerTypeOK'
    BY <1>1, <1>5, <2>1 DEF IInv, TypeOK, StoreTypeOK, WriteTypeOK, TimerTypeOK, writeVars, timerVars
  <2> QED
    BY <1>1, <1>4, <1>5, <2>1, <2>2, IdleIInv DEF callVars, timerVars
<1>7. CASE ~early
  <2> DEFINE more == [count EXCEPT !.restored = @ + Len(lines)]
  <2>1. /\ Expose(ToSet(lines) \cup ToSet(inflight)) /\ Checkpoint(q)
        /\ count' = Shed(more, Overflow(put))
        /\ StartPump(q, retryTimer) \/ NoPump(q)
        /\ \/ coalesceTimer' = coalesceTimer
           \/ coalesceTimer' = (coalesceTimer \/ (cfg.mode = "immediate" /\ pump = "idle"))
        /\ attempt' = attempt /\ intervalTimer' = intervalTimer
    BY <1>7 DEF Restore
  <2>2. Kept(q)
    BY <1>3, <2>1, StepKeeps
  <2>3. exposed' \subseteq Entry
    <3>1. ToSet(lines) \cup ToSet(inflight) \in SUBSET Entry
      BY <1>1, <1>2, ToSetTyped
    <3> QED BY <1>1, <2>1, <3>1, ExposeTyped
  <2>4. StoreTypeOK'
    BY <1>1, <1>3, <1>5, <2>1, SnapshotTyped DEF StoreTypeOK
  <2>5. count' \in Counts /\ Accounts(count', Len(q) + Len(inflight))
    <3> HIDE DEF lines, put, q
    <3>0. Len(queue) + Len(inflight) \in Nat
      BY <1>1
    <3>1. more \in Counts /\ Accounts(more, Len(queue) + Len(inflight) + Len(lines))
      BY <1>1, <1>2, <3>0, AddCounts
    <3>2. /\ Len(queue) + Len(inflight) + Len(lines) \in Nat /\ Len(q) + Len(inflight) \in Nat
          /\ Len(queue) + Len(inflight) + Len(lines) = Len(q) + Len(inflight) + Overflow(put)
      <4>1. /\ Len(queue) \in Nat /\ Len(inflight) \in Nat /\ Len(lines) \in Nat
            /\ Len(q) \in Nat /\ Overflow(put) \in Nat
        BY <1>1, <1>2, <1>3
      <4>2. Len(q) + Overflow(put) = Len(lines) + Len(queue)
        BY <1>2, <1>3
      <4> QED
        BY <4>1, <4>2
    <3> HIDE DEF more
    <3> QED
      BY <1>3, <2>1, <3>1, <3>2, ShedCounts
  <2>6. BookTypeOK' /\ coalesceTimer' \in BOOLEAN
    BY <1>1, <1>4, <2>1, <2>3, <2>5 DEF IInv, TypeOK, BookTypeOK
  <2> HIDE DEF q
  <2> QED
    BY <1>3, <1>4, <1>5, <2>1, <2>2, <2>4, <2>5, <2>6, SendIInv DEF callVars
<1> QED BY <1>6, <1>7

\* The filesystem preserves it.
LEMMA StorageIInv ==
    ASSUME IInv, Storage
    PROVE  IInv'
<1>1. /\ StoreTypeOK /\ TimerTypeOK /\ CallTypeOK /\ exposed \subseteq Entry
      /\ buffered \in Seq(Entry)
  BY DEF IInv, TypeOK, BookTypeOK, StoreTypeOK, WriteTypeOK
<1>2. UNCHANGED <<cfg, sendVars, timerVars, callVars, count, next, run, acked>>
  BY DEF Storage
<1>3. StoreTypeOK'
  BY <1>1, StorageTyped DEF Storage
<1>4. exposed' \subseteq Entry
  BY <1>1, ToSetTyped DEF Storage
<1>5. TimerTypeOK' /\ CallTypeOK'
  BY <1>1, <1>2 DEF TimerTypeOK, CallTypeOK, timerVars, callVars
<1> QED
  BY <1>2, <1>3, <1>4, <1>5, IdleIInv DEF timerVars, callVars

\* A crash preserves it: the next run starts with empty hands and empty books.
LEMMA CrashIInv ==
    ASSUME IInv, Crash
    PROVE  IInv'
<1>1. /\ <<>> \in Seq(Entry) /\ <<>> \in Seq(WriteOp) /\ Len(<<>>) = 0
      /\ Capacity \in Nat /\ MaxEntriesPerFlush \in Nat /\ MaxRuns \in Nat
      /\ MaxRetries \in Nat
  BY EmptySeq, ClientAssumption
<1>2. StoreTypeOK'
  <2>1. PICK left \in Torn : segments' = IF left = <<>> THEN segments ELSE Append(segments, left)
    BY DEF Crash, CrashStore
  <2>2. left \in Seq(Entry)
    BY TornTyped DEF IInv, TypeOK, StoreTypeOK
  <2>3. segments' \in Seq(Seq(Entry))
    BY <2>1, <2>2, AppendProperties DEF IInv, TypeOK, StoreTypeOK, LoadTypeOK
  <2>4. /\ buffered' = <<>> /\ writeTimer' = FALSE /\ tail' = <<>>
        /\ file' = <<>> /\ appended' = 0 /\ degraded' = FALSE
        /\ adopted' = <<>> /\ loading' \in {"none", "reading"}
        /\ awaited' = 0 /\ cursor' \in {1, Len(segments') + 1}
    BY DEF Crash, CrashStore
  <2>7. cursor' \in Nat \ {0}
    BY <2>3, <2>4, LenProperties
  <2>5. WriteTypeOK'
    BY <1>1, <2>4 DEF WriteTypeOK
  <2>6. LoadTypeOK'
    BY <1>1, <2>3, <2>4, <2>7 DEF LoadTypeOK
  <2> QED
    BY <2>5, <2>6 DEF StoreTypeOK
<1>3. /\ queue' = <<>> /\ inflight' = <<>> /\ pump' = "idle" /\ requests' = 0
      /\ attempt' = 0 /\ breaker' = Closed /\ count' = NoCounts
      /\ intervalTimer' = (cfg.mode = "interval") /\ retryTimer' = FALSE /\ coalesceTimer' = FALSE
      /\ calls' = [c \in Callers |-> "none"] /\ closing' = "open" /\ gaveUp' = FALSE
      /\ exposed' = {} /\ run < MaxRuns /\ run' = run + 1 /\ UNCHANGED <<cfg, next, acked>>
  BY DEF Crash
<1>4. Closed \in BreakerState /\ ~IsOpen(Closed)
  BY ClientAssumption DEF Closed, BreakerState, IsOpen
<1>5. SendTypeOK' /\ Custody'
  BY <1>1, <1>3, <1>4 DEF SendTypeOK, Custody
<1>6. TimerTypeOK' /\ CallTypeOK'
  BY <1>3 DEF TimerTypeOK, CallTypeOK
<1>7. BookTypeOK'
  BY <1>1, <1>3 DEF IInv, TypeOK, BookTypeOK, Counts, NoCounts
<1>8. Accounted' /\ Bounded'
  BY <1>1, <1>3 DEF Accounted, Bounded, NoCounts
<1>9. TimerFollowsBreaker'
  BY <1>3, <1>4 DEF TimerFollowsBreaker
<1> QED
  BY <1>2, <1>3, <1>5, <1>6, <1>7, <1>8, <1>9 DEF IInv, TypeOK

\* A step of somebody else preserves it.
LEMMA StutterIInv ==
    ASSUME IInv, UNCHANGED vars
    PROVE  IInv'
<1>1. StoreTypeOK' /\ TimerTypeOK' /\ CallTypeOK' /\ exposed' \subseteq Entry
  BY DEF IInv, TypeOK, StoreTypeOK, WriteTypeOK, LoadTypeOK, TimerTypeOK, CallTypeOK, BookTypeOK,
         vars, storeVars, writeVars, loadVars, timerVars, callVars, bookVars
<1> QED
  BY <1>1, IdleIInv DEF vars, callVars, bookVars, timerVars

-------------------------------------------------------------------------------
(* The theorems.                                                           *)

\* Every action of the client and of its store preserves IInv.
THEOREM Inductive == IInv /\ [Next]_vars => IInv'
<1> SUFFICES ASSUME IInv, [Next]_vars
             PROVE  IInv'
  OBVIOUS
<1>1. ASSUME NEW urgent \in BOOLEAN, Enqueue(urgent)
      PROVE  IInv'
  BY <1>1, EnqueueIInv
<1>2. CASE Restore
  BY <1>2, RestoreIInv
<1>3. CASE Respond
  BY <1>3, RespondIInv
<1>4. CASE PumpEnd
  BY <1>4, PumpEndIInv
<1>5. CASE IntervalFires \/ RetryFires \/ CoalesceFires \/ \E c \in Callers : FlushGo(c)
  BY <1>5, TimerIInv
<1>6. CASE CooldownElapses
  BY <1>6, CooldownIInv
<1>7. CASE UserFlush \/ ExitHook \/ UserReturns \/ ExitReturns \/ \E c \in Callers : FlushTimeout(c)
  BY <1>7, FlushIInv
<1>8. CASE Close \/ CloseFlushed
  BY <1>8, CloseIInv
<1>9. CASE CloseDone
  BY <1>9, CloseDoneIInv
<1>10. CASE Storage
  BY <1>10, StorageIInv
<1>11. CASE Crash
  BY <1>11, CrashIInv
<1>12. CASE UNCHANGED vars
  BY <1>12, StutterIInv
<1> QED
  BY <1>1, <1>2, <1>3, <1>4, <1>5, <1>6, <1>7, <1>8, <1>9, <1>10, <1>11, <1>12 DEF Next

\* The inductive invariant holds in every reachable state: what the theorems
\* below are read off from.
THEOREM Invariance == Spec => []IInv
<1>1. Init => IInv
  BY InitIInv
<1> QED
  BY <1>1, Inductive, PTL DEF Spec

\* Every variable of the client and of its store keeps its type, whatever the
\* sizes, the policy and the number of runs (the class Firstrun and DiskStore).
THEOREM TypesHold == Spec => []TypeOK
<1>1. IInv => TypeOK
  BY DEF IInv
<1> QED BY <1>1, Invariance, PTL

\* No entry is ever lost from the books, and none is counted twice.
THEOREM AccountedHolds == Spec => []Accounted
<1>1. IInv => Accounted
  BY DEF IInv
<1> QED BY <1>1, Invariance, PTL

\* The memory the client holds is bounded by its configuration alone.
THEOREM BoundedHolds == Spec => []Bounded
<1>1. IInv => Bounded
  BY DEF IInv
<1> QED BY <1>1, Invariance, PTL

\* Types, books and bounds together: what the node run checks as Contract.
THEOREM ContractHolds == Spec => []Contract
<1>1. Contract <=> TypeOK /\ Accounted /\ Bounded
  BY DEF Contract
<1>2. QED
  BY <1>1, TypesHold, AccountedHolds, BoundedHolds, PTL

\* Between drains an open client's interval timer is on exactly while its
\* breaker is closed.
THEOREM TimerFollowsBreakerHolds == Spec => []TimerFollowsBreaker
<1>1. IInv => TimerFollowsBreaker
  BY DEF IInv
<1> QED BY <1>1, Invariance, PTL

-------------------------------------------------------------------------------
(* The breaker.                                                            *)

GateStep ==
    requests' # requests /\ inflight' # <<>> =>
        \/ ~IsOpen(breaker')
        \/ IsOpen(breaker) /\ ~breaker.cooling /\ ~breaker.probing

\* pump() respects the breaker.
LEMMA StartPumpGates ==
    ASSUME IInv, NEW q \in Seq(Entry),
           StartPump(q, retryTimer) \/ StartPump(q, FALSE) \/ NoPump(q)
    PROVE  GateStep
<1>1. SendTypeOK /\ Custody /\ retryTimer \in BOOLEAN /\ Len(inflight) <= MaxEntriesPerFlush
  BY DEF IInv, TypeOK, TimerTypeOK, Bounded
<1>2. ASSUME NEW retry \in BOOLEAN, StartPump(q, retry)
      PROVE  GateStep
  <2>1. /\ breaker'.failures = breaker.failures
        /\ requests' # requests /\ inflight' # <<>> => ~Holds(breaker)
    BY <1>1, <1>2, StartPumpKeeps
  <2> QED
    BY <2>1 DEF GateStep, Holds, IsOpen
<1>3. CASE NoPump(q)
  BY <1>3 DEF NoPump, GateStep
<1> QED BY <1>1, <1>2, <1>3

\* The request that follows an answer goes out through a closed breaker.
LEMMA RespondGates ==
    ASSUME IInv, Respond
    PROVE  GateStep
<1>1. /\ queue \in Seq(Entry) /\ retryTimer \in BOOLEAN /\ requests \in Nat
      /\ Closed \in BreakerState /\ ~IsOpen(Closed)
  BY BreakerTyped DEF IInv, TypeOK, SendTypeOK, TimerTypeOK
<1>2. ASSUME NEW ok \in BOOLEAN, Answered(ok)
      PROVE  GateStep
  <2>1. CASE Later # <<>>
    <3>1. breaker' = Closed
      BY <1>2, <2>1 DEF Answered
    <3> QED BY <1>1, <3>1 DEF GateStep
  <2>2. CASE Later = <<>>
    <3>1. breaker'.failures = Closed.failures
      <4>1. Drain(queue, Closed, retryTimer, requests)
        BY <1>2, <2>2 DEF Answered
      <4> QED BY <1>1, <4>1, DrainKeeps
    <3> QED BY <1>1, <3>1 DEF GateStep, IsOpen
  <2> QED BY <2>1, <2>2
<1>3. CASE Transient
  BY <1>3 DEF Transient, GateStep
<1> QED
  BY <1>2, <1>3 DEF Respond

\* Every step respects the breaker.
LEMMA StepGates ==
    ASSUME IInv, [Next]_vars
    PROVE  GateStep
<1>1. queue \in Seq(Entry)
  BY DEF IInv, TypeOK, SendTypeOK
<1>2. ASSUME NEW urgent \in BOOLEAN, Enqueue(urgent)
      PROVE  GateStep
  <2>1. next \in Entry
    BY <1>2, ClientAssumption DEF Enqueue, IInv, TypeOK, BookTypeOK
  <2>2. Trim(Append(queue, next)) \in Seq(Entry)
    BY <1>1, <2>1, AppendProperties, TrimKeeps
  <2>3. \/ StartPump(Trim(Append(queue, next)), retryTimer)
        \/ NoPump(Trim(Append(queue, next)))
    BY <1>2 DEF Enqueue
  <2> QED BY <2>2, <2>3, StartPumpGates
<1>3. CASE Restore
  <2> DEFINE q == Trim(PutBack(WithinDiskBound(adopted), queue))
  <2>1. q \in Seq(Entry)
    <3>1. WithinDiskBound(adopted) \in Seq(Entry)
      BY WithinDiskBoundTyped DEF IInv, TypeOK, StoreTypeOK, LoadTypeOK
    <3> QED
      BY <1>1, <3>1, ConcatProperties, TrimKeeps DEF PutBack
  <2>2. UNCHANGED requests \/ StartPump(q, retryTimer) \/ NoPump(q)
    BY <1>3 DEF Restore, sendVars
  <2> HIDE DEF q
  <2> QED
    BY <2>1, <2>2, StartPumpGates DEF GateStep
<1>4. CASE Respond
  BY <1>4, RespondGates
<1>5. CASE IntervalFires \/ RetryFires \/ CoalesceFires \/ \E c \in Callers : FlushGo(c)
  <2>1. StartPump(queue, retryTimer) \/ StartPump(queue, FALSE) \/ UNCHANGED requests
    BY <1>5 DEF IntervalFires, RetryFires, CoalesceFires, FlushGo, sendVars
  <2> QED
    BY <1>1, <2>1, StartPumpGates DEF GateStep
<1>6. CASE UNCHANGED requests \/ inflight' = <<>>
  BY <1>6 DEF GateStep
<1>7. UNCHANGED requests \/ inflight' = <<>> \/ Restore \/ Respond
      \/ (\E urgent \in BOOLEAN : Enqueue(urgent))
      \/ IntervalFires \/ RetryFires \/ CoalesceFires \/ \E c \in Callers : FlushGo(c)
  BY DEF Next, PumpEnd, CooldownElapses, UserFlush, ExitHook, FlushTimeout, UserReturns, ExitReturns,
         Close, CloseFlushed, CloseDone, Storage, Crash, sendVars, vars
<1> QED
  BY <1>2, <1>3, <1>4, <1>5, <1>6, <1>7

\* No request leaves the client while its breaker is open and cooling, and an
\* open breaker lets out one probe at a time (retry.ts allow() under pump()).
THEOREM BreakerGatesHolds == Spec => BreakerGates
<1>1. IInv /\ [Next]_vars => [GateStep]_vars
  BY StepGates
<1>2. [][GateStep]_vars => BreakerGates
  BY DEF GateStep, BreakerGates
<1> QED
  BY <1>1, <1>2, Invariance, PTL DEF Spec
-------------------------------------------------------------------------------
(* The order of the entries, and what becomes of it.                       *)

\* Entries of one group rise; those of s come before those of t.
Ordered(s) ==
    \A i, j \in 1..Len(s) : i < j /\ GroupOf[s[i]] = GroupOf[s[j]] => s[i] < s[j]
Ahead(s, t) ==
    \A a \in ToSet(s), b \in ToSet(t) : GroupOf[a] = GroupOf[b] => a < b

\* A sequence has the elements of its parts.
LEMMA ConcatSet ==
    ASSUME NEW s \in Seq(Entry), NEW t \in Seq(Entry)
    PROVE  ToSet(s \o t) = ToSet(s) \cup ToSet(t)
<1>1. /\ Len(s) \in Nat /\ Len(t) \in Nat /\ Len(s \o t) = Len(s) + Len(t)
      /\ \A i \in 1..Len(s) + Len(t) :
            (s \o t)[i] = IF i <= Len(s) THEN s[i] ELSE t[i - Len(s)]
  BY ConcatProperties, LenProperties
<1>2. ASSUME NEW e \in ToSet(s \o t)
      PROVE  e \in ToSet(s) \cup ToSet(t)
  <2>1. PICK i \in 1..Len(s \o t) : e = (s \o t)[i]
    BY <1>2 DEF ToSet
  <2>2. i \in 1..Len(s) + Len(t)
    BY <1>1, <2>1
  <2>3. CASE i <= Len(s)
    <3>1. i \in 1..Len(s) /\ e = s[i]
      BY <1>1, <2>1, <2>2, <2>3
    <3> QED BY <3>1 DEF ToSet
  <2>4. CASE ~(i <= Len(s))
    <3>1. i - Len(s) \in 1..Len(t) /\ e = t[i - Len(s)]
      BY <1>1, <2>1, <2>2, <2>4
    <3> QED BY <3>1 DEF ToSet
  <2> QED BY <2>3, <2>4
<1>3. ASSUME NEW i \in 1..Len(s)
      PROVE  s[i] \in ToSet(s \o t)
  <2>1. i \in 1..Len(s \o t) /\ (s \o t)[i] = s[i]
    BY <1>1
  <2> QED BY <2>1 DEF ToSet
<1>4. ASSUME NEW i \in 1..Len(t)
      PROVE  t[i] \in ToSet(s \o t)
  <2>1. i + Len(s) \in 1..Len(s \o t) /\ (s \o t)[i + Len(s)] = t[i]
    BY <1>1
  <2> QED BY <2>1 DEF ToSet
<1> QED
  BY <1>2, <1>3, <1>4 DEF ToSet

\* A sequence is in order when its parts are, and the first is ahead of the other.
LEMMA ConcatOrdered ==
    ASSUME NEW s \in Seq(Entry), NEW t \in Seq(Entry)
    PROVE  Ordered(s \o t) <=> Ordered(s) /\ Ordered(t) /\ Ahead(s, t)
<1> DEFINE u == s \o t
<1>1. /\ Len(s) \in Nat /\ Len(t) \in Nat /\ Len(u) = Len(s) + Len(t)
      /\ \A i \in 1..Len(s) + Len(t) : u[i] = IF i <= Len(s) THEN s[i] ELSE t[i - Len(s)]
  BY ConcatProperties, LenProperties
<1> HIDE DEF u
<1>2. /\ \A i \in 1..Len(s) : i \in 1..Len(u) /\ u[i] = s[i]
      /\ \A j \in 1..Len(t) : j + Len(s) \in 1..Len(u) /\ u[j + Len(s)] = t[j]
  BY <1>1
<1>3. ASSUME Ordered(u)
      PROVE  Ordered(s) /\ Ordered(t) /\ Ahead(s, t)
  <2>1. Ordered(s)
    BY <1>2, <1>3 DEF Ordered
  <2>2. Ordered(t)
    <3> SUFFICES ASSUME NEW i \in 1..Len(t), NEW j \in 1..Len(t), i < j, GroupOf[t[i]] = GroupOf[t[j]]
                 PROVE  t[i] < t[j]
      BY DEF Ordered
    <3>1. i + Len(s) < j + Len(s)
      BY <1>1
    <3> QED BY <1>2, <1>3, <3>1 DEF Ordered
  <2>3. Ahead(s, t)
    <3> SUFFICES ASSUME NEW i \in 1..Len(s), NEW j \in 1..Len(t), GroupOf[s[i]] = GroupOf[t[j]]
                 PROVE  s[i] < t[j]
      BY DEF Ahead, ToSet
    <3>1. i < j + Len(s)
      BY <1>1
    <3> QED BY <1>2, <1>3, <3>1 DEF Ordered
  <2> QED BY <2>1, <2>2, <2>3
<1>4. ASSUME Ordered(s), Ordered(t), Ahead(s, t)
      PROVE  Ordered(u)
  <2> SUFFICES ASSUME NEW i \in 1..Len(u), NEW j \in 1..Len(u), i < j, GroupOf[u[i]] = GroupOf[u[j]]
               PROVE  u[i] < u[j]
    BY DEF Ordered
  <2>1. CASE j <= Len(s)
    <3>1. i \in 1..Len(s) /\ j \in 1..Len(s) /\ u[i] = s[i] /\ u[j] = s[j]
      BY <1>1, <2>1
    <3> QED BY <1>4, <3>1 DEF Ordered
  <2>2. CASE i <= Len(s) /\ ~(j <= Len(s))
    <3>1. i \in 1..Len(s) /\ j - Len(s) \in 1..Len(t) /\ u[i] = s[i] /\ u[j] = t[j - Len(s)]
      BY <1>1, <2>2
    <3>2. s[i] \in ToSet(s) /\ t[j - Len(s)] \in ToSet(t)
      BY <3>1 DEF ToSet
    <3> QED BY <1>4, <3>1, <3>2 DEF Ahead
  <2>3. CASE ~(i <= Len(s))
    <3>1. /\ i - Len(s) \in 1..Len(t) /\ j - Len(s) \in 1..Len(t) /\ i - Len(s) < j - Len(s)
          /\ u[i] = t[i - Len(s)] /\ u[j] = t[j - Len(s)]
      BY <1>1, <2>3
    <3> QED BY <1>4, <3>1 DEF Ordered
  <2> QED BY <1>1, <2>1, <2>2, <2>3
<1> QED BY <1>3, <1>4 DEF u

\* Cut at m, a sequence falls into two parts; in order, they share nothing.
LEMMA CutSeq ==
    ASSUME NEW s \in Seq(Entry), NEW m \in 0..Len(s)
    PROVE  LET a == SubSeq(s, 1, m)
               b == SubSeq(s, m + 1, Len(s)) IN
             /\ a \in Seq(Entry) /\ b \in Seq(Entry)
             /\ ToSet(s) = ToSet(a) \cup ToSet(b)
             /\ Ordered(s) <=> Ordered(a) /\ Ordered(b) /\ Ahead(a, b)
             /\ Ordered(s) => ToSet(a) \cap ToSet(b) = {}
<1> DEFINE a == SubSeq(s, 1, m)
           b == SubSeq(s, m + 1, Len(s))
<1>1. Len(s) \in Nat /\ \A i \in 1..Len(s) : s[i] \in Entry
  BY LenProperties, ElementOfSeq
<1>2. a \in Seq(Entry) /\ b \in Seq(Entry)
  BY <1>1, SubSeqProperties
<1>3. s = a \o b
  <2>1. /\ 1 \in 1..Len(s) + 1 /\ m \in 1 - 1..Len(s) /\ Len(s) \in m..Len(s)
    BY <1>1
  <2>2. a \o b = SubSeq(s, 1, Len(s))
    BY <2>1, ConcatAdjacentSubSeq
  <2> QED BY <2>2, SubSeqFull
<1> HIDE DEF a, b
<1>4. ToSet(s) = ToSet(a) \cup ToSet(b)
  BY <1>2, <1>3, ConcatSet
<1>5. Ordered(s) <=> Ordered(a) /\ Ordered(b) /\ Ahead(a, b)
  BY <1>2, <1>3, ConcatOrdered
<1>6. Ordered(s) => ToSet(a) \cap ToSet(b) = {}
  <2> SUFFICES ASSUME Ordered(s), NEW e \in ToSet(a), e \in ToSet(b) PROVE FALSE
    OBVIOUS
  <2>1. e < e
    BY <1>5 DEF Ahead
  <2>2. e \in Int
    BY <1>2, ToSetTyped, ClientAssumption
  <2> QED BY <2>1, <2>2
<1> QED BY <1>2, <1>4, <1>5, <1>6 DEF a, b

\* take() and trim() keep the order; what they keep was there.
LEMMA TakenOrdered ==
    ASSUME NEW q \in Seq(Entry)
    PROVE  /\ Taken(q) \in Seq(Entry) /\ Rest(q) \in Seq(Entry)
           /\ ToSet(q) = ToSet(Taken(q)) \cup ToSet(Rest(q))
           /\ Ordered(q) => Ordered(Taken(q)) /\ Ordered(Rest(q)) /\ Ahead(Taken(q), Rest(q))
<1> DEFINE m == Smaller(MaxEntriesPerFlush, Len(q))
<1>1. m \in 0..Len(q)
  BY ClientAssumption, LenProperties DEF Smaller
<1> HIDE DEF m
<1>2. /\ SubSeq(q, 1, m) \in Seq(Entry) /\ SubSeq(q, m + 1, Len(q)) \in Seq(Entry)
      /\ ToSet(q) = ToSet(SubSeq(q, 1, m)) \cup ToSet(SubSeq(q, m + 1, Len(q)))
      /\ Ordered(q) => /\ Ordered(SubSeq(q, 1, m)) /\ Ordered(SubSeq(q, m + 1, Len(q)))
                       /\ Ahead(SubSeq(q, 1, m), SubSeq(q, m + 1, Len(q)))
  BY <1>1, CutSeq
<1> QED BY <1>2 DEF Taken, Rest, m

\* trim() drops from the front, and keeps the rest in order.
LEMMA TrimOrdered ==
    ASSUME NEW q \in Seq(Entry)
    PROVE  /\ Trim(q) \in Seq(Entry) /\ ToSet(Trim(q)) \subseteq ToSet(q)
           /\ Ordered(q) => Ordered(Trim(q))
<1> DEFINE m == Overflow(q)
<1>1. m \in 0..Len(q)
  BY TrimKeeps, LenProperties
<1> HIDE DEF m
<1>2. /\ SubSeq(q, m + 1, Len(q)) \in Seq(Entry)
      /\ ToSet(q) = ToSet(SubSeq(q, 1, m)) \cup ToSet(SubSeq(q, m + 1, Len(q)))
      /\ Ordered(q) => Ordered(SubSeq(q, m + 1, Len(q)))
  BY <1>1, CutSeq
<1> QED BY <1>2 DEF Trim, m
\* A set of natural numbers has a least element.
LEMMA First ==
    ASSUME NEW C \in SUBSET Nat, C # {}
    PROVE  \E n \in C : \A m \in C : n <= m
<1>1. PICK c \in C : TRUE
  OBVIOUS
<1> DEFINE I == {0..m : m \in {k \in C : k <= c}}
<1>2. I \in SUBSET FiniteSubsetsOf(0..c)
  <2>1. IsFiniteSet(0..c)
    BY FS_Interval
  <2>2. FiniteSubsetsOf(0..c) = SUBSET (0..c)
    BY <2>1, FS_FiniteSubsetsOfFinite
  <2>3. \A m \in C : m <= c => 0..m \in SUBSET (0..c)
    OBVIOUS
  <2> QED
    BY <2>2, <2>3
<1>3. 0..c \in I
  OBVIOUS
<1>4. PICK T \in I : \A U \in I : <<U, T>> \notin StrictSubsetOrdering(0..c)
  <2> HIDE DEF I
  <2> QED
    BY <1>2, <1>3, FS_StrictSubsetOrderingWellFounded, WFMin
<1>5. PICK n \in C : n <= c /\ T = 0..n
  BY <1>4
<1>6. ASSUME NEW m \in C, ~ n <= m
      PROVE  FALSE
  <2>1. m <= c /\ 0..m \in I
    BY <1>5, <1>6
  <2>2. 0..m \subseteq 0..n /\ n \in 0..n /\ n \notin 0..m
    BY <1>6
  <2>3. 0..m \in SUBSET (0..c) /\ 0..n \in SUBSET (0..c)
    BY <1>5, <2>1
  <2> QED
    BY <1>4, <1>5, <2>1, <2>2, <2>3 DEF StrictSubsetOrdering
<1> QED
  BY <1>6

\* The first entry of its group is in the slice.
LEMMA FirstOfIndex ==
    ASSUME NEW s \in Seq(Entry), NEW i \in 1..Len(s)
    PROVE  FirstOf(s, i) \in 1..Len(s)
<1> DEFINE C == {k \in 1..Len(s) : GroupOf[s[k]] = GroupOf[s[i]]}
<1>1. C \in SUBSET Nat /\ i \in C
  BY LenProperties
<1>2. PICK j \in C : \A k \in C : j <= k
  BY <1>1, First
<1>3. j \in 1..Len(s) /\ GroupOf[s[j]] = GroupOf[s[i]]
      /\ \A k \in 1..Len(s) : GroupOf[s[k]] = GroupOf[s[i]] => j <= k
  BY <1>2
<1> QED BY <1>3 DEF FirstOf

\* groupIntoBatches() moves every entry of the slice, once, and keeps the order
\* within each group.
LEMMA GroupedOrdered ==
    ASSUME NEW s \in Seq(Entry), NEW t \in Grouped(s)
    PROVE  ToSet(t) = ToSet(s) /\ (Ordered(s) => Ordered(t))
<1> DEFINE I == 1..Len(s)
<1>1. PICK p \in [I -> I] :
        /\ \A i, j \in I : i < j => Before(s, p[i], p[j])
        /\ t = [k \in I |-> s[p[k]]]
  BY DEF Grouped
<1>2. Len(s) \in Nat /\ Len(t) = Len(s) /\ t \in Seq(Entry)
  BY GroupedPermutes, LenProperties
<1>3. \A k \in I : p[k] \in I /\ t[k] = s[p[k]]
  BY <1>1
<1>4. \A x \in I : FirstOf(s, x) \in I
  BY FirstOfIndex
<1>5. \A x \in I : ~Before(s, x, x)
  <2> SUFFICES ASSUME NEW x \in I PROVE ~Before(s, x, x)
    OBVIOUS
  <2>1. FirstOf(s, x) \in Int /\ x \in Int
    BY <1>4
  <2> QED BY <2>1 DEF Before
<1>6. p \in Injection(I, I)
  <2>1. ASSUME NEW a \in I, NEW b \in I, p[a] = p[b], a # b
        PROVE  FALSE
    <3>1. a < b \/ b < a
      BY <2>1
    <3>2. Before(s, p[a], p[a])
      BY <1>1, <2>1, <3>1
    <3> QED BY <1>3, <1>5, <3>2
  <2> QED BY <2>1 DEF Injection, IsInjective
<1>7. p \in Surjection(I, I)
  <2>1. IsFiniteSet(I)
    BY <1>2, FS_Interval
  <2> QED BY <1>6, <2>1, FS_Injection
<1>8. \A x \in I : \E k \in I : p[k] = x
  BY <1>7 DEF Surjection
<1>9. ToSet(t) = ToSet(s)
  <2>1. \A k \in I : t[k] \in ToSet(s)
    BY <1>3 DEF ToSet
  <2>2. ASSUME NEW x \in I
        PROVE  s[x] \in ToSet(t)
    <3>1. PICK k \in I : p[k] = x
      BY <1>8
    <3>2. t[k] = s[x] /\ k \in 1..Len(t)
      BY <1>2, <1>3, <3>1
    <3> QED BY <3>2 DEF ToSet
  <2> QED BY <1>2, <2>1, <2>2 DEF ToSet
<1>10. ASSUME Ordered(s)
       PROVE  Ordered(t)
  <2> SUFFICES ASSUME NEW i \in I, NEW j \in I, i < j, GroupOf[t[i]] = GroupOf[t[j]]
               PROVE  t[i] < t[j]
    BY <1>2 DEF Ordered
  <2>1. Before(s, p[i], p[j]) /\ p[i] \in I /\ p[j] \in I
    BY <1>1
  <2>2. GroupOf[s[p[i]]] = GroupOf[s[p[j]]]
    BY <1>3
  <2>3. FirstOf(s, p[i]) = FirstOf(s, p[j])
    BY <2>2 DEF FirstOf
  <2>4. FirstOf(s, p[i]) \in Int
    BY <1>4, <2>1
  <2>5. p[i] < p[j]
    BY <2>1, <2>3, <2>4 DEF Before
  <2> QED BY <1>3, <1>10, <2>1, <2>2, <2>5 DEF Ordered
<1> QED BY <1>9, <1>10

-------------------------------------------------------------------------------
(* The steps of the sender.                                                *)

\* What the client holds, and that it is in the order it has to go.
Held == ToSet(inflight) \cup ToSet(queue)
InLine(flying, waiting) == Ordered(flying) /\ Ordered(waiting) /\ Ahead(flying, waiting)

\* InOrder and NoResend are about the two parts of what is pending.
LEMMA PendingParts ==
    ASSUME queue \in Seq(Entry), inflight \in Seq(Entry)
    PROVE  ToSet(Pending) = Held /\ (InOrder <=> InLine(inflight, queue))
<1>1. ToSet(Pending) = Held
  BY ConcatSet DEF Pending, Held
<1>2. InOrder <=> Ordered(Pending)
  BY DEF InOrder, Ordered
<1>3. Ordered(Pending) <=> InLine(inflight, queue)
  BY ConcatOrdered DEF Pending, InLine
<1> QED BY <1>1, <1>2, <1>3

\* A turn of the drain loop splits what it is given between the sender's hands
\* and the queue.
LEMMA DrainOrders ==
    ASSUME NEW q \in Seq(Entry), NEW b, NEW retry, NEW n, Drain(q, b, retry, n)
    PROVE  /\ ToSet(inflight') \cup ToSet(queue') = ToSet(q)
           /\ Ordered(q) => InLine(inflight', queue')
<1>1. CASE q = <<>> \/ n >= MaxRequests \/ Holds(b)
  <2>1. inflight' = <<>> /\ queue' = q
    BY <1>1 DEF Drain
  <2>2. ToSet(<<>>) = {} /\ Ordered(<<>>)
    BY DEF ToSet, Ordered
  <2> QED BY <2>1, <2>2 DEF InLine, Ahead
<1>2. CASE ~(q = <<>> \/ n >= MaxRequests \/ Holds(b))
  <2>1. inflight' \in Grouped(Taken(q)) /\ queue' = Rest(q)
    BY <1>2 DEF Drain
  <2>2. /\ Taken(q) \in Seq(Entry) /\ ToSet(q) = ToSet(Taken(q)) \cup ToSet(Rest(q))
        /\ Ordered(q) => Ordered(Taken(q)) /\ Ordered(Rest(q)) /\ Ahead(Taken(q), Rest(q))
    BY TakenOrdered
  <2>3. /\ ToSet(inflight') = ToSet(Taken(q))
        /\ Ordered(Taken(q)) => Ordered(inflight')
    BY <2>1, <2>2, GroupedOrdered
  <2> QED BY <2>1, <2>2, <2>3 DEF InLine, Ahead
<1> QED BY <1>1, <1>2

\* pump() reorders nothing, and neither does a handler that does not call it.
LEMMA PumpOrders ==
    ASSUME NEW q \in Seq(Entry), NEW retry, Custody, inflight \in Seq(Entry),
           StartPump(q, retry) \/ NoPump(q)
    PROVE  /\ ToSet(inflight') \cup ToSet(queue') = ToSet(inflight) \cup ToSet(q)
           /\ InLine(inflight, q) => InLine(inflight', queue')
<1>1. CASE inflight' = inflight /\ queue' = q
  BY <1>1
<1>2. CASE pump = "idle" /\ Drain(q, breaker, retry, 0)
  <2>1. inflight = <<>> /\ ToSet(<<>>) = {}
    BY <1>2 DEF Custody, ToSet
  <2>2. /\ ToSet(inflight') \cup ToSet(queue') = ToSet(q)
        /\ Ordered(q) => InLine(inflight', queue')
    BY <1>2, DrainOrders
  <2> QED BY <2>1, <2>2 DEF InLine
<1> QED BY <1>1, <1>2 DEF StartPump, NoPump

\* What the client holds is in order, and no 2xx has answered for it.
Orderly == InLine(inflight, queue) /\ Held \cap acked = {}

\* A step that takes nothing on: it keeps the order, and what it answers for
\* it held.
Settles ==
    /\ Held' \subseteq Held
    /\ acked \subseteq acked' /\ acked' \subseteq acked \cup Held
    /\ Orderly => Orderly'

\* The empty sequence is in order, and ahead of any other.
LEMMA NothingOrdered ==
    ToSet(<<>>) = {} /\ Ordered(<<>>) /\ \A s : Ahead(<<>>, s) /\ Ahead(s, <<>>)
  BY DEF ToSet, Ordered, Ahead

\* Steps that leave the sender and its queue alone.
LEMMA IdleSettles ==
    ASSUME UNCHANGED <<queue, inflight, acked>>
    PROVE  Settles
  BY DEF Settles, Orderly, Held, InLine

\* A timer, or flush(), that starts a drain.
LEMMA TimerSettles ==
    ASSUME IInv, IntervalFires \/ RetryFires \/ CoalesceFires \/ \E c \in Callers : FlushGo(c)
    PROVE  Settles
<1>1. queue \in Seq(Entry) /\ inflight \in Seq(Entry) /\ Custody
  BY DEF IInv, TypeOK, SendTypeOK
<1>2. acked' = acked
  BY DEF IntervalFires, RetryFires, CoalesceFires, FlushGo, TimerUnchanged, bookVars
<1>3. \/ UNCHANGED <<queue, inflight>>
      \/ StartPump(queue, retryTimer) \/ StartPump(queue, FALSE)
  BY DEF IntervalFires, RetryFires, CoalesceFires, FlushGo, sendVars
<1>4. CASE UNCHANGED <<queue, inflight>>
  BY <1>2, <1>4, IdleSettles
<1>5. CASE StartPump(queue, retryTimer) \/ StartPump(queue, FALSE)
  <2>1. /\ ToSet(inflight') \cup ToSet(queue') = ToSet(inflight) \cup ToSet(queue)
        /\ InLine(inflight, queue) => InLine(inflight', queue')
    BY <1>1, <1>5, PumpOrders
  <2>2. Held' = Held
    BY <2>1 DEF Held
  <2>3. Orderly => Orderly'
    BY <1>2, <2>1, <2>2 DEF Orderly, InLine
  <2> QED BY <1>2, <2>2, <2>3 DEF Settles
<1> QED BY <1>3, <1>4, <1>5

\* The first batch and what is behind it are the entries in flight, in order.
LEMMA BatchOrdered ==
    ASSUME inflight \in Seq(Entry), inflight # <<>>
    PROVE  /\ Later \in Seq(Entry)
           /\ ToSet(inflight) = ToSet(Batch) \cup ToSet(Later)
           /\ Ordered(inflight) => Ordered(Later) /\ ToSet(Batch) \cap ToSet(Later) = {}
<1> DEFINE n == BatchLen(inflight)
<1>1. n \in 0..Len(inflight)
  BY BatchNotEmpty, LenProperties
<1> HIDE DEF n
<1> DEFINE a == SubSeq(inflight, 1, n)
           b == SubSeq(inflight, n + 1, Len(inflight))
<1>2. /\ b \in Seq(Entry) /\ ToSet(inflight) = ToSet(a) \cup ToSet(b)
      /\ Ordered(inflight) => Ordered(b) /\ ToSet(a) \cap ToSet(b) = {}
  BY <1>1, CutSeq
<1>3. Batch = a /\ Later = b
  BY DEF Batch, Later, n
<1> HIDE DEF a, b
<1> QED BY <1>2, <1>3

\* An answer settles the batch that was out, and nothing that is still held.
LEMMA AnsweredSettles ==
    ASSUME IInv, NEW ok \in BOOLEAN, Answered(ok)
    PROVE  Settles
<1>1. queue \in Seq(Entry) /\ inflight \in Seq(Entry) /\ inflight # <<>>
  BY DEF IInv, TypeOK, SendTypeOK, Custody, Answered
<1>2. /\ ToSet(inflight) = ToSet(Batch) \cup ToSet(Later)
      /\ Ordered(inflight) => Ordered(Later) /\ ToSet(Batch) \cap ToSet(Later) = {}
  BY <1>1, BatchOrdered
<1>3. acked' = acked \/ acked' = acked \cup ToSet(Batch)
  BY DEF Answered
<1>4. /\ ToSet(inflight') \cup ToSet(queue') = ToSet(Later) \cup ToSet(queue)
      /\ InLine(Later, queue) => InLine(inflight', queue')
  <2>1. CASE Later # <<>>
    <3>1. inflight' = Later /\ queue' = queue
      BY <2>1 DEF Answered
    <3> QED BY <3>1
  <2>2. CASE Later = <<>>
    <3>1. Drain(queue, Closed, retryTimer, requests)
      BY <2>2 DEF Answered
    <3>2. /\ ToSet(inflight') \cup ToSet(queue') = ToSet(queue)
          /\ Ordered(queue) => InLine(inflight', queue')
      BY <1>1, <3>1, DrainOrders
    <3> QED BY <2>2, <3>2, NothingOrdered DEF InLine
  <2> QED BY <2>1, <2>2
<1>5. ASSUME Orderly
      PROVE  InLine(Later, queue) /\ ToSet(Batch) \cap (ToSet(Later) \cup ToSet(queue)) = {}
  <2>1. Ordered(inflight) /\ Ordered(queue) /\ Ahead(inflight, queue)
    BY <1>5 DEF Orderly, InLine
  <2>2. Ahead(Later, queue)
    BY <1>2, <2>1 DEF Ahead
  <2>3. ASSUME NEW e \in ToSet(Batch), e \in ToSet(queue)
        PROVE  FALSE
    <3>1. e < e
      BY <1>2, <2>1, <2>3 DEF Ahead
    <3>2. e \in Int
      BY <1>1, <2>3, ToSetTyped, ClientAssumption
    <3> QED BY <3>1, <3>2
  <2> QED BY <1>2, <2>1, <2>2, <2>3 DEF InLine
<1>6. Held' \subseteq Held /\ Held' = ToSet(Later) \cup ToSet(queue)
  BY <1>2, <1>4 DEF Held
<1>7. Orderly => Orderly'
  <2> SUFFICES ASSUME Orderly PROVE Orderly'
    OBVIOUS
  <2>1. InLine(inflight', queue')
    BY <1>4, <1>5
  <2>2. Held' \cap acked' = {}
    BY <1>3, <1>5, <1>6 DEF Orderly
  <2> QED BY <2>1, <2>2 DEF Orderly, InLine
<1>8. acked \subseteq acked' /\ acked' \subseteq acked \cup Held
  BY <1>2, <1>3 DEF Held
<1> QED BY <1>6, <1>7, <1>8 DEF Settles

\* A transient failure puts the entries back in front, or gives them up.
LEMMA TransientSettles ==
    ASSUME IInv, Transient
    PROVE  Settles
<1>1. queue \in Seq(Entry) /\ inflight \in Seq(Entry)
  BY DEF IInv, TypeOK, SendTypeOK
<1>2. inflight' = <<>> /\ acked' = acked /\ ToSet(inflight') = {}
  BY NothingOrdered DEF Transient
<1>3. ToSet(queue') \subseteq Held /\ (InLine(inflight, queue) => Ordered(queue'))
  <2>1. CASE OutOfRetries
    <3>1. queue' = queue
      BY <2>1 DEF Transient
    <3> QED BY <3>1 DEF Held, InLine
  <2>2. CASE ~OutOfRetries
    <3> DEFINE put == inflight \o queue
    <3>1. queue' = Trim(put)
      BY <2>2 DEF Transient, PutBack
    <3>2. put \in Seq(Entry) /\ ToSet(put) = Held
      BY <1>1, ConcatProperties, ConcatSet DEF Held
    <3>3. InLine(inflight, queue) => Ordered(put)
      BY <1>1, ConcatOrdered DEF InLine
    <3> HIDE DEF put
    <3> QED BY <3>1, <3>2, <3>3, TrimOrdered
  <2> QED BY <2>1, <2>2
<1>4. Held' \subseteq Held
  BY <1>2, <1>3 DEF Held
<1>5. InLine(inflight, queue) => InLine(inflight', queue')
  BY <1>2, <1>3, NothingOrdered DEF InLine
<1>6. Orderly => Orderly'
  BY <1>2, <1>4, <1>5 DEF Orderly, InLine
<1> QED BY <1>2, <1>4, <1>6 DEF Settles

\* The end of close() and the end of the process let go of what is held.
LEMMA LeavingSettles ==
    ASSUME CloseDone \/ Crash
    PROVE  Settles
<1>1. queue' = <<>> /\ inflight' \in {inflight, <<>>} /\ acked' = acked
  BY DEF CloseDone, Crash
<1>2. Held' \subseteq Held
  BY <1>1, NothingOrdered DEF Held
<1>3. InLine(inflight, queue) => InLine(inflight', queue')
  BY <1>1, NothingOrdered DEF InLine
<1>4. Orderly => Orderly'
  BY <1>1, <1>2, <1>3 DEF Orderly, InLine
<1> QED BY <1>1, <1>2, <1>4 DEF Settles

\* What is held, or was answered for, was recorded before.
HeldBefore == \A e \in Held \cup acked : e < next

\* enqueue() puts the entry it records at the end, and trim() never drops that one.
LEMMA EnqueueTakes ==
    ASSUME IInv, HeldBefore, NEW urgent \in BOOLEAN, Enqueue(urgent)
    PROVE  /\ next \in Entry /\ next' = next + 1 /\ acked' = acked
           /\ Held' \subseteq Held \cup {next} /\ next \in Held'
           /\ Orderly => Orderly'
<1> DEFINE pushed == Append(queue, next)
           q == Trim(pushed)
<1>1. /\ queue \in Seq(Entry) /\ inflight \in Seq(Entry) /\ Custody
      /\ next \in Entry /\ next' = next + 1 /\ acked' = acked
  BY ClientAssumption DEF Enqueue, IInv, TypeOK, SendTypeOK, BookTypeOK
<1>2. /\ pushed = queue \o <<next>> /\ <<next>> \in Seq(Entry) /\ ToSet(<<next>>) = {next}
      /\ Ordered(<<next>>)
  <2>1. /\ <<next>> \in Seq(Entry) /\ Len(<<next>>) = 1 /\ <<next>>[1] = next
    BY <1>1
  <2>2. pushed = queue \o <<next>>
    <3>1. /\ pushed \in Seq(Entry) /\ Len(pushed) = Len(queue) + 1
          /\ \A i \in 1..Len(queue) : pushed[i] = queue[i]
          /\ pushed[Len(queue) + 1] = next
      BY <1>1, AppendProperties
    <3>2. /\ queue \o <<next>> \in Seq(Entry) /\ Len(queue \o <<next>>) = Len(queue) + 1
          /\ \A i \in 1..Len(queue) + 1 :
                (queue \o <<next>>)[i] = IF i <= Len(queue) THEN queue[i] ELSE <<next>>[i - Len(queue)]
      BY <1>1, <2>1, ConcatProperties
    <3>3. Len(queue) \in Nat
      BY <1>1, LenProperties
    <3> DEFINE two == queue \o <<next>>
    <3>4. \A i \in 1..Len(pushed) : pushed[i] = two[i]
      BY <2>1, <3>1, <3>2, <3>3
    <3> HIDE DEF two, pushed
    <3>5. two \in Seq(Entry) /\ Len(two) = Len(pushed)
      BY <3>1, <3>2 DEF two
    <3> QED BY <3>1, <3>4, <3>5, SeqEqual DEF two
  <2> QED BY <2>1, <2>2 DEF ToSet, Ordered
<1>3. pushed \in Seq(Entry) /\ ToSet(pushed) = ToSet(queue) \cup {next} /\ Len(pushed) = Len(queue) + 1
  BY <1>1, <1>2, ConcatSet, AppendProperties
<1>4. ASSUME Orderly
      PROVE  Ordered(pushed) /\ Ahead(inflight, pushed) /\ next \notin acked
  <2>1. Ahead(queue, <<next>>) /\ Ahead(inflight, <<next>>)
    BY <1>2 DEF Ahead, HeldBefore, Held
  <2>2. Ordered(pushed)
    BY <1>1, <1>2, <1>4, <2>1, ConcatOrdered DEF Orderly, InLine
  <2>3. Ahead(inflight, pushed)
    BY <1>2, <1>3, <1>4, <2>1 DEF Ahead, Orderly, InLine
  <2>4. next \notin acked
    BY <1>1, ClientAssumption DEF HeldBefore
  <2> QED BY <2>2, <2>3, <2>4
<1>5. /\ q \in Seq(Entry) /\ ToSet(q) \subseteq ToSet(pushed)
      /\ Ordered(pushed) => Ordered(q)
  BY <1>3, TrimOrdered
<1>6. next \in ToSet(q)
  <2>1. /\ Overflow(pushed) \in Nat /\ Len(q) + Overflow(pushed) = Len(pushed)
    BY <1>3, TrimKeeps
  <2>2. Overflow(pushed) < Len(pushed) /\ Len(pushed) \in Nat
    BY <1>3, ClientAssumption, LenProperties DEF Overflow
  <2> DEFINE m == Overflow(pushed)
             n == Len(pushed)
  <2>3. m \in Nat /\ n \in Nat /\ m < n
    BY <2>1, <2>2
  <2>4. \A i \in m + 1..n : pushed[i] \in Entry
    BY <1>3, <2>1, ElementOfSeq
  <2>5. q = SubSeq(pushed, m + 1, n) /\ pushed[n] = next
    BY <1>1, <1>3, AppendProperties DEF Trim
  <2> HIDE DEF m, n, q, pushed
  <2>6. /\ Len(SubSeq(pushed, m + 1, n)) = IF m + 1 <= n THEN n - (m + 1) + 1 ELSE 0
        /\ \A i \in 1..n - (m + 1) + 1 : SubSeq(pushed, m + 1, n)[i] = pushed[m + 1 + i - 1]
    BY <2>3, <2>4, SubSeqProperties
  <2>7. Len(q) = n - m /\ n - m \in 1..n - (m + 1) + 1 /\ m + 1 + (n - m) - 1 = n
    BY <2>3, <2>5, <2>6
  <2>8. q[n - m] = next /\ n - m \in 1..Len(q)
    BY <2>3, <2>5, <2>6, <2>7
  <2> QED BY <2>8 DEF ToSet
<1>7. /\ ToSet(inflight') \cup ToSet(queue') = ToSet(inflight) \cup ToSet(q)
      /\ InLine(inflight, q) => InLine(inflight', queue')
  <2>1. StartPump(q, retryTimer) \/ NoPump(q)
    BY DEF Enqueue
  <2> QED BY <1>1, <1>5, <2>1, PumpOrders
<1> HIDE DEF q, pushed
<1>8. Held' \subseteq Held \cup {next} /\ next \in Held'
  BY <1>3, <1>5, <1>6, <1>7 DEF Held
<1>9. ASSUME Orderly
      PROVE  Orderly'
  <2>1. InLine(inflight, q)
    BY <1>4, <1>5, <1>9 DEF Orderly, InLine, Ahead
  <2>2. InLine(inflight', queue')
    BY <1>7, <2>1
  <2>3. Held' \cap acked' = {}
    BY <1>1, <1>4, <1>8, <1>9 DEF Orderly
  <2> QED BY <2>2, <2>3 DEF Orderly, InLine
<1> QED BY <1>1, <1>8, <1>9

\* restore() puts what it has read in front, and trims.
LEMMA RestorePuts ==
    ASSUME IInv, Restore
    PROVE  LET lines == WithinDiskBound(adopted)
               q == Trim(PutBack(lines, queue)) IN
             /\ lines \in Seq(Entry) /\ ToSet(lines) \subseteq ToSet(adopted)
             /\ adopted = <<>> => lines = <<>>
             /\ q \in Seq(Entry) /\ ToSet(q) \subseteq ToSet(lines) \cup ToSet(queue)
             /\ \/ UNCHANGED <<queue, inflight, acked, exposed, writeVars>> /\ (IsClosed \/ lines = <<>>)
                \/ /\ lines # <<>>
                   /\ Held' = ToSet(inflight) \cup ToSet(q)
                   /\ Checkpoint(q) /\ Expose(ToSet(lines) \cup ToSet(inflight))
<1> DEFINE lines == WithinDiskBound(adopted)
           put == PutBack(lines, queue)
           q == Trim(put)
<1>1. /\ queue \in Seq(Entry) /\ inflight \in Seq(Entry) /\ adopted \in Seq(Entry) /\ Custody
      /\ acked' = acked
  BY DEF Restore, IInv, TypeOK, SendTypeOK, StoreTypeOK, LoadTypeOK
<1>2. /\ lines \in Seq(Entry) /\ ToSet(lines) \subseteq ToSet(adopted)
      /\ adopted = <<>> => lines = <<>>
  <2>1. Len(adopted) \in Nat /\ MaxDiskEntries \in Nat /\ (adopted = <<>> => Len(adopted) = 0)
    BY <1>1, LenProperties, EmptySeq, StoreAssumption
  <2>2. CASE Len(adopted) > MaxDiskEntries
    <3> DEFINE m == Len(adopted) - MaxDiskEntries
    <3>1. m \in 0..Len(adopted) /\ lines = SubSeq(adopted, m + 1, Len(adopted)) /\ adopted # <<>>
      BY <2>1, <2>2 DEF WithinDiskBound
    <3> HIDE DEF m, lines
    <3>2. /\ SubSeq(adopted, m + 1, Len(adopted)) \in Seq(Entry)
          /\ ToSet(adopted) = ToSet(SubSeq(adopted, 1, m)) \cup ToSet(SubSeq(adopted, m + 1, Len(adopted)))
      BY <1>1, <3>1, CutSeq
    <3> QED BY <3>1, <3>2
  <2>3. CASE ~(Len(adopted) > MaxDiskEntries)
    BY <1>1, <2>3 DEF WithinDiskBound
  <2> QED BY <2>2, <2>3
<1>3. /\ put \in Seq(Entry) /\ ToSet(put) = ToSet(lines) \cup ToSet(queue)
  BY <1>1, <1>2, ConcatProperties, ConcatSet DEF PutBack
<1>4. q \in Seq(Entry) /\ ToSet(q) \subseteq ToSet(lines) \cup ToSet(queue)
  <2> HIDE DEF put
  <2> QED BY <1>3, TrimOrdered
<1>5. CASE IsClosed \/ lines = <<>>
  <2>1. UNCHANGED <<queue, inflight, acked, exposed, writeVars>>
    BY <1>1, <1>5 DEF Restore, sendVars
  <2> QED BY <1>2, <1>4, <1>5, <2>1
<1>6. CASE ~(IsClosed \/ lines = <<>>)
  <2>1. /\ StartPump(q, retryTimer) \/ NoPump(q)
        /\ Checkpoint(q) /\ Expose(ToSet(lines) \cup ToSet(inflight))
    BY <1>6 DEF Restore
  <2>2. ToSet(inflight') \cup ToSet(queue') = ToSet(inflight) \cup ToSet(q)
    BY <1>1, <1>4, <2>1, PumpOrders
  <2>3. Held' = ToSet(inflight) \cup ToSet(q)
    BY <2>2 DEF Held
  <2> QED BY <1>2, <1>4, <1>6, <2>1, <2>3
<1> QED BY <1>5, <1>6

-------------------------------------------------------------------------------
(* What the store keeps.                                                   *)

\* An entry is in a call that is at most the m-th of the chain; somewhere in
\* the segment of this run, or on its way there; in a segment of an earlier run.
InTail(e, m) == \E k \in 1..m : e \in ToSet(tail[k].lines)
Written(e) == e \in ToSet(buffered) \/ e \in ToSet(file) \/ InTail(e, Len(tail))
Found(e) == e \in ToSet(adopted) \/ \E k \in 1..Len(segments) : e \in ToSet(segments[k])

\* It is written, and no snapshot made after that leaves it out.
Copied(e) ==
    /\ Written(e)
    /\ \A m \in 1..Len(tail) :
          tail[m].op = "replace" /\ (e \in ToSet(file) \/ InTail(e, m - 1))
            => e \in ToSet(tail[m].lines)

\* A step of the store writes and finds nothing but what is in new, or was there.
Reaches(new) ==
    \A e \in Entry : Written(e)' \/ Found(e)' => Written(e) \/ Found(e) \/ e \in new

\* A step keeps the copies of the entries in S, or the store is given up.
Saves(S) == Live' => Live /\ \A e \in S : Copied(e) => Copied(e)'

\* Appending adds one element to the set.
LEMMA AppendSet ==
    ASSUME NEW s \in Seq(Entry), NEW x \in Entry
    PROVE  ToSet(Append(s, x)) = ToSet(s) \cup {x}
<1>1. /\ Len(s) \in Nat /\ Append(s, x) \in Seq(Entry) /\ Len(Append(s, x)) = Len(s) + 1
      /\ \A i \in 1..Len(s) : Append(s, x)[i] = s[i]
      /\ Append(s, x)[Len(s) + 1] = x
  BY AppendProperties, LenProperties
<1> DEFINE t == Append(s, x)
<1> HIDE DEF t
<1>2. 1..Len(t) = (1..Len(s)) \cup {Len(s) + 1}
  BY <1>1 DEF t
<1>3. ToSet(t) = {t[i] : i \in 1..Len(s)} \cup {t[Len(s) + 1]}
  BY <1>2 DEF ToSet
<1>4. t[Len(s) + 1] = x /\ \A i \in 1..Len(s) : t[i] = s[i]
  BY <1>1 DEF t
<1> QED BY <1>3, <1>4 DEF ToSet, t

\* Another call at the end of the chain.
LEMMA ChainGrows ==
    ASSUME tail \in Seq(WriteOp), NEW w \in WriteOp, tail' = Append(tail, w)
    PROVE  /\ Len(tail) \in Nat /\ Len(tail') = Len(tail) + 1
           /\ \A k \in 1..Len(tail) : tail'[k] = tail[k]
           /\ tail'[Len(tail) + 1] = w
           /\ \A e : \A m \in 0..Len(tail) : InTail(e, m)' <=> InTail(e, m)
           /\ \A e : InTail(e, Len(tail))' <=> InTail(e, Len(tail)) \/ e \in ToSet(w.lines)
<1>1. /\ Len(tail) \in Nat /\ Len(tail') = Len(tail) + 1
      /\ \A k \in 1..Len(tail) : tail'[k] = tail[k]
      /\ tail'[Len(tail) + 1] = w
  BY AppendProperties, LenProperties
<1>2. ASSUME NEW e, NEW m \in 0..Len(tail)
      PROVE  InTail(e, m)' <=> InTail(e, m)
  <2>1. \A k \in 1..m : k \in 1..Len(tail) /\ tail'[k] = tail[k]
    BY <1>1
  <2> QED BY <2>1 DEF InTail, ToSet
<1>3. ASSUME NEW e
      PROVE  InTail(e, Len(tail))' <=> InTail(e, Len(tail)) \/ e \in ToSet(w.lines)
  <2> DEFINE n == Len(tail)
  <2>1. 1..(n + 1) = (1..n) \cup {n + 1}
    BY <1>1
  <2>2. tail'[n + 1] = w /\ \A k \in 1..n : tail'[k] = tail[k]
    BY <1>1
  <2> HIDE DEF n
  <2>3. (\E k \in 1..(n + 1) : e \in ToSet(tail'[k].lines))
          <=> (\E k \in 1..n : e \in ToSet(tail[k].lines)) \/ e \in ToSet(w.lines)
    BY <2>1, <2>2
  <2>4. InTail(e, Len(tail))' <=> \E k \in 1..(n + 1) : e \in ToSet(tail'[k].lines)
    BY <1>1 DEF InTail, ToSet, n
  <2> QED BY <2>3, <2>4 DEF InTail, n
<1> QED BY <1>1, <1>2, <1>3

\* The head of the chain leaves it.
LEMMA ChainShrinks ==
    ASSUME tail \in Seq(WriteOp), tail # <<>>, tail' = Tail(tail)
    PROVE  /\ Head(tail) = tail[1] /\ tail[1] \in WriteOp
           /\ Len(tail) \in Nat \ {0} /\ Len(tail') = Len(tail) - 1
           /\ \A k \in 1..Len(tail') : tail'[k] = tail[k + 1]
           /\ \A e : \A m \in 0..Len(tail') :
                 InTail(e, m + 1) <=> InTail(e, m)' \/ e \in ToSet(tail[1].lines)
<1>1. /\ Len(tail) \in Nat \ {0} /\ Len(tail') = Len(tail) - 1
      /\ \A k \in 1..Len(tail') : tail'[k] = tail[k + 1]
      /\ Head(tail) = tail[1] /\ tail[1] \in WriteOp
  BY HeadTailProperties, EmptySeq, ElementOfSeq
<1>2. ASSUME NEW e, NEW m \in 0..Len(tail')
      PROVE  InTail(e, m + 1) <=> InTail(e, m)' \/ e \in ToSet(tail[1].lines)
  <2>1. \A k \in 1..m : k + 1 \in 1..(m + 1) /\ tail'[k] = tail[k + 1]
    BY <1>1
  <2>2. \A k \in 1..(m + 1) : k = 1 \/ (k - 1 \in 1..m /\ tail'[k - 1] = tail[k])
    BY <1>1
  <2>3. 1 \in 1..(m + 1)
    BY <1>1
  <2>4. InTail(e, m)' <=> \E k \in 1..m : e \in ToSet(tail'[k].lines)
    BY DEF InTail, ToSet
  <2> QED BY <2>1, <2>2, <2>3, <2>4 DEF InTail
<1> QED BY <1>1, <1>2

\* record() copies an entry nobody has seen, and disturbs no other copy.
LEMMA RecordSaves ==
    ASSUME StoreTypeOK, NEW x \in Entry, ~Written(x), Record(x), UNCHANGED <<cfg, loadVars>>
    PROVE  Reaches({x}) /\ Saves(Entry) /\ (Live => Copied(x)')
<1>1. buffered \in Seq(Entry) /\ UNCHANGED <<tail, file, degraded, segments, adopted>>
  BY DEF StoreTypeOK, WriteTypeOK, Record, loadVars
<1>2. \A e : \A m : InTail(e, m)' <=> InTail(e, m)
  BY <1>1 DEF InTail, ToSet
<1>3. CASE Live
  <2>1. ToSet(buffered') = ToSet(buffered) \cup {x}
    BY <1>1, <1>3, AppendSet DEF Record
  <2>2. \A e \in Entry : Written(e)' <=> Written(e) \/ e = x
    BY <1>1, <1>2, <2>1 DEF Written, ToSet
  <2>3. ASSUME NEW e \in Entry, Copied(e)
        PROVE  Copied(e)'
    BY <1>1, <1>2, <2>2, <2>3 DEF Copied, ToSet
  <2>4. Copied(x)'
    <3>1. Written(x)'
      BY <2>2
    <3>2. x \notin ToSet(file') /\ \A m \in 1..Len(tail) : ~InTail(x, m - 1)'
      <4>1. ~InTail(x, Len(tail)) /\ x \notin ToSet(file) /\ Len(tail) \in Nat
        BY LenProperties DEF Written, StoreTypeOK, WriteTypeOK
      <4>2. \A m \in 1..Len(tail) : ~InTail(x, m - 1)
        BY <4>1 DEF InTail
      <4> QED BY <1>1, <1>2, <4>1, <4>2 DEF ToSet
    <3> QED BY <1>1, <3>1, <3>2 DEF Copied
  <2> QED BY <1>1, <1>3, <2>2, <2>3, <2>4 DEF Reaches, Saves, Live, Found, ToSet
<1>4. CASE ~Live
  <2>1. UNCHANGED buffered
    BY <1>4 DEF Record
  <2>2. \A e \in Entry : Written(e)' <=> Written(e)
    BY <1>1, <1>2, <2>1 DEF Written, ToSet
  <2>3. ~Live'
    BY <1>1, <1>4 DEF Live
  <2> QED BY <1>1, <1>4, <2>2, <2>3 DEF Reaches, Saves, Found, ToSet
<1> QED BY <1>3, <1>4

\* A snapshot at the end of the chain copies what it lists.
LEMMA SnapshotSaves ==
    ASSUME StoreTypeOK, NEW pending \in Seq(Entry),
           Checkpoint(pending) \/ CloseStore(pending), UNCHANGED <<cfg, segments, degraded>>,
           ToSet(adopted') \subseteq ToSet(adopted)
    PROVE  Reaches(ToSet(pending)) /\ Saves(ToSet(pending))
<1> DEFINE w == [op |-> "replace", lines |-> pending]
<1>1. /\ tail \in Seq(WriteOp) /\ UNCHANGED <<file, degraded>>
      /\ w \in WriteOp /\ w.op = "replace" /\ w.lines = pending
  BY DEF StoreTypeOK, WriteTypeOK, WriteOp, Checkpoint, CloseStore
<1>2. \A e \in Entry : Found(e)' => Found(e)
  BY DEF Found, ToSet
<1>3. CASE UNCHANGED <<buffered, tail>>
  <2>1. \A e : \A m : InTail(e, m)' <=> InTail(e, m)
    BY <1>3 DEF InTail, ToSet
  <2>2. \A e \in Entry : Written(e)' <=> Written(e)
    BY <1>1, <1>3, <2>1 DEF Written, ToSet
  <2>3. \A e \in Entry : Copied(e) => Copied(e)'
    BY <1>1, <1>3, <2>1, <2>2 DEF Copied, ToSet
  <2>4. ToSet(pending) \subseteq Entry
    BY ToSetTyped
  <2>5. Live' <=> Live
    BY <1>1 DEF Live
  <2> QED BY <1>2, <2>2, <2>3, <2>4, <2>5 DEF Reaches, Saves
<1>4. CASE Live /\ buffered' = <<>> /\ tail' = Append(tail, w)
  <2> DEFINE n == Len(tail)
  <2> HIDE DEF w
  <2>1. /\ n \in Nat /\ Len(tail') = n + 1
        /\ \A k \in 1..n : tail'[k] = tail[k]
        /\ tail'[n + 1] = w
        /\ \A e : \A m \in 0..n : InTail(e, m)' <=> InTail(e, m)
    BY <1>1, <1>4, ChainGrows
  <2>2. \A e : InTail(e, Len(tail))' <=> InTail(e, n) \/ e \in ToSet(pending)
    BY <1>1, <1>4, ChainGrows
  <2>3. \A e \in Entry : Written(e)' => Written(e) \/ e \in ToSet(pending)
    BY <1>1, <1>4, <2>2, NothingOrdered DEF Written, ToSet
  <2>4. ASSUME NEW e \in ToSet(pending), Copied(e)
        PROVE  Copied(e)'
    <3>1. Written(e)'
      BY <2>2 DEF Written
    <3>2. ASSUME NEW m \in 1..Len(tail'), tail'[m].op = "replace",
                 e \in ToSet(file') \/ InTail(e, m - 1)'
          PROVE  e \in ToSet(tail'[m].lines)
      <4>1. CASE m = n + 1
        BY <1>1, <2>1, <4>1
      <4>2. CASE m # n + 1
        <5>1. m \in 1..n /\ m - 1 \in 0..n
          BY <2>1, <4>2
        <5>2. tail'[m] = tail[m] /\ (InTail(e, m - 1)' <=> InTail(e, m - 1))
          BY <2>1, <5>1
        <5> QED BY <1>1, <2>4, <3>2, <5>1, <5>2 DEF Copied
      <4> QED BY <4>1, <4>2
    <3> QED BY <3>1, <3>2 DEF Copied, ToSet, InTail
  <2>5. Live' <=> Live
    BY <1>1 DEF Live
  <2> QED BY <1>2, <2>3, <2>4, <2>5 DEF Reaches, Saves
<1> QED
  BY <1>3, <1>4 DEF Checkpoint, CloseStore, Compact

\* Nothing but what was written is in the file a failed or interrupted write leaves.
LEMMA TornWritten ==
    ASSUME WriteTypeOK, NEW f \in Torn
    PROVE  \A e \in ToSet(f) : e \in ToSet(file) \/ InTail(e, Len(tail))
<1>1. CASE tail = <<>> \/ degraded
  BY <1>1 DEF Torn
<1>2. CASE ~(tail = <<>> \/ degraded)
  <2> DEFINE w == Head(tail)
  <2>1. /\ w = tail[1] /\ w \in WriteOp /\ Len(tail) \in Nat \ {0}
    BY <1>2, EmptySeq, ElementOfSeq DEF WriteTypeOK
  <2>2. w.lines \in Seq(Entry) /\ Len(w.lines) \in Nat /\ file \in Seq(Entry)
    BY <2>1, LenProperties DEF WriteOp, WriteTypeOK
  <2>3. \A e \in ToSet(w.lines) : InTail(e, Len(tail))
    BY <2>1 DEF InTail
  <2>4. ASSUME NEW n \in 0..Len(w.lines)
        PROVE  ToSet(file \o SubSeq(w.lines, 1, n)) \subseteq ToSet(file) \cup ToSet(w.lines)
    <3> HIDE DEF w
    <3> DEFINE part == SubSeq(w.lines, 1, n)
    <3>1. part \in Seq(Entry) /\ ToSet(part) \subseteq ToSet(w.lines)
      BY <2>2, CutSeq
    <3> HIDE DEF part
    <3>2. ToSet(file \o part) = ToSet(file) \cup ToSet(part)
      BY <2>2, <3>1, ConcatSet
    <3> QED BY <3>1, <3>2 DEF part
  <2>5. f = file \/ f = w.lines \/ \E n \in 0..Len(w.lines) : f = file \o SubSeq(w.lines, 1, n)
    BY <1>2 DEF Torn
  <2> HIDE DEF w
  <2>6. ToSet(f) \subseteq ToSet(file) \cup ToSet(w.lines)
    BY <2>4, <2>5
  <2> QED BY <2>3, <2>6
<1> QED BY <1>1, <1>2

\* The 0 ms timer: what goes to the chain is copied as before, and what does
\* not fit is copied no more.
LEMMA FlushSaves ==
    ASSUME StoreTypeOK, FlushBuffer, UNCHANGED cfg
    PROVE  /\ Reaches({})
           /\ Saves(IF tail' = tail THEN Entry \ ToSet(buffered) ELSE Entry)
<1> DEFINE w == [op |-> "append", lines |-> buffered]
<1>1. /\ buffered' = <<>> /\ UNCHANGED <<file, degraded, segments, adopted>>
      /\ tail \in Seq(WriteOp) /\ w \in WriteOp /\ w.op = "append" /\ w.lines = buffered
      /\ tail' = tail \/ tail' = Append(tail, w)
  BY DEF FlushBuffer, loadVars, StoreTypeOK, WriteTypeOK, WriteOp
<1>2. /\ \A e \in Entry : Found(e)' <=> Found(e)
      /\ Live' <=> Live /\ ToSet(buffered') = {}
  BY <1>1, NothingOrdered DEF Found, Live, ToSet
<1>3. CASE tail' = tail
  <2>1. \A e : \A m : InTail(e, m)' <=> InTail(e, m)
    BY <1>3 DEF InTail, ToSet
  <2>2. /\ \A e \in Entry : Written(e)' => Written(e)
        /\ \A e \in Entry \ ToSet(buffered) : Written(e) => Written(e)'
    BY <1>1, <1>2, <1>3, <2>1 DEF Written, ToSet
  <2>3. \A e \in Entry \ ToSet(buffered) : Copied(e) => Copied(e)'
    BY <1>1, <1>3, <2>1, <2>2 DEF Copied, ToSet
  <2> QED BY <1>1, <1>2, <1>3, <2>2, <2>3 DEF Reaches, Saves
<1>4. CASE tail' # tail
  <2> DEFINE n == Len(tail)
  <2> HIDE DEF w
  <2>1. /\ n \in Nat /\ Len(tail') = n + 1
        /\ \A k \in 1..n : tail'[k] = tail[k]
        /\ tail'[n + 1] = w
        /\ \A e : \A m \in 0..n : InTail(e, m)' <=> InTail(e, m)
    BY <1>1, <1>4, ChainGrows
  <2>2. \A e : InTail(e, Len(tail))' <=> InTail(e, Len(tail)) \/ e \in ToSet(buffered)
    BY <1>1, <1>4, ChainGrows
  <2>3. \A e \in Entry : Written(e)' <=> Written(e)
    BY <1>1, <1>2, <2>2 DEF Written, ToSet
  <2>4. ASSUME NEW e \in Entry, Copied(e)
        PROVE  Copied(e)'
    <3>1. ASSUME NEW m \in 1..Len(tail'), tail'[m].op = "replace",
                 e \in ToSet(file') \/ InTail(e, m - 1)'
          PROVE  e \in ToSet(tail'[m].lines)
      <4>1. m # n + 1
        BY <1>1, <2>1, <3>1
      <4>2. m \in 1..n /\ m - 1 \in 0..n
        BY <2>1, <4>1
      <4>3. tail'[m] = tail[m] /\ (InTail(e, m - 1)' <=> InTail(e, m - 1))
        BY <2>1, <4>2
      <4> QED BY <1>1, <2>4, <3>1, <4>2, <4>3 DEF Copied
    <3> QED BY <2>3, <2>4, <3>1 DEF Copied, ToSet, InTail
  <2> QED BY <1>1, <1>2, <1>4, <2>3, <2>4 DEF Reaches, Saves
<1> QED BY <1>3, <1>4

\* A write that is done: an append extends the file, a snapshot replaces it with
\* all that had to be kept.
LEMMA WriteSaves ==
    ASSUME StoreTypeOK, WriteDone, UNCHANGED cfg
    PROVE  Reaches({}) /\ Saves(Entry)
<1>1. /\ tail \in Seq(WriteOp) /\ tail # <<>> /\ tail' = Tail(tail) /\ file \in Seq(Entry)
      /\ UNCHANGED <<buffered, degraded, segments, adopted>>
  BY DEF WriteDone, Shift, StoreTypeOK, WriteTypeOK, loadVars
<1> DEFINE w == tail[1]
<1>2. /\ Head(tail) = w /\ w \in WriteOp
      /\ Len(tail) \in Nat \ {0} /\ Len(tail') = Len(tail) - 1
      /\ \A k \in 1..Len(tail') : tail'[k] = tail[k + 1]
      /\ \A e : \A m \in 0..Len(tail') : InTail(e, m + 1) <=> InTail(e, m)' \/ e \in ToSet(w.lines)
  BY <1>1, ChainShrinks
<1> HIDE DEF w
<1>3. /\ \A e \in Entry : Found(e)' <=> Found(e)
      /\ Live' <=> Live
  BY <1>1 DEF Found, Live, ToSet
<1>4. \A e : InTail(e, Len(tail)) <=> InTail(e, Len(tail))' \/ e \in ToSet(w.lines)
  <2>1. Len(tail') \in 0..Len(tail') /\ Len(tail') + 1 = Len(tail)
    BY <1>2
  <2> QED BY <1>2, <2>1 DEF InTail
<1>5. w.lines \in Seq(Entry) /\ w.op \in {"append", "replace"}
  BY <1>2 DEF WriteOp
<1>6. CASE degraded
  <2>1. file' = file
    BY <1>6 DEF WriteDone
  <2>2. \A e \in Entry : Written(e)' => Written(e)
    BY <1>1, <1>4, <2>1 DEF Written, ToSet
  <2> QED BY <1>1, <1>3, <1>6, <2>2 DEF Reaches, Saves, Live
<1>7. CASE ~degraded /\ w.op = "append"
  <2>1. file' = file \o w.lines
    BY <1>2, <1>7 DEF WriteDone
  <2>2. ToSet(file') = ToSet(file) \cup ToSet(w.lines)
    BY <1>1, <1>5, <2>1, ConcatSet
  <2>3. \A e \in Entry : Written(e)' <=> Written(e)
    BY <1>1, <1>4, <2>2 DEF Written, ToSet
  <2>4. ASSUME NEW e \in Entry, Copied(e)
        PROVE  Copied(e)'
    <3>1. ASSUME NEW m \in 1..Len(tail'), tail'[m].op = "replace",
                 e \in ToSet(file') \/ InTail(e, m - 1)'
          PROVE  e \in ToSet(tail'[m].lines)
      <4>1. m - 1 \in 0..Len(tail') /\ m + 1 \in 1..Len(tail) /\ (m - 1) + 1 = m /\ (m + 1) - 1 = m
        BY <1>2
      <4>2. tail'[m] = tail[m + 1]
        BY <1>2
      <4>3. InTail(e, m) <=> InTail(e, m - 1)' \/ e \in ToSet(w.lines)
        <5> DEFINE j == m - 1
        <5>1. j \in 0..Len(tail') /\ j + 1 = m
          BY <4>1
        <5>2. InTail(e, j + 1) <=> InTail(e, j)' \/ e \in ToSet(w.lines)
          BY <1>2, <5>1
        <5> QED BY <5>1, <5>2
      <4>4. e \in ToSet(file) \/ InTail(e, (m + 1) - 1)
        BY <2>2, <3>1, <4>1, <4>3
      <4> QED BY <2>4, <3>1, <4>1, <4>2, <4>4 DEF Copied
    <3> QED BY <2>3, <2>4, <3>1 DEF Copied, ToSet, InTail
  <2> QED BY <1>3, <2>2, <2>3, <2>4 DEF Reaches, Saves
<1>8. CASE ~degraded /\ w.op = "replace"
  <2>1. file' = w.lines
    BY <1>2, <1>8 DEF WriteDone
  <2>2. \A e \in Entry : Written(e)' => Written(e)
    BY <1>1, <1>4, <2>1 DEF Written, ToSet
  <2>3. ASSUME NEW e, Copied(e)
        PROVE  e \in ToSet(file) => e \in ToSet(file')
    <3>1. 1 \in 1..Len(tail) /\ tail[1].op = "replace" /\ tail[1].lines = file'
      BY <1>2, <1>8, <2>1 DEF w
    <3> QED BY <2>3, <3>1 DEF Copied
  <2>4. ASSUME NEW e \in Entry, Copied(e)
        PROVE  Copied(e)'
    <3>1. ASSUME NEW m \in 1..Len(tail'), tail'[m].op = "replace",
                 e \in ToSet(file') \/ InTail(e, m - 1)'
          PROVE  e \in ToSet(tail'[m].lines)
      <4>1. m - 1 \in 0..Len(tail') /\ m + 1 \in 1..Len(tail) /\ (m - 1) + 1 = m /\ (m + 1) - 1 = m
        BY <1>2
      <4>2. tail'[m] = tail[m + 1]
        BY <1>2
      <4>3. InTail(e, m) <=> InTail(e, m - 1)' \/ e \in ToSet(w.lines)
        <5> DEFINE j == m - 1
        <5>1. j \in 0..Len(tail') /\ j + 1 = m
          BY <4>1
        <5>2. InTail(e, j + 1) <=> InTail(e, j)' \/ e \in ToSet(w.lines)
          BY <1>2, <5>1
        <5> QED BY <5>1, <5>2
      <4>4. InTail(e, (m + 1) - 1)
        BY <2>1, <3>1, <4>1, <4>3
      <4> QED BY <2>4, <3>1, <4>1, <4>2, <4>4 DEF Copied
    <3>2. Written(e)'
      <4>1. Written(e)
        BY <2>4 DEF Copied
      <4> QED BY <1>1, <1>4, <2>1, <2>3, <2>4, <4>1 DEF Written, ToSet
    <3> QED BY <3>1, <3>2 DEF Copied, ToSet, InTail
  <2> QED BY <1>3, <2>2, <2>3, <2>4 DEF Reaches, Saves
<1> QED BY <1>5, <1>6, <1>7, <1>8

\* A call that fails gives the store up; it writes nothing else.
LEMMA FailSaves ==
    ASSUME StoreTypeOK, WriteFails \/ ReadFails, UNCHANGED cfg
    PROVE  Reaches({}) /\ Saves(Entry)
<1>1. /\ buffered' = <<>> /\ UNCHANGED <<segments, adopted>> /\ ~Live' /\ WriteTypeOK
      /\ ToSet(buffered') = {}
  BY NothingOrdered DEF WriteFails, ReadFails, loadVars, Live, StoreTypeOK
<1>2. ASSUME NEW e \in Entry, Written(e)'
      PROVE  Written(e)
  <2>1. CASE WriteFails
    <3>1. tail \in Seq(WriteOp) /\ tail # <<>> /\ tail' = Tail(tail) /\ file' \in Torn
      BY <1>1, <2>1 DEF WriteFails, Shift, WriteTypeOK
    <3>2. \A f \in ToSet(file') : f \in ToSet(file) \/ InTail(f, Len(tail))
      BY <1>1, <3>1, TornWritten
    <3>3. InTail(e, Len(tail))' => InTail(e, Len(tail))
      <4>1. /\ Len(tail) \in Nat \ {0} /\ Len(tail') = Len(tail) - 1
            /\ \A k \in 1..Len(tail') : tail'[k] = tail[k + 1]
        BY <3>1, ChainShrinks
      <4>2. \A k \in 1..Len(tail') : k + 1 \in 1..Len(tail) /\ tail'[k] = tail[k + 1]
        BY <4>1
      <4>3. InTail(e, Len(tail))' => \E k \in 1..Len(tail') : e \in ToSet(tail[k + 1].lines)
        BY <4>2 DEF InTail, ToSet
      <4> QED BY <4>2, <4>3 DEF InTail
    <3> QED BY <1>1, <1>2, <3>2, <3>3 DEF Written, ToSet
  <2>2. CASE ReadFails
    <3>1. UNCHANGED <<tail, file>>
      BY <2>2 DEF ReadFails
    <3> QED BY <1>1, <1>2, <3>1 DEF Written, InTail, ToSet
  <2> QED BY <2>1, <2>2
<1> QED BY <1>1, <1>2 DEF Reaches, Saves, Found, ToSet

\* load() brings no line into being, and the unlink removes none but what it has read.
LEMMA LoadSaves ==
    ASSUME StoreTypeOK, ReadSegment \/ UnlinkSegment \/ UnlinkFails, UNCHANGED cfg
    PROVE  Reaches({}) /\ Saves(Entry)
<1>1. UNCHANGED writeVars /\ segments \in Seq(Seq(Entry)) /\ adopted \in Seq(Entry) /\ cursor \in Nat \ {0}
  BY DEF ReadSegment, UnlinkSegment, UnlinkFails, StoreTypeOK, LoadTypeOK
<1>2. /\ Live' <=> Live
      /\ \A e \in Entry : Written(e)' <=> Written(e)
      /\ \A e \in Entry : Copied(e)' <=> Copied(e)
      /\ file' = file
  BY <1>1 DEF Live, Written, Copied, InTail, ToSet, writeVars
<1>3. ASSUME NEW e \in Entry, Found(e)'
      PROVE  Found(e)
  <2>1. CASE ReadSegment
    <3>1. cursor \in 1..Len(segments) /\ adopted' = adopted \o segments[cursor] /\ segments' = segments
      BY <1>1, <2>1, LenProperties DEF ReadSegment
    <3>2. segments[cursor] \in Seq(Entry)
      BY <1>1, <3>1, ElementOfSeq
    <3>3. ToSet(adopted') = ToSet(adopted) \cup ToSet(segments[cursor])
      BY <1>1, <3>1, <3>2, ConcatSet
    <3> QED BY <1>3, <3>1, <3>3 DEF Found, ToSet
  <2>2. CASE UnlinkSegment
    <3> DEFINE s == SubSeq(segments, 1, cursor - 1)
               t == SubSeq(segments, cursor + 1, Len(segments))
    <3>1. /\ Len(segments) \in Nat /\ cursor <= Len(segments)
          /\ segments' = s \o t /\ adopted' = adopted
      BY <1>1, <2>2, LenProperties DEF UnlinkSegment, StoreTypeOK, LoadTypeOK
    <3>2. \A i \in 1..Len(segments) : segments[i] \in Seq(Entry)
      BY <1>1, ElementOfSeq
    <3>3. /\ s \in Seq(Seq(Entry)) /\ Len(s) \in Nat
          /\ \A i \in 1..Len(s) : i \in 1..Len(segments) /\ s[i] = segments[i]
      <4>1. \A i \in 1..(cursor - 1) : segments[i] \in Seq(Entry)
        BY <1>1, <3>1, <3>2
      <4>2. /\ s \in Seq(Seq(Entry)) /\ Len(s) = IF 1 <= cursor - 1 THEN (cursor - 1) - 1 + 1 ELSE 0
            /\ \A i \in 1..(cursor - 1) - 1 + 1 : s[i] = segments[1 + i - 1]
        BY <1>1, <4>1, SubSeqProperties
      <4> HIDE DEF s
      <4> QED BY <1>1, <3>1, <4>2
    <3>4. /\ t \in Seq(Seq(Entry)) /\ Len(t) \in Nat
          /\ \A i \in 1..Len(t) : cursor + i \in 1..Len(segments) /\ t[i] = segments[cursor + i]
      <4> DEFINE n == Len(segments)
      <4>1. \A i \in (cursor + 1)..n : segments[i] \in Seq(Entry)
        BY <1>1, <3>1, <3>2
      <4>2. /\ t \in Seq(Seq(Entry)) /\ Len(t) = IF cursor + 1 <= n THEN n - (cursor + 1) + 1 ELSE 0
            /\ \A i \in 1..n - (cursor + 1) + 1 : t[i] = segments[cursor + 1 + i - 1]
        BY <1>1, <3>1, <4>1, SubSeqProperties
      <4> HIDE DEF t, n
      <4>3. n \in Nat /\ cursor <= n
        BY <3>1 DEF n
      <4>4. \A i \in 1..Len(t) : cursor + i \in 1..n /\ cursor + 1 + i - 1 = cursor + i /\ i \in 1..n - (cursor + 1) + 1
        BY <1>1, <4>2, <4>3
      <4>5. Len(t) \in Nat
        BY <1>1, <4>2, <4>3
      <4> QED BY <4>2, <4>4, <4>5 DEF n
    <3> HIDE DEF s, t
    <3>5. /\ Len(s \o t) = Len(s) + Len(t)
          /\ \A i \in 1..Len(s) + Len(t) : (s \o t)[i] = IF i <= Len(s) THEN s[i] ELSE t[i - Len(s)]
      BY <3>3, <3>4, ConcatProperties
    <3>6. \A k \in 1..Len(segments') : \E j \in 1..Len(segments) : segments'[k] = segments[j]
      <4> SUFFICES ASSUME NEW k \in 1..Len(segments')
                   PROVE  \E j \in 1..Len(segments) : segments'[k] = segments[j]
        OBVIOUS
      <4>1. CASE k <= Len(s)
        BY <3>1, <3>3, <3>4, <3>5, <4>1
      <4>2. CASE ~(k <= Len(s))
        <5>1. k - Len(s) \in 1..Len(t) /\ segments'[k] = t[k - Len(s)]
          BY <3>1, <3>3, <3>4, <3>5, <4>2
        <5> QED BY <3>4, <5>1
      <4> QED BY <4>1, <4>2
    <3> QED BY <1>3, <3>1, <3>6 DEF Found, ToSet
  <2>3. CASE UnlinkFails
    <3>1. adopted' = adopted /\ segments' \in {segments, [segments EXCEPT ![cursor] = <<>>]}
      BY <2>3 DEF UnlinkFails
    <3>2. \A k \in 1..Len(segments) : segments'[k] = segments[k] \/ segments'[k] = <<>>
      BY <1>1, <3>1
    <3>3. Len(segments') = Len(segments)
      BY <1>1, <3>1
    <3>4. ~(\E f : f \in ToSet(<<>>))
      BY NothingOrdered
    <3>5. \A k \in 1..Len(segments') : e \in ToSet(segments'[k]) => e \in ToSet(segments[k])
      BY <3>2, <3>3, <3>4
    <3> QED BY <1>3, <3>1, <3>3, <3>5 DEF Found, ToSet
  <2> QED BY <2>1, <2>2, <2>3
<1> QED BY <1>2, <1>3 DEF Reaches, Saves

\* The next run finds nothing but what this one wrote, or left where it was.
LEMMA CrashReaches ==
    ASSUME StoreTypeOK, CrashStore
    PROVE  Reaches({})
<1>1. PICK left \in Torn : segments' = IF left = <<>> THEN segments ELSE Append(segments, left)
  BY DEF CrashStore
<1>2. /\ buffered' = <<>> /\ tail' = <<>> /\ file' = <<>> /\ adopted' = <<>>
      /\ WriteTypeOK /\ segments \in Seq(Seq(Entry))
  BY DEF CrashStore, StoreTypeOK, LoadTypeOK
<1>3. \A e : ~Written(e)'
  BY <1>2, EmptySeq DEF Written, InTail, ToSet
<1>4. \A e \in ToSet(left) : e \in ToSet(file) \/ InTail(e, Len(tail))
  BY <1>2, TornWritten
<1>5. ASSUME NEW e \in Entry, Found(e)'
      PROVE  Found(e) \/ Written(e)
  <2>1. PICK k \in 1..Len(segments') : e \in ToSet(segments'[k])
    BY <1>2, <1>5, NothingOrdered DEF Found, ToSet
  <2>2. CASE segments' = segments
    BY <2>1, <2>2 DEF Found
  <2>3. CASE segments' = Append(segments, left)
    <3>1. left \in Seq(Entry)
      BY <1>2, TornTyped
    <3>2. /\ Len(segments) \in Nat /\ Len(segments') = Len(segments) + 1
          /\ \A i \in 1..Len(segments) : segments'[i] = segments[i]
          /\ segments'[Len(segments) + 1] = left
      BY <1>2, <2>3, <3>1, AppendProperties, LenProperties
    <3>3. k \in 1..Len(segments) \/ segments'[k] = left
      BY <2>1, <3>2
    <3> QED BY <1>4, <2>1, <3>2, <3>3 DEF Found, Written
  <2> QED BY <1>1, <2>2, <2>3
<1> QED BY <1>3, <1>5 DEF Reaches

-------------------------------------------------------------------------------
(* The invariant of order and durability.                                  *)

\* Nothing of an earlier run can be read back: there was none, or none on disk.
FirstRun == run = 1 \/ ~cfg.disk

\* A memory queue writes nothing, and a first run finds nothing.
NothingRead ==
    /\ ~cfg.disk => buffered = <<>> /\ tail = <<>> /\ file = <<>>
    /\ FirstRun => segments = <<>> /\ adopted = <<>>

\* Between the read of a segment and its unlink, its lines are in memory.
Adopting == loading = "unlinking" => ToSet(segments[cursor]) \subseteq ToSet(adopted)

\* Whatever is held, settled or on disk was recorded before the next entry.
Earlier == \A e \in Entry : Written(e) \/ Found(e) \/ e \in Held \cup acked => e < next

\* What is held and not exposed has a copy that no snapshot leaves out.
Journal == Live => \A e \in Held \ exposed : Copied(e)

DInv == NothingRead /\ Adopting /\ Earlier /\ Journal /\ (FirstRun => Orderly)

\* What the parts are sets of.
LEMMA HeldTyped ==
    ASSUME IInv
    PROVE  /\ queue \in Seq(Entry) /\ inflight \in Seq(Entry) /\ Held \subseteq Entry
           /\ acked \subseteq Entry /\ exposed \subseteq Entry /\ StoreTypeOK /\ next \in Nat
           /\ Entry \subseteq Int
<1>1. queue \in Seq(Entry) /\ inflight \in Seq(Entry) /\ acked \subseteq Entry
      /\ exposed \subseteq Entry /\ StoreTypeOK /\ next \in Nat /\ Entry \subseteq Int
  BY ClientAssumption DEF IInv, TypeOK, SendTypeOK, BookTypeOK
<1>2. Held \subseteq Entry
  BY <1>1, ToSetTyped DEF Held
<1> QED BY <1>1, <1>2

\* It holds of a client that has just been made.
LEMMA InitDInv ==
    ASSUME Init
    PROVE  DInv
<1>1. /\ queue = <<>> /\ inflight = <<>> /\ acked = {} /\ buffered = <<>> /\ tail = <<>> /\ file = <<>>
      /\ segments = <<>> /\ adopted = <<>> /\ loading # "unlinking"
  BY DEF Init, StoreInit
<1>2. Held = {} /\ InLine(inflight, queue)
  BY <1>1, NothingOrdered DEF Held, InLine
<1>3. \A e : ~Written(e) /\ ~Found(e)
  BY <1>1, EmptySeq, NothingOrdered DEF Written, Found, InTail, ToSet
<1> QED
  BY <1>1, <1>2, <1>3 DEF DInv, NothingRead, Adopting, Earlier, Journal, Orderly

\* What load() has read, and what a memory queue has, only changes with the store.
LEMMA LoadFrame ==
    ASSUME DInv, UNCHANGED <<cfg, run, segments, loading, cursor, adopted>>,
           ~cfg.disk => UNCHANGED <<buffered, tail, file>>
    PROVE  NothingRead' /\ Adopting'
<1>1. NothingRead /\ Adopting /\ (FirstRun' <=> FirstRun)
  BY DEF DInv, FirstRun
<1>2. NothingRead'
  BY <1>1 DEF NothingRead
<1>3. Adopting'
  <2>1. ToSet(segments[cursor])' = ToSet(segments[cursor]) /\ ToSet(adopted)' = ToSet(adopted)
    BY DEF ToSet
  <2> QED BY <1>1, <2>1 DEF Adopting
<1> QED BY <1>2, <1>3

\* An entry is in memory or on the disk, or on its way between the two.
Known(e) == Written(e) \/ Found(e) \/ e \in Held

\* A step takes nothing on and acknowledges some of what is held, or takes one
\* entry on; nothing else comes from nowhere.
Moves ==
    /\ acked \subseteq acked' /\ acked' \subseteq acked \cup Held
    /\ \/ next' = next /\ \A e \in Entry : Known(e)' => Known(e)
       \/ /\ next' = next + 1 /\ acked' = acked
          /\ \A e \in Entry : e = next => Known(e)'
          /\ \A e \in Entry : Known(e)' => Known(e) \/ e = next

\* Steps that leave the store alone, and take nothing on.
LEMMA SettlesDInv ==
    ASSUME IInv, DInv, Settles, UNCHANGED <<cfg, run, next, exposed, storeVars>>
    PROVE  DInv' /\ Moves
<1>1. UNCHANGED <<buffered, tail, file, degraded, segments, loading, cursor, adopted>>
  BY DEF storeVars, writeVars, loadVars
<1>2. /\ \A e \in Entry : Written(e)' <=> Written(e)
      /\ \A e \in Entry : Found(e)' <=> Found(e)
      /\ \A e \in Entry : Copied(e)' <=> Copied(e)
      /\ Live' <=> Live
  BY <1>1 DEF Written, Found, Copied, InTail, ToSet, Live
<1>3. Held' \subseteq Held /\ acked' \subseteq acked \cup Held /\ (Orderly => Orderly') /\ Held \subseteq Entry
  BY HeldTyped DEF Settles
<1>4. NothingRead' /\ Adopting'
  BY <1>1, LoadFrame
<1>5. Earlier'
  <2> SUFFICES ASSUME NEW e \in Entry, Written(e)' \/ Found(e)' \/ e \in (Held \cup acked)'
               PROVE  e < next'
    BY DEF Earlier
  <2>1. Written(e) \/ Found(e) \/ e \in Held \cup acked
    BY <1>2, <1>3
  <2> QED BY <2>1 DEF DInv, Earlier
<1>6. Journal'
  BY <1>2, <1>3 DEF DInv, Journal
<1>7. FirstRun' => Orderly'
  BY <1>3 DEF DInv, FirstRun
<1>8. Moves
  BY <1>2, <1>3 DEF Moves, Known, Settles
<1> QED BY <1>4, <1>5, <1>6, <1>7, <1>8 DEF DInv

\* Steps that end in a snapshot of what they leave in the queue.
LEMMA SnapshotDInv ==
    ASSUME IInv, DInv, UNCHANGED <<cfg, run, next, queue, inflight, acked, loadVars>>,
           Checkpoint(queue) \/ CloseStore(queue), exposed \subseteq exposed',
           cfg.disk => Held \ exposed' \subseteq ToSet(queue)
    PROVE  DInv' /\ Moves
<1>1. /\ UNCHANGED <<degraded, segments, loading, cursor, adopted, file>>
      /\ queue \in Seq(Entry) /\ StoreTypeOK /\ Held \subseteq Entry
  BY HeldTyped DEF loadVars, Checkpoint, CloseStore
<1>2. Reaches(ToSet(queue)) /\ Saves(ToSet(queue))
  BY <1>1, SnapshotSaves
<1>3. Held' = Held /\ (Orderly => Orderly') /\ ToSet(queue) \subseteq Held
  BY DEF Held, Orderly, InLine
<1>4. NothingRead' /\ Adopting'
  <2>1. ~cfg.disk => UNCHANGED <<buffered, tail>>
    BY DEF Checkpoint, CloseStore, Live
  <2> QED BY <1>1, <2>1, LoadFrame
<1>5. Earlier'
  <2> SUFFICES ASSUME NEW e \in Entry, Written(e)' \/ Found(e)' \/ e \in (Held \cup acked)'
               PROVE  e < next'
    BY DEF Earlier
  <2>1. Written(e) \/ Found(e) \/ e \in Held \cup acked
    BY <1>2, <1>3 DEF Reaches
  <2> QED BY <2>1 DEF DInv, Earlier
<1>6. Journal'
  <2> SUFFICES ASSUME Live', NEW e \in Held' \ exposed'
               PROVE  Copied(e)'
    BY DEF Journal
  <2>1. Live /\ cfg.disk
    BY <1>2 DEF Saves, Live
  <2>2. e \in ToSet(queue) /\ e \in Held \ exposed
    BY <1>3, <2>1
  <2>3. Copied(e)
    BY <2>1, <2>2 DEF DInv, Journal
  <2> QED BY <1>2, <2>2, <2>3 DEF Saves
<1>7. FirstRun' => Orderly'
  BY <1>3 DEF DInv, FirstRun
<1>8. Moves
  BY <1>2, <1>3 DEF Moves, Known, Reaches
<1> QED BY <1>4, <1>5, <1>6, <1>7, <1>8 DEF DInv

\* enqueue() records the entry it puts in the queue, when there is a live store.
LEMMA EnqueueDInv ==
    ASSUME IInv, DInv, NEW urgent \in BOOLEAN, Enqueue(urgent)
    PROVE  DInv' /\ Moves
<1>1. /\ Held \subseteq Entry /\ acked \subseteq Entry /\ StoreTypeOK /\ next \in Nat
  BY HeldTyped
<1>2. HeldBefore
  BY <1>1 DEF HeldBefore, DInv, Earlier
<1>3. /\ next \in Entry /\ next' = next + 1 /\ acked' = acked
      /\ Held' \subseteq Held \cup {next} /\ (Orderly => Orderly')
  BY <1>2, EnqueueTakes
<1>4. Record(next) /\ UNCHANGED <<cfg, run, exposed, loadVars>>
  BY DEF Enqueue
<1>5. ~Written(next)
  BY <1>1, <1>3 DEF DInv, Earlier
<1>a. PICK x \in Entry : x = next
  BY <1>3
<1>6. Reaches({x}) /\ Saves(Entry) /\ (Live => Copied(x)')
  <2>1. ~Written(x) /\ Record(x)
    BY <1>4, <1>5, <1>a
  <2> QED BY <1>1, <1>4, <2>1, RecordSaves
<1>7. NothingRead' /\ Adopting'
  <2>1. UNCHANGED <<tail, file, segments, loading, cursor, adopted>> /\ (~cfg.disk => UNCHANGED buffered)
    BY <1>4 DEF Record, Live, loadVars
  <2> QED BY <1>4, <2>1, LoadFrame
<1>8. Earlier'
  <2> SUFFICES ASSUME NEW e \in Entry, Written(e)' \/ Found(e)' \/ e \in (Held \cup acked)'
               PROVE  e < next'
    BY DEF Earlier
  <2>1. Written(e) \/ Found(e) \/ e \in Held \cup acked \/ e = next
    BY <1>3, <1>6, <1>a DEF Reaches
  <2>2. e < next \/ e = next
    BY <2>1 DEF DInv, Earlier
  <2>3. e \in Int
    BY HeldTyped
  <2> QED BY <1>1, <1>3, <2>2, <2>3
<1>9. Journal'
  <2> SUFFICES ASSUME Live', NEW e \in Held' \ exposed'
               PROVE  Copied(e)'
    BY DEF Journal
  <2>1. Live
    BY <1>6 DEF Saves
  <2>2. e = x \/ e \in Held \ exposed
    BY <1>3, <1>4, <1>a
  <2>3. e = x \/ Copied(e)
    BY <2>1, <2>2 DEF DInv, Journal
  <2>4. e \in Entry
    BY <1>1, <2>2
  <2> QED BY <1>6, <2>1, <2>3, <2>4 DEF Saves
<1>10. FirstRun' => Orderly'
  BY <1>3, <1>4 DEF DInv, FirstRun
<1>11. Moves
  <2>1. next \in Held' /\ Held' \subseteq Held \cup {next}
    BY <1>2, EnqueueTakes
  <2>2. \A e \in Entry : Known(e)' => Known(e) \/ e = next
    BY <1>6, <1>a, <2>1 DEF Known, Reaches
  <2> QED BY <1>3, <2>1, <2>2 DEF Moves, Known
<1> QED BY <1>7, <1>8, <1>9, <1>10, <1>11 DEF DInv

\* restore() exposes what it takes from the earlier segments, and what is in flight.
LEMMA RestoreDInv ==
    ASSUME IInv, DInv, Restore
    PROVE  DInv' /\ Moves
<1> DEFINE lines == WithinDiskBound(adopted)
           q == Trim(PutBack(lines, queue))
<1>1. /\ lines \in Seq(Entry) /\ ToSet(lines) \subseteq ToSet(adopted)
      /\ adopted = <<>> => lines = <<>>
      /\ q \in Seq(Entry) /\ ToSet(q) \subseteq ToSet(lines) \cup ToSet(queue)
      /\ \/ UNCHANGED <<queue, inflight, acked, exposed, writeVars>> /\ (IsClosed \/ lines = <<>>)
         \/ /\ lines # <<>>
            /\ Held' = ToSet(inflight) \cup ToSet(q)
            /\ Checkpoint(q) /\ Expose(ToSet(lines) \cup ToSet(inflight))
  BY RestorePuts
<1> HIDE DEF lines, q
<1>2. /\ Held \subseteq Entry /\ acked \subseteq Entry /\ StoreTypeOK
      /\ adopted' = <<>> /\ loading' = "read" /\ UNCHANGED <<cfg, run, next, acked, segments, cursor>>
  BY HeldTyped DEF Restore, callVars
<1>3. /\ \A e \in Entry : Found(e)' => Found(e)
      /\ ToSet(adopted') \subseteq ToSet(adopted)
  BY <1>2, NothingOrdered DEF Found, ToSet
<1>4. Adopting' /\ (FirstRun' => FirstRun /\ segments' = <<>> /\ adopted' = <<>> /\ lines = <<>>)
  BY <1>1, <1>2 DEF Adopting, DInv, NothingRead, FirstRun
<1>5. CASE UNCHANGED <<queue, inflight, acked, exposed, writeVars>>
  <2>1. UNCHANGED <<buffered, tail, file, degraded>>
    BY <1>5 DEF writeVars
  <2>2. /\ \A e \in Entry : Written(e)' <=> Written(e)
        /\ \A e \in Entry : Copied(e)' <=> Copied(e)
        /\ Live' <=> Live
    BY <1>2, <2>1 DEF Written, Copied, InTail, ToSet, Live
  <2>3. Held' = Held /\ (Orderly => Orderly')
    BY <1>5 DEF Held, Orderly, InLine
  <2>4. NothingRead'
    BY <1>2, <1>4, <2>1 DEF DInv, NothingRead
  <2>5. Earlier'
    BY <1>2, <1>3, <2>2, <2>3 DEF DInv, Earlier
  <2>6. Journal'
    BY <1>2, <1>5, <2>2, <2>3 DEF DInv, Journal
  <2>7. Moves
    BY <1>2, <1>3, <2>2, <2>3 DEF Moves, Known
  <2> QED BY <1>4, <2>3, <2>4, <2>5, <2>6, <2>7 DEF DInv
<1>6. CASE /\ lines # <<>> /\ Held' = ToSet(inflight) \cup ToSet(q)
           /\ Checkpoint(q) /\ Expose(ToSet(lines) \cup ToSet(inflight))
  <2>1. Reaches(ToSet(q)) /\ Saves(ToSet(q))
    <3>1. UNCHANGED degraded
      BY <1>6 DEF Checkpoint
    <3> QED BY <1>1, <1>2, <1>3, <1>6, <3>1, SnapshotSaves
  <2>2. ~FirstRun'
    BY <1>4, <1>6
  <2>3. NothingRead'
    BY <1>2, <2>2 DEF NothingRead, FirstRun
  <2>4. Held' \subseteq Held \cup ToSet(adopted)
    BY <1>1, <1>6 DEF Held
  <2>5. Earlier'
    <3> SUFFICES ASSUME NEW e \in Entry, Written(e)' \/ Found(e)' \/ e \in (Held \cup acked)'
                 PROVE  e < next'
      BY DEF Earlier
    <3>1. Written(e) \/ Found(e) \/ e \in ToSet(q) \/ e \in Held \cup ToSet(adopted) \cup acked
      BY <1>2, <2>1, <2>4 DEF Reaches
    <3>2. Written(e) \/ Found(e) \/ e \in Held \cup acked
      BY <1>1, <3>1 DEF Found, Held
    <3> QED BY <1>2, <3>2 DEF DInv, Earlier
  <2>6. Journal'
    <3> SUFFICES ASSUME Live', NEW e \in Held' \ exposed'
                 PROVE  Copied(e)'
      BY DEF Journal
    <3>1. Live /\ exposed' = exposed \cup ToSet(lines) \cup ToSet(inflight)
      BY <1>2, <1>6, <2>1 DEF Saves, Live, Expose
    <3>2. e \in ToSet(q) /\ e \in ToSet(queue) /\ e \notin exposed
      BY <1>1, <1>6, <3>1
    <3>3. Copied(e)
      BY <3>1, <3>2 DEF DInv, Journal, Held
    <3> QED BY <2>1, <3>2, <3>3 DEF Saves
  <2>7. Moves
    <3>1. ASSUME NEW e \in Entry, Known(e)' PROVE Known(e)
      <4>1. Written(e) \/ Found(e) \/ e \in ToSet(q) \/ e \in Held \cup ToSet(adopted)
        BY <2>1, <2>4, <3>1 DEF Known, Reaches
      <4> QED BY <1>1, <4>1 DEF Known, Found, Held
    <3> QED BY <1>2, <3>1 DEF Moves
  <2> QED BY <1>4, <2>2, <2>3, <2>5, <2>6, <2>7 DEF DInv
<1> QED BY <1>1, <1>5, <1>6

\* The timer, the filesystem and load().
LEMMA StorageDInv ==
    ASSUME IInv, DInv, Storage
    PROVE  DInv' /\ Moves
<1>1. /\ UNCHANGED <<cfg, queue, inflight, acked, run, next>>
      /\ FlushBuffer \/ WriteDone \/ WriteFails \/ ReadSegment \/ ReadFails \/ UnlinkSegment \/ UnlinkFails
      /\ exposed \subseteq exposed'
      /\ FlushBuffer /\ tail' = tail => ToSet(buffered) \subseteq exposed'
  BY DEF Storage, sendVars
<1>2. StoreTypeOK /\ Held \subseteq Entry /\ Held' = Held /\ (Orderly => Orderly')
  BY <1>1, HeldTyped DEF Held, Orderly, InLine
<1>3. Reaches({}) /\ (Live' => Live /\ \A e \in Entry \ exposed' : Copied(e) => Copied(e)')
  <2>1. CASE FlushBuffer
    <3>1. /\ Reaches({})
          /\ Saves(IF tail' = tail THEN Entry \ ToSet(buffered) ELSE Entry)
      BY <1>1, <1>2, <2>1, FlushSaves
    <3>2. Entry \ exposed' \subseteq IF tail' = tail THEN Entry \ ToSet(buffered) ELSE Entry
      BY <1>1, <2>1
    <3> QED BY <3>1, <3>2 DEF Saves
  <2>2. CASE ~FlushBuffer
    <3>1. Reaches({}) /\ Saves(Entry)
      BY <1>1, <1>2, <2>2, WriteSaves, FailSaves, LoadSaves
    <3> QED BY <3>1 DEF Saves
  <2> QED BY <2>1, <2>2
<1>4. NothingRead' /\ Adopting'
  <2>1. NothingRead /\ Adopting /\ (FirstRun' <=> FirstRun)
    BY <1>1 DEF DInv, FirstRun
  <2>2. CASE FlushBuffer
    <3>1. UNCHANGED <<file, segments, loading, cursor, adopted>> /\ buffered' = <<>>
          /\ (buffered = <<>> => tail' = tail)
      BY <2>2 DEF FlushBuffer, loadVars
    <3>2. ~cfg.disk => UNCHANGED <<buffered, tail, file>>
      BY <2>1, <3>1 DEF NothingRead
    <3> QED BY <1>1, <3>1, <3>2, LoadFrame
  <2>3. CASE WriteDone \/ WriteFails
    <3>1. UNCHANGED <<segments, loading, cursor, adopted>> /\ tail # <<>>
      BY <2>3 DEF WriteDone, WriteFails, loadVars
    <3>2. cfg.disk
      BY <2>1, <3>1 DEF NothingRead
    <3> QED BY <1>1, <3>1, <3>2, LoadFrame
  <2>4. CASE ReadSegment \/ ReadFails \/ UnlinkSegment \/ UnlinkFails
    <3>1. cursor \in Nat \ {0} /\ cursor <= Len(segments) /\ Len(<<>>) = 0
      BY <1>2, <2>4, EmptySeq DEF ReadSegment, ReadFails, UnlinkSegment, UnlinkFails, StoreTypeOK, LoadTypeOK
    <3>2. ~FirstRun
      <4>1. segments # <<>>
        BY <3>1
      <4> QED BY <2>1, <4>1 DEF NothingRead
    <3>3. NothingRead'
      BY <1>1, <2>1, <3>2 DEF NothingRead, FirstRun
    <3>4. Adopting'
      <4>1. CASE ReadSegment
        <5>1. adopted' = adopted \o segments[cursor] /\ UNCHANGED <<segments, cursor>>
          BY <4>1 DEF ReadSegment
        <5>2. adopted \in Seq(Entry) /\ segments[cursor] \in Seq(Entry)
          BY <1>2, <3>1, ElementOfSeq, LenProperties DEF StoreTypeOK, LoadTypeOK
        <5>3. ToSet(segments[cursor]) \subseteq ToSet(adopted')
          BY <5>1, <5>2, ConcatSet
        <5>4. ToSet(segments[cursor])' = ToSet(segments[cursor])
          BY <5>1 DEF ToSet
        <5>5. ToSet(adopted)' = ToSet(adopted')
          BY DEF ToSet
        <5> QED BY <5>3, <5>4, <5>5 DEF Adopting
      <4>2. CASE ReadFails \/ UnlinkSegment \/ UnlinkFails
        BY <4>2 DEF ReadFails, UnlinkSegment, UnlinkFails, Adopting
      <4> QED BY <2>4, <4>1, <4>2
    <3> QED BY <3>3, <3>4
  <2> QED BY <1>1, <2>2, <2>3, <2>4
<1>5. Earlier'
  <2> SUFFICES ASSUME NEW e \in Entry, Written(e)' \/ Found(e)' \/ e \in (Held \cup acked)'
               PROVE  e < next'
    BY DEF Earlier
  <2>1. Written(e) \/ Found(e) \/ e \in Held \cup acked
    BY <1>1, <1>2, <1>3 DEF Reaches
  <2> QED BY <1>1, <2>1 DEF DInv, Earlier
<1>6. Journal'
  BY <1>1, <1>2, <1>3 DEF DInv, Journal
<1>7. FirstRun' => Orderly'
  BY <1>1, <1>2 DEF DInv, FirstRun
<1>8. Moves
  BY <1>1, <1>2, <1>3 DEF Moves, Known, Reaches
<1> QED BY <1>4, <1>5, <1>6, <1>7, <1>8 DEF DInv

\* The next run has nothing in its hands.
LEMMA CrashDInv ==
    ASSUME IInv, DInv, Crash
    PROVE  DInv' /\ Moves
<1>1. /\ run' = run + 1 /\ run \in Nat \ {0} /\ UNCHANGED <<cfg, next, acked>> /\ CrashStore
      /\ queue' = <<>> /\ inflight' = <<>> /\ StoreTypeOK
  BY ClientAssumption, HeldTyped DEF Crash, IInv, TypeOK, BookTypeOK
<1>2. Held' = {} /\ Reaches({})
  BY <1>1, CrashReaches, NothingOrdered DEF Held
<1>3. FirstRun' => FirstRun /\ ~cfg.disk
  BY <1>1 DEF FirstRun
<1>4. NothingRead' /\ Adopting'
  <2>1. /\ buffered' = <<>> /\ tail' = <<>> /\ file' = <<>> /\ adopted' = <<>>
        /\ loading' # "unlinking"
    BY <1>1 DEF CrashStore
  <2>2. FirstRun' => segments' = <<>>
    <3> SUFFICES ASSUME FirstRun' PROVE segments' = <<>>
      OBVIOUS
    <3>1. segments = <<>> /\ file = <<>> /\ tail = <<>>
      BY <1>3 DEF DInv, NothingRead
    <3>2. Torn = {<<>>}
      BY <3>1 DEF Torn
    <3> QED BY <1>1, <3>1, <3>2 DEF CrashStore
  <2> QED BY <2>1, <2>2 DEF NothingRead, Adopting
<1>5. Earlier'
  <2> SUFFICES ASSUME NEW e \in Entry, Written(e)' \/ Found(e)' \/ e \in (Held \cup acked)'
               PROVE  e < next'
    BY DEF Earlier
  <2>1. Written(e) \/ Found(e) \/ e \in Held \cup acked
    BY <1>1, <1>2 DEF Reaches
  <2> QED BY <1>1, <2>1 DEF DInv, Earlier
<1>6. Journal'
  BY <1>2 DEF Journal
<1>7. FirstRun' => Orderly'
  BY <1>3, LeavingSettles DEF DInv, Settles
<1>8. Moves
  BY <1>1, <1>2 DEF Moves, Known, Reaches
<1> QED BY <1>4, <1>5, <1>6, <1>7, <1>8 DEF DInv

\* The end of a drain, of an exit flush that gave up and of close() write what
\* is queued, and say what else they leave out.
LEMMA CheckpointDInv ==
    ASSUME IInv, DInv, PumpEnd \/ ExitReturns \/ Close \/ CloseFlushed
    PROVE  DInv' /\ Moves
<1>1. UNCHANGED <<cfg, run, next, queue, inflight, acked, loadVars>>
  BY DEF PumpEnd, ExitReturns, Close, CloseFlushed, sendVars, bookVars
<1>2. \/ UNCHANGED <<writeVars, exposed>>
      \/ /\ Checkpoint(queue) \/ CloseStore(queue)
         /\ (exposed' = exposed /\ inflight = <<>>) \/ Expose(ToSet(inflight))
  <2>1. CASE PumpEnd
    BY <2>1 DEF PumpEnd, IInv, Custody, bookVars
  <2>2. CASE ExitReturns
    BY <2>2 DEF ExitReturns
  <2>3. CASE Close \/ CloseFlushed
    BY <2>3 DEF Close, CloseFlushed, Release
  <2> QED BY <2>1, <2>2, <2>3
<1>3. CASE UNCHANGED <<writeVars, exposed>>
  <2>1. Settles
    BY <1>1, IdleSettles
  <2> QED BY <1>1, <1>3, <2>1, SettlesDInv DEF storeVars
<1>4. CASE /\ Checkpoint(queue) \/ CloseStore(queue)
           /\ (exposed' = exposed /\ inflight = <<>>) \/ Expose(ToSet(inflight))
  <2>1. exposed \subseteq exposed' /\ (cfg.disk => Held \ exposed' \subseteq ToSet(queue))
    BY <1>4, NothingOrdered DEF Held, Expose
  <2> QED BY <1>1, <1>4, <2>1, SnapshotDInv
<1> QED BY <1>2, <1>3, <1>4

\* The other steps of the client leave the store alone.
LEMMA SenderDInv ==
    ASSUME IInv, DInv,
           \/ Respond \/ CloseDone \/ CooldownElapses
           \/ IntervalFires \/ RetryFires \/ CoalesceFires
           \/ UserFlush \/ ExitHook \/ UserReturns
           \/ \E c \in Callers : FlushGo(c) \/ FlushTimeout(c)
           \/ UNCHANGED vars
    PROVE  DInv' /\ Moves
<1>1. UNCHANGED <<cfg, run, next, exposed, storeVars>>
  BY DEF Respond, CloseDone, CooldownElapses, IntervalFires, RetryFires, CoalesceFires, UserFlush,
         ExitHook, UserReturns, FlushGo, FlushTimeout, TimerUnchanged, bookVars, vars
<1>2. Settles
  <2>1. CASE Respond
    BY <2>1, AnsweredSettles, TransientSettles DEF Respond
  <2>2. CASE CloseDone
    BY <2>2, LeavingSettles
  <2>3. CASE IntervalFires \/ RetryFires \/ CoalesceFires \/ \E c \in Callers : FlushGo(c)
    BY <2>3, TimerSettles
  <2>4. CASE \/ CooldownElapses \/ UserFlush \/ ExitHook \/ UserReturns
             \/ (\E c \in Callers : FlushTimeout(c)) \/ UNCHANGED vars
    <3>1. UNCHANGED <<queue, inflight, acked>>
      BY <2>4 DEF CooldownElapses, UserFlush, ExitHook, UserReturns, FlushTimeout, TimerUnchanged,
                  sendVars, bookVars, vars
    <3> QED BY <3>1, IdleSettles
  <2> QED BY <2>1, <2>2, <2>3, <2>4
<1> QED BY <1>1, <1>2, SettlesDInv

\* Every step preserves it.
LEMMA StepDInv == IInv /\ DInv /\ [Next]_vars => DInv' /\ Moves
<1> SUFFICES ASSUME IInv, DInv, [Next]_vars PROVE DInv' /\ Moves
  OBVIOUS
<1>1. CASE \E urgent \in BOOLEAN : Enqueue(urgent)
  BY <1>1, EnqueueDInv
<1>2. CASE Restore
  BY <1>2, RestoreDInv
<1>3. CASE PumpEnd \/ ExitReturns \/ Close \/ CloseFlushed
  BY <1>3, CheckpointDInv
<1>4. CASE Storage
  BY <1>4, StorageDInv
<1>5. CASE Crash
  BY <1>5, CrashDInv
<1>6. CASE \/ Respond \/ CloseDone \/ CooldownElapses
           \/ IntervalFires \/ RetryFires \/ CoalesceFires
           \/ UserFlush \/ ExitHook \/ UserReturns
           \/ \E c \in Callers : FlushGo(c) \/ FlushTimeout(c)
           \/ UNCHANGED vars
  BY <1>6, SenderDInv
<1> QED
  BY <1>1, <1>2, <1>3, <1>4, <1>5, <1>6 DEF Next

\* Order and durability hold in every reachable state.
THEOREM OrderAndJournal == Spec => []DInv
<1>1. Init => DInv
  BY InitDInv
<1> QED
  BY <1>1, StepDInv, Invariance, PTL DEF Spec

\* In its first run a client sends every group in order and nothing twice,
\* whatever was retried, trimmed, given up or closed (client.ts, queue.ts).
THEOREM OrderlySendingHolds == Spec => []OrderlySending
<1>1. IInv /\ DInv => OrderlySending
  <2> SUFFICES ASSUME IInv, DInv, run = 1 PROVE InOrder /\ NoResend
    BY DEF OrderlySending
  <2>1. Orderly
    BY DEF DInv, FirstRun
  <2>2. ToSet(Pending) = Held /\ (InOrder <=> InLine(inflight, queue))
    BY HeldTyped, PendingParts
  <2> QED BY <2>1, <2>2 DEF Orderly, NoResend
<1> QED BY <1>1, Invariance, OrderAndJournal, PTL

\* While the store lives, what is queued or in flight and not exposed is in the
\* segment, or will be once the calls of the chain are done (persistence.ts).
THEOREM JournalCoversHolds == Spec => []JournalCovers
<1>1. IInv /\ DInv => JournalCovers
  <2> SUFFICES ASSUME IInv, DInv, Live, NEW e \in ToSet(Pending) \ exposed PROVE Journaled(e)
    BY DEF JournalCovers
  <2>1. ToSet(Pending) = Held
    BY HeldTyped, PendingParts
  <2>2. Copied(e)
    BY <2>1 DEF DInv, Journal
  <2>3. Len(tail) \in Nat
    BY HeldTyped, LenProperties DEF StoreTypeOK, WriteTypeOK
  <2>4. CASE e \in ToSet(buffered)
    BY <2>4 DEF Journaled
  <2>5. CASE e \in ToSet(file)
    <3>1. KeptBy(0, e)
      BY <2>2, <2>5 DEF Copied, KeptBy
    <3> QED BY <2>5, <3>1 DEF Journaled
  <2>6. CASE InTail(e, Len(tail))
    <3>1. PICK k \in 1..Len(tail) : e \in ToSet(tail[k].lines)
      BY <2>6 DEF InTail
    <3>2. \A m \in (k + 1)..Len(tail) : m \in 1..Len(tail) /\ k \in 1..(m - 1)
      BY <2>3
    <3>3. KeptBy(k, e)
      BY <2>2, <3>1, <3>2 DEF KeptBy, Copied, InTail
    <3> QED BY <3>1, <3>3 DEF Journaled
  <2> QED BY <2>2, <2>4, <2>5, <2>6 DEF Copied, Written
<1> QED BY <1>1, Invariance, OrderAndJournal, PTL

-------------------------------------------------------------------------------
(* What a step may never do.                                               *)

DrainedStep ==
    \A c \in Callers :
        /\ calls[c] # "drained" /\ calls'[c] = "drained"
        /\ Enabled \/ calls[c] = "waiting"
        => queue' = <<>> /\ inflight' = <<>>

\* Whoever is told "drained" is told the truth, by every handler that tells.
LEMMA StepDrained ==
    ASSUME IInv, [Next]_vars
    PROVE  DrainedStep
<1> SUFFICES ASSUME NEW c \in Callers, calls[c] # "drained", calls'[c] = "drained",
                    Enabled \/ calls[c] = "waiting"
             PROVE  queue' = <<>> /\ inflight' = <<>>
  BY DEF DrainedStep
<1>1. Custody'
  BY Inductive DEF IInv
<1>2. calls \in [Callers -> {"none", "asked", "waiting", "drained", "gaveup"}]
  BY DEF IInv, TypeOK, CallTypeOK
<1>3. CASE Settle
  <2>1. pump' = "idle" /\ queue' = <<>>
    BY <1>2, <1>3 DEF Settle
  <2> QED BY <1>1, <2>1 DEF Custody
<1>4. CASE \E d \in Callers : FlushGo(d)
  <2>1. PICK d \in Callers : FlushGo(d)
    BY <1>4
  <2>2. d = c /\ calls[c] = "asked"
    BY <1>2, <2>1 DEF FlushGo
  <2>3. Enabled
    BY <2>2
  <2>4. pump' = "idle" /\ queue' = <<>>
    BY <1>2, <2>1, <2>2, <2>3 DEF FlushGo
  <2> QED BY <1>1, <2>4 DEF Custody
<1>5. ASSUME NEW v \in {"none", "asked", "gaveup"}, NEW d,
             calls' = [calls EXCEPT ![d] = v]
      PROVE  FALSE
  BY <1>2, <1>5
<1>6. CASE UNCHANGED calls
  BY <1>6
<1>7. CASE PumpEnd \/ CloseDone
  BY <1>3, <1>7 DEF PumpEnd, CloseDone
<1>8. CASE UserFlush \/ ExitHook \/ UserReturns \/ ExitReturns \/ \E d \in Callers : FlushTimeout(d)
  BY <1>5, <1>8 DEF UserFlush, ExitHook, UserReturns, ExitReturns, FlushTimeout, Ask
<1>9. CASE Close \/ CloseFlushed
  BY <1>5, <1>6, <1>9 DEF Close, CloseFlushed, Ask
<1>10. CASE Crash
  BY <1>10 DEF Crash
<1>11. CASE (\E urgent \in BOOLEAN : Enqueue(urgent)) \/ Restore \/ Respond \/ Storage
             \/ IntervalFires \/ RetryFires \/ CoalesceFires \/ CooldownElapses \/ UNCHANGED vars
  BY <1>6, <1>11 DEF Enqueue, Restore, Respond, Storage, IntervalFires, RetryFires, CoalesceFires,
       CooldownElapses, TimerUnchanged, callVars, vars
<1> QED
  BY <1>4, <1>7, <1>8, <1>9, <1>10, <1>11 DEF Next

\* A flush that waited, or found the client running, is told "drained" only of
\* an empty client (client.ts settleWaiters, flush).
THEOREM DrainedIsTrueHolds == Spec => DrainedIsTrue
<1>1. IInv /\ [Next]_vars => [DrainedStep]_vars
  BY StepDrained
<1>2. [][DrainedStep]_vars => DrainedIsTrue
  BY DEF DrainedStep, DrainedIsTrue
<1> QED
  BY <1>1, <1>2, Invariance, PTL DEF Spec

-------------------------------------------------------------------------------
(* Every policy and number of runs implements Delivery.                    *)

\* The verdict on an entry, from where it is, what was answered and recorded.
Judged ==
    /\ Status \in [Entry -> {"new", "pending", "sent", "lost"}]
    /\ \A e \in Entry :
          /\ Status[e] = "sent" <=> e \in acked
          /\ Status[e] = "pending" <=> e \notin acked /\ Known(e)
          /\ Status[e] = "lost" <=> e \notin acked /\ ~Known(e) /\ e < next
          /\ Status[e] = "new" <=> e \notin acked /\ ~Known(e) /\ ~(e < next)

\* Every reachable state judges its entries like that.
LEMMA StatusIs == IInv => Judged
<1> SUFFICES ASSUME IInv PROVE Judged
  OBVIOUS
<1>1. ToSet(Pending) = Held
  BY HeldTyped, PendingParts
<1>2. \A e \in Entry : Known(e) <=> e \in ToSet(Pending) \/ OnDisk(e)
  BY <1>1 DEF Known, OnDisk, Written, Found, InTail
<1> QED BY <1>2 DEF Judged, Status

\* A verdict only moves the way Delivery allows.
LEMMA StepDelivers == IInv /\ DInv /\ IInv' /\ DInv' /\ [Next]_vars => [D!Step]_Status
<1> SUFFICES ASSUME IInv, DInv, IInv', DInv', [Next]_vars
             PROVE  D!Step
  OBVIOUS
<1>1. Moves
  BY StepDInv
<1>2. /\ next \in Int /\ Entry \subseteq Int
      /\ \A e \in Entry : Known(e) \/ e \in acked => e < next
      /\ Held \subseteq Entry
  BY HeldTyped DEF DInv, Earlier, Known
<1>3. Judged /\ Judged'
  BY StatusIs, PTL
<1>4. ASSUME NEW e \in Entry, Status'[e] # Status[e]
      PROVE  <<Status[e], Status'[e]>> \in D!Moves
  <2>1. Status[e] \in {"new", "pending", "sent", "lost"} /\ Status'[e] \in {"new", "pending", "sent", "lost"}
    BY <1>3 DEF Judged
  <2>2. /\ Status[e] = "sent" <=> e \in acked
        /\ Status[e] = "pending" <=> e \notin acked /\ Known(e)
        /\ Status[e] = "lost" <=> e \notin acked /\ ~Known(e) /\ e < next
        /\ Status[e] = "new" <=> e \notin acked /\ ~Known(e) /\ ~(e < next)
    BY <1>3 DEF Judged
  <2>3. /\ Status'[e] = "sent" <=> e \in acked'
        /\ Status'[e] = "pending" <=> e \notin acked' /\ Known(e)'
        /\ Status'[e] = "lost" <=> e \notin acked' /\ ~Known(e)' /\ e < next'
        /\ Status'[e] = "new" <=> e \notin acked' /\ ~Known(e)' /\ ~(e < next')
    BY <1>3 DEF Judged
  <2>4. /\ e \in Int /\ (e < next => e < next')
        /\ ~(e < next) /\ e < next' => e = next
    BY <1>1, <1>2 DEF Moves
  <2>5. e \in acked => e \in acked'
    BY <1>1 DEF Moves
  <2>6. e \in acked' => e \in acked \/ Known(e)
    BY <1>1 DEF Moves, Known
  <2>7. Known(e)' => Known(e) \/ (e = next /\ acked' = acked)
    BY <1>1 DEF Moves
  <2>8. e = next /\ e < next' => Known(e)'
    BY <1>1, <1>2 DEF Moves
  <2>9. CASE e \in acked
    BY <1>4, <2>2, <2>3, <2>5, <2>9
  <2>10. CASE e \notin acked /\ Known(e)
    <3>1. e < next'
      BY <1>2, <2>4, <2>10
    <3> QED BY <1>4, <2>1, <2>2, <2>3, <2>10, <3>1 DEF D!Moves
  <2>11. CASE e \notin acked /\ ~Known(e) /\ e < next
    <3>1. e # next
      BY <1>2, <2>4, <2>11
    <3> QED BY <1>4, <2>2, <2>3, <2>4, <2>6, <2>7, <2>11, <3>1
  <2>12. CASE e \notin acked /\ ~Known(e) /\ ~(e < next)
    <3>1. e \notin acked' /\ (Known(e)' \/ ~(e < next'))
      BY <2>4, <2>6, <2>8, <2>12
    <3> QED BY <1>4, <2>2, <2>3, <2>12, <3>1 DEF D!Moves
  <2> QED BY <2>9, <2>10, <2>11, <2>12
<1> QED
  BY <1>3, <1>4 DEF D!Step, D!Statuses, Judged

\* Nothing is recorded yet.
LEMMA StartsNew == Init => D!Init
<1> SUFFICES ASSUME Init PROVE D!Init
  OBVIOUS
<1>1. IInv /\ DInv /\ next = 1 /\ acked = {}
  BY InitIInv, InitDInv DEF Init
<1>2. \A e \in Entry : ~(e < next)
  BY <1>1, ClientAssumption
<1>3. \A e \in Entry : ~Known(e)
  BY <1>2, <1>1 DEF DInv, Earlier, Known
<1>4. \A e \in Entry : Status[e] = "new"
  BY <1>1, <1>2, <1>3, StatusIs DEF Judged
<1>5. Status = [e \in Entry |-> "new"]
  BY <1>4 DEF Status
<1> QED BY <1>5 DEF D!Init

\* Under every policy, whatever lags, fails, crashes or is replayed, an entry is
\* sent, or lost once and for good: the client implements Delivery.
THEOREM DeliveryImplemented == Spec => ImplementsDelivery
<1>1. IInv /\ DInv /\ IInv' /\ DInv' /\ [Next]_vars => [D!Step]_Status
  BY StepDelivers
<1> QED
  BY <1>1, StartsNew, Invariance, OrderAndJournal, PTL DEF Spec, ImplementsDelivery, D!Spec
=================================================================================
