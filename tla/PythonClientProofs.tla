--------------------------- MODULE PythonClientProofs --------------------------
(***************************************************************************)
(* Proofs about PythonClient, for every size, policy, number of callers    *)
(* and number of runs: the books, the order of the entries, the breaker    *)
(* and the spool (Contract), what a flush() that returns True has settled, *)
(* and that the client implements Delivery.                                *)
(*                                                                         *)
(* The moves of the queue come first, as lemmas about Seq; then one part   *)
(* of the inductive invariant Ind after the other, each with one case per  *)
(* action; then what follows from it.                                      *)
(***************************************************************************)
EXTENDS PythonClient, TLAPS

-------------------------------------------------------------------------------
(* Sequences, and the parts of the type invariant that hold no sequence.   *)

\* The newest n of a sequence are its tail.
LEMMA NewestFacts ==
    ASSUME NEW T, NEW s \in Seq(T), NEW n \in Nat \ {0}
    PROVE  LET r == Newest(n, s)
           IN  /\ r \in Seq(T) /\ Len(r) \in Nat /\ Len(r) <= n /\ Len(r) <= Len(s)
               /\ \A i \in 1..Len(r) : r[i] = s[i + (Len(s) - Len(r))]
               /\ Len(s) <= n => r = s
               /\ r = <<>> <=> s = <<>>
  <1>1. CASE Len(s) <= n
    BY <1>1 DEF Newest
  <1>2. CASE Len(s) > n
    <2>1. Newest(n, s) = SubSeq(s, Len(s) - n + 1, Len(s))
      BY <1>2 DEF Newest
    <2>2. SubSeq(s, Len(s) - n + 1, Len(s)) \in Seq(T) /\ Len(SubSeq(s, Len(s) - n + 1, Len(s))) = n
      BY <1>2
    <2>3. \A i \in 1..n : SubSeq(s, Len(s) - n + 1, Len(s))[i] = s[i + (Len(s) - n)]
      BY <1>2
    <2>4. SubSeq(s, Len(s) - n + 1, Len(s)) # <<>> /\ s # <<>>
      BY <2>2, <1>2
    <2> QED BY <2>1, <2>2, <2>3, <2>4, <1>2
  <1> QED BY <1>1, <1>2

\* _drop_oldest_locked() keeps the newest MaxQueued and drops Overflow.
LEMMA KeptFacts ==
    ASSUME PythonAssumption, NEW s \in Seq(Entry)
    PROVE  /\ Kept(s) \in Seq(Entry) /\ Len(Kept(s)) \in Nat /\ Len(Kept(s)) <= MaxQueued
           /\ Overflow(s) \in Nat /\ Len(Kept(s)) = Len(s) - Overflow(s)
           /\ \A i \in 1..Len(Kept(s)) : Kept(s)[i] = s[i + Overflow(s)]
  BY NewestFacts DEF Kept, Overflow, PythonAssumption

\* TypeOK in parts: numbers, flags, places, sequences, records, markers.
Numbers ==
    /\ cfg \in Configs /\ run \in 1..(MaxRuns + 1)
    /\ recording \in 0..MaxId /\ next \in 1..(MaxId + 1) /\ failures \in 0..Threshold

Flags ==
    /\ wanted \in BOOLEAN /\ wakePending \in BOOLEAN /\ notified \in BOOLEAN
    /\ hold \in BOOLEAN /\ open \in BOOLEAN /\ cooling \in BOOLEAN /\ tickDue \in BOOLEAN
    /\ clean \in BOOLEAN /\ unsaved \in BOOLEAN /\ closed \in BOOLEAN
    /\ fresh \in [Thread -> BOOLEAN]

Places ==
    /\ at \in {"look", "waiting", "decide", "drain", "posting", "persist", "saving", "dead"}
    /\ until \in {"tick", "resume", "both", "idle"}
    /\ closing \in {"open", "flushing", "joining", "saving", "done"}
    /\ answer \in [Callers -> {"none", "waiting", "true", "false"}]

Lines ==
    /\ queue \in Seq(Entry) /\ inflight \in Seq(Entry)
    /\ file \in Seq(Entry) /\ saving \in [Thread -> Seq(Entry)]

Records ==
    /\ acked \subseteq Entry /\ asked \in [Callers -> SUBSET Entry]
    /\ count \in [taken : Nat, accepted : Nat, overflow : Nat, rejected : Nat]

Marks ==
    /\ DOMAIN ahead \subseteq Callers /\ carried \subseteq Callers
    /\ \A c \in DOMAIN ahead : ahead[c] \in 0..Len(queue)

LEMMA NumbersStep == PythonAssumption /\ TypeOK /\ [Next]_vars => Numbers'
  <1> SUFFICES ASSUME PythonAssumption, TypeOK, [Next]_vars PROVE Numbers'
    OBVIOUS
  <1> USE DEF lineVars, waitVars, spoolVars, flushVars
  <1>0. Numbers
    BY DEF TypeOK, Numbers
  <1>a. /\ MaxId \in Nat /\ MaxRuns \in Nat /\ Threshold \in Nat /\ MaxQueued \in Nat \ {0}
        /\ MaxBatch \in Nat \ {0} /\ MaxFile \in Nat \ {0}
    BY DEF PythonAssumption
  <1>1. CASE LogStart
    BY <1>0, <1>a, <1>1 DEF Numbers, LogStart
  <1>2. CASE Enqueue
    BY <1>0, <1>a, <1>2 DEF Numbers, Enqueue
  <1>3. CASE Flush
    BY <1>0, <1>a, <1>3 DEF Numbers, Flush
  <1>4. CASE \E c \in Callers : FlushTimesOut(c)
    BY <1>0, <1>a, <1>4 DEF Numbers, FlushTimesOut
  <1>5. CASE Close
    BY <1>0, <1>a, <1>5 DEF Numbers, Close
  <1>6. CASE CloseStops
    BY <1>0, <1>a, <1>6 DEF Numbers, CloseStops
  <1>7. CASE CloseSnapshots
    BY <1>0, <1>a, <1>7 DEF Numbers, CloseSnapshots
  <1>8. CASE CloseSaves
    BY <1>0, <1>a, <1>8 DEF Numbers, CloseSaves
  <1>9. CASE Look
    BY <1>0, <1>a, <1>9 DEF Numbers, Look
  <1>10. CASE Wake
    BY <1>0, <1>a, <1>10 DEF Numbers, Wake
  <1>11. CASE Decide
    BY <1>0, <1>a, <1>11 DEF Numbers, Decide
  <1>12. CASE Die
    BY <1>0, <1>a, <1>12 DEF Numbers, Die
  <1>13. CASE Drain
    BY <1>0, <1>a, <1>13 DEF Numbers, Drain
  <1>14. CASE Accepted
    BY <1>0, <1>a, <1>14 DEF Numbers, Accepted, Settled
  <1>15. CASE Rejected
    BY <1>0, <1>a, <1>15 DEF Numbers, Rejected, Settled
  <1>16. CASE Failed
    BY <1>0, <1>a, <1>16 DEF Numbers, Failed
  <1>17. CASE Persist
    BY <1>0, <1>a, <1>17 DEF Numbers, Persist
  <1>18. CASE WorkerSaves
    BY <1>0, <1>a, <1>18 DEF Numbers, WorkerSaves
  <1>19. CASE HoldElapses
    BY <1>0, <1>a, <1>19 DEF Numbers, HoldElapses
  <1>20. CASE CooldownElapses
    BY <1>0, <1>a, <1>20 DEF Numbers, CooldownElapses
  <1>21. CASE TickElapses
    BY <1>0, <1>a, <1>21 DEF Numbers, TickElapses
  <1>22. CASE Restart
    BY <1>0, <1>a, <1>22 DEF Numbers, Restart
  <1>23. CASE UNCHANGED vars
    BY <1>0, <1>23 DEF Numbers, vars
  <1> QED BY <1>1, <1>2, <1>3, <1>4, <1>5, <1>6, <1>7, <1>8, <1>9, <1>10, <1>11, <1>12, <1>13, <1>14, <1>15, <1>16, <1>17, <1>18, <1>19, <1>20, <1>21, <1>22, <1>23 DEF Next, Closer, Worker

LEMMA FlagsStep == PythonAssumption /\ TypeOK /\ [Next]_vars => Flags'
  <1> SUFFICES ASSUME PythonAssumption, TypeOK, [Next]_vars PROVE Flags'
    OBVIOUS
  <1> USE DEF lineVars, waitVars, spoolVars, flushVars
  <1>0. Flags
    BY DEF TypeOK, Flags
  <1>a. /\ MaxId \in Nat /\ MaxRuns \in Nat /\ Threshold \in Nat /\ MaxQueued \in Nat \ {0}
        /\ MaxBatch \in Nat \ {0} /\ MaxFile \in Nat \ {0}
    BY DEF PythonAssumption
  <1>1. CASE LogStart
    BY <1>0, <1>a, <1>1 DEF Flags, LogStart
  <1>2. CASE Enqueue
    BY <1>0, <1>a, <1>2 DEF Flags, Enqueue, Bump, RequestSend
  <1>3. CASE Flush
    BY <1>0, <1>a, <1>3 DEF Flags, Flush, Ask, RequestSend
  <1>4. CASE \E c \in Callers : FlushTimesOut(c)
    BY <1>0, <1>a, <1>4 DEF Flags, FlushTimesOut
  <1>5. CASE Close
    BY <1>0, <1>a, <1>5 DEF Flags, Close, Ask, RequestSend
  <1>6. CASE CloseStops
    BY <1>0, <1>a, <1>6 DEF Flags, CloseStops
  <1>7. CASE CloseSnapshots
    BY <1>0, <1>a, <1>7 DEF Flags, CloseSnapshots, Thread
  <1>8. CASE CloseSaves
    BY <1>0, <1>a, <1>8 DEF Flags, CloseSaves, Save, Thread
  <1>9. CASE Look
    BY <1>0, <1>a, <1>9 DEF Flags, Look
  <1>10. CASE Wake
    BY <1>0, <1>a, <1>10 DEF Flags, Wake
  <1>11. CASE Decide
    BY <1>0, <1>a, <1>11 DEF Flags, Decide
  <1>12. CASE Die
    BY <1>0, <1>a, <1>12 DEF Flags, Die
  <1>13. CASE Drain
    BY <1>0, <1>a, <1>13 DEF Flags, Drain, DrainEnds, Bump
  <1>14. CASE Accepted
    BY <1>0, <1>a, <1>14 DEF Flags, Accepted, Settled, DrainEnds
  <1>15. CASE Rejected
    BY <1>0, <1>a, <1>15 DEF Flags, Rejected, Settled, DrainEnds
  <1>16. CASE Failed
    BY <1>0, <1>a, <1>16 DEF Flags, Failed, DrainEnds
  <1>17. CASE Persist
    BY <1>0, <1>a, <1>17 DEF Flags, Persist, Thread
  <1>18. CASE WorkerSaves
    BY <1>0, <1>a, <1>18 DEF Flags, WorkerSaves, Save, Thread
  <1>19. CASE HoldElapses
    BY <1>0, <1>a, <1>19 DEF Flags, HoldElapses
  <1>20. CASE CooldownElapses
    BY <1>0, <1>a, <1>20 DEF Flags, CooldownElapses
  <1>21. CASE TickElapses
    BY <1>0, <1>a, <1>21 DEF Flags, TickElapses
  <1>22. CASE Restart
    BY <1>0, <1>a, <1>22 DEF Flags, Restart
  <1>23. CASE UNCHANGED vars
    BY <1>0, <1>23 DEF Flags, vars
  <1> QED BY <1>1, <1>2, <1>3, <1>4, <1>5, <1>6, <1>7, <1>8, <1>9, <1>10, <1>11, <1>12, <1>13, <1>14, <1>15, <1>16, <1>17, <1>18, <1>19, <1>20, <1>21, <1>22, <1>23 DEF Next, Closer, Worker

LEMMA PlacesStep == PythonAssumption /\ TypeOK /\ [Next]_vars => Places'
  <1> SUFFICES ASSUME PythonAssumption, TypeOK, [Next]_vars PROVE Places'
    OBVIOUS
  <1> USE DEF lineVars, waitVars, spoolVars, flushVars
  <1>0. Places
    BY DEF TypeOK, Places
  <1>a. /\ MaxId \in Nat /\ MaxRuns \in Nat /\ Threshold \in Nat /\ MaxQueued \in Nat \ {0}
        /\ MaxBatch \in Nat \ {0} /\ MaxFile \in Nat \ {0}
    BY DEF PythonAssumption
  <1>1. CASE LogStart
    BY <1>0, <1>a, <1>1 DEF Places, LogStart
  <1>2. CASE Enqueue
    BY <1>0, <1>a, <1>2 DEF Places, Enqueue
  <1>3. CASE Flush
    BY <1>0, <1>a, <1>3 DEF Places, Flush, Ask
  <1>4. CASE \E c \in Callers : FlushTimesOut(c)
    BY <1>0, <1>a, <1>4 DEF Places, FlushTimesOut
  <1>5. CASE Close
    BY <1>0, <1>a, <1>5 DEF Places, Close, Ask
  <1>6. CASE CloseStops
    BY <1>0, <1>a, <1>6 DEF Places, CloseStops
  <1>7. CASE CloseSnapshots
    BY <1>0, <1>a, <1>7 DEF Places, CloseSnapshots, Release, Answered
  <1>8. CASE CloseSaves
    BY <1>0, <1>a, <1>8 DEF Places, CloseSaves
  <1>9. CASE Look
    BY <1>0, <1>a, <1>9 DEF Places, Look
  <1>10. CASE Wake
    BY <1>0, <1>a, <1>10 DEF Places, Wake
  <1>11. CASE Decide
    BY <1>0, <1>a, <1>11 DEF Places, Decide
  <1>12. CASE Die
    BY <1>0, <1>a, <1>12 DEF Places, Die, Release, Answered
  <1>13. CASE Drain
    BY <1>0, <1>a, <1>13 DEF Places, Drain, DrainEnds, Answered
  <1>14. CASE Accepted
    BY <1>0, <1>a, <1>14 DEF Places, Accepted, Settled, DrainEnds, Answered
  <1>15. CASE Rejected
    BY <1>0, <1>a, <1>15 DEF Places, Rejected, Settled, DrainEnds, Answered
  <1>16. CASE Failed
    BY <1>0, <1>a, <1>16 DEF Places, Failed, DrainEnds, Answered
  <1>17. CASE Persist
    BY <1>0, <1>a, <1>17 DEF Places, Persist
  <1>18. CASE WorkerSaves
    BY <1>0, <1>a, <1>18 DEF Places, WorkerSaves
  <1>19. CASE HoldElapses
    BY <1>0, <1>a, <1>19 DEF Places, HoldElapses
  <1>20. CASE CooldownElapses
    BY <1>0, <1>a, <1>20 DEF Places, CooldownElapses
  <1>21. CASE TickElapses
    BY <1>0, <1>a, <1>21 DEF Places, TickElapses
  <1>22. CASE Restart
    BY <1>0, <1>a, <1>22 DEF Places, Restart
  <1>23. CASE UNCHANGED vars
    BY <1>0, <1>23 DEF Places, vars
  <1> QED BY <1>1, <1>2, <1>3, <1>4, <1>5, <1>6, <1>7, <1>8, <1>9, <1>10, <1>11, <1>12, <1>13, <1>14, <1>15, <1>16, <1>17, <1>18, <1>19, <1>20, <1>21, <1>22, <1>23 DEF Next, Closer, Worker

-------------------------------------------------------------------------------
(* Where the entries of the queue go in the steps that move them.          *)

\* log(): the newest entry comes last, the oldest go.
LEMMA EnqueueMoves ==
    ASSUME PythonAssumption, TypeOK, Enqueue
    PROVE  \E lost \in Nat :
              /\ queue' \in Seq(Entry) /\ Len(queue') \in Nat
              /\ Len(queue') = Len(queue) + 1 - lost /\ Len(queue') <= MaxQueued
              /\ \A i \in 1..Len(queue') :
                    queue'[i] = IF i + lost <= Len(queue) THEN queue[i + lost] ELSE recording
              /\ ahead' = Shifted(0, lost)
              /\ count' = [count EXCEPT !.overflow = @ + lost]
  <1> DEFINE all == Append(queue, recording)
  <1>1. queue \in Seq(Entry) /\ recording \in Entry
    <2>1. queue \in Seq(Entry) /\ recording \in 0..MaxId
      BY DEF TypeOK
    <2>2. recording # 0 /\ MaxId \in Nat
      BY PythonAssumption DEF Enqueue, PythonAssumption
    <2> QED BY <2>1, <2>2 DEF Entry
  <1>2. /\ all \in Seq(Entry) /\ Len(all) = Len(queue) + 1 /\ Len(queue) \in Nat
        /\ \A i \in 1..Len(all) : all[i] = IF i <= Len(queue) THEN queue[i] ELSE recording
    BY <1>1
  <1>3. /\ queue' = Kept(all) /\ ahead' = Shifted(0, Overflow(all))
        /\ count' = [count EXCEPT !.overflow = @ + Overflow(all)]
    BY DEF Enqueue
  <1> HIDE DEF all
  <1>4. /\ Kept(all) \in Seq(Entry) /\ Len(Kept(all)) \in Nat /\ Len(Kept(all)) <= MaxQueued
        /\ Overflow(all) \in Nat /\ Len(Kept(all)) = Len(all) - Overflow(all)
        /\ \A i \in 1..Len(Kept(all)) : Kept(all)[i] = all[i + Overflow(all)]
    BY <1>2, KeptFacts
  <1>5. PICK lost \in Nat : lost = Overflow(all)
    BY <1>4
  <1>6. \A i \in 1..Len(queue') :
           queue'[i] = IF i + lost <= Len(queue) THEN queue[i + lost] ELSE recording
    <2> TAKE i \in 1..Len(queue')
    <2>1. queue'[i] = all[i + lost] /\ i \in 1..(Len(all) - lost)
      BY <1>3, <1>4, <1>5
    <2>2. i + lost \in 1..Len(all)
      BY <2>1, <1>2
    <2> QED BY <2>1, <2>2, <1>2
  <1>7. /\ queue' \in Seq(Entry) /\ Len(queue') \in Nat
        /\ Len(queue') = Len(queue) + 1 - lost /\ Len(queue') <= MaxQueued
    BY <1>2, <1>3, <1>4, <1>5
  <1> QED BY <1>3, <1>5, <1>6, <1>7

\* A failed batch goes in front of what was queued meanwhile, and the oldest go.
LEMMA FailedMoves ==
    ASSUME PythonAssumption, TypeOK, Failed
    PROVE  \E lost \in Nat :
              /\ queue' \in Seq(Entry) /\ Len(queue') \in Nat
              /\ Len(queue') = Len(inflight) + Len(queue) - lost /\ Len(queue') <= MaxQueued
              /\ \A i \in 1..Len(queue') :
                    queue'[i] = IF i + lost <= Len(inflight) THEN inflight[i + lost]
                                ELSE queue[i + lost - Len(inflight)]
              /\ ahead' = Shifted(Len(inflight), lost)
              /\ count' = [count EXCEPT !.overflow = @ + lost]
  <1> DEFINE all == inflight \o queue
  <1>1. queue \in Seq(Entry) /\ inflight \in Seq(Entry)
    BY DEF TypeOK
  <1>2. /\ all \in Seq(Entry) /\ Len(all) = Len(inflight) + Len(queue)
        /\ Len(queue) \in Nat /\ Len(inflight) \in Nat
        /\ \A i \in 1..Len(all) : all[i] = IF i <= Len(inflight) THEN inflight[i]
                                           ELSE queue[i - Len(inflight)]
    BY <1>1
  <1>3. /\ queue' = Kept(all) /\ ahead' = Shifted(Len(inflight), Overflow(all))
        /\ count' = [count EXCEPT !.overflow = @ + Overflow(all)]
    BY DEF Failed
  <1> HIDE DEF all
  <1>4. /\ Kept(all) \in Seq(Entry) /\ Len(Kept(all)) \in Nat /\ Len(Kept(all)) <= MaxQueued
        /\ Overflow(all) \in Nat /\ Len(Kept(all)) = Len(all) - Overflow(all)
        /\ \A i \in 1..Len(Kept(all)) : Kept(all)[i] = all[i + Overflow(all)]
    BY <1>2, KeptFacts
  <1>5. PICK lost \in Nat : lost = Overflow(all)
    BY <1>4
  <1>6. \A i \in 1..Len(queue') :
           queue'[i] = IF i + lost <= Len(inflight) THEN inflight[i + lost]
                       ELSE queue[i + lost - Len(inflight)]
    <2> TAKE i \in 1..Len(queue')
    <2>1. queue'[i] = all[i + lost] /\ i \in 1..(Len(all) - lost)
      BY <1>3, <1>4, <1>5
    <2>2. i + lost \in 1..Len(all)
      BY <2>1, <1>2
    <2> QED BY <2>1, <2>2, <1>2
  <1>7. /\ queue' \in Seq(Entry) /\ Len(queue') \in Nat
        /\ Len(queue') = Len(inflight) + Len(queue) - lost /\ Len(queue') <= MaxQueued
    BY <1>2, <1>3, <1>4, <1>5
  <1> QED BY <1>3, <1>5, <1>6, <1>7

\* A batch is the oldest of the queue; the markers in front of it go with it.
LEMMA DrainMoves ==
    ASSUME PythonAssumption, TypeOK, Drain
    PROVE  \/ UNCHANGED <<queue, ahead, inflight, carried, answer, clean, fresh>>
           \/ \E n \in Nat :
              /\ n <= MaxBatch /\ n <= Len(queue) /\ (n = 0 <=> queue = <<>>)
              /\ Resumed /\ open' = FALSE
              /\ queue' \in Seq(Entry) /\ Len(queue') \in Nat /\ Len(queue') = Len(queue) - n
              /\ \A i \in 1..Len(queue') : queue'[i] = queue[i + n]
              /\ ahead' = [c \in {d \in DOMAIN ahead : ahead[d] > n} |-> ahead[c] - n]
              /\ \/ /\ n = 0 /\ at' = "persist" /\ queue' = queue
                    /\ answer' = Answered({c \in DOMAIN ahead : ahead[c] <= n}, "true")
                    /\ UNCHANGED <<inflight, carried, clean, fresh>>
                 \/ /\ n # 0 /\ at' = "posting" /\ UNCHANGED answer /\ Bump
                    /\ inflight' \in Seq(Entry) /\ Len(inflight') = n
                    /\ \A i \in 1..n : inflight'[i] = queue[i]
                    /\ carried' = {c \in DOMAIN ahead : ahead[c] <= n}
  <1>1. CASE ~Resumed
    BY <1>1 DEF Drain
  <1>2. CASE Resumed
    <2> DEFINE n == IF Len(queue) < MaxBatch THEN Len(queue) ELSE MaxBatch
               marks == {c \in DOMAIN ahead : ahead[c] <= n}
    <2>1. /\ queue \in Seq(Entry) /\ Len(queue) \in Nat /\ MaxBatch \in Nat \ {0}
          /\ \A c \in DOMAIN ahead : ahead[c] \in Nat
      BY DEF TypeOK, PythonAssumption
    <2>2. n \in Nat /\ n <= MaxBatch /\ n <= Len(queue)
      BY <2>1
    <2>3. n = 0 <=> queue = <<>>
      BY <2>1
    <2>12. open' = FALSE
      BY <1>2 DEF Drain, Resumed
    <2>4. /\ queue' = SubSeq(queue, n + 1, Len(queue))
          /\ ahead' = [c \in DOMAIN ahead \ marks |-> ahead[c] - n]
          /\ IF queue = <<>>
             THEN /\ at' = "persist"
                  /\ answer' = Answered(marks, "true")
                  /\ UNCHANGED <<inflight, carried, clean, fresh>>
             ELSE /\ at' = "posting" /\ inflight' = SubSeq(queue, 1, n) /\ carried' = marks
                  /\ Bump /\ UNCHANGED answer
      BY <1>2 DEF Drain, DrainEnds
    <2> HIDE DEF n
    <2>5. /\ queue' \in Seq(Entry) /\ Len(queue') \in Nat /\ Len(queue') = Len(queue) - n
          /\ \A i \in 1..Len(queue') : queue'[i] = queue[i + n]
      BY <2>1, <2>2, <2>4
    <2>6. DOMAIN ahead \ marks = {d \in DOMAIN ahead : ahead[d] > n}
      BY <2>1, <2>2
    <2>7. n # 0 => /\ inflight' \in Seq(Entry) /\ Len(inflight') = n
                   /\ \A i \in 1..n : inflight'[i] = queue[i]
      <3>1. n # 0 => inflight' = SubSeq(queue, 1, n)
        BY <2>3, <2>4
      <3>2. /\ SubSeq(queue, 1, n) \in Seq(Entry) /\ Len(SubSeq(queue, 1, n)) = n
            /\ \A i \in 1..n : SubSeq(queue, 1, n)[i] = queue[i]
        BY <2>1, <2>2
      <3> QED BY <3>1, <3>2
    <2>8. n = 0 => queue' = queue
      BY <2>1, <2>3, <2>4
    <2> HIDE DEF marks
    <2>9. ahead' = [c \in {d \in DOMAIN ahead : ahead[d] > n} |-> ahead[c] - n]
      BY <2>4, <2>6
    <2>10. \/ /\ n = 0 /\ at' = "persist" /\ queue' = queue
              /\ answer' = Answered(marks, "true")
              /\ UNCHANGED <<inflight, carried, clean, fresh>>
           \/ /\ n # 0 /\ at' = "posting" /\ UNCHANGED answer /\ Bump
              /\ inflight' \in Seq(Entry) /\ Len(inflight') = n
              /\ \A i \in 1..n : inflight'[i] = queue[i]
              /\ carried' = marks
      BY <2>3, <2>4, <2>7, <2>8
    <2> USE DEF marks
    <2> QED BY <1>2, <2>2, <2>3, <2>4, <2>5, <2>9, <2>10, <2>12
  <1> QED BY <1>1, <1>2

\* A run starts with what the spool holds.
LEMMA RestartMoves ==
    ASSUME PythonAssumption, TypeOK, Restart
    PROVE  \E lost \in Nat :
              /\ queue' \in Seq(Entry) /\ Len(queue') \in Nat /\ Len(queue') <= MaxQueued
              /\ Len(queue') <= Len(file) - lost
              /\ \A i \in 1..Len(queue') : queue'[i] = file[i + lost]
              /\ count' \in [taken : Nat, accepted : Nat, overflow : Nat, rejected : Nat]
              /\ count'.taken = Len(queue') + count'.overflow
              /\ count'.accepted = 0 /\ count'.rejected = 0
              /\ clean' = (queue' = <<>>)
              /\ file = <<>> \/ unsaved' \/ queue' # <<>>
              /\ file = <<>> => queue' = <<>>
  <1>1. file \in Seq(Entry) /\ MaxFile \in Nat \ {0} /\ MaxQueued \in Nat \ {0}
    BY DEF TypeOK, PythonAssumption
  <1>3. PICK loaded \in Loads :
          /\ queue' = Newest(MaxQueued, loaded)
          /\ count' = [taken |-> Len(loaded), accepted |-> 0, rejected |-> 0,
                       overflow |-> Len(loaded) - Len(queue')]
          /\ clean' = (loaded = <<>>) /\ unsaved' = (loaded = <<>> /\ file # <<>>)
    BY DEF Restart
  <1>2. /\ loaded \in Seq(Entry) /\ Len(loaded) \in Nat /\ Len(loaded) <= Len(file)
        /\ \A i \in 1..Len(loaded) : loaded[i] = file[i + (Len(file) - Len(loaded))]
        /\ file = <<>> => loaded = <<>>
    <2>1. CASE loaded = Newest(MaxFile, file)
      BY <1>1, <2>1, NewestFacts
    <2>2. CASE loaded = <<>>
      <3>1. /\ <<>> \in Seq(Entry) /\ Len(<<>>) = 0 /\ Len(file) \in Nat
        BY <1>1
      <3> QED BY <2>2, <3>1
    <2> QED BY <2>1, <2>2 DEF Loads
  <1> DEFINE back == Newest(MaxQueued, loaded)
  <1>4. /\ back \in Seq(Entry) /\ Len(back) \in Nat /\ Len(back) <= MaxQueued
        /\ Len(back) <= Len(loaded)
        /\ \A i \in 1..Len(back) : back[i] = loaded[i + (Len(loaded) - Len(back))]
        /\ back = <<>> <=> loaded = <<>>
    BY <1>1, <1>2, NewestFacts
  <1> HIDE DEF back
  <1>5. Len(file) \in Nat /\ Len(back) \in Nat /\ Len(back) <= Len(file)
    BY <1>1, <1>2, <1>4
  <1>11. Len(file) - Len(back) \in Nat
    BY <1>5
  <1>6. PICK lost \in Nat : lost = Len(file) - Len(back)
    BY <1>11, Zenon
  <1>7. queue' = back
    BY <1>3 DEF back
  <1>9. \A i \in 1..Len(back) : back[i] = file[i + lost]
    <2> TAKE i \in 1..Len(back)
    <2>1. i + (Len(loaded) - Len(back)) \in 1..Len(loaded)
      BY <1>2, <1>4
    <2>2. i + (Len(loaded) - Len(back)) + (Len(file) - Len(loaded)) = i + lost
      BY <1>2, <1>4, <1>5, <1>6
    <2> QED BY <2>1, <2>2, <1>2, <1>4
  <1>8. /\ count' \in [taken : Nat, accepted : Nat, overflow : Nat, rejected : Nat]
        /\ count'.taken = Len(queue') + count'.overflow
        /\ count'.accepted = 0 /\ count'.rejected = 0
    BY <1>2, <1>3, <1>4, <1>7
  <1>10. Len(back) = Len(file) - lost
    BY <1>5, <1>6
  <1>12. Len(back) <= Len(file) - lost /\ (file = <<>> => back = <<>>)
    BY <1>2, <1>4, <1>5, <1>10
  <1>13. clean' = (back = <<>>) /\ (file = <<>> \/ unsaved' \/ back # <<>>)
    BY <1>3, <1>4
  <1> QED BY <1>4, <1>7, <1>8, <1>9, <1>12, <1>13, Zenon

\* A save that succeeds leaves the newest of its snapshot.
LEMMA SaveMoves ==
    ASSUME PythonAssumption, TypeOK, NEW t \in Thread, Save(t)
    PROVE  \/ file' = file
           \/ /\ file' \in Seq(Entry) /\ Len(file') \in Nat /\ Len(file') <= MaxFile
              /\ \E lost \in Nat :
                    /\ Len(file') = Len(saving[t]) - lost
                    /\ \A i \in 1..Len(file') : file'[i] = saving[t][i + lost]
  <1>1. CASE file' = Newest(MaxFile, saving[t])
    <2>1. saving[t] \in Seq(Entry) /\ Len(saving[t]) \in Nat /\ MaxFile \in Nat \ {0}
      BY DEF TypeOK, PythonAssumption
    <2> DEFINE new == Newest(MaxFile, saving[t])
    <2>2. /\ new \in Seq(Entry) /\ Len(new) \in Nat /\ Len(new) <= MaxFile
          /\ Len(new) <= Len(saving[t])
          /\ \A i \in 1..Len(new) : new[i] = saving[t][i + (Len(saving[t]) - Len(new))]
      BY <2>1, NewestFacts
    <2> HIDE DEF new
    <2>3. PICK lost \in Nat : lost = Len(saving[t]) - Len(new)
      BY <2>1, <2>2
    <2>4. file' = new
      BY <1>1 DEF new
    <2>5. Len(new) = Len(saving[t]) - lost /\ \A i \in 1..Len(new) : new[i] = saving[t][i + lost]
      BY <2>1, <2>2, <2>3
    <2> QED BY <2>2, <2>4, <2>5
  <1> QED BY <1>1 DEF Save

-------------------------------------------------------------------------------
(* Types.                                                                  *)

\* The counters.
Counts == [taken : Nat, accepted : Nat, overflow : Nat, rejected : Nat]

LEMMA Counted ==
    ASSUME NEW k \in Counts, NEW lost \in Nat, NEW new, new = [k EXCEPT !.overflow = @ + lost]
    PROVE  new \in Counts
  BY DEF Counts

LEMMA LinesStep == PythonAssumption /\ TypeOK /\ [Next]_vars => Lines'
  <1> SUFFICES ASSUME PythonAssumption, TypeOK, [Next]_vars PROVE Lines'
    OBVIOUS
  <1> USE DEF lineVars, waitVars, spoolVars, flushVars
  <1>0. Lines /\ recording \in 0..MaxId
    BY DEF TypeOK, Lines
  <1>1. CASE LogStart
    BY <1>0, <1>1 DEF Lines, LogStart
  <1>2. CASE Enqueue
    BY <1>0, <1>2, EnqueueMoves DEF Lines, Enqueue
  <1>3. CASE Flush
    BY <1>0, <1>3 DEF Lines, Flush, Ask
  <1>4. CASE \E c \in Callers : FlushTimesOut(c)
    BY <1>0, <1>4 DEF Lines, FlushTimesOut
  <1>5. CASE Close
    BY <1>0, <1>5 DEF Lines, Close, Ask
  <1>6. CASE CloseStops
    BY <1>0, <1>6 DEF Lines, CloseStops
  <1>7. CASE CloseSnapshots
    BY <1>0, <1>7 DEF Lines, CloseSnapshots, Thread
  <1>8. CASE CloseSaves
    <2>1. file' \in Seq(Entry)
      BY <1>0, <1>8, SaveMoves DEF Lines, CloseSaves, Thread
    <2>3. saving' = [saving EXCEPT !["close"] = <<>>]
      BY <1>8 DEF CloseSaves, Save
    <2>4. <<>> \in Seq(Entry) /\ saving \in [Thread -> Seq(Entry)]
      BY <1>0 DEF Lines
    <2>2. saving' \in [Thread -> Seq(Entry)]
      BY <2>3, <2>4
    <2> QED BY <1>0, <1>8, <2>1, <2>2 DEF Lines, CloseSaves
  <1>9. CASE Look
    BY <1>0, <1>9 DEF Lines, Look
  <1>10. CASE Wake
    BY <1>0, <1>10 DEF Lines, Wake
  <1>11. CASE Decide
    BY <1>0, <1>11 DEF Lines, Decide
  <1>12. CASE Die
    BY <1>0, <1>12 DEF Lines, Die
  <1>13. CASE Drain
    <2>1. queue' \in Seq(Entry) /\ inflight' \in Seq(Entry)
      BY <1>0, <1>13, DrainMoves DEF Lines
    <2> QED BY <1>0, <1>13, <2>1 DEF Lines, Drain
  <1>14. CASE Accepted
    BY <1>0, <1>14 DEF Lines, Accepted, Settled
  <1>15. CASE Rejected
    BY <1>0, <1>15 DEF Lines, Rejected, Settled
  <1>16. CASE Failed
    <2>1. queue' \in Seq(Entry)
      BY <1>16, FailedMoves
    <2> QED BY <1>0, <1>16, <2>1 DEF Lines, Failed
  <1>17. CASE Persist
    BY <1>0, <1>17 DEF Lines, Persist, Thread
  <1>18. CASE WorkerSaves
    <2>1. file' \in Seq(Entry)
      BY <1>0, <1>18, SaveMoves DEF Lines, WorkerSaves, Thread
    <2>3. saving' = [saving EXCEPT !["worker"] = <<>>]
      BY <1>18 DEF WorkerSaves, Save
    <2>4. <<>> \in Seq(Entry) /\ saving \in [Thread -> Seq(Entry)]
      BY <1>0 DEF Lines
    <2>2. saving' \in [Thread -> Seq(Entry)]
      BY <2>3, <2>4
    <2> QED BY <1>0, <1>18, <2>1, <2>2 DEF Lines, WorkerSaves
  <1>19. CASE HoldElapses
    BY <1>0, <1>19 DEF Lines, HoldElapses
  <1>20. CASE CooldownElapses
    BY <1>0, <1>20 DEF Lines, CooldownElapses
  <1>21. CASE TickElapses
    BY <1>0, <1>21 DEF Lines, TickElapses
  <1>22. CASE Restart
    <2>1. queue' \in Seq(Entry)
      BY <1>22, RestartMoves
    <2>2. saving' \in [Thread -> Seq(Entry)] /\ UNCHANGED file /\ inflight' = <<>>
      BY <1>22 DEF Restart
    <2> QED BY <1>0, <2>1, <2>2 DEF Lines
  <1>23. CASE UNCHANGED vars
    BY <1>0, <1>23 DEF Lines, vars
  <1> QED BY <1>1, <1>2, <1>3, <1>4, <1>5, <1>6, <1>7, <1>8, <1>9, <1>10, <1>11, <1>12, <1>13, <1>14, <1>15, <1>16, <1>17, <1>18, <1>19, <1>20, <1>21, <1>22, <1>23 DEF Next, Closer, Worker

LEMMA RecordsStep == PythonAssumption /\ TypeOK /\ [Next]_vars => Records'
  <1> SUFFICES ASSUME PythonAssumption, TypeOK, [Next]_vars PROVE Records'
    OBVIOUS
  <1> USE DEF lineVars, waitVars, spoolVars, flushVars
  <1>0. Records /\ next \in Nat /\ Len(inflight) \in Nat
    BY DEF TypeOK, Records
  <1>1. CASE LogStart
    BY <1>0, <1>1 DEF Records, LogStart
  <1>2. CASE Enqueue
    <2>1. PICK lost \in Nat : count' = [count EXCEPT !.overflow = @ + lost]
      BY <1>2, EnqueueMoves
    <2>2. count' \in [taken : Nat, accepted : Nat, overflow : Nat, rejected : Nat]
      BY <1>0, <2>1, Counted DEF Records, Counts
    <2> QED BY <1>0, <1>2, <2>2 DEF Records, Enqueue
  <1>3. CASE Flush
    <2>1. ToSet(Held) \subseteq Entry
      BY DEF TypeOK, Held, ToSet
    <2> QED BY <1>0, <1>3, <2>1 DEF Records, Flush, Ask
  <1>4. CASE \E c \in Callers : FlushTimesOut(c)
    BY <1>0, <1>4 DEF Records, FlushTimesOut
  <1>5. CASE Close
    <2>1. ToSet(Held) \subseteq Entry
      BY DEF TypeOK, Held, ToSet
    <2> QED BY <1>0, <1>5, <2>1 DEF Records, Close, Ask
  <1>6. CASE CloseStops
    BY <1>0, <1>6 DEF Records, CloseStops
  <1>7. CASE CloseSnapshots
    BY <1>0, <1>7 DEF Records, CloseSnapshots
  <1>8. CASE CloseSaves
    BY <1>0, <1>8 DEF Records, CloseSaves
  <1>9. CASE Look
    BY <1>0, <1>9 DEF Records, Look
  <1>10. CASE Wake
    BY <1>0, <1>10 DEF Records, Wake
  <1>11. CASE Decide
    BY <1>0, <1>11 DEF Records, Decide
  <1>12. CASE Die
    BY <1>0, <1>12 DEF Records, Die
  <1>13. CASE Drain
    BY <1>0, <1>13 DEF Records, Drain
  <1>14. CASE Accepted
    <2>1. ToSet(inflight) \subseteq Entry
      BY DEF TypeOK, ToSet
    <2> QED BY <1>0, <1>14, <2>1 DEF Records, Accepted, Settled
  <1>15. CASE Rejected
    BY <1>0, <1>15 DEF Records, Rejected, Settled
  <1>16. CASE Failed
    <2>1. PICK lost \in Nat : count' = [count EXCEPT !.overflow = @ + lost]
      BY <1>16, FailedMoves
    <2>2. count' \in [taken : Nat, accepted : Nat, overflow : Nat, rejected : Nat]
      BY <1>0, <2>1, Counted DEF Records, Counts
    <2> QED BY <1>0, <1>16, <2>2 DEF Records, Failed
  <1>17. CASE Persist
    BY <1>0, <1>17 DEF Records, Persist
  <1>18. CASE WorkerSaves
    BY <1>0, <1>18 DEF Records, WorkerSaves
  <1>19. CASE HoldElapses
    BY <1>0, <1>19 DEF Records, HoldElapses
  <1>20. CASE CooldownElapses
    BY <1>0, <1>20 DEF Records, CooldownElapses
  <1>21. CASE TickElapses
    BY <1>0, <1>21 DEF Records, TickElapses
  <1>22. CASE Restart
    BY <1>0, <1>22, RestartMoves DEF Records, Restart
  <1>23. CASE UNCHANGED vars
    BY <1>0, <1>23 DEF Records, vars
  <1> QED BY <1>1, <1>2, <1>3, <1>4, <1>5, <1>6, <1>7, <1>8, <1>9, <1>10, <1>11, <1>12, <1>13, <1>14, <1>15, <1>16, <1>17, <1>18, <1>19, <1>20, <1>21, <1>22, <1>23 DEF Next, Closer, Worker

LEMMA MarksStep == PythonAssumption /\ TypeOK /\ [Next]_vars => Marks'
  <1> SUFFICES ASSUME PythonAssumption, TypeOK, [Next]_vars PROVE Marks'
    OBVIOUS
  <1> USE DEF lineVars, waitVars, spoolVars, flushVars
  <1>0. Marks /\ Len(queue) \in Nat /\ Len(inflight) \in Nat /\ \A c \in DOMAIN ahead : ahead[c] \in Nat
    BY DEF TypeOK, Marks
  <1>1. CASE LogStart
    BY <1>0, <1>1 DEF Marks, LogStart
  <1>2. CASE Enqueue
    <2>1. PICK lost \in Nat : /\ Len(queue') \in Nat /\ Len(queue') = Len(queue) + 1 - lost
                              /\ ahead' = Shifted(0, lost)
      BY <1>2, EnqueueMoves
    <2>2. DOMAIN ahead' = DOMAIN ahead /\ \A c \in DOMAIN ahead : ahead'[c] = Less(ahead[c] + 0, lost)
      BY <2>1 DEF Shifted
    <2>3. ASSUME NEW c \in DOMAIN ahead PROVE Less(ahead[c] + 0, lost) \in 0..Len(queue')
      BY <1>0, <2>1 DEF Marks, Less
    <2>4. carried' \subseteq carried
      BY <1>2 DEF Enqueue
    <2> QED BY <1>0, <2>2, <2>3, <2>4 DEF Marks
  <1>3. CASE Flush
    BY <1>0, <1>3 DEF Marks, Flush, Ask
  <1>4. CASE \E c \in Callers : FlushTimesOut(c)
    BY <1>0, <1>4 DEF Marks, FlushTimesOut
  <1>5. CASE Close
    BY <1>0, <1>5 DEF Marks, Close, Ask
  <1>6. CASE CloseStops
    BY <1>0, <1>6 DEF Marks, CloseStops
  <1>7. CASE CloseSnapshots
    BY <1>0, <1>7 DEF Marks, CloseSnapshots, Release, NoMarkers
  <1>8. CASE CloseSaves
    BY <1>0, <1>8 DEF Marks, CloseSaves
  <1>9. CASE Look
    BY <1>0, <1>9 DEF Marks, Look
  <1>10. CASE Wake
    BY <1>0, <1>10 DEF Marks, Wake
  <1>11. CASE Decide
    BY <1>0, <1>11 DEF Marks, Decide
  <1>12. CASE Die
    BY <1>0, <1>12 DEF Marks, Die, Release, NoMarkers
  <1>13. CASE Drain
    BY <1>0, <1>13, DrainMoves DEF Marks, Drain
  <1>14. CASE Accepted
    BY <1>0, <1>14 DEF Marks, Accepted, Settled
  <1>15. CASE Rejected
    BY <1>0, <1>15 DEF Marks, Rejected, Settled
  <1>16. CASE Failed
    <2>1. PICK lost \in Nat : /\ Len(queue') \in Nat /\ Len(queue') = Len(inflight) + Len(queue) - lost
                              /\ ahead' = Shifted(Len(inflight), lost)
      BY <1>16, FailedMoves
    <2>2. DOMAIN ahead' = DOMAIN ahead /\ \A c \in DOMAIN ahead : ahead'[c] = Less(ahead[c] + Len(inflight), lost)
      BY <2>1 DEF Shifted
    <2>3. ASSUME NEW c \in DOMAIN ahead PROVE Less(ahead[c] + Len(inflight), lost) \in 0..Len(queue')
      BY <1>0, <2>1 DEF Marks, Less
    <2>4. carried' \subseteq carried
      BY <1>16 DEF Failed
    <2> QED BY <1>0, <2>2, <2>3, <2>4 DEF Marks
  <1>17. CASE Persist
    BY <1>0, <1>17 DEF Marks, Persist
  <1>18. CASE WorkerSaves
    BY <1>0, <1>18 DEF Marks, WorkerSaves
  <1>19. CASE HoldElapses
    BY <1>0, <1>19 DEF Marks, HoldElapses
  <1>20. CASE CooldownElapses
    BY <1>0, <1>20 DEF Marks, CooldownElapses
  <1>21. CASE TickElapses
    BY <1>0, <1>21 DEF Marks, TickElapses
  <1>22. CASE Restart
    BY <1>0, <1>22, RestartMoves DEF Marks, Restart, NoMarkers
  <1>23. CASE UNCHANGED vars
    BY <1>0, <1>23 DEF Marks, vars
  <1> QED BY <1>1, <1>2, <1>3, <1>4, <1>5, <1>6, <1>7, <1>8, <1>9, <1>10, <1>11, <1>12, <1>13, <1>14, <1>15, <1>16, <1>17, <1>18, <1>19, <1>20, <1>21, <1>22, <1>23 DEF Next, Closer, Worker

LEMMA TypeStep == PythonAssumption /\ TypeOK /\ [Next]_vars => TypeOK'
  <1> SUFFICES ASSUME PythonAssumption, TypeOK, [Next]_vars PROVE TypeOK'
    OBVIOUS
  <1>1. Numbers' /\ Flags' /\ Places' /\ Lines' /\ Records' /\ Marks'
    BY NumbersStep, FlagsStep, PlacesStep, LinesStep, RecordsStep, MarksStep
  <1> QED BY <1>1 DEF TypeOK, Numbers, Flags, Places, Lines, Records, Marks

-------------------------------------------------------------------------------
(* The request in flight, the breaker, the bounds and the books.           *)

\* A request is in flight exactly while the worker posts, with its markers.
Posting == (at = "posting" <=> inflight # <<>>) /\ (at # "posting" => carried = {})

\* It cools only while it is open, and no request is out while it is.
Breaker == (cooling => open) /\ (at = "posting" => ~open)

LEMMA PostingStep == PythonAssumption /\ TypeOK /\ Posting /\ [Next]_vars => Posting'
  <1> SUFFICES ASSUME PythonAssumption, TypeOK, Posting, [Next]_vars PROVE Posting'
    OBVIOUS
  <1> USE DEF lineVars, waitVars, spoolVars, flushVars
  <1>0. Posting /\ TypeOK
    OBVIOUS
  <1>1. CASE LogStart
    BY <1>0, <1>1 DEF Posting, LogStart
  <1>2. CASE Enqueue
    BY <1>0, <1>2 DEF Posting, Enqueue
  <1>3. CASE Flush
    BY <1>0, <1>3 DEF Posting, Flush
  <1>4. CASE \E c \in Callers : FlushTimesOut(c)
    BY <1>0, <1>4 DEF Posting, FlushTimesOut
  <1>5. CASE Close
    BY <1>0, <1>5 DEF Posting, Close
  <1>6. CASE CloseStops
    BY <1>0, <1>6 DEF Posting, CloseStops
  <1>7. CASE CloseSnapshots
    BY <1>0, <1>7 DEF Posting, CloseSnapshots
  <1>8. CASE CloseSaves
    BY <1>0, <1>8 DEF Posting, CloseSaves
  <1>9. CASE Look
    BY <1>0, <1>9 DEF Posting, Look
  <1>10. CASE Wake
    BY <1>0, <1>10 DEF Posting, Wake
  <1>11. CASE Decide
    BY <1>0, <1>11 DEF Posting, Decide
  <1>12. CASE Die
    BY <1>0, <1>12 DEF Posting, Die
  <1>13. CASE Drain
    <2>1. CASE UNCHANGED <<inflight, carried>> /\ at' # "posting"
      BY <1>0, <1>13, <2>1 DEF Posting, Drain
    <2>2. CASE at' = "posting" /\ inflight' # <<>>
      BY <2>2 DEF Posting
    <2>3. \/ UNCHANGED <<inflight, carried>> /\ at' = "persist"
          \/ at' = "posting" /\ inflight' # <<>>
      <3>1. CASE ~Resumed
        BY <1>13, <3>1 DEF Drain, DrainEnds
      <3>2. CASE Resumed /\ queue = <<>>
        BY <1>13, <3>2 DEF Drain, DrainEnds
      <3>3. CASE Resumed /\ queue # <<>>
        <4>1. PICK n \in Nat : n # 0 /\ at' = "posting" /\ Len(inflight') = n
          BY <1>13, <3>3, DrainMoves DEF Drain
        <4> QED BY <4>1
      <3> QED BY <3>1, <3>2, <3>3
    <2> QED BY <2>1, <2>2, <2>3
  <1>14. CASE Accepted
    BY <1>0, <1>14 DEF Posting, Accepted, Settled, DrainEnds
  <1>15. CASE Rejected
    BY <1>0, <1>15 DEF Posting, Rejected, Settled, DrainEnds
  <1>16. CASE Failed
    BY <1>0, <1>16 DEF Posting, Failed, DrainEnds
  <1>17. CASE Persist
    BY <1>0, <1>17 DEF Posting, Persist
  <1>18. CASE WorkerSaves
    BY <1>0, <1>18 DEF Posting, WorkerSaves
  <1>19. CASE HoldElapses
    BY <1>0, <1>19 DEF Posting, HoldElapses
  <1>20. CASE CooldownElapses
    BY <1>0, <1>20 DEF Posting, CooldownElapses
  <1>21. CASE TickElapses
    BY <1>0, <1>21 DEF Posting, TickElapses
  <1>22. CASE Restart
    BY <1>0, <1>22 DEF Posting, Restart
  <1>23. CASE UNCHANGED vars
    BY <1>0, <1>23 DEF Posting, vars
  <1> QED BY <1>1, <1>2, <1>3, <1>4, <1>5, <1>6, <1>7, <1>8, <1>9, <1>10, <1>11, <1>12, <1>13, <1>14, <1>15, <1>16, <1>17, <1>18, <1>19, <1>20, <1>21, <1>22, <1>23 DEF Next, Closer, Worker

LEMMA BreakerStep == PythonAssumption /\ TypeOK /\ Breaker /\ [Next]_vars => Breaker'
  <1> SUFFICES ASSUME PythonAssumption, TypeOK, Breaker, [Next]_vars PROVE Breaker'
    OBVIOUS
  <1> USE DEF lineVars, waitVars, spoolVars, flushVars
  <1>0. Breaker /\ TypeOK
    OBVIOUS
  <1>1. CASE LogStart
    BY <1>0, <1>1 DEF Breaker, LogStart
  <1>2. CASE Enqueue
    BY <1>0, <1>2 DEF Breaker, Enqueue
  <1>3. CASE Flush
    BY <1>0, <1>3 DEF Breaker, Flush
  <1>4. CASE \E c \in Callers : FlushTimesOut(c)
    BY <1>0, <1>4 DEF Breaker, FlushTimesOut
  <1>5. CASE Close
    BY <1>0, <1>5 DEF Breaker, Close
  <1>6. CASE CloseStops
    BY <1>0, <1>6 DEF Breaker, CloseStops
  <1>7. CASE CloseSnapshots
    BY <1>0, <1>7 DEF Breaker, CloseSnapshots
  <1>8. CASE CloseSaves
    BY <1>0, <1>8 DEF Breaker, CloseSaves
  <1>9. CASE Look
    BY <1>0, <1>9 DEF Breaker, Look
  <1>10. CASE Wake
    BY <1>0, <1>10 DEF Breaker, Wake
  <1>11. CASE Decide
    BY <1>0, <1>11 DEF Breaker, Decide
  <1>12. CASE Die
    BY <1>0, <1>12 DEF Breaker, Die
  <1>13. CASE Drain
    BY <1>0, <1>13 DEF Breaker, Drain, DrainEnds, Resumed
  <1>14. CASE Accepted
    BY <1>0, <1>14 DEF Breaker, Accepted, Settled, DrainEnds
  <1>15. CASE Rejected
    BY <1>0, <1>15 DEF Breaker, Rejected, Settled, DrainEnds
  <1>16. CASE Failed
    BY <1>0, <1>16 DEF Breaker, Failed, DrainEnds
  <1>17. CASE Persist
    BY <1>0, <1>17 DEF Breaker, Persist
  <1>18. CASE WorkerSaves
    BY <1>0, <1>18 DEF Breaker, WorkerSaves
  <1>19. CASE HoldElapses
    BY <1>0, <1>19 DEF Breaker, HoldElapses
  <1>20. CASE CooldownElapses
    BY <1>0, <1>20 DEF Breaker, CooldownElapses
  <1>21. CASE TickElapses
    BY <1>0, <1>21 DEF Breaker, TickElapses
  <1>22. CASE Restart
    BY <1>0, <1>22 DEF Breaker, Restart
  <1>23. CASE UNCHANGED vars
    BY <1>0, <1>23 DEF Breaker, vars
  <1> QED BY <1>1, <1>2, <1>3, <1>4, <1>5, <1>6, <1>7, <1>8, <1>9, <1>10, <1>11, <1>12, <1>13, <1>14, <1>15, <1>16, <1>17, <1>18, <1>19, <1>20, <1>21, <1>22, <1>23 DEF Next, Closer, Worker

LEMMA BoundedStep == PythonAssumption /\ TypeOK /\ Bounded /\ [Next]_vars => Bounded'
  <1> SUFFICES ASSUME PythonAssumption, TypeOK, Bounded, [Next]_vars PROVE Bounded'
    OBVIOUS
  <1> USE DEF lineVars, waitVars, spoolVars, flushVars
  <1>0. Bounded /\ Len(queue) \in Nat /\ Len(inflight) \in Nat
    BY DEF TypeOK
  <1>a. MaxQueued \in Nat \ {0} /\ MaxBatch \in Nat \ {0} /\ MaxFile \in Nat \ {0}
    BY DEF PythonAssumption
  <1>1. CASE LogStart
    BY <1>0, <1>a, <1>1 DEF Bounded, LogStart
  <1>2. CASE Enqueue
    <2>1. Len(queue') <= MaxQueued
      BY <1>2, EnqueueMoves
    <2> QED BY <1>0, <1>2, <2>1 DEF Bounded, Enqueue
  <1>3. CASE Flush
    BY <1>0, <1>a, <1>3 DEF Bounded, Flush, Ask
  <1>4. CASE \E c \in Callers : FlushTimesOut(c)
    BY <1>0, <1>a, <1>4 DEF Bounded, FlushTimesOut
  <1>5. CASE Close
    BY <1>0, <1>a, <1>5 DEF Bounded, Close, Ask
  <1>6. CASE CloseStops
    BY <1>0, <1>a, <1>6 DEF Bounded, CloseStops
  <1>7. CASE CloseSnapshots
    BY <1>0, <1>a, <1>7 DEF Bounded, CloseSnapshots
  <1>8. CASE CloseSaves
    <2>1. Len(file') <= MaxFile
      BY <1>0, <1>8, SaveMoves DEF Bounded, CloseSaves, Thread
    <2> QED BY <1>0, <1>8, <2>1 DEF Bounded, CloseSaves
  <1>9. CASE Look
    BY <1>0, <1>a, <1>9 DEF Bounded, Look
  <1>10. CASE Wake
    BY <1>0, <1>a, <1>10 DEF Bounded, Wake
  <1>11. CASE Decide
    BY <1>0, <1>a, <1>11 DEF Bounded, Decide
  <1>12. CASE Die
    BY <1>0, <1>a, <1>12 DEF Bounded, Die
  <1>13. CASE Drain
    <2>2. \/ UNCHANGED <<queue, inflight>>
          \/ \E n \in Nat : /\ n <= MaxBatch /\ Len(queue') = Len(queue) - n
                            /\ (UNCHANGED inflight \/ Len(inflight') = n)
      <3>1. CASE UNCHANGED <<queue, ahead, inflight, carried, answer, clean, fresh>>
        BY <3>1
      <3>2. ASSUME ~UNCHANGED <<queue, ahead, inflight, carried, answer, clean, fresh>>
            PROVE  \E n \in Nat : /\ n <= MaxBatch /\ Len(queue') = Len(queue) - n
                                 /\ (UNCHANGED inflight \/ Len(inflight') = n)
        BY <3>2, <1>13, DrainMoves
      <3> QED BY <3>1, <3>2
    <2>3. ASSUME NEW n \in Nat, n <= MaxBatch, Len(queue') = Len(queue) - n,
                 UNCHANGED inflight \/ Len(inflight') = n
          PROVE  Len(queue') <= Len(queue) /\ (UNCHANGED inflight \/ Len(inflight') <= MaxBatch)
      BY <2>3, <1>0, <1>a
    <2>1. Len(queue') <= Len(queue) /\ (UNCHANGED inflight \/ Len(inflight') <= MaxBatch)
      BY <1>0, <2>2, <2>3
    <2>4. Len(queue') \in Nat
      BY LinesStep DEF Lines
    <2> QED BY <1>0, <1>a, <1>13, <2>1, <2>4 DEF Bounded, Drain
  <1>14. CASE Accepted
    BY <1>0, <1>a, <1>14 DEF Bounded, Accepted, Settled
  <1>15. CASE Rejected
    BY <1>0, <1>a, <1>15 DEF Bounded, Rejected, Settled
  <1>16. CASE Failed
    <2>1. Len(queue') <= MaxQueued
      BY <1>16, FailedMoves
    <2>2. UNCHANGED file /\ Len(inflight') = 0
      BY <1>16 DEF Failed
    <2> QED BY <1>0, <1>a, <2>1, <2>2 DEF Bounded
  <1>17. CASE Persist
    BY <1>0, <1>a, <1>17 DEF Bounded, Persist
  <1>18. CASE WorkerSaves
    <2>1. Len(file') <= MaxFile
      BY <1>0, <1>18, SaveMoves DEF Bounded, WorkerSaves, Thread
    <2> QED BY <1>0, <1>18, <2>1 DEF Bounded, WorkerSaves
  <1>19. CASE HoldElapses
    BY <1>0, <1>a, <1>19 DEF Bounded, HoldElapses
  <1>20. CASE CooldownElapses
    BY <1>0, <1>a, <1>20 DEF Bounded, CooldownElapses
  <1>21. CASE TickElapses
    BY <1>0, <1>a, <1>21 DEF Bounded, TickElapses
  <1>22. CASE Restart
    <2>1. Len(queue') <= MaxQueued
      BY <1>22, RestartMoves
    <2>2. UNCHANGED file /\ Len(inflight') = 0
      BY <1>22 DEF Restart
    <2> QED BY <1>0, <1>a, <2>1, <2>2 DEF Bounded
  <1>23. CASE UNCHANGED vars
    BY <1>0, <1>a, <1>23 DEF Bounded, vars
  <1> QED BY <1>1, <1>2, <1>3, <1>4, <1>5, <1>6, <1>7, <1>8, <1>9, <1>10, <1>11, <1>12, <1>13, <1>14, <1>15, <1>16, <1>17, <1>18, <1>19, <1>20, <1>21, <1>22, <1>23 DEF Next, Closer, Worker

\* What was taken and is not settled.
Due == (IF recording = 0 THEN 0 ELSE 1) + Len(inflight) + Len(queue)
       + count.accepted + count.overflow + count.rejected

LEMMA BooksAre ==
    ASSUME TypeOK
    PROVE  Books <=> count.taken = Due
  <1>1. queue \in Seq(Entry) /\ inflight \in Seq(Entry)
    BY DEF TypeOK
  <1>2. Len(Held) = Len(inflight) + Len(queue) /\ Len(inflight) \in Nat /\ Len(queue) \in Nat
    BY <1>1 DEF Held
  <1>3. /\ count.accepted \in Nat /\ count.overflow \in Nat /\ count.rejected \in Nat
    BY DEF TypeOK
  <1> QED BY <1>2, <1>3 DEF Books, Due

\* Every entry taken is due or counted once.
Balanced == count.taken = Due

LEMMA BalancedStep == PythonAssumption /\ TypeOK /\ Posting /\ Balanced /\ [Next]_vars => Balanced'
  <1> SUFFICES ASSUME PythonAssumption, TypeOK, Posting, Balanced, [Next]_vars PROVE Balanced'
    OBVIOUS
  <1> USE DEF lineVars, waitVars, spoolVars, flushVars, Due
  <1>0. /\ Balanced /\ Len(queue) \in Nat /\ Len(inflight) \in Nat
        /\ count \in [taken : Nat, accepted : Nat, overflow : Nat, rejected : Nat]
        /\ recording \in Nat /\ next \in Nat \ {0}
    BY DEF TypeOK, PythonAssumption
  <1>1. CASE LogStart
    <2>1. /\ count'.taken = count.taken + 1 /\ count'.accepted = count.accepted
          /\ count'.overflow = count.overflow /\ count'.rejected = count.rejected
      BY <1>0, <1>1 DEF LogStart
    <2>2. recording = 0 /\ recording' # 0 /\ UNCHANGED <<queue, inflight>>
      BY <1>0, <1>1 DEF LogStart
    <2> QED BY <1>0, <2>1, <2>2 DEF Balanced
  <1>2. CASE Enqueue
    <2>0. PICK lost \in Nat : /\ count' = [count EXCEPT !.overflow = @ + lost]
                              /\ Len(queue') = Len(queue) + 1 - lost
      BY <1>2, EnqueueMoves
    <2>5. Len(queue') = Len(queue) + 1 - lost
      BY <2>0
    <2>1. /\ count'.taken = count.taken /\ count'.accepted = count.accepted
          /\ count'.overflow = count.overflow + lost /\ count'.rejected = count.rejected
      BY <1>0, <2>0
    <2>2. recording # 0 /\ recording' = 0 /\ UNCHANGED inflight
      BY <1>2 DEF Enqueue
    <2>3. /\ count.accepted \in Nat /\ count.overflow \in Nat /\ count.rejected \in Nat /\ count.taken \in Nat
          /\ Len(queue) \in Nat /\ Len(inflight) \in Nat /\ count.taken = Due
      BY <1>0 DEF Balanced
    <2>4. Due' = Due
      BY <2>5, <2>1, <2>2, <2>3
    <2> QED BY <2>1, <2>3, <2>4 DEF Balanced
  <1>3. CASE Flush
    BY <1>0, <1>3 DEF Balanced, Flush, Ask, Due
  <1>4. CASE \E c \in Callers : FlushTimesOut(c)
    BY <1>0, <1>4 DEF Balanced, FlushTimesOut
  <1>5. CASE Close
    BY <1>0, <1>5 DEF Balanced, Close, Ask, Due
  <1>6. CASE CloseStops
    BY <1>0, <1>6 DEF Balanced, CloseStops
  <1>7. CASE CloseSnapshots
    BY <1>0, <1>7 DEF Balanced, CloseSnapshots
  <1>8. CASE CloseSaves
    BY <1>0, <1>8 DEF Balanced, CloseSaves
  <1>9. CASE Look
    BY <1>0, <1>9 DEF Balanced, Look
  <1>10. CASE Wake
    BY <1>0, <1>10 DEF Balanced, Wake
  <1>11. CASE Decide
    BY <1>0, <1>11 DEF Balanced, Decide
  <1>12. CASE Die
    BY <1>0, <1>12 DEF Balanced, Die
  <1>13. CASE Drain
    <2>1. Len(queue') + Len(inflight') = Len(queue) + Len(inflight)
      <3>1. CASE UNCHANGED <<queue, inflight>>
        BY <3>1
      <3>2. ASSUME NEW n \in Nat, Len(queue') = Len(queue) - n, Len(inflight') = n, at' = "posting"
            PROVE  Len(queue') + Len(inflight') = Len(queue) + Len(inflight)
        <4>1. Len(inflight) = 0
          BY <1>13 DEF Posting, Drain
        <4> QED BY <4>1, <3>2, <1>0
      <3> QED BY <3>1, <3>2, <1>13, DrainMoves
    <2>2. UNCHANGED <<recording, count>>
      BY <1>13 DEF Drain
    <2>3. Len(queue') \in Nat /\ Len(inflight') \in Nat
      BY <1>0, <1>13, DrainMoves
    <2>4. /\ count.accepted \in Nat /\ count.overflow \in Nat /\ count.rejected \in Nat
          /\ Len(queue) \in Nat /\ Len(inflight) \in Nat /\ count.taken = Due
      BY <1>0 DEF Balanced
    <2>5. (IF recording = 0 THEN 0 ELSE 1) \in Nat
      OBVIOUS
    <2>6. \A r, f, q, g, p, a, o, j \in Nat : p + g = q + f => r + g + p + a + o + j = r + f + q + a + o + j
      OBVIOUS
    <2>7. Due' = Due
      BY <2>1, <2>2, <2>3, <2>4, <2>5, <2>6
    <2> QED BY <2>2, <2>4, <2>7 DEF Balanced
  <1>14. CASE Accepted
    <2>1. /\ count'.taken = count.taken /\ count'.accepted = count.accepted + Len(inflight)
          /\ count'.overflow = count.overflow /\ count'.rejected = count.rejected
      BY <1>0, <1>14 DEF Accepted
    <2>2. Len(inflight') = 0 /\ UNCHANGED <<queue, recording>>
      BY <1>14 DEF Accepted, Settled
    <2> QED BY <1>0, <2>1, <2>2 DEF Balanced
  <1>15. CASE Rejected
    <2>1. /\ count'.taken = count.taken /\ count'.rejected = count.rejected + Len(inflight)
          /\ count'.overflow = count.overflow /\ count'.accepted = count.accepted
      BY <1>0, <1>15 DEF Rejected
    <2>2. Len(inflight') = 0 /\ UNCHANGED <<queue, recording>>
      BY <1>15 DEF Rejected, Settled
    <2> QED BY <1>0, <2>1, <2>2 DEF Balanced
  <1>16. CASE Failed
    <2>0. PICK lost \in Nat : /\ count' = [count EXCEPT !.overflow = @ + lost]
                              /\ Len(queue') = Len(inflight) + Len(queue) - lost
      BY <1>16, FailedMoves
    <2>5. Len(queue') = Len(inflight) + Len(queue) - lost
      BY <2>0
    <2>1. /\ count'.taken = count.taken /\ count'.accepted = count.accepted
          /\ count'.overflow = count.overflow + lost /\ count'.rejected = count.rejected
      BY <1>0, <2>0
    <2>2. UNCHANGED recording /\ Len(inflight') = 0
      BY <1>16 DEF Failed
    <2>3. /\ count.accepted \in Nat /\ count.overflow \in Nat /\ count.rejected \in Nat /\ count.taken \in Nat
          /\ Len(queue) \in Nat /\ Len(inflight) \in Nat /\ count.taken = Due
      BY <1>0 DEF Balanced
    <2>4. Due' = Due
      <3> DEFINE one == IF recording = 0 THEN 0 ELSE 1
      <3>1. one' = one /\ one \in Nat
        BY <2>2
      <3>2. Len(inflight') = 0
        BY <2>2
      <3>3. /\ Due = one + Len(inflight) + Len(queue) + count.accepted + count.overflow + count.rejected
            /\ Due' = one' + Len(inflight') + Len(queue') + count'.accepted + count'.overflow + count'.rejected
        OBVIOUS
      <3> HIDE DEF one, Due
      <3> QED BY <3>1, <3>2, <3>3, <2>5, <2>1, <2>3
    <2> QED BY <2>1, <2>3, <2>4 DEF Balanced
  <1>17. CASE Persist
    BY <1>0, <1>17 DEF Balanced, Persist
  <1>18. CASE WorkerSaves
    BY <1>0, <1>18 DEF Balanced, WorkerSaves
  <1>19. CASE HoldElapses
    BY <1>0, <1>19 DEF Balanced, HoldElapses
  <1>20. CASE CooldownElapses
    BY <1>0, <1>20 DEF Balanced, CooldownElapses
  <1>21. CASE TickElapses
    BY <1>0, <1>21 DEF Balanced, TickElapses
  <1>22. CASE Restart
    BY <1>0, <1>22, RestartMoves DEF Balanced, Restart, Due
  <1>23. CASE UNCHANGED vars
    BY <1>0, <1>23 DEF Balanced, vars
  <1> QED BY <1>1, <1>2, <1>3, <1>4, <1>5, <1>6, <1>7, <1>8, <1>9, <1>10, <1>11, <1>12, <1>13, <1>14, <1>15, <1>16, <1>17, <1>18, <1>19, <1>20, <1>21, <1>22, <1>23 DEF Next, Closer, Worker

-------------------------------------------------------------------------------
(* What the client holds, and what one step adds to it.                    *)

\* Sequences as sets.
LEMMA InSet ==
    ASSUME NEW s \in Seq(Entry), NEW e
    PROVE  e \in ToSet(s) <=> \E i \in 1..Len(s) : s[i] = e
  BY DEF ToSet

LEMMA Within ==
    ASSUME NEW s \in Seq(Entry), NEW S, \A i \in 1..Len(s) : s[i] \in S
    PROVE  ToSet(s) \subseteq S
  BY InSet

LEMMA SetOf ==
    ASSUME NEW s \in Seq(Entry)
    PROVE  \A i \in 1..Len(s) : s[i] \in ToSet(s)
  BY InSet

LEMMA EnqueueSets ==
    ASSUME PythonAssumption, TypeOK, Enqueue
    PROVE  ToSet(queue') \subseteq ToSet(queue) \cup {recording}
  <1>0. queue \in Seq(Entry) /\ Len(queue) \in Nat
    BY DEF TypeOK
  <1>1. queue \in Seq(Entry) /\ queue' \in Seq(Entry) /\ Len(queue) \in Nat
    BY <1>0, EnqueueMoves
  <1>2. \A i \in 1..Len(queue) : queue[i] \in ToSet(queue)
    BY <1>1, SetOf
  <1>3. PICK lost \in Nat : \A i \in 1..Len(queue') :
           queue'[i] = IF i + lost <= Len(queue) THEN queue[i + lost] ELSE recording
    BY EnqueueMoves
  <1>4. \A i \in 1..Len(queue') : queue'[i] \in ToSet(queue) \cup {recording}
    BY <1>1, <1>2, <1>3
  <1> QED BY <1>1, <1>4, Within

LEMMA FailedSets ==
    ASSUME PythonAssumption, TypeOK, Failed
    PROVE  ToSet(queue') \subseteq ToSet(inflight) \cup ToSet(queue)
  <1>0. /\ queue \in Seq(Entry) /\ inflight \in Seq(Entry)
        /\ Len(queue) \in Nat /\ Len(inflight) \in Nat
    BY DEF TypeOK
  <1>1. /\ queue \in Seq(Entry) /\ queue' \in Seq(Entry) /\ inflight \in Seq(Entry)
        /\ Len(queue) \in Nat /\ Len(inflight) \in Nat
    BY <1>0, FailedMoves
  <1>2. /\ \A i \in 1..Len(queue) : queue[i] \in ToSet(queue)
        /\ \A i \in 1..Len(inflight) : inflight[i] \in ToSet(inflight)
    BY <1>1, SetOf
  <1>3. PICK lost \in Nat :
           /\ Len(queue') = Len(inflight) + Len(queue) - lost
           /\ \A i \in 1..Len(queue') :
                 queue'[i] = IF i + lost <= Len(inflight) THEN inflight[i + lost]
                             ELSE queue[i + lost - Len(inflight)]
    BY FailedMoves
  <1>4. ASSUME NEW i \in 1..Len(queue') PROVE queue'[i] \in ToSet(inflight) \cup ToSet(queue)
    <2>1. CASE i + lost <= Len(inflight)
      BY <1>1, <1>2, <1>3, <2>1
    <2>2. CASE ~(i + lost <= Len(inflight))
      <3>1. i + lost - Len(inflight) \in 1..Len(queue)
        BY <1>1, <1>3, <2>2
      <3> QED BY <1>2, <1>3, <2>2, <3>1
    <2> QED BY <2>1, <2>2
  <1> QED BY <1>1, <1>4, Within

LEMMA DrainSets ==
    ASSUME PythonAssumption, TypeOK, Drain
    PROVE  /\ ToSet(queue') \subseteq ToSet(queue)
           /\ ToSet(inflight') \subseteq ToSet(inflight) \cup ToSet(queue)
  <1>1. queue \in Seq(Entry) /\ inflight \in Seq(Entry) /\ Len(queue) \in Nat
    BY DEF TypeOK
  <1>2. \A i \in 1..Len(queue) : queue[i] \in ToSet(queue)
    BY <1>1, SetOf
  <1>3. CASE UNCHANGED <<queue, ahead, inflight, carried, answer, clean, fresh>>
    BY <1>3
  <1>4. CASE ~UNCHANGED <<queue, ahead, inflight, carried, answer, clean, fresh>>
    <2>1. PICK n \in Nat :
             /\ n <= Len(queue) /\ queue' \in Seq(Entry) /\ Len(queue') = Len(queue) - n
             /\ \A i \in 1..Len(queue') : queue'[i] = queue[i + n]
             /\ \/ inflight' = inflight
                \/ /\ inflight' \in Seq(Entry) /\ Len(inflight') = n
                   /\ \A i \in 1..n : inflight'[i] = queue[i]
      BY <1>4, DrainMoves
    <2>2. ASSUME NEW i \in 1..Len(queue') PROVE queue'[i] \in ToSet(queue)
      <3>1. i + n \in 1..Len(queue)
        BY <1>1, <2>1
      <3> QED BY <1>2, <2>1, <3>1
    <2>3. ToSet(queue') \subseteq ToSet(queue)
      BY <2>1, <2>2, Within
    <2>4. CASE inflight' = inflight
      BY <2>3, <2>4
    <2>5. CASE inflight' \in Seq(Entry) /\ Len(inflight') = n /\ \A i \in 1..n : inflight'[i] = queue[i]
      <3>1. \A i \in 1..Len(inflight') : inflight'[i] \in ToSet(queue)
        BY <1>1, <1>2, <2>1, <2>5
      <3>2. ToSet(inflight') \subseteq ToSet(queue)
        BY <2>5, <3>1, Within
      <3> QED BY <2>3, <3>2
    <2> QED BY <2>1, <2>4, <2>5
  <1> QED BY <1>3, <1>4

LEMMA RestartSets ==
    ASSUME PythonAssumption, TypeOK, Restart
    PROVE  ToSet(queue') \subseteq ToSet(file)
  <1>1. file \in Seq(Entry) /\ Len(file) \in Nat
    BY DEF TypeOK
  <1>2. \A i \in 1..Len(file) : file[i] \in ToSet(file)
    BY <1>1, SetOf
  <1>3. PICK lost \in Nat :
           /\ queue' \in Seq(Entry) /\ Len(queue') \in Nat /\ Len(queue') <= Len(file) - lost
           /\ \A i \in 1..Len(queue') : queue'[i] = file[i + lost]
    BY RestartMoves
  <1>4. \A i \in 1..Len(queue') : queue'[i] \in ToSet(file)
    BY <1>1, <1>2, <1>3
  <1> QED BY <1>3, <1>4, Within

LEMMA SaveSets ==
    ASSUME PythonAssumption, TypeOK, NEW t \in Thread, Save(t)
    PROVE  ToSet(file') \subseteq ToSet(file) \cup ToSet(saving[t])
  <1>1. file \in Seq(Entry) /\ saving[t] \in Seq(Entry) /\ Len(saving[t]) \in Nat
    BY DEF TypeOK
  <1>2. \A i \in 1..Len(saving[t]) : saving[t][i] \in ToSet(saving[t])
    BY <1>1, SetOf
  <1>3. CASE file' = file
    BY <1>3
  <1>4. CASE file' # file
    <2>1. PICK lost \in Nat :
             /\ file' \in Seq(Entry) /\ Len(file') = Len(saving[t]) - lost
             /\ \A i \in 1..Len(file') : file'[i] = saving[t][i + lost]
      BY <1>4, SaveMoves
    <2>2. \A i \in 1..Len(file') : file'[i] \in ToSet(saving[t])
      BY <1>1, <1>2, <2>1
    <2>3. ToSet(file') \subseteq ToSet(saving[t])
      BY <2>1, <2>2, Within
    <2> QED BY <2>3
  <1> QED BY <1>3, <1>4

\* What the client holds, in memory or in the spool.
Stored ==
    ToSet(queue) \cup ToSet(inflight) \cup ToSet(file)
    \cup ToSet(saving["worker"]) \cup ToSet(saving["close"])

\* One step stores nothing but what is being recorded, answers for nothing but
\* what is in flight, and asks about nothing but what is stored.
Handed ==
    /\ Stored' \subseteq Stored \cup (IF Enqueue THEN {recording} ELSE {})
    /\ acked' \in {acked, acked \cup ToSet(inflight)}
    /\ \A c \in Callers : asked'[c] \subseteq asked[c] \cup Stored

LEMMA EmptySet == ToSet(<<>>) = {}
  BY DEF ToSet

LEMMA HandedStep == PythonAssumption /\ TypeOK /\ [Next]_vars => Handed
  <1> SUFFICES ASSUME PythonAssumption, TypeOK, [Next]_vars PROVE Handed
    OBVIOUS
  <1> USE DEF lineVars, waitVars, spoolVars, flushVars, Stored
  <1>0. /\ queue \in Seq(Entry) /\ inflight \in Seq(Entry) /\ saving \in [Thread -> Seq(Entry)]
        /\ asked \in [Callers -> SUBSET Entry]
    BY DEF TypeOK
  <1> USE EmptySet
  <1>1. CASE LogStart
    BY <1>0, <1>1 DEF Handed, LogStart
  <1>2. CASE Enqueue
    BY <1>0, <1>2, EnqueueSets DEF Handed, Enqueue, Stored
  <1>3. CASE Flush
    <2>1. ToSet(Held) \subseteq Stored
      <3>1. Held \in Seq(Entry) /\ Len(Held) = Len(inflight) + Len(queue)
            /\ \A i \in 1..Len(Held) : Held[i] = IF i <= Len(inflight) THEN inflight[i]
                                                 ELSE queue[i - Len(inflight)]
        BY <1>0 DEF Held
      <3>2. /\ \A i \in 1..Len(queue) : queue[i] \in ToSet(queue)
            /\ \A i \in 1..Len(inflight) : inflight[i] \in ToSet(inflight)
        BY <1>0, SetOf
      <3>3. \A i \in 1..Len(Held) : Held[i] \in ToSet(queue) \cup ToSet(inflight)
        <4> TAKE i \in 1..Len(Held)
        <4>1. CASE i <= Len(inflight)
          BY <1>0, <3>1, <3>2, <4>1
        <4>2. CASE ~(i <= Len(inflight))
          <5>1. i - Len(inflight) \in 1..Len(queue)
            BY <1>0, <3>1, <4>2
          <5> QED BY <3>1, <3>2, <4>2, <5>1
        <4> QED BY <4>1, <4>2
      <3>4. ToSet(Held) \subseteq ToSet(queue) \cup ToSet(inflight)
        BY <3>1, <3>3, Within
      <3> QED BY <3>4 DEF Stored
    <2> QED BY <1>0, <1>3, <2>1 DEF Handed, Flush, Ask
  <1>4. CASE \E c \in Callers : FlushTimesOut(c)
    BY <1>0, <1>4 DEF Handed, FlushTimesOut
  <1>5. CASE Close
    <2>1. ToSet(Held) \subseteq Stored
      <3>1. Held \in Seq(Entry) /\ Len(Held) = Len(inflight) + Len(queue)
            /\ \A i \in 1..Len(Held) : Held[i] = IF i <= Len(inflight) THEN inflight[i]
                                                 ELSE queue[i - Len(inflight)]
        BY <1>0 DEF Held
      <3>2. /\ \A i \in 1..Len(queue) : queue[i] \in ToSet(queue)
            /\ \A i \in 1..Len(inflight) : inflight[i] \in ToSet(inflight)
        BY <1>0, SetOf
      <3>3. \A i \in 1..Len(Held) : Held[i] \in ToSet(queue) \cup ToSet(inflight)
        <4> TAKE i \in 1..Len(Held)
        <4>1. CASE i <= Len(inflight)
          BY <1>0, <3>1, <3>2, <4>1
        <4>2. CASE ~(i <= Len(inflight))
          <5>1. i - Len(inflight) \in 1..Len(queue)
            BY <1>0, <3>1, <4>2
          <5> QED BY <3>1, <3>2, <4>2, <5>1
        <4> QED BY <4>1, <4>2
      <3>4. ToSet(Held) \subseteq ToSet(queue) \cup ToSet(inflight)
        BY <3>1, <3>3, Within
      <3> QED BY <3>4 DEF Stored
    <2> QED BY <1>0, <1>5, <2>1 DEF Handed, Close, Ask
  <1>6. CASE CloseStops
    BY <1>0, <1>6 DEF Handed, CloseStops
  <1>7. CASE CloseSnapshots
    <2>1. UNCHANGED saving \/ saving' = [saving EXCEPT !["close"] = queue]
      BY <1>7 DEF CloseSnapshots
    <2>2. ToSet(saving'["worker"]) \subseteq Stored /\ ToSet(saving'["close"]) \subseteq Stored
      BY <1>0, <2>1 DEF Stored, Thread
    <2> QED BY <1>7, <2>2 DEF Handed, Stored, CloseSnapshots
  <1>8. CASE CloseSaves
    <2>1. ToSet(file') \subseteq ToSet(file) \cup ToSet(saving["close"])
      BY <1>8, SaveSets DEF CloseSaves, Thread
    <2>2. saving' = [saving EXCEPT !["close"] = <<>>]
      BY <1>8 DEF CloseSaves, Save
    <2>3. ToSet(saving'["worker"]) \subseteq Stored /\ ToSet(saving'["close"]) \subseteq Stored
      BY <1>0, <2>2 DEF Stored, Thread
    <2> QED BY <1>8, <2>1, <2>3 DEF Handed, Stored, CloseSaves
  <1>9. CASE Look
    BY <1>0, <1>9 DEF Handed, Look
  <1>10. CASE Wake
    BY <1>0, <1>10 DEF Handed, Wake
  <1>11. CASE Decide
    BY <1>0, <1>11 DEF Handed, Decide
  <1>12. CASE Die
    BY <1>0, <1>12 DEF Handed, Die
  <1>13. CASE Drain
    BY <1>0, <1>13, DrainSets DEF Handed, Drain, Stored
  <1>14. CASE Accepted
    BY <1>0, <1>14 DEF Handed, Accepted, Settled, Stored
  <1>15. CASE Rejected
    BY <1>0, <1>15 DEF Handed, Rejected, Settled, Stored
  <1>16. CASE Failed
    BY <1>0, <1>16, FailedSets DEF Handed, Failed, Stored
  <1>17. CASE Persist
    <2>1. UNCHANGED saving \/ saving' = [saving EXCEPT !["worker"] = queue]
      BY <1>17 DEF Persist
    <2>2. ToSet(saving'["worker"]) \subseteq Stored /\ ToSet(saving'["close"]) \subseteq Stored
      BY <1>0, <2>1 DEF Stored, Thread
    <2> QED BY <1>17, <2>2 DEF Handed, Stored, Persist
  <1>18. CASE WorkerSaves
    <2>1. ToSet(file') \subseteq ToSet(file) \cup ToSet(saving["worker"])
      BY <1>18, SaveSets DEF WorkerSaves, Thread
    <2>2. saving' = [saving EXCEPT !["worker"] = <<>>]
      BY <1>18 DEF WorkerSaves, Save
    <2>3. ToSet(saving'["worker"]) \subseteq Stored /\ ToSet(saving'["close"]) \subseteq Stored
      BY <1>0, <2>2 DEF Stored, Thread
    <2> QED BY <1>18, <2>1, <2>3 DEF Handed, Stored, WorkerSaves
  <1>19. CASE HoldElapses
    BY <1>0, <1>19 DEF Handed, HoldElapses
  <1>20. CASE CooldownElapses
    BY <1>0, <1>20 DEF Handed, CooldownElapses
  <1>21. CASE TickElapses
    BY <1>0, <1>21 DEF Handed, TickElapses
  <1>22. CASE Restart
    <2>1. ToSet(queue') \subseteq ToSet(file)
      BY <1>22, RestartSets
    <2>2. ToSet(inflight') = {} /\ ToSet(saving'["worker"]) = {} /\ ToSet(saving'["close"]) = {} /\ UNCHANGED file
      BY <1>22 DEF Restart, Thread
    <2>3. Stored' \subseteq Stored
      BY <2>1, <2>2 DEF Stored
    <2> QED BY <1>22, <2>3 DEF Handed, Restart
  <1>23. CASE UNCHANGED vars
    BY <1>0, <1>23 DEF Handed, vars
  <1> QED BY <1>1, <1>2, <1>3, <1>4, <1>5, <1>6, <1>7, <1>8, <1>9, <1>10, <1>11, <1>12, <1>13, <1>14, <1>15, <1>16, <1>17, <1>18, <1>19, <1>20, <1>21, <1>22, <1>23 DEF Next, Closer, Worker

-------------------------------------------------------------------------------
(* Numbers and order.                                                      *)

\* The next entry to reach the queue.
Coming == IF recording = 0 THEN next ELSE recording

\* Whatever was stored, sent or asked about came before it.
Numbered ==
    /\ recording # 0 => recording + 1 = next
    /\ \A e \in Stored \cup acked : e < Coming
    /\ \A c \in Callers : \A e \in asked[c] : e < Coming

\* One step records the next number, queues what it was recording, or forgets it.
Recorded ==
    \/ LogStart /\ recording = 0 /\ recording' = next /\ next' = next + 1
    \/ Enqueue /\ recording # 0 /\ recording' = 0 /\ next' = next
    \/ Restart /\ recording' = 0 /\ next' = next
    \/ ~LogStart /\ ~Enqueue /\ ~Restart /\ recording' = recording /\ next' = next

LEMMA RecordedStep == [Next]_vars => Recorded
  <1> SUFFICES ASSUME [Next]_vars PROVE Recorded
    OBVIOUS
  <1> USE DEF lineVars, waitVars, spoolVars, flushVars
  <1>1. CASE LogStart BY <1>1 DEF LogStart, Recorded
  <1>2. CASE Enqueue BY <1>2 DEF Enqueue, Recorded
  <1>3. CASE Restart BY <1>3 DEF Restart, Recorded
  <1>4. CASE ~LogStart /\ ~Enqueue /\ ~Restart
    <2>1. recording' = recording /\ next' = next
      <3>1. CASE Closer BY <3>1 DEF Closer, CloseStops, CloseSnapshots, CloseSaves
      <3>2. CASE Worker
        BY <3>2 DEF Worker, Look, Wake, Decide, Die, Drain, Accepted, Rejected, Settled, Failed,
                    Persist, WorkerSaves
      <3>3. CASE Flush \/ Close \/ \E c \in Callers : FlushTimesOut(c)
        BY <3>3 DEF Flush, Close, FlushTimesOut
      <3>4. CASE HoldElapses \/ CooldownElapses \/ TickElapses
        BY <3>4 DEF HoldElapses, CooldownElapses, TickElapses
      <3>5. CASE UNCHANGED vars BY <3>5 DEF vars
      <3> QED BY <1>4, <3>1, <3>2, <3>3, <3>4, <3>5 DEF Next
    <2> QED BY <1>4, <2>1 DEF Recorded
  <1> QED BY <1>1, <1>2, <1>3, <1>4

LEMMA StoredEntries == TypeOK => Stored \subseteq Entry
  <1> SUFFICES ASSUME TypeOK PROVE Stored \subseteq Entry
    OBVIOUS
  <1>1. /\ queue \in Seq(Entry) /\ inflight \in Seq(Entry) /\ file \in Seq(Entry)
        /\ saving["worker"] \in Seq(Entry) /\ saving["close"] \in Seq(Entry)
    BY DEF TypeOK, Thread
  <1>2. ASSUME NEW s \in Seq(Entry) PROVE ToSet(s) \subseteq Entry
    BY DEF ToSet
  <1> QED BY <1>1, <1>2 DEF Stored

LEMMA NumberedStep == PythonAssumption /\ TypeOK /\ Numbered /\ [Next]_vars => Numbered'
  <1> SUFFICES ASSUME PythonAssumption, TypeOK, Numbered, [Next]_vars PROVE Numbered'
    OBVIOUS
  <1>1. Recorded /\ Handed
    BY RecordedStep, HandedStep
  <1>2. recording \in Nat /\ next \in Nat \ {0} /\ acked \subseteq Entry
    BY DEF TypeOK, PythonAssumption
  <1>3. ToSet(inflight) \subseteq Stored
    BY DEF Stored
  <1>4. \A e \in Stored : e \in Nat
    BY StoredEntries DEF Entry
  <1>5. \A c \in Callers : \A e \in asked[c] : e \in Nat
    BY DEF TypeOK, Entry
  <1>a. \A e \in acked : e \in Nat
    BY <1>2 DEF Entry
  <1>6. \/ Coming' = Coming /\ (recording' # 0 => recording' + 1 = next') /\ ~Enqueue
        \/ recording # 0 /\ Coming = recording /\ Coming' = recording + 1 /\ recording' = 0
        \/ Coming' \in Nat /\ Coming <= Coming' /\ recording' = 0 /\ ~Enqueue
    <2>1. CASE LogStart
      BY <2>1, <1>1, <1>2 DEF Recorded, Coming, Numbered, LogStart, Enqueue
    <2>2. CASE Enqueue
      BY <2>2, <1>1, <1>2 DEF Recorded, Coming, Numbered, LogStart, Restart, Enqueue
    <2>3. CASE Restart /\ ~Enqueue
      BY <2>3, <1>1, <1>2 DEF Recorded, Coming, Numbered, LogStart
    <2>4. CASE ~LogStart /\ ~Enqueue /\ ~Restart
      BY <2>4, <1>1, <1>2 DEF Recorded, Coming, Numbered
    <2> QED BY <2>1, <2>2, <2>3, <2>4
  <1>7. Coming \in Nat /\ Coming' \in Nat /\ Coming <= Coming' /\ (Enqueue => recording < Coming')
    BY <1>2, <1>6 DEF Coming
  <1>8. recording' # 0 => recording' + 1 = next'
    BY <1>6
  <1>9. ASSUME NEW e \in Stored' \cup acked' PROVE e < Coming'
    <2>1. e \in Stored \cup acked \/ (Enqueue /\ e = recording)
      BY <1>1, <1>3, <1>9 DEF Handed
    <2>2. CASE e \in Stored \cup acked
      BY <2>2, <1>4, <1>a, <1>7 DEF Numbered
    <2> QED BY <2>1, <2>2, <1>7
  <1>10. ASSUME NEW c \in Callers, NEW e \in asked'[c] PROVE e < Coming'
    <2>1. e \in asked[c] \cup Stored
      BY <1>1, <1>10 DEF Handed
    <2>2. e \in Nat
      BY <2>1, <1>4, <1>5
    <2>3. e < Coming
      BY <2>1 DEF Numbered
    <2> QED BY <2>2, <2>3, <1>7
  <1> QED BY <1>8, <1>9, <1>10 DEF Numbered

\* In the order of recording.
Increasing(s) == \A i, j \in 1..Len(s) : i < j => s[i] < s[j]

\* Everything waiting to be sent, and everything on its way to the disk, is in
\* the order it was recorded.
Sorted ==
    /\ Increasing(inflight) /\ Increasing(queue) /\ Increasing(file)
    /\ \A i \in 1..Len(inflight), j \in 1..Len(queue) : inflight[i] < queue[j]
    /\ \A t \in Thread : Increasing(saving[t])

LEMMA TailIncreases ==
    ASSUME NEW s \in Seq(Entry), NEW r \in Seq(Entry), NEW n \in Nat, Increasing(s),
           Len(r) <= Len(s) - n, \A i \in 1..Len(r) : r[i] = s[i + n]
    PROVE  Increasing(r)
  <1> SUFFICES ASSUME NEW i \in 1..Len(r), NEW j \in 1..Len(r), i < j PROVE r[i] < r[j]
    BY DEF Increasing
  <1>1. i + n \in 1..Len(s) /\ j + n \in 1..Len(s) /\ i + n < j + n
    OBVIOUS
  <1> QED BY <1>1 DEF Increasing

LEMMA EmptyIncreases == Increasing(<<>>)
  BY DEF Increasing

\* The moves keep the order.
LEMMA EnqueueSorts ==
    ASSUME PythonAssumption, TypeOK, Numbered, Sorted, Enqueue
    PROVE  Sorted'
  <1>1. /\ queue \in Seq(Entry) /\ inflight \in Seq(Entry) /\ Len(queue) \in Nat /\ Len(inflight) \in Nat
        /\ recording \in Nat
    BY DEF TypeOK
  <1>2. PICK lost \in Nat :
           /\ queue' \in Seq(Entry) /\ Len(queue') \in Nat /\ Len(queue') = Len(queue) + 1 - lost
           /\ \A i \in 1..Len(queue') :
                 queue'[i] = IF i + lost <= Len(queue) THEN queue[i + lost] ELSE recording
    BY EnqueueMoves
  <1>3. UNCHANGED <<inflight, file, saving>> /\ recording # 0
    BY DEF Enqueue
  <1>4. /\ \A i \in 1..Len(queue) : queue[i] < recording
        /\ \A i \in 1..Len(inflight) : inflight[i] < recording
    <2>1. Coming = recording
      BY <1>3 DEF Coming
    <2>2. \A i \in 1..Len(queue) : queue[i] \in ToSet(queue)
      BY <1>1, SetOf
    <2>3. \A i \in 1..Len(inflight) : inflight[i] \in ToSet(inflight)
      BY <1>1, SetOf
    <2> QED BY <2>1, <2>2, <2>3 DEF Numbered, Stored
  <1>5. ASSUME NEW i \in 1..Len(queue'), NEW j \in 1..Len(queue'), i < j PROVE queue'[i] < queue'[j]
    <2>1. i + lost \in 1..Len(queue) /\ queue'[i] = queue[i + lost]
      BY <1>1, <1>2, <1>5
    <2>2. CASE j + lost <= Len(queue)
      <3>1. j + lost \in 1..Len(queue) /\ queue'[j] = queue[j + lost] /\ i + lost < j + lost
        BY <1>1, <1>2, <1>5, <2>2
      <3> QED BY <2>1, <3>1 DEF Sorted, Increasing
    <2>3. CASE ~(j + lost <= Len(queue))
      BY <1>2, <1>4, <2>1, <2>3
    <2> QED BY <2>2, <2>3
  <1>6. ASSUME NEW i \in 1..Len(inflight), NEW j \in 1..Len(queue') PROVE inflight[i] < queue'[j]
    <2>1. CASE j + lost <= Len(queue)
      <3>1. j + lost \in 1..Len(queue) /\ queue'[j] = queue[j + lost]
        BY <1>1, <1>2, <2>1
      <3> QED BY <3>1 DEF Sorted
    <2>2. CASE ~(j + lost <= Len(queue))
      BY <1>2, <1>4, <2>2
    <2> QED BY <2>1, <2>2
  <1> QED BY <1>3, <1>5, <1>6 DEF Sorted, Increasing

LEMMA FailedSorts ==
    ASSUME PythonAssumption, TypeOK, Sorted, Failed
    PROVE  Sorted'
  <1>1. queue \in Seq(Entry) /\ inflight \in Seq(Entry) /\ Len(queue) \in Nat /\ Len(inflight) \in Nat
    BY DEF TypeOK
  <1>2. PICK lost \in Nat :
           /\ queue' \in Seq(Entry) /\ Len(queue') \in Nat
           /\ Len(queue') = Len(inflight) + Len(queue) - lost
           /\ \A i \in 1..Len(queue') :
                 queue'[i] = IF i + lost <= Len(inflight) THEN inflight[i + lost]
                             ELSE queue[i + lost - Len(inflight)]
    BY FailedMoves
  <1>3. UNCHANGED <<file, saving>> /\ inflight' = <<>>
    BY DEF Failed, spoolVars
  <1>4. ASSUME NEW i \in 1..Len(queue'), NEW j \in 1..Len(queue'), i < j PROVE queue'[i] < queue'[j]
    <2>1. CASE j + lost <= Len(inflight)
      <3>1. /\ i + lost \in 1..Len(inflight) /\ j + lost \in 1..Len(inflight) /\ i + lost < j + lost
            /\ queue'[i] = inflight[i + lost] /\ queue'[j] = inflight[j + lost]
        BY <1>1, <1>2, <1>4, <2>1
      <3> QED BY <3>1 DEF Sorted, Increasing
    <2>2. CASE ~(j + lost <= Len(inflight)) /\ i + lost <= Len(inflight)
      <3>1. /\ i + lost \in 1..Len(inflight) /\ j + lost - Len(inflight) \in 1..Len(queue)
        BY <1>1, <1>2, <2>2
      <3>2. queue'[i] = inflight[i + lost] /\ queue'[j] = queue[j + lost - Len(inflight)]
        BY <1>2, <2>2
      <3> QED BY <3>1, <3>2 DEF Sorted
    <2>3. CASE ~(i + lost <= Len(inflight))
      <3>1. /\ i + lost - Len(inflight) \in 1..Len(queue) /\ j + lost - Len(inflight) \in 1..Len(queue)
            /\ i + lost - Len(inflight) < j + lost - Len(inflight) /\ ~(j + lost <= Len(inflight))
        BY <1>1, <1>2, <1>4, <2>3
      <3>2. queue'[i] = queue[i + lost - Len(inflight)] /\ queue'[j] = queue[j + lost - Len(inflight)]
        BY <1>2, <2>3, <3>1
      <3> QED BY <3>1, <3>2 DEF Sorted, Increasing
    <2> QED BY <2>1, <2>2, <2>3
  <1> QED BY <1>3, <1>4 DEF Sorted, Increasing

LEMMA DrainSorts ==
    ASSUME PythonAssumption, TypeOK, Sorted, Posting, Drain
    PROVE  Sorted'
  <1>1. queue \in Seq(Entry) /\ Len(queue) \in Nat
    BY DEF TypeOK
  <1>2. UNCHANGED <<file, saving>> /\ inflight = <<>>
    BY DEF Drain, Posting
  <1>3. CASE UNCHANGED <<queue, ahead, inflight, carried, answer, clean, fresh>>
    BY <1>2, <1>3 DEF Sorted
  <1>4. CASE ~UNCHANGED <<queue, ahead, inflight, carried, answer, clean, fresh>>
    <2>1. PICK n \in Nat :
             /\ n <= Len(queue) /\ queue' \in Seq(Entry) /\ Len(queue') = Len(queue) - n
             /\ \A i \in 1..Len(queue') : queue'[i] = queue[i + n]
             /\ \/ inflight' = inflight
                \/ /\ inflight' \in Seq(Entry) /\ Len(inflight') = n
                   /\ \A i \in 1..n : inflight'[i] = queue[i]
      BY <1>4, DrainMoves
    <2>5. Len(queue') <= Len(queue) - n /\ Increasing(queue)
      BY <1>1, <2>1 DEF Sorted
    <2>2. Increasing(queue')
      BY <1>1, <2>1, <2>5, TailIncreases
    <2>3. CASE inflight' = inflight
      BY <1>2, <2>2, <2>3 DEF Sorted
    <2>4. CASE inflight' \in Seq(Entry) /\ Len(inflight') = n /\ \A i \in 1..n : inflight'[i] = queue[i]
      <3>1. ASSUME NEW i \in 1..n PROVE i \in 1..Len(queue) /\ inflight'[i] = queue[i]
        BY <1>1, <2>1, <2>4
      <3>2. Increasing(inflight')
        BY <2>4, <3>1 DEF Sorted, Increasing
      <3>3. ASSUME NEW i \in 1..n, NEW j \in 1..Len(queue') PROVE inflight'[i] < queue'[j]
        <4>1. j + n \in 1..Len(queue) /\ i < j + n /\ queue'[j] = queue[j + n]
          BY <1>1, <2>1
        <4> QED BY <3>1, <4>1 DEF Sorted, Increasing
      <3> QED BY <1>2, <2>2, <2>4, <3>2, <3>3 DEF Sorted
    <2> QED BY <2>1, <2>3, <2>4
  <1> QED BY <1>3, <1>4

LEMMA SaveSorts ==
    ASSUME PythonAssumption, TypeOK, Sorted, NEW t \in Thread, Save(t), UNCHANGED <<inflight, queue>>
    PROVE  Sorted'
  <1>1. Increasing(file')
    <2>1. CASE file' = file
      BY <2>1 DEF Sorted
    <2>2. CASE file' # file
      <3>1. PICK lost \in Nat :
               /\ file' \in Seq(Entry) /\ Len(file') = Len(saving[t]) - lost
               /\ \A i \in 1..Len(file') : file'[i] = saving[t][i + lost]
        BY <2>2, SaveMoves
      <3>2. saving[t] \in Seq(Entry) /\ Increasing(saving[t]) /\ Len(saving[t]) \in Nat
        BY DEF TypeOK, Sorted
      <3>3. Len(file') <= Len(saving[t]) - lost
        BY <3>1, <3>2
      <3> QED BY <3>1, <3>2, <3>3, TailIncreases
    <2> QED BY <2>1, <2>2
  <1>2. \A u \in Thread : saving'[u] = saving[u] \/ saving'[u] = <<>>
    BY DEF Save, TypeOK
  <1> QED BY <1>1, <1>2, EmptyIncreases DEF Sorted

LEMMA RestartSorts ==
    ASSUME PythonAssumption, TypeOK, Sorted, Restart
    PROVE  Sorted'
  <1>1. file \in Seq(Entry) /\ Len(file) \in Nat
    BY DEF TypeOK
  <1>2. PICK lost \in Nat :
           /\ queue' \in Seq(Entry) /\ Len(queue') \in Nat /\ Len(queue') <= Len(file) - lost
           /\ \A i \in 1..Len(queue') : queue'[i] = file[i + lost]
    BY RestartMoves
  <1>3. Increasing(queue')
    BY <1>1, <1>2, TailIncreases DEF Sorted
  <1>4. UNCHANGED file /\ inflight' = <<>> /\ \A t \in Thread : saving'[t] = <<>>
    BY DEF Restart
  <1> QED BY <1>3, <1>4, EmptyIncreases DEF Sorted

LEMMA SortedStep == PythonAssumption /\ TypeOK /\ Posting /\ Numbered /\ Sorted /\ [Next]_vars => Sorted'
  <1> SUFFICES ASSUME PythonAssumption, TypeOK, Posting, Numbered, Sorted, [Next]_vars PROVE Sorted'
    OBVIOUS
  <1> USE DEF lineVars, waitVars, spoolVars, flushVars
  <1>0. Sorted /\ saving \in [Thread -> Seq(Entry)]
    BY DEF TypeOK
  <1>1. CASE LogStart
    BY <1>0, <1>1 DEF Sorted, LogStart
  <1>2. CASE Enqueue
    BY <1>2, EnqueueSorts
  <1>3. CASE Flush
    BY <1>0, <1>3 DEF Sorted, Flush, Ask
  <1>4. CASE \E c \in Callers : FlushTimesOut(c)
    BY <1>0, <1>4 DEF Sorted, FlushTimesOut
  <1>5. CASE Close
    BY <1>0, <1>5 DEF Sorted, Close, Ask
  <1>6. CASE CloseStops
    BY <1>0, <1>6 DEF Sorted, CloseStops
  <1>7. CASE CloseSnapshots
    <2>1. \A t \in Thread : saving'[t] = saving[t] \/ saving'[t] = queue
      BY <1>0, <1>7 DEF CloseSnapshots
    <2>2. UNCHANGED <<queue, inflight, file>>
      BY <1>7 DEF CloseSnapshots
    <2> QED BY <1>0, <2>1, <2>2 DEF Sorted
  <1>8. CASE CloseSaves
    BY <1>8, SaveSorts DEF CloseSaves, Thread
  <1>9. CASE Look
    BY <1>0, <1>9 DEF Sorted, Look
  <1>10. CASE Wake
    BY <1>0, <1>10 DEF Sorted, Wake
  <1>11. CASE Decide
    BY <1>0, <1>11 DEF Sorted, Decide
  <1>12. CASE Die
    BY <1>0, <1>12 DEF Sorted, Die
  <1>13. CASE Drain
    BY <1>13, DrainSorts
  <1>14. CASE Accepted
    BY <1>0, <1>14, EmptyIncreases DEF Sorted, Accepted, Settled
  <1>15. CASE Rejected
    BY <1>0, <1>15, EmptyIncreases DEF Sorted, Rejected, Settled
  <1>16. CASE Failed
    BY <1>16, FailedSorts
  <1>17. CASE Persist
    <2>1. \A t \in Thread : saving'[t] = saving[t] \/ saving'[t] = queue
      BY <1>0, <1>17 DEF Persist
    <2>2. UNCHANGED <<queue, inflight, file>>
      BY <1>17 DEF Persist
    <2> QED BY <1>0, <2>1, <2>2 DEF Sorted
  <1>18. CASE WorkerSaves
    BY <1>18, SaveSorts DEF WorkerSaves, Thread
  <1>19. CASE HoldElapses
    BY <1>0, <1>19 DEF Sorted, HoldElapses
  <1>20. CASE CooldownElapses
    BY <1>0, <1>20 DEF Sorted, CooldownElapses
  <1>21. CASE TickElapses
    BY <1>0, <1>21 DEF Sorted, TickElapses
  <1>22. CASE Restart
    BY <1>22, RestartSorts
  <1>23. CASE UNCHANGED vars
    BY <1>0, <1>23 DEF Sorted, vars
  <1> QED BY <1>1, <1>2, <1>3, <1>4, <1>5, <1>6, <1>7, <1>8, <1>9, <1>10, <1>11, <1>12, <1>13, <1>14, <1>15, <1>16, <1>17, <1>18, <1>19, <1>20, <1>21, <1>22, <1>23 DEF Next, Closer, Worker

-------------------------------------------------------------------------------
(* The run, the spool and the markers.                                     *)

\* What is still to be sent.
Line == ToSet(queue) \cup ToSet(inflight)

\* The first run never holds what it has sent.
Unsent == run = 1 => Line \cap acked = {}

LEMMA UnsentBy ==
    ASSUME TypeOK, Unsent, run' \in {run, run + 1}, Line' \subseteq Line, UNCHANGED acked
    PROVE  Unsent'
  BY DEF TypeOK, Unsent

LEMMA UnsentStep == PythonAssumption /\ TypeOK /\ Numbered /\ Sorted /\ Unsent /\ [Next]_vars => Unsent'
  <1> SUFFICES ASSUME PythonAssumption, TypeOK, Numbered, Sorted, Unsent, [Next]_vars PROVE Unsent'
    OBVIOUS
  <1> USE DEF lineVars, waitVars, spoolVars, flushVars, Line
  <1>0. Unsent /\ run \in Nat \ {0}
    BY DEF TypeOK, PythonAssumption
  <1>1. CASE LogStart
    BY <1>0, <1>1 DEF Unsent, LogStart
  <1>2. CASE Enqueue
    <2>1. recording \notin acked
      BY <1>2 DEF Numbered, Coming, Enqueue, TypeOK, Entry
    <2>2. ToSet(queue') \subseteq ToSet(queue) \cup {recording}
      BY <1>2, EnqueueSets
    <2>3. UNCHANGED <<run, inflight, acked>>
      BY <1>2 DEF Enqueue
    <2> QED BY <1>0, <2>1, <2>2, <2>3 DEF Unsent, Line
  <1>3. CASE Flush
    BY <1>0, <1>3 DEF Unsent, Flush, Ask, Line
  <1>4. CASE \E c \in Callers : FlushTimesOut(c)
    BY <1>0, <1>4 DEF Unsent, FlushTimesOut
  <1>5. CASE Close
    BY <1>0, <1>5 DEF Unsent, Close, Ask, Line
  <1>6. CASE CloseStops
    BY <1>0, <1>6 DEF Unsent, CloseStops
  <1>7. CASE CloseSnapshots
    BY <1>0, <1>7 DEF Unsent, CloseSnapshots
  <1>8. CASE CloseSaves
    BY <1>0, <1>8 DEF Unsent, CloseSaves
  <1>9. CASE Look
    BY <1>0, <1>9 DEF Unsent, Look
  <1>10. CASE Wake
    BY <1>0, <1>10 DEF Unsent, Wake
  <1>11. CASE Decide
    BY <1>0, <1>11 DEF Unsent, Decide
  <1>12. CASE Die
    BY <1>0, <1>12 DEF Unsent, Die
  <1>13. CASE Drain
    BY <1>0, <1>13, DrainSets DEF Unsent, Drain, Line
  <1>14. CASE Accepted
    <2>1. ToSet(queue) \cap ToSet(inflight) = {}
      <3>1. queue \in Seq(Entry) /\ inflight \in Seq(Entry)
        BY DEF TypeOK
      <3>2. ASSUME NEW i \in 1..Len(inflight), NEW j \in 1..Len(queue) PROVE inflight[i] # queue[j]
        <4>1. inflight[i] \in Nat /\ inflight[i] < queue[j]
          BY <3>1 DEF Sorted, Entry
        <4> QED BY <4>1
      <3> QED BY <3>1, <3>2, InSet
    <2>2. UNCHANGED <<run, queue>> /\ inflight' = <<>> /\ acked' = acked \cup ToSet(inflight)
      BY <1>14 DEF Accepted, Settled
    <2> QED BY <1>0, <2>1, <2>2, EmptySet DEF Unsent, Line
  <1>15. CASE Rejected
    BY <1>0, <1>15, EmptySet DEF Unsent, Rejected, Settled, Line
  <1>16. CASE Failed
    BY <1>0, <1>16, FailedSets, EmptySet DEF Unsent, Failed, Line
  <1>17. CASE Persist
    BY <1>0, <1>17 DEF Unsent, Persist
  <1>18. CASE WorkerSaves
    BY <1>0, <1>18 DEF Unsent, WorkerSaves
  <1>19. CASE HoldElapses
    BY <1>0, <1>19 DEF Unsent, HoldElapses
  <1>20. CASE CooldownElapses
    BY <1>0, <1>20 DEF Unsent, CooldownElapses
  <1>21. CASE TickElapses
    BY <1>0, <1>21 DEF Unsent, TickElapses
  <1>22. CASE Restart
    BY <1>0, <1>22 DEF Unsent, Restart
  <1>23. CASE UNCHANGED vars
    BY <1>0, <1>23 DEF Unsent, vars
  <1> QED BY <1>1, <1>2, <1>3, <1>4, <1>5, <1>6, <1>7, <1>8, <1>9, <1>10, <1>11, <1>12, <1>13, <1>14, <1>15, <1>16, <1>17, <1>18, <1>19, <1>20, <1>21, <1>22, <1>23 DEF Next, Closer, Worker

\* Until close(): what the spool holds, or will once a save that is under way is done.
Mirror ==
    closing = "open" =>
        /\ at = "posting" => ~clean
        /\ at = "saving" /\ fresh["worker"] => saving["worker"] = queue
        /\ clean /\ ~unsaved /\ at # "posting" => file = Newest(MaxFile, queue)

LEMMA MirrorStep == PythonAssumption /\ TypeOK /\ Mirror /\ [Next]_vars => Mirror'
  <1> SUFFICES ASSUME PythonAssumption, TypeOK, Mirror, [Next]_vars PROVE Mirror'
    OBVIOUS
  <1> USE DEF lineVars, waitVars, spoolVars, flushVars
  <1>0. Mirror /\ clean \in BOOLEAN /\ unsaved \in BOOLEAN
    BY DEF TypeOK
  <1>1. CASE LogStart
    BY <1>0, <1>1 DEF Mirror, LogStart
  <1>2. CASE Enqueue
    <2>1. clean' = FALSE /\ fresh' = [t \in Thread |-> FALSE]
      BY <1>2 DEF Enqueue, Bump
    <2>2. ~fresh'["worker"]
      BY <2>1 DEF Thread
    <2> QED BY <2>1, <2>2 DEF Mirror
  <1>3. CASE Flush
    BY <1>0, <1>3 DEF Mirror, Flush, Ask
  <1>4. CASE \E c \in Callers : FlushTimesOut(c)
    BY <1>0, <1>4 DEF Mirror, FlushTimesOut
  <1>5. CASE Close
    BY <1>0, <1>5 DEF Mirror, Close
  <1>6. CASE CloseStops
    BY <1>0, <1>6 DEF Mirror, CloseStops
  <1>7. CASE CloseSnapshots
    BY <1>0, <1>7 DEF Mirror, CloseSnapshots
  <1>8. CASE CloseSaves
    <2>1. closing' = "done"
      BY <1>8 DEF CloseSaves
    <2> QED BY <2>1 DEF Mirror
  <1>9. CASE Look
    BY <1>0, <1>9 DEF Mirror, Look
  <1>10. CASE Wake
    BY <1>0, <1>10 DEF Mirror, Wake
  <1>11. CASE Decide
    BY <1>0, <1>11 DEF Mirror, Decide
  <1>12. CASE Die
    BY <1>0, <1>12 DEF Mirror, Die
  <1>13. CASE Drain
    <2>1. CASE UNCHANGED <<queue, clean, fresh>> /\ at' = "persist"
      BY <1>0, <1>13, <2>1 DEF Mirror, Drain
    <2>2. CASE at' = "posting" /\ clean' = FALSE
      BY <2>2 DEF Mirror
    <2>3. \/ UNCHANGED <<queue, clean, fresh>> /\ at' = "persist"
          \/ at' = "posting" /\ clean' = FALSE
      <3>1. CASE ~Resumed
        BY <1>13, <3>1 DEF Drain, DrainEnds
      <3>2. CASE Resumed /\ queue = <<>>
        BY <1>13, <3>2, DrainMoves DEF Drain, DrainEnds
      <3>3. CASE Resumed /\ queue # <<>>
        BY <1>13, <3>3 DEF Drain, Bump
      <3> QED BY <3>1, <3>2, <3>3
    <2> QED BY <2>1, <2>2, <2>3
  <1>14. CASE Accepted
    BY <1>0, <1>14 DEF Mirror, Accepted, Settled, DrainEnds
  <1>15. CASE Rejected
    BY <1>0, <1>15 DEF Mirror, Rejected, Settled, DrainEnds
  <1>16. CASE Failed
    BY <1>0, <1>16 DEF Mirror, Failed, DrainEnds
  <1>17. CASE Persist
    <2>1. UNCHANGED <<closing, clean, unsaved, file, queue>> /\ at' # "posting" /\ at = "persist"
      BY <1>17 DEF Persist
    <2>2. at' = "saving" => saving'["worker"] = queue
      BY <1>17 DEF Persist, TypeOK, Thread
    <2> QED BY <1>0, <2>1, <2>2 DEF Mirror
  <1>18. CASE WorkerSaves
    <2>1. /\ at = "saving" /\ at' = "look" /\ UNCHANGED <<closing, queue>>
          /\ clean' = fresh["worker"]
          /\ unsaved' = TRUE \/ (unsaved' = FALSE /\ file' = Newest(MaxFile, saving["worker"]))
      BY <1>18 DEF WorkerSaves, Save
    <2> QED BY <1>0, <2>1 DEF Mirror
  <1>19. CASE HoldElapses
    BY <1>0, <1>19 DEF Mirror, HoldElapses
  <1>20. CASE CooldownElapses
    BY <1>0, <1>20 DEF Mirror, CooldownElapses
  <1>21. CASE TickElapses
    BY <1>0, <1>21 DEF Mirror, TickElapses
  <1>22. CASE Restart
    <2>1. clean' = (queue' = <<>>) /\ (file = <<>> \/ unsaved' \/ queue' # <<>>)
      BY <1>22, RestartMoves
    <2>2. Newest(MaxFile, <<>>) = <<>>
      BY DEF Newest, PythonAssumption
    <2>3. at' = "look" /\ UNCHANGED file
      BY <1>22 DEF Restart
    <2> QED BY <2>1, <2>2, <2>3 DEF Mirror
  <1>23. CASE UNCHANGED vars
    BY <1>0, <1>23 DEF Mirror, vars
  <1> QED BY <1>1, <1>2, <1>3, <1>4, <1>5, <1>6, <1>7, <1>8, <1>9, <1>10, <1>11, <1>12, <1>13, <1>14, <1>15, <1>16, <1>17, <1>18, <1>19, <1>20, <1>21, <1>22, <1>23 DEF Next, Closer, Worker

\* What was pending when a flush was asked lies before its marker, or was sent
\* with the batch that carries the marker.
Waits ==
    /\ \A c \in DOMAIN ahead : \A i \in 1..Len(queue) : i > ahead[c] => queue[i] \notin asked[c]
    /\ \A c \in carried : \A i \in 1..Len(queue) : queue[i] \notin asked[c]
    /\ \A c \in DOMAIN ahead \cup carried : answer[c] # "none"
    /\ "close" \in Callers /\ closing = "open" => answer["close"] = "none"

LEMMA FailedWaits ==
    ASSUME PythonAssumption, TypeOK, Waits, Failed
    PROVE  Waits'
  <1>1. /\ Len(queue) \in Nat /\ Len(inflight) \in Nat
        /\ \A c \in DOMAIN ahead : ahead[c] \in Nat
        /\ answer \in [Callers -> {"none", "waiting", "true", "false"}]
        /\ DOMAIN ahead \subseteq Callers
    BY DEF TypeOK
  <1>2. PICK lost \in Nat :
           /\ Len(queue') \in Nat /\ Len(queue') = Len(inflight) + Len(queue) - lost
           /\ \A i \in 1..Len(queue') :
                 queue'[i] = IF i + lost <= Len(inflight) THEN inflight[i + lost]
                             ELSE queue[i + lost - Len(inflight)]
           /\ ahead' = Shifted(Len(inflight), lost)
    BY FailedMoves
  <1>3. UNCHANGED <<asked, closing>> /\ carried' = {} /\ answer' = Answered(carried, "false")
    BY DEF Failed
  <1>4. DOMAIN ahead' = DOMAIN ahead /\ \A c \in DOMAIN ahead : ahead'[c] = Less(ahead[c] + Len(inflight), lost)
    BY <1>2 DEF Shifted
  <1>5. ASSUME NEW c \in DOMAIN ahead, NEW i \in 1..Len(queue'), i > ahead'[c] PROVE queue'[i] \notin asked[c]
    <2>1. i + lost > ahead[c] + Len(inflight)
      BY <1>1, <1>4, <1>5 DEF Less
    <2>2. ~(i + lost <= Len(inflight)) /\ i + lost - Len(inflight) \in 1..Len(queue)
          /\ i + lost - Len(inflight) > ahead[c]
      BY <1>1, <1>2, <2>1
    <2> QED BY <1>2, <2>2 DEF Waits
  <1>6. \A c \in Callers : answer[c] # "none" => answer'[c] # "none"
    BY <1>3 DEF Answered
  <1>7. \A c \in Callers : answer[c] = "none" => answer'[c] = "none"
    BY <1>3 DEF Answered
  <1> QED BY <1>1, <1>3, <1>4, <1>5, <1>6, <1>7 DEF Waits

LEMMA EnqueueWaits ==
    ASSUME PythonAssumption, TypeOK, Numbered, Waits, Enqueue
    PROVE  Waits'
  <1>1. /\ Len(queue) \in Nat
        /\ \A c \in DOMAIN ahead : ahead[c] \in Nat
        /\ DOMAIN ahead \subseteq Callers /\ carried \subseteq Callers
    BY DEF TypeOK
  <1>2. PICK lost \in Nat :
           /\ Len(queue') \in Nat /\ Len(queue') = Len(queue) + 1 - lost
           /\ \A i \in 1..Len(queue') :
                 queue'[i] = IF i + lost <= Len(queue) THEN queue[i + lost] ELSE recording
           /\ ahead' = Shifted(0, lost)
    BY EnqueueMoves
  <1>3. UNCHANGED <<asked, closing, carried, answer>>
    BY DEF Enqueue, flushVars
  <1>4. DOMAIN ahead' = DOMAIN ahead /\ \A c \in DOMAIN ahead : ahead'[c] = Less(ahead[c] + 0, lost)
    BY <1>2 DEF Shifted
  <1>5. \A c \in Callers : recording \notin asked[c]
    <2>1. recording \in Nat
      BY DEF TypeOK
    <2>2. Coming = recording
      BY DEF Coming, Enqueue
    <2> QED BY <2>1, <2>2 DEF Numbered
  <1>6. ASSUME NEW c \in DOMAIN ahead, NEW i \in 1..Len(queue'), i > ahead'[c] PROVE queue'[i] \notin asked[c]
    <2>1. CASE i + lost <= Len(queue)
      <3>1. i + lost \in 1..Len(queue) /\ i + lost > ahead[c]
        BY <1>1, <1>4, <1>6, <2>1 DEF Less
      <3> QED BY <1>2, <2>1, <3>1 DEF Waits
    <2>2. CASE ~(i + lost <= Len(queue))
      BY <1>1, <1>2, <1>5, <2>2
    <2> QED BY <2>1, <2>2
  <1>7. ASSUME NEW c \in carried, NEW i \in 1..Len(queue') PROVE queue'[i] \notin asked[c]
    <2>1. CASE i + lost <= Len(queue)
      <3>1. i + lost \in 1..Len(queue)
        BY <1>1, <2>1
      <3> QED BY <1>2, <2>1, <3>1 DEF Waits
    <2>2. CASE ~(i + lost <= Len(queue))
      BY <1>1, <1>2, <1>5, <2>2
    <2> QED BY <2>1, <2>2
  <1> QED BY <1>3, <1>4, <1>6, <1>7 DEF Waits

LEMMA DrainWaits ==
    ASSUME PythonAssumption, TypeOK, Posting, Waits, Drain
    PROVE  Waits'
  <1>1. /\ Len(queue) \in Nat /\ DOMAIN ahead \subseteq Callers
        /\ \A c \in DOMAIN ahead : ahead[c] \in Nat
    BY DEF TypeOK
  <1>2. UNCHANGED <<asked, closing>> /\ carried = {}
    BY DEF Drain, Posting
  <1>3. CASE UNCHANGED <<queue, ahead, inflight, carried, answer, clean, fresh>>
    BY <1>2, <1>3 DEF Waits
  <1>4. CASE ~UNCHANGED <<queue, ahead, inflight, carried, answer, clean, fresh>>
    <2>1. PICK n \in Nat :
             /\ n <= Len(queue) /\ Len(queue') \in Nat /\ Len(queue') = Len(queue) - n
             /\ \A i \in 1..Len(queue') : queue'[i] = queue[i + n]
             /\ ahead' = [c \in {d \in DOMAIN ahead : ahead[d] > n} |-> ahead[c] - n]
             /\ \/ /\ answer' = Answered({c \in DOMAIN ahead : ahead[c] <= n}, "true")
                   /\ carried' = carried
                \/ UNCHANGED answer /\ carried' = {c \in DOMAIN ahead : ahead[c] <= n}
      BY <1>4, DrainMoves
    <2>2. DOMAIN ahead' \subseteq DOMAIN ahead /\ \A c \in DOMAIN ahead' : ahead'[c] = ahead[c] - n
      BY <2>1
    <2>3. carried' \subseteq DOMAIN ahead /\ \A c \in carried' : ahead[c] <= n
      BY <1>2, <2>1
    <2>4. ASSUME NEW i \in 1..Len(queue') PROVE i + n \in 1..Len(queue) /\ queue'[i] = queue[i + n]
      BY <1>1, <2>1
    <2>5. ASSUME NEW c \in DOMAIN ahead', NEW i \in 1..Len(queue'), i > ahead'[c] PROVE queue'[i] \notin asked[c]
      <3>1. i + n > ahead[c]
        BY <1>1, <2>2, <2>5
      <3> QED BY <2>2, <2>4, <3>1 DEF Waits
    <2>6. ASSUME NEW c \in carried', NEW i \in 1..Len(queue') PROVE queue'[i] \notin asked[c]
      <3>1. i + n > ahead[c]
        BY <1>1, <2>3
      <3> QED BY <2>3, <2>4, <3>1 DEF Waits
    <2>7. \A c \in Callers : (answer[c] = "none") <=> (answer'[c] = "none")
      <3>1. CASE UNCHANGED answer
        BY <3>1
      <3>2. CASE answer' = Answered({c \in DOMAIN ahead : ahead[c] <= n}, "true")
        BY <3>2 DEF Answered
      <3> QED BY <2>1, <3>1, <3>2
    <2> QED BY <1>1, <1>2, <2>2, <2>3, <2>5, <2>6, <2>7 DEF Waits
  <1> QED BY <1>3, <1>4

LEMMA AskWaits ==
    ASSUME TypeOK, Waits, NEW c \in Callers, Ask(c), answer[c] = "none",
           UNCHANGED carried, c = "close" => closing' # "open", closing' \in {closing, "flushing"}
    PROVE  Waits'
  <1>1. /\ Len(queue) \in Nat /\ DOMAIN ahead \subseteq Callers /\ carried \subseteq Callers
        /\ asked \in [Callers -> SUBSET Entry]
        /\ answer \in [Callers -> {"none", "waiting", "true", "false"}]
    BY DEF TypeOK
  <1>2. /\ DOMAIN ahead' = DOMAIN ahead \cup {c} /\ ahead'[c] = Len(queue)
        /\ \A d \in DOMAIN ahead \ {c} : ahead'[d] = ahead[d]
        /\ queue' = queue
        /\ answer'[c] = "waiting" /\ \A d \in Callers \ {c} : answer'[d] = answer[d] /\ asked'[d] = asked[d]
    BY <1>1 DEF Ask
  <1>3. c \notin DOMAIN ahead \cup carried
    BY DEF Waits
  <1> QED BY <1>1, <1>2, <1>3 DEF Waits

LEMMA SettledWaits ==
    ASSUME TypeOK, Waits, Settled
    PROVE  Waits'
  <1>1. /\ DOMAIN ahead \subseteq Callers
        /\ answer \in [Callers -> {"none", "waiting", "true", "false"}]
    BY DEF TypeOK
  <1>2. UNCHANGED <<queue, ahead, asked, closing>> /\ carried' = {} /\ answer' = Answered(carried, "true")
    BY DEF Settled, lineVars
  <1>3. \A c \in Callers : (answer[c] = "none") <=> (answer'[c] = "none")
    BY <1>2 DEF Answered
  <1> QED BY <1>1, <1>2, <1>3 DEF Waits

LEMMA ReleaseWaits ==
    ASSUME TypeOK, Waits, Release, UNCHANGED <<queue, carried, asked>>, closing' = closing \/ closing' # "open"
    PROVE  Waits'
  <1>1. /\ carried \subseteq Callers
        /\ answer \in [Callers -> {"none", "waiting", "true", "false"}]
    BY DEF TypeOK
  <1>2. DOMAIN ahead' = {}
    BY DEF Release, NoMarkers
  <1>3. \A c \in Callers : (answer[c] = "none") <=> (answer'[c] = "none")
    BY DEF Release, Answered
  <1> QED BY <1>1, <1>2, <1>3 DEF Waits

LEMMA WaitsStep == PythonAssumption /\ TypeOK /\ Posting /\ Numbered /\ Waits /\ [Next]_vars => Waits'
  <1> SUFFICES ASSUME PythonAssumption, TypeOK, Posting, Numbered, Waits, [Next]_vars PROVE Waits'
    OBVIOUS
  <1> USE DEF lineVars, waitVars, spoolVars, flushVars
  <1>0. Waits
    OBVIOUS
  <1>1. CASE LogStart
    BY <1>0, <1>1 DEF Waits, LogStart
  <1>2. CASE Enqueue
    BY <1>2, EnqueueWaits
  <1>3. CASE Flush
    BY <1>3, AskWaits DEF Flush
  <1>4. CASE \E c \in Callers : FlushTimesOut(c)
    <2>1. PICK c \in Callers : FlushTimesOut(c)
      BY <1>4
    <2>2. UNCHANGED <<queue, ahead, carried, asked, closing>> /\ answer' = [answer EXCEPT ![c] = "false"] /\ answer[c] = "waiting"
      BY <2>1 DEF FlushTimesOut
    <2>3. answer \in [Callers -> {"none", "waiting", "true", "false"}] /\ DOMAIN ahead \subseteq Callers /\ carried \subseteq Callers
      BY DEF TypeOK
    <2>4. \A d \in Callers : (answer[d] = "none") <=> (answer'[d] = "none")
      BY <2>2, <2>3
    <2> QED BY <2>2, <2>3, <2>4 DEF Waits
  <1>5. CASE Close
    <2>1. CASE cfg.exitFlush
      BY <1>5, <2>1, AskWaits DEF Close, Waits
    <2>2. CASE ~cfg.exitFlush
      BY <1>5, <2>2 DEF Close, Waits
    <2> QED BY <2>1, <2>2
  <1>6. CASE CloseStops
    BY <1>0, <1>6 DEF Waits, CloseStops
  <1>7. CASE CloseSnapshots
    BY <1>7, ReleaseWaits DEF CloseSnapshots
  <1>8. CASE CloseSaves
    BY <1>0, <1>8 DEF Waits, CloseSaves
  <1>9. CASE Look
    BY <1>0, <1>9 DEF Waits, Look
  <1>10. CASE Wake
    BY <1>0, <1>10 DEF Waits, Wake
  <1>11. CASE Decide
    BY <1>0, <1>11 DEF Waits, Decide
  <1>12. CASE Die
    BY <1>12, ReleaseWaits DEF Die
  <1>13. CASE Drain
    BY <1>13, DrainWaits
  <1>14. CASE Accepted
    BY <1>14, SettledWaits DEF Accepted
  <1>15. CASE Rejected
    BY <1>15, SettledWaits DEF Rejected
  <1>16. CASE Failed
    BY <1>16, FailedWaits
  <1>17. CASE Persist
    BY <1>0, <1>17 DEF Waits, Persist
  <1>18. CASE WorkerSaves
    BY <1>0, <1>18 DEF Waits, WorkerSaves
  <1>19. CASE HoldElapses
    BY <1>0, <1>19 DEF Waits, HoldElapses
  <1>20. CASE CooldownElapses
    BY <1>0, <1>20 DEF Waits, CooldownElapses
  <1>21. CASE TickElapses
    BY <1>0, <1>21 DEF Waits, TickElapses
  <1>22. CASE Restart
    <2>1. DOMAIN ahead' = {} /\ carried' = {} /\ ("close" \in Callers => answer'["close"] = "none")
      BY <1>22 DEF Restart, NoMarkers
    <2> QED BY <2>1 DEF Waits
  <1>23. CASE UNCHANGED vars
    BY <1>0, <1>23 DEF Waits, vars
  <1> QED BY <1>1, <1>2, <1>3, <1>4, <1>5, <1>6, <1>7, <1>8, <1>9, <1>10, <1>11, <1>12, <1>13, <1>14, <1>15, <1>16, <1>17, <1>18, <1>19, <1>20, <1>21, <1>22, <1>23 DEF Next, Closer, Worker

-------------------------------------------------------------------------------
(* The inductive invariant and what follows from it.                       *)

\* The inductive invariant.
Ind == TypeOK /\ Posting /\ Breaker /\ Bounded /\ Balanced /\ Numbered /\ Sorted /\ Unsent /\ Mirror /\ Waits

LEMMA InitInd == PythonAssumption /\ Init => Ind
  <1> SUFFICES ASSUME PythonAssumption, Init PROVE Ind
    OBVIOUS
  <1>1. TypeOK
    <2>1. Numbers BY DEF Numbers, Init, PythonAssumption
    <2>2. Flags BY DEF Flags, Init
    <2>3. Places BY DEF Places, Init
    <2>4. Lines BY DEF Lines, Init
    <2>5. Records BY DEF Records, Init
    <2>6. Marks BY DEF Marks, Init, NoMarkers
    <2> QED BY <2>1, <2>2, <2>3, <2>4, <2>5, <2>6 DEF TypeOK, Numbers, Flags, Places, Lines, Records, Marks
  <1>2. Posting /\ Breaker
    BY DEF Init, Posting, Breaker
  <1>3. Bounded /\ Balanced
    BY DEF Init, Bounded, Balanced, Due, PythonAssumption
  <1>4. Stored = {} /\ acked = {}
    BY EmptySet DEF Init, Stored, Thread
  <1>5. Numbered
    BY <1>4 DEF Init, Numbered
  <1>6. Sorted
    BY DEF Init, Sorted, Increasing
  <1>7. Unsent
    BY <1>4 DEF Unsent
  <1>8. Mirror
    BY DEF Init, Mirror, Newest, PythonAssumption
  <1>9. Waits
    BY DEF Init, Waits, NoMarkers
  <1> QED BY <1>1, <1>2, <1>3, <1>5, <1>6, <1>7, <1>8, <1>9 DEF Ind

LEMMA StepInd == PythonAssumption /\ Ind /\ [Next]_vars => Ind'
  BY TypeStep, PostingStep, BreakerStep, BoundedStep, BalancedStep, NumberedStep, SortedStep, UnsentStep,
     MirrorStep, WaitsStep DEF Ind

\* Ind holds in every state.
THEOREM Invariance == Spec => []Ind
  BY PythonAssumption, InitInd, StepInd, PTL DEF Spec

LEMMA IndGives == Ind => Contract
  <1> SUFFICES ASSUME Ind PROVE Contract
    OBVIOUS
  <1> USE DEF Ind
  <1>1. /\ queue \in Seq(Entry) /\ inflight \in Seq(Entry) /\ Len(queue) \in Nat /\ Len(inflight) \in Nat
    BY DEF TypeOK
  <1>2. Books
    BY BooksAre DEF Balanced
  <1>3. /\ Len(Held) = Len(inflight) + Len(queue)
        /\ \A i \in 1..Len(Held) : Held[i] = IF i <= Len(inflight) THEN inflight[i] ELSE queue[i - Len(inflight)]
        /\ Held \in Seq(Entry)
    BY <1>1 DEF Held
  <1>4. InOrder
    <2>1. SUFFICES ASSUME NEW i \in 1..Len(Held), NEW j \in 1..Len(Held), i < j PROVE Held[i] < Held[j]
      BY DEF InOrder
    <2>2. CASE j <= Len(inflight)
      BY <1>1, <1>3, <2>1, <2>2 DEF Sorted, Increasing
    <2>3. CASE ~(j <= Len(inflight)) /\ i <= Len(inflight)
      <3>1. j - Len(inflight) \in 1..Len(queue) /\ i \in 1..Len(inflight)
        BY <1>1, <1>3, <2>3
      <3> QED BY <1>3, <2>3, <3>1 DEF Sorted
    <2>4. CASE ~(i <= Len(inflight))
      <3>1. /\ i - Len(inflight) \in 1..Len(queue) /\ j - Len(inflight) \in 1..Len(queue)
            /\ i - Len(inflight) < j - Len(inflight) /\ ~(j <= Len(inflight))
        BY <1>1, <1>3, <2>1, <2>4
      <3> QED BY <1>3, <2>4, <3>1 DEF Sorted, Increasing
    <2> QED BY <2>2, <2>3, <2>4
  <1>5. NoResend
    <2>1. \A i \in 1..Len(queue) : queue[i] \in ToSet(queue)
      BY <1>1, SetOf
    <2>2. \A i \in 1..Len(inflight) : inflight[i] \in ToSet(inflight)
      BY <1>1, SetOf
    <2>3. ASSUME NEW i \in 1..Len(Held) PROVE Held[i] \in Line
      <3>1. CASE i <= Len(inflight)
        BY <1>1, <1>3, <2>2, <3>1 DEF Line
      <3>2. CASE ~(i <= Len(inflight))
        <4>1. i - Len(inflight) \in 1..Len(queue)
          BY <1>1, <1>3, <3>2
        <4> QED BY <1>3, <2>1, <3>2, <4>1 DEF Line
      <3> QED BY <3>1, <3>2
    <2>4. ToSet(Held) \subseteq Line
      BY <1>3, <2>3, Within
    <2> QED BY <2>4 DEF NoResend, Unsent
  <1>6. OneProbe
    BY DEF OneProbe, Breaker
  <1>7. Durable
    BY DEF Durable, Mirror
  <1> QED BY <1>2, <1>4, <1>5, <1>6, <1>7 DEF Contract

\* The types of the Python client hold for any number of runs and callers.
THEOREM TypesHold == Spec => []TypeOK
  BY Invariance, PTL DEF Ind

\* _client.py: whatever the threads, the server and the disk do, every entry is
\* queued, in flight or counted once; the bounds hold, batches leave in the
\* order of recording, nothing sent is sent again by its run, an open breaker
\* lets nothing out while it cools, and an idle worker has mirrored the queue.
THEOREM ContractHolds == Spec => []Contract
  BY Invariance, IndGives, PTL

\* What a concatenation holds.
LEMMA ToSetConcat ==
    ASSUME NEW s \in Seq(Entry), NEW r \in Seq(Entry)
    PROVE  ToSet(s \o r) = ToSet(s) \cup ToSet(r)
  <1>1. /\ s \o r \in Seq(Entry) /\ Len(s \o r) = Len(s) + Len(r) /\ Len(s) \in Nat /\ Len(r) \in Nat
        /\ \A i \in 1..Len(s \o r) : (s \o r)[i] = IF i <= Len(s) THEN s[i] ELSE r[i - Len(s)]
    OBVIOUS
  <1>2. ASSUME NEW i \in 1..Len(s) PROVE s[i] \in ToSet(s \o r)
    <2>1. i \in 1..Len(s \o r) /\ (s \o r)[i] = s[i]
      BY <1>1
    <2> QED BY <1>1, <2>1, InSet
  <1>3. ASSUME NEW i \in 1..Len(r) PROVE r[i] \in ToSet(s \o r)
    <2>1. i + Len(s) \in 1..Len(s \o r) /\ ~(i + Len(s) <= Len(s)) /\ i + Len(s) - Len(s) = i
      BY <1>1
    <2>2. (s \o r)[i + Len(s)] = r[i]
      BY <1>1, <2>1
    <2> QED BY <1>1, <2>1, <2>2, InSet
  <1>4. ASSUME NEW i \in 1..Len(s \o r) PROVE (s \o r)[i] \in ToSet(s) \cup ToSet(r)
    <2>1. CASE i <= Len(s)
      BY <1>1, <2>1, SetOf
    <2>2. CASE ~(i <= Len(s))
      <3>1. i - Len(s) \in 1..Len(r)
        BY <1>1, <2>2
      <3> QED BY <1>1, <2>2, <3>1, SetOf
    <2> QED BY <2>1, <2>2
  <1>5. ToSet(s) \subseteq ToSet(s \o r) /\ ToSet(r) \subseteq ToSet(s \o r)
    BY <1>2, <1>3, Within
  <1>6. ToSet(s \o r) \subseteq ToSet(s) \cup ToSet(r)
    BY <1>1, <1>4, Within
  <1> QED BY <1>5, <1>6

\* What is held is in flight or queued.
HeldIs == ToSet(Held) = ToSet(inflight) \cup ToSet(queue)

LEMMA HeldSet == TypeOK => HeldIs
  <1> SUFFICES ASSUME TypeOK PROVE HeldIs
    OBVIOUS
  <1>1. queue \in Seq(Entry) /\ inflight \in Seq(Entry)
    BY DEF TypeOK
  <1> QED BY <1>1, ToSetConcat DEF Held, HeldIs

LEMMA HeldSetNext == TypeOK' => HeldIs'
  BY HeldSet, PTL

\* The step that answers True finds nothing of what was asked about.
LEMMA FlushStep == Ind /\ Ind' /\ [Next]_vars =>
    \A c \in Callers : answer[c] = "waiting" /\ answer'[c] = "true" => asked[c] \cap ToSet(Held') = {}
  <1> SUFFICES ASSUME Ind, Ind', [Next]_vars, NEW c \in Callers, answer[c] = "waiting", answer'[c] = "true"
               PROVE  asked[c] \cap ToSet(Held') = {}
    OBVIOUS
  <1>0. TypeOK /\ TypeOK' /\ Waits /\ Posting
    BY DEF Ind
  <1>a. /\ queue \in Seq(Entry) /\ queue' \in Seq(Entry) /\ inflight' \in Seq(Entry)
        /\ answer \in [Callers -> {"none", "waiting", "true", "false"}]
    BY <1>0 DEF TypeOK
  <1> USE DEF lineVars, waitVars, spoolVars, flushVars
  <1>1. CASE Settled
    <2>1. c \in carried /\ UNCHANGED queue /\ inflight' = <<>>
      BY <1>1 DEF Settled, Answered
    <2>2. ToSet(Held') = ToSet(queue)
      BY <1>0, <2>1, HeldSetNext, EmptySet DEF HeldIs
    <2> QED BY <1>0, <1>a, <2>1, <2>2, InSet DEF Waits
  <1>2. CASE Drain
    <2>1. ~UNCHANGED answer
      OBVIOUS
    <2>2. inflight' = inflight /\ inflight = <<>> /\ queue = <<>> /\ queue' = queue
      BY <1>0, <1>2, <2>1, DrainMoves, PythonAssumption DEF Posting, Drain
    <2> QED BY <1>0, <2>2, HeldSetNext, EmptySet DEF HeldIs
  <1>3. CASE ~Settled /\ ~Drain
    <2>1. answer'[c] # "true"
      <3>1. CASE Closer BY <3>1 DEF Closer, CloseStops, CloseSnapshots, CloseSaves, Release, Answered
      <3>2. CASE Worker
        BY <3>2, <1>3 DEF Worker, Look, Wake, Decide, Die, Accepted, Rejected, Failed,
                    Persist, WorkerSaves, Release, Answered
      <3>3. CASE Flush \/ Close
        BY <3>3, <1>a DEF Flush, Close, Ask
      <3>4. CASE HoldElapses \/ CooldownElapses \/ TickElapses
        BY <3>4 DEF HoldElapses, CooldownElapses, TickElapses
      <3>5. CASE UNCHANGED vars BY <3>5 DEF vars
      <3>6. CASE \E d \in Callers : FlushTimesOut(d)
        BY <3>6, <1>a DEF FlushTimesOut
      <3>7. CASE LogStart \/ Enqueue
        BY <3>7 DEF LogStart, Enqueue
      <3>8. CASE Restart
        BY <3>8 DEF Restart
      <3> QED BY <3>1, <3>2, <3>3, <3>4, <3>5, <3>6, <3>7, <3>8 DEF Next
    <2> QED BY <2>1
  <1> QED BY <1>1, <1>2, <1>3

\* flush() and close() return True only when all that was pending when they
\* were called has been settled, wherever their marker was carried meanwhile.
THEOREM FlushTrueHolds == Spec => FlushTrue
  <1>1. Ind /\ Ind' /\ [Next]_vars =>
        [\A c \in Callers : answer[c] = "waiting" /\ answer'[c] = "true"
            => asked[c] \cap ToSet(Held') = {}]_vars
    BY FlushStep
  <1> QED BY <1>1, Invariance, PTL DEF Spec, FlushTrue

\* The verdict on one entry.
Verdicts == \A e \in Entry :
    Status[e] = IF e \in acked THEN "sent"
                ELSE IF e = recording \/ e \in Stored THEN "pending"
                ELSE IF e < next THEN "lost" ELSE "new"

LEMMA Judged == TypeOK => Verdicts
  <1> SUFFICES ASSUME TypeOK PROVE Verdicts
    OBVIOUS
  <1>1. /\ queue \in Seq(Entry) /\ inflight \in Seq(Entry) /\ file \in Seq(Entry)
        /\ saving["worker"] \in Seq(Entry) /\ saving["close"] \in Seq(Entry)
    BY DEF TypeOK, Thread
  <1>2. Held \in Seq(Entry) /\ Held \o file \in Seq(Entry) /\ Held \o file \o saving["worker"] \in Seq(Entry)
    BY <1>1 DEF Held
  <1>3. /\ ToSet(Held \o file) = ToSet(Held) \cup ToSet(file)
        /\ ToSet(Held \o file \o saving["worker"]) = ToSet(Held \o file) \cup ToSet(saving["worker"])
        /\ ToSet(Held \o file \o saving["worker"] \o saving["close"])
              = ToSet(Held \o file \o saving["worker"]) \cup ToSet(saving["close"])
    BY <1>1, <1>2, ToSetConcat
  <1>4. ToSet(Held \o file \o saving["worker"] \o saving["close"]) = Stored
    BY <1>3, HeldSet DEF Stored, HeldIs
  <1> QED BY <1>4 DEF Status, Verdicts

LEMMA JudgedNext == TypeOK' => Verdicts'
  BY Judged, PTL

\* A step of the client is one of Delivery, or none.
LEMMA StepDelivers == Ind /\ Ind' /\ [Next]_vars => [D!Step]_Status
  <1> SUFFICES ASSUME Ind, Ind', [Next]_vars PROVE D!Step
    OBVIOUS
  <1>0. TypeOK /\ TypeOK' /\ Numbered /\ Handed /\ Recorded
    BY PythonAssumption, RecordedStep, HandedStep DEF Ind
  <1>1. /\ recording \in Nat /\ next \in Nat \ {0} /\ ToSet(inflight) \subseteq Stored
        /\ next' \in Nat
    BY <1>0, PythonAssumption DEF TypeOK, Stored
  <1>2. ASSUME NEW e \in Entry PROVE /\ Status'[e] \in D!Statuses
                                     /\ Status'[e] # Status[e] => <<Status[e], Status'[e]>> \in D!Moves
    <2> DEFINE P == e = recording \/ e \in Stored
    <2>0. e \in Nat /\ e # 0
      BY PythonAssumption DEF Entry, PythonAssumption
    <2>1. Status[e] = IF e \in acked THEN "sent" ELSE IF P THEN "pending"
                      ELSE IF e < next THEN "lost" ELSE "new"
      BY <1>0, Judged DEF Verdicts
    <2>2. Status'[e] = IF e \in acked' THEN "sent" ELSE IF P' THEN "pending"
                       ELSE IF e < next' THEN "lost" ELSE "new"
      BY <1>0, JudgedNext DEF Verdicts
    <2>3. (e \in acked => e \in acked') /\ (e \in acked' => e \in acked \/ P)
      BY <1>0, <1>1 DEF Handed
    <2>4. P' => P \/ (e = next /\ next' = next + 1)
      BY <1>0, <2>0 DEF Handed, Recorded
    <2>5. next <= next' /\ (e = next /\ next' # next => P')
      BY <1>0, <1>1 DEF Recorded
    <2>6. (P \/ e \in acked => e < next) /\ (e < next => e < next')
      <3>1. e \in Stored \cup acked => e < Coming
        BY <1>0 DEF Numbered
      <3>2. recording # 0 => recording < next
        BY <1>0, <1>1 DEF Numbered
      <3> QED BY <1>1, <2>0, <2>5, <3>1, <3>2 DEF Coming
    <2>7. e < next' => e < next \/ P'
      BY <1>0, <1>1, <2>0, <2>5 DEF Recorded
    <2> HIDE DEF P
    <2>8. CASE e \in acked
      BY <2>1, <2>2, <2>3, <2>8 DEF D!Statuses
    <2>9. CASE e \notin acked /\ P
      <3>1. Status[e] = "pending" /\ Status'[e] \in {"sent", "pending", "lost"}
        BY <2>1, <2>2, <2>6, <2>9
      <3> QED BY <3>1 DEF D!Statuses, D!Moves
    <2>10. CASE e \notin acked /\ ~P /\ e < next
      <3>1. Status[e] = "lost" /\ Status'[e] = "lost"
        BY <1>1, <2>0, <2>1, <2>2, <2>3, <2>4, <2>6, <2>10
      <3> QED BY <3>1 DEF D!Statuses
    <2>11. CASE e \notin acked /\ ~P /\ ~(e < next)
      <3>1. Status[e] = "new" /\ Status'[e] \in {"new", "pending"}
        BY <2>1, <2>2, <2>3, <2>7, <2>11
      <3> QED BY <3>1 DEF D!Statuses, D!Moves
    <2> QED BY <2>8, <2>9, <2>10, <2>11
  <1>3. Status' = [e \in Entry |-> Status'[e]]
    BY DEF Status
  <1> QED BY <1>2, <1>3 DEF D!Step, Status

LEMMA StartsNew == Init => D!Init
  <1> SUFFICES ASSUME Init PROVE D!Init
    OBVIOUS
  <1>1. TypeOK /\ next = 1 /\ recording = 0
    BY InitInd, PythonAssumption DEF Ind, Init
  <1>2. Stored = {} /\ acked = {}
    BY EmptySet DEF Init, Stored, Thread
  <1>3. ASSUME NEW e \in Entry PROVE Status[e] = "new"
    <2>1. e \in Nat /\ e # 0 /\ ~(e < 1)
      BY PythonAssumption DEF Entry, PythonAssumption
    <2> QED BY <1>1, <1>2, <2>1, Judged DEF Verdicts
  <1>4. Status = [e \in Entry |-> Status[e]]
    BY DEF Status
  <1> QED BY <1>3, <1>4 DEF D!Init

\* Across kills, restarts and two threads that write the spool, an entry is sent,
\* or lost once and for good.
THEOREM DeliveryImplemented == Spec => ImplementsDelivery
  BY Invariance, StartsNew, StepDelivers, PTL DEF Spec, ImplementsDelivery, D!Spec
===============================================================================
