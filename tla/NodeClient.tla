------------------------------ MODULE NodeClient ------------------------------
(***************************************************************************)
(* The delivery engine of the Node client (clients/node/src/client.ts with *)
(* queue.ts and retry.ts): a bounded queue, one sender, a circuit breaker, *)
(* three timers, flush() and close(), over the store of NodeStore.         *)
(*                                                                         *)
(* One action is one turn of JavaScript between two awaits.  Turns that    *)
(* are microtasks (a continuation whose promise is already settled) run    *)
(* before the next timer or response is delivered: Quiet guards those.     *)
(* Time is left out: a timer that is set may fire, a cooldown elapses.     *)
(***************************************************************************)
EXTENDS NodeStore, FiniteSets

CONSTANTS
    MaxId,              \* bound: entries recorded over the whole behaviour
    MaxRuns,            \* bound: process lifetimes
    MaxTail,            \* bound: filesystem calls outstanding when a turn starts
    GroupOf,            \* the resource group an entry travels in
    Capacity,           \* maxQueueEntries
    MaxEntriesPerFlush, \* entries one turn of the drain loop takes
    MaxRequests,        \* maxRequestsPerFlush
    MaxBatch,           \* entries in one request
    MaxRetries,
    Threshold,          \* breakerThreshold
    FlushAt,            \* delivery.flushAt of the interval mode
    Configs,            \* the delivery policies to check
    Callers             \* who calls flush(): the host, the exit hook, close()

Modes == {"immediate", "interval", "startup", "manual"}

\* What resolveDelivery() can return: startup is always on disk.
Config ==
    {c \in [mode : Modes, disk : BOOLEAN, exitFlush : BOOLEAN] : c.mode = "startup" => c.disk}

ASSUME ClientAssumption ==
    /\ MaxId \in Nat /\ Entry = 1..MaxId
    /\ MaxRuns \in Nat \ {0} /\ MaxTail \in Nat
    /\ DOMAIN GroupOf = Entry
    /\ Capacity \in Nat \ {0}
    /\ MaxEntriesPerFlush \in Nat \ {0}
    /\ MaxRequests \in Nat \ {0}
    /\ MaxBatch \in Nat \ {0}
    /\ MaxRetries \in Nat
    /\ Threshold \in Nat \ {0}
    /\ FlushAt \in Nat \ {0}
    /\ Configs \subseteq Config
    /\ Callers \subseteq {"user", "exit", "close"}

VARIABLES
    queue,          \* the bounded FIFO, oldest first
    inflight,       \* batches[i..] of the running drain, concatenated
    pump,           \* "idle", "sending" (in await sendBatch), "ending" (drain
                    \* has returned, the finally block has not run)
    requests,       \* requests of the running drain
    attempt,        \* consecutive transient failures
    breaker,        \* failures (capped), cooling, probing
    intervalTimer, retryTimer, coalesceTimer,
    calls,          \* the flush() calls in progress, by caller
    closing,        \* progress of close()
    gaveUp,         \* exitFlushGaveUp
    count,          \* the counters, and what was accepted and left on disk
    next,           \* id of the next entry
    run,            \* process lifetimes so far
    acked,          \* history: entries a 2xx has answered for
    exposed         \* history: pending entries this run keeps in memory only

sendVars  == <<queue, inflight, pump, requests, attempt, breaker>>
timerVars == <<intervalTimer, retryTimer, coalesceTimer>>
callVars  == <<calls, closing, gaveUp>>
bookVars  == <<count, next, run, acked, exposed>>
vars == <<cfg, sendVars, timerVars, callVars, bookVars, storeVars>>

Counts == [accepted : Nat, restored : Nat, sent : Nat, abandoned : Nat,
           dropped : Nat, left : Nat]
NoCounts == [accepted |-> 0, restored |-> 0, sent |-> 0, abandoned |-> 0,
             dropped |-> 0, left |-> 0]

(* isClosed is set by close() at once, enabled is cleared only after its   *)
(* last flush has returned.                                                *)
IsClosed == closing # "open"
Enabled  == closing \in {"open", "flushing"}

-------------------------------------------------------------------------------
(* queue.ts and retry.ts                                                   *)

ToSet(s) == {s[i] : i \in 1..Len(s)}
Smaller(a, b) == IF a <= b THEN a ELSE b

\* trim(): how many entries go, and what stays.
Overflow(q) == IF Len(q) > Capacity THEN Len(q) - Capacity ELSE 0
TrimNothing(q) == q                                          \* mutant
TrimNewest(q) == SubSeq(q, 1, Smaller(Len(q), Capacity))     \* mutant
Trim(q) == SubSeq(q, Overflow(q) + 1, Len(q))

\* unshift(): a run that was handed out goes back in front, before trim().
PutBehind(sent, q) == q \o sent                              \* mutant
PutBack(sent, q) == sent \o q

\* take(n) splits the queue into the run it hands out and the rest.
Taken(q) == SubSeq(q, 1, Smaller(MaxEntriesPerFlush, Len(q)))
Rest(q)  == SubSeq(q, Smaller(MaxEntriesPerFlush, Len(q)) + 1, Len(q))

BreakerState == [failures : 0..Threshold, cooling : BOOLEAN, probing : BOOLEAN]
Closed == [failures |-> 0, cooling |-> FALSE, probing |-> FALSE]
IsOpen(b) == b.failures >= Threshold

\* retryAfter() > 0, which is also when allow() refuses.
HoldsProbe(b) == IsOpen(b) /\ b.probing                      \* mutant
Holds(b) == IsOpen(b) /\ (b.probing \/ b.cooling)

\* allow() on an open breaker spends the one probe.
Allowed(b) == [b EXCEPT !.probing = IsOpen(b)]

\* onFailure(): every failure of an open breaker restarts the cooldown.
Failed(b) ==
    LET n == Smaller(b.failures + 1, Threshold) IN
    [failures |-> n, cooling |-> n = Threshold, probing |-> FALSE]

\* groupIntoBatches(): p lists a slice group by group, groups in order of
\* their first entry, entries of a group in order.
FirstOf(slice, i) ==
    CHOOSE j \in 1..Len(slice) :
        /\ GroupOf[slice[j]] = GroupOf[slice[i]]
        /\ \A k \in 1..Len(slice) :
              GroupOf[slice[k]] = GroupOf[slice[i]] => j <= k

Before(slice, i, j) ==
    \/ FirstOf(slice, i) < FirstOf(slice, j)
    \/ FirstOf(slice, i) = FirstOf(slice, j) /\ i < j

Grouped(slice) ==
    { [k \in 1..Len(slice) |-> slice[p[k]]] :
        p \in {f \in [1..Len(slice) -> 1..Len(slice)] :
                 \A i, j \in 1..Len(slice) : i < j => Before(slice, f[i], f[j])} }

\* The first batch of what is in flight: one group, at most MaxBatch entries.
BatchLen(s) ==
    Cardinality({n \in 1..Len(s) :
        /\ n <= MaxBatch
        /\ \A i \in 1..n : GroupOf[s[i]] = GroupOf[s[1]]})

-------------------------------------------------------------------------------
Init ==
    /\ cfg \in Configs
    /\ StoreInit
    /\ queue = <<>> /\ inflight = <<>> /\ pump = "idle" /\ requests = 0
    /\ attempt = 0 /\ breaker = Closed
    /\ intervalTimer = (cfg.mode = "interval")
    /\ retryTimer = FALSE /\ coalesceTimer = FALSE
    /\ calls = [c \in Callers |-> "none"]
    /\ closing = "open" /\ gaveUp = FALSE
    /\ count = NoCounts /\ next = 1 /\ run = 1 /\ acked = {} /\ exposed = {}

Restored == loading \in {"none", "read"}

\* No continuation of a settled promise is waiting to run.
Quiet ==
    /\ pump # "ending"
    /\ \A c \in Callers :
          /\ calls[c] \notin {"drained", "gaveup"}
          /\ calls[c] = "asked" => ~Restored
    /\ ~(closing = "storing" /\ (~Live \/ awaited = 0))

\* The filesystem keeps up: no turn starts behind a longer chain of calls.
KeepsUp == Len(tail) <= MaxTail

\* A timer, a response or a timeout may start a turn.
Turn == Quiet /\ KeepsUp

-------------------------------------------------------------------------------
(* The steps handlers share.  q is the queue as the handler has left it.   *)

\* One turn of drain()'s loop, up to its next await or its return.
Drain(q, b, retry, n) ==
    /\ breaker' = IF q = <<>> \/ n >= MaxRequests \/ Holds(b) THEN b ELSE Allowed(b)
    /\ IF q = <<>> \/ n >= MaxRequests \/ Holds(b)
       THEN /\ pump' = "ending" /\ inflight' = <<>>
            /\ queue' = q /\ requests' = 0
            /\ retryTimer' = (retry \/ q # <<>>)
       ELSE /\ pump' = "sending" /\ inflight' \in Grouped(Taken(q))
            /\ queue' = Rest(q) /\ requests' = n + 1
            /\ retryTimer' = retry

\* pump(): one sender at a time, and none while the breaker holds.
StartPump(q, retry) ==
    IF pump = "idle" /\ ~Holds(breaker)
    THEN Drain(q, breaker, retry, 0)
    ELSE /\ queue' = q
         /\ retryTimer' = (retry \/ pump = "idle")
         /\ UNCHANGED <<inflight, pump, requests, breaker>>

NoPump(q) ==
    /\ queue' = q
    /\ UNCHANGED <<inflight, pump, requests, breaker, retryTimer>>

\* settleWaiters(): whoever waits is told once nothing is queued or in flight.
SettleEarly ==                                               \* mutant
    calls' = [c \in Callers |->
                 IF calls[c] = "waiting" /\ queue' = <<>> THEN "drained" ELSE calls[c]]
Settle ==
    calls' = [c \in Callers |->
                 IF calls[c] = "waiting" /\ pump' = "idle" /\ queue' = <<>>
                 THEN "drained" ELSE calls[c]]

\* trim() counts what it drops.
Shed(c, n) == [c EXCEPT !.dropped = @ + n]

Expose(entries) == exposed' = IF cfg.disk THEN exposed \cup entries ELSE exposed

-------------------------------------------------------------------------------
(* Recording.                                                              *)

\* enqueue() and schedule().  The guard is enabled, not isClosed.
Enqueue(urgent) ==
    /\ Enabled /\ next <= MaxId /\ KeepsUp
    /\ LET pushed == Append(queue, next)
           q == Trim(pushed)
       IN /\ count' = Shed([count EXCEPT !.accepted = @ + 1], Overflow(pushed))
          /\ IF urgent \/ (cfg.mode = "interval" /\ Len(q) >= FlushAt)
             THEN StartPump(q, retryTimer) /\ UNCHANGED coalesceTimer
             ELSE /\ NoPump(q)
                  /\ coalesceTimer' =
                       (coalesceTimer \/ (cfg.mode = "immediate" /\ pump = "idle"))
    /\ Record(next)
    /\ next' = next + 1
    /\ UNCHANGED <<cfg, attempt, intervalTimer, callVars, run, acked, exposed, loadVars>>

\* restore(), once load() has returned: what was adopted goes in front, unless
\* close() was called in the meantime.
Restore ==
    /\ Quiet /\ loading = "reading" /\ cursor > Len(segments)
    /\ loading' = "read"
    /\ LET lines == WithinDiskBound(adopted)
           put == PutBack(lines, queue)
           q == Trim(put)
       IN IF IsClosed \/ lines = <<>>
          THEN UNCHANGED <<sendVars, timerVars, count, exposed, writeVars>>
          ELSE /\ Expose(ToSet(lines) \cup ToSet(inflight))
               /\ count' = Shed([count EXCEPT !.restored = @ + Len(lines)], Overflow(put))
               /\ Checkpoint(q)
               /\ IF \/ cfg.mode = "startup"
                     \/ cfg.mode = "interval" /\ Len(q) >= FlushAt
                  THEN StartPump(q, retryTimer) /\ UNCHANGED coalesceTimer
                  ELSE /\ NoPump(q)
                       /\ coalesceTimer' =
                            (coalesceTimer \/ (cfg.mode = "immediate" /\ pump = "idle"))
               /\ UNCHANGED <<attempt, intervalTimer>>
    /\ adopted' = <<>>
    /\ UNCHANGED <<cfg, callVars, next, run, acked, segments, cursor>>

-------------------------------------------------------------------------------
(* Sending.                                                                *)

Batch == SubSeq(inflight, 1, BatchLen(inflight))
LaterFromLast == SubSeq(inflight, BatchLen(inflight), Len(inflight))  \* mutant
Later == SubSeq(inflight, BatchLen(inflight) + 1, Len(inflight))

\* The retries are used up, and giving up costs everything still in flight.
OutOfRetriesLate == attempt > MaxRetries                     \* mutant
OutOfRetries == attempt >= MaxRetries
GivenUpBatch == Len(Batch)                                   \* mutant
GivenUp == Len(inflight)

\* A 2xx (ok) or a definite no (permanent): both close the breaker, only a
\* 2xx resets the retry count.  The next batch of the slice goes out at once.
Answered(ok) ==
    /\ pump = "sending"
    /\ count' = IF ok THEN [count EXCEPT !.sent = @ + Len(Batch)]
                      ELSE [count EXCEPT !.abandoned = @ + Len(Batch)]
    /\ attempt' = IF ok THEN 0 ELSE attempt
    /\ acked' = IF ok THEN acked \cup ToSet(Batch) ELSE acked
    /\ IF Later # <<>>
       THEN /\ inflight' = Later /\ requests' = requests + 1 /\ breaker' = Closed
            /\ UNCHANGED <<queue, pump, retryTimer>>
       ELSE Drain(queue, Closed, retryTimer, requests)

\* A transient failure: this batch and the ones behind it go back to the
\* front of the queue, or are given up once the retries are used.
Transient ==
    /\ pump = "sending"
    /\ breaker' = Failed(breaker)
    /\ pump' = "ending" /\ inflight' = <<>> /\ requests' = 0
    /\ IF OutOfRetries
       THEN /\ count' = [count EXCEPT !.abandoned = @ + GivenUp]
            /\ attempt' = 0
            /\ UNCHANGED <<queue, retryTimer>>
       ELSE /\ queue' = Trim(PutBack(inflight, queue))
            /\ count' = Shed(count, Overflow(PutBack(inflight, queue)))
            /\ attempt' = attempt + 1
            /\ retryTimer' = TRUE
    /\ UNCHANGED acked

Respond ==
    /\ Turn
    /\ \/ Answered(TRUE)
       \/ Answered(FALSE)
       \/ Transient
    /\ UNCHANGED <<cfg, intervalTimer, coalesceTimer, callVars, next, run, exposed, storeVars>>

\* syncTimer()
TimerAlways == cfg.mode = "interval" /\ ~IsClosed            \* mutant
TimerWanted == cfg.mode = "interval" /\ ~IsClosed /\ ~IsOpen(breaker)

\* pump()'s finally block: checkpoint, syncTimer, settleWaiters.
PumpEndKeepsPump ==                                          \* mutant
    /\ pump = "ending"
    /\ pump' = pump
    /\ queue' = queue
    /\ Checkpoint(queue)
    /\ intervalTimer' = TimerWanted
    /\ Settle
    /\ UNCHANGED <<cfg, inflight, requests, attempt, breaker, retryTimer,
                   coalesceTimer, closing, gaveUp, bookVars, loadVars>>
PumpEnd ==
    /\ pump = "ending"
    /\ pump' = "idle"
    /\ queue' = queue
    /\ Checkpoint(queue)
    /\ intervalTimer' = TimerWanted
    /\ Settle
    /\ UNCHANGED <<cfg, inflight, requests, attempt, breaker, retryTimer,
                   coalesceTimer, closing, gaveUp, bookVars, loadVars>>

TimerUnchanged == UNCHANGED <<cfg, attempt, callVars, bookVars, storeVars>>

IntervalFires ==
    /\ Turn /\ intervalTimer
    /\ StartPump(queue, retryTimer)
    /\ UNCHANGED <<intervalTimer, coalesceTimer>> /\ TimerUnchanged

RetryFires ==
    /\ Turn /\ retryTimer
    /\ StartPump(queue, FALSE)
    /\ UNCHANGED <<intervalTimer, coalesceTimer>> /\ TimerUnchanged

CoalesceFires ==
    /\ Turn /\ coalesceTimer
    /\ coalesceTimer' = FALSE
    /\ StartPump(queue, retryTimer)
    /\ UNCHANGED intervalTimer /\ TimerUnchanged

CooldownElapses ==
    /\ Turn /\ breaker.cooling
    /\ breaker' = [breaker EXCEPT !.cooling = FALSE]
    /\ UNCHANGED <<queue, inflight, pump, requests, timerVars>> /\ TimerUnchanged

-------------------------------------------------------------------------------
(* flush(), the exit hook and close().                                     *)

Ask(c) == calls' = [calls EXCEPT ![c] = "asked"]

UserFlush ==
    /\ "user" \in Callers /\ calls["user"] = "none" /\ KeepsUp
    /\ Ask("user")
    /\ UNCHANGED <<cfg, sendVars, timerVars, closing, gaveUp, bookVars, storeVars>>

\* beforeExit or a signal, while the hook is registered.
ExitHook ==
    /\ "exit" \in Callers /\ calls["exit"] = "none" /\ KeepsUp
    /\ cfg.exitFlush /\ ~gaveUp /\ ~IsClosed
    /\ Ask("exit")
    /\ UNCHANGED <<cfg, sendVars, timerVars, closing, gaveUp, bookVars, storeVars>>

\* flush() behind `await this.restored`: the pending backoff is cleared, pump
\* is asked, and the caller waits for the drain.
FlushGo(c) ==
    /\ calls[c] = "asked" /\ Restored
    /\ IF ~Enabled /\ queue = <<>>
       THEN /\ calls' = [calls EXCEPT ![c] = "drained"]
            /\ UNCHANGED <<sendVars, retryTimer>>
       ELSE /\ StartPump(queue, FALSE)
            /\ calls' = [calls EXCEPT ![c] =
                 IF pump' = "idle" /\ queue' = <<>> THEN "drained" ELSE "waiting"]
            /\ UNCHANGED attempt
    /\ UNCHANGED <<cfg, intervalTimer, coalesceTimer, closing, gaveUp, bookVars, storeVars>>

FlushTimeoutNever(c) == FALSE                                \* mutant
FlushTimeout(c) ==
    /\ Turn /\ calls[c] = "waiting"
    /\ calls' = [calls EXCEPT ![c] = "gaveup"]
    /\ UNCHANGED <<cfg, sendVars, timerVars, closing, gaveUp, bookVars, storeVars>>

Returned(c) == c \in Callers /\ calls[c] \in {"drained", "gaveup"}

UserReturns ==
    /\ Returned("user")
    /\ calls' = [calls EXCEPT !["user"] = "none"]
    /\ UNCHANGED <<cfg, sendVars, timerVars, closing, gaveUp, bookVars, storeVars>>

\* flushOnExit() behind its flush: one that ran out of time is not repeated.
ExitReturns ==
    /\ Returned("exit")
    /\ calls' = [calls EXCEPT !["exit"] = "none"]
    /\ IF calls["exit"] = "gaveup"
       THEN /\ gaveUp' = TRUE
            /\ Checkpoint(queue)
            /\ Expose(ToSet(inflight))
       ELSE UNCHANGED <<gaveUp, writeVars, exposed>>
    /\ UNCHANGED <<cfg, sendVars, timerVars, closing, count, next, run, acked, loadVars>>

\* close() between its flush and its last write.
Release ==
    /\ intervalTimer' = FALSE /\ retryTimer' = FALSE /\ coalesceTimer' = FALSE
    /\ closing' = "storing"
    /\ CloseStore(queue)
    /\ Expose(ToSet(inflight))

Close ==
    /\ "close" \in Callers /\ closing = "open" /\ KeepsUp
    /\ IF cfg.exitFlush \/ ~cfg.disk
       THEN /\ closing' = "flushing" /\ Ask("close")
            /\ UNCHANGED <<timerVars, writeVars, exposed>>
       ELSE Release /\ UNCHANGED calls
    /\ UNCHANGED <<cfg, sendVars, gaveUp, count, next, run, acked, loadVars>>

CloseFlushed ==
    /\ Returned("close")
    /\ calls' = [calls EXCEPT !["close"] = "none"]
    /\ Release
    /\ UNCHANGED <<cfg, sendVars, gaveUp, count, next, run, acked, loadVars>>

\* The snapshot is written: what is left is counted, on disk or discarded.
CloseDone ==
    /\ closing = "storing"
    /\ ~Live \/ awaited = 0
    /\ closing' = "closed"
    /\ queue' = <<>>
    /\ count' = IF cfg.disk THEN [count EXCEPT !.left = @ + Len(queue)]
                            ELSE [count EXCEPT !.abandoned = @ + Len(queue)]
    /\ pump' = pump
    /\ Settle
    /\ UNCHANGED <<cfg, inflight, requests, attempt, breaker, timerVars, gaveUp,
                   next, run, acked, exposed, storeVars>>

-------------------------------------------------------------------------------
(* The store and the process.                                              *)

Storage ==
    /\ Quiet
    /\ \/ FlushBuffer \/ WriteDone \/ WriteFails
       \/ ReadSegment \/ ReadFails \/ UnlinkSegment \/ UnlinkFails
    /\ exposed' = IF FlushBuffer /\ tail' = tail THEN exposed \cup ToSet(buffered)
                                                ELSE exposed
    /\ UNCHANGED <<cfg, sendVars, timerVars, callVars, count, next, run, acked>>

\* The process ends, orderly or not, and starts again.
Crash ==
    /\ run < MaxRuns
    /\ run' = run + 1
    /\ CrashStore
    /\ queue' = <<>> /\ inflight' = <<>> /\ pump' = "idle" /\ requests' = 0
    /\ attempt' = 0 /\ breaker' = Closed
    /\ intervalTimer' = (cfg.mode = "interval")
    /\ retryTimer' = FALSE /\ coalesceTimer' = FALSE
    /\ calls' = [c \in Callers |-> "none"]
    /\ closing' = "open" /\ gaveUp' = FALSE
    /\ count' = NoCounts
    /\ exposed' = {}
    /\ UNCHANGED <<cfg, next, acked>>

Next ==
    \/ \E urgent \in BOOLEAN : Enqueue(urgent)
    \/ Restore
    \/ Respond \/ PumpEnd
    \/ IntervalFires \/ RetryFires \/ CoalesceFires \/ CooldownElapses
    \/ UserFlush \/ ExitHook
    \/ \E c \in Callers : FlushGo(c) \/ FlushTimeout(c)
    \/ UserReturns \/ ExitReturns
    \/ Close \/ CloseFlushed \/ CloseDone
    \/ Storage \/ Crash

Spec == Init /\ [][Next]_vars
-------------------------------------------------------------------------------
(* What the client promises.                                               *)

Pending == inflight \o queue

SendTypeOK ==
    /\ queue \in Seq(Entry) /\ inflight \in Seq(Entry)
    /\ pump \in {"idle", "sending", "ending"}
    /\ requests \in Nat /\ attempt \in 0..MaxRetries /\ breaker \in BreakerState

TimerTypeOK ==
    intervalTimer \in BOOLEAN /\ retryTimer \in BOOLEAN /\ coalesceTimer \in BOOLEAN

CallTypeOK ==
    /\ calls \in [Callers -> {"none", "asked", "waiting", "drained", "gaveup"}]
    /\ closing \in {"open", "flushing", "storing", "closed"} /\ gaveUp \in BOOLEAN

BookTypeOK ==
    /\ count \in Counts
    /\ next \in 1..(MaxId + 1) /\ run \in 1..MaxRuns
    /\ acked \subseteq Entry /\ exposed \subseteq Entry

TypeOK ==
    /\ cfg \in Config /\ StoreTypeOK
    /\ SendTypeOK /\ TimerTypeOK /\ CallTypeOK /\ BookTypeOK

\* Every entry this run took on, recorded or read back from disk, is queued,
\* in flight, or counted exactly once as sent, abandoned, dropped or left on
\* disk: stats() never loses an entry to a retry, an overflow or a close that
\* races the sender (client.ts push/take/unshift/clear and their counters).
Accounted ==
    count.accepted + count.restored =
      Len(queue) + Len(inflight)
      + count.sent + count.abandoned + count.dropped + count.left

\* The queue never outgrows maxQueueEntries, and what a drain holds outside it
\* is bounded by one slice, so an outage cannot grow the host's memory.
Bounded ==
    /\ Len(queue) <= Capacity
    /\ Len(inflight) <= MaxEntriesPerFlush

\* The state of the client and its store, the books and the bounds, together.
Contract == TypeOK /\ Accounted /\ Bounded

\* Entries of one resource group leave in the order they were recorded, with
\* no duplicate, whatever mix of grouping, retries and overflow they have been
\* through (unshift puts the unsent tail of a slice back at the front).
InOrder ==
    \A i, j \in 1..Len(Pending) :
        i < j /\ GroupOf[Pending[i]] = GroupOf[Pending[j]] => Pending[i] < Pending[j]

\* An entry a 2xx has answered for is not pending again.
NoResend == ToSet(Pending) \cap acked = {}

\* The first run of a client sends every group in order, and nothing twice; a
\* later one replays what the segment held, and may do both (client.ts
\* restore, persistence.ts load).
OrderlySending == run = 1 => InOrder /\ NoResend

\* No request leaves while the breaker is open and its cooldown runs, and a
\* half-open breaker lets exactly one out: the next one needs an answer first.
BreakerGates ==
    [][requests' # requests /\ inflight' # <<>> =>
         \/ ~IsOpen(breaker')
         \/ IsOpen(breaker) /\ ~breaker.cooling /\ ~breaker.probing]_vars

\* Between drains the interval timer of an open client runs exactly while the
\* breaker is closed (syncTimer): it neither ticks into a dead server nor stops
\* for any other reason.
TimerFollowsBreaker ==
    pump = "idle" /\ closing = "open" =>
        (intervalTimer <=> cfg.mode = "interval" /\ ~IsOpen(breaker))

\* A flush that waited is told "drained" only when nothing is queued and
\* nothing is in flight, although pump ends, closes and timeouts all settle
\* waiters, and so is one that did not have to wait on a running client.
DrainedIsTrue ==
    [][\A c \in Callers :
         /\ calls[c] # "drained" /\ calls'[c] = "drained"
         /\ Enabled \/ calls[c] = "waiting"
         => queue' = <<>> /\ inflight' = <<>>]_vars

-------------------------------------------------------------------------------
(* Durability.                                                             *)

\* The entry is in the segment, or on its way there, once every call of the
\* chain has been made: no later replace leaves it out.
KeptBy(k, e) ==
    \A m \in (k + 1)..Len(tail) : tail[m].op = "replace" => e \in ToSet(tail[m].lines)

Journaled(e) ==
    \/ e \in ToSet(buffered)
    \/ \E k \in 1..Len(tail) : e \in ToSet(tail[k].lines) /\ KeptBy(k, e)
    \/ e \in ToSet(file) /\ KeptBy(0, e)

\* Everything queued or in flight has a durable copy, except the entries in
\* exposed: those read back from an earlier run, those in flight when close(),
\* a given-up exit flush or the end of a restore rewrote the segment, and
\* those recorded over the byte limit.  Retries, overflow, truncation and
\* compaction never lose the copy of any other entry.  It says nothing of what
\* close() has left on disk, which is not pending.
JournalCovers == Live => \A e \in ToSet(Pending) \ exposed : Journaled(e)

-------------------------------------------------------------------------------
(* Liveness.  Fairness: every timer that stays set fires, every request ends *)
(* (requestTimeoutMs aborts it), every filesystem call returns, and settled  *)
(* promises run their continuations.  Turns are strongly fair: a host that   *)
(* keeps calling flush() does not starve the event loop for ever.            *)

Fairness ==
    /\ SF_vars(Respond) /\ WF_vars(PumpEnd) /\ SF_vars(Restore) /\ SF_vars(Storage)
    /\ SF_vars(IntervalFires) /\ SF_vars(RetryFires) /\ SF_vars(CoalesceFires)
    /\ SF_vars(CooldownElapses)
    /\ WF_vars(UserReturns) /\ WF_vars(ExitReturns)
    /\ WF_vars(CloseFlushed) /\ WF_vars(CloseDone)
    /\ \A c \in Callers : WF_vars(FlushGo(c)) /\ SF_vars(FlushTimeout(c))

FairSpec == Spec /\ Fairness

\* flush() always returns to its caller: the drain settles it or its timeout
\* does, even when the breaker holds, the retry timer was cleared or close()
\* runs at the same time.
FlushReturns ==
    \A c \in Callers :
        calls[c] = "asked" ~> calls[c] \notin {"asked", "waiting"}

\* close() always resolves, whatever the server, the disk and the sender do.
CloseCompletes == IsClosed ~> closing = "closed"

\* A drain ends: one sender never holds the pump for ever.
SenderFreed == pump # "idle" ~> pump = "idle"

\* Nobody waits for ever: not the caller of flush(), not the caller of close(),
\* not the entries behind a drain (client.ts pump, flush, close).
NobodyHangs == FlushReturns /\ CloseCompletes /\ SenderFreed

\* After close() every entry still in the sender's hands is sent or given up,
\* unless the host calls flush() again behind its back.
CloseSettles ==
    [](IsClosed => \A c \in Callers \ {"close"} : calls[c] # "asked")
        => (closing = "closed" ~> Pending = <<>>)

\* Whoever waits hears back, and close() leaves nothing undecided.
Progress == NobodyHangs /\ CloseSettles
===============================================================================
