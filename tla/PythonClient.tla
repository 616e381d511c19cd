----------------------------- MODULE PythonClient -----------------------------
(* The Python client (_client.py) over its spool (_spool.py).  Callers, the  *)
(* worker thread and the thread in close() share the queue under one lock;   *)
(* `at` is where the worker is, `closing` where close() is, and an action is *)
(* what a thread does under one acquisition of the lock, or between two      *)
(* points at which it waits.  A deadline in the future is a flag that        *)
(* elapses.  A flush() waits on a marker in the queue, which is modelled by   *)
(* how many entries lie before it.                                           *)
EXTENDS Naturals, Sequences, SequencesExt

CONSTANTS
    MaxId,          \* bound: entries recorded
    Urgent,         \* entries at or above flush_on_severity
    Configs,        \* the policies: [schedule, disk, exitFlush]
    MaxQueued, MaxBatch, Threshold,
    MaxFile,        \* max_disk_entries
    DiskRefuses,    \* whether a load or a save may fail
    Callers,        \* who waits in flush(): "user", "close"
    MaxRuns         \* bound: process lifetimes

Entry  == 1..MaxId
Thread == {"worker", "close"}

ASSUME PythonAssumption ==
    /\ MaxId \in Nat /\ MaxRuns \in Nat /\ DiskRefuses \in BOOLEAN
    /\ MaxQueued \in Nat \ {0} /\ MaxBatch \in Nat \ {0} /\ Threshold \in Nat \ {0}
    /\ MaxFile \in Nat \ {0} /\ Callers \subseteq {"user", "close"}
    /\ Configs \subseteq [schedule : {"immediate", "interval", "startup", "manual"},
                          disk : BOOLEAN, exitFlush : BOOLEAN]

VARIABLES
    cfg, next, run,
    recording,      \* the entry a log() is carrying past its check of _closed, or 0
    queue,          \* _queue: its entries
    ahead,          \* and its markers: whose, and how many entries lie before each
    wanted,         \* _send_requested
    wakePending,
    hold,           \* _next_attempt_at is in the future
    open, cooling,  \* _circuit_open; _circuit_retry_at is in the future
    failures,
    tickDue,        \* _next_tick_at has passed
    at,             \* the worker: "look", "waiting", "decide", "drain", "posting",
                    \* "persist", "saving", "dead"
    until,          \* what ends its wait: "tick", "resume", "both", "idle"
    notified,       \* the wait was notified
    inflight, carried,  \* the entries of this pass, and whose markers
    file,           \* the spool
    saving,         \* what a thread is writing: [worker, close]
    fresh,          \* whether that is the current version of the queue
    clean,          \* _persisted_version = _queue_version
    unsaved,        \* history: the last save failed
    closed, closing,\* _closed; close(): "open", "flushing", "joining", "saving", "done"
    answer,         \* of the flush calls: "none", "waiting", "true", "false"
    asked,          \* history: entries pending when a flush was asked
    count,          \* [taken, accepted, overflow, rejected]
    acked           \* history

lineVars  == <<queue, ahead, wanted, wakePending, notified>>
waitVars  == <<hold, open, cooling, failures, tickDue>>
spoolVars == <<file, saving, fresh, clean, unsaved>>
flushVars == <<answer, asked>>
vars == <<cfg, next, run, recording, lineVars, waitVars, at, until, inflight, carried,
          spoolVars, closed, closing, flushVars, count, acked>>

-----------------------------------------------------------------------------
Newest(n, s) == IF Len(s) <= n THEN s ELSE SubSeq(s, Len(s) - n + 1, Len(s))

KeptM(q) == q                                                \* mutant

\* _drop_oldest_locked() until the bound holds.
Kept(q) == Newest(MaxQueued, q)
Overflow(q) == Len(q) - Len(Kept(q))

Less(k, n) == IF k > n THEN k - n ELSE 0

\* The markers, which are never dropped, when more entries come in front of the
\* queue and lost go.
Shifted(more, lost) == [c \in DOMAIN ahead |-> Less(ahead[c] + more, lost)]

NoMarkers == [c \in {} |-> 0]

\* _request_send_locked(): one notification per wake, none while held off.
RequestSend ==
    /\ wanted' = TRUE
    /\ IF wakePending \/ open \/ hold THEN UNCHANGED <<wakePending, notified>>
       ELSE wakePending' = TRUE /\ notified' = (notified \/ at = "waiting")

BumpM == clean' = FALSE /\ UNCHANGED fresh                   \* mutant

\* _queue_version moves on: what is on disk, or on its way there, is out of date.
Bump == clean' = FALSE /\ fresh' = [t \in Thread |-> FALSE]

Resumed == ~hold /\ ~(open /\ cooling)

AnsweredM(marks, verdict) ==                                 \* mutant
    [c \in Callers |-> IF c \in marks /\ answer[c] = "waiting" THEN "true" ELSE answer[c]]

Answered(marks, verdict) ==
    [c \in Callers |-> IF c \in marks /\ answer[c] = "waiting" THEN verdict ELSE answer[c]]

\* _release_markers(False): nobody is left to answer them.
Release ==
    /\ ahead' = NoMarkers
    /\ answer' = Answered(DOMAIN ahead, "false")

Held == inflight \o queue

-----------------------------------------------------------------------------
Init ==
    /\ cfg \in Configs /\ next = 1 /\ run = 1 /\ recording = 0
    /\ queue = <<>> /\ ahead = NoMarkers /\ wanted = FALSE /\ wakePending = FALSE /\ notified = FALSE
    /\ hold = FALSE /\ open = FALSE /\ cooling = FALSE /\ failures = 0 /\ tickDue = FALSE
    /\ at = "look" /\ until = "idle" /\ inflight = <<>> /\ carried = {}
    /\ file = <<>> /\ saving = [t \in Thread |-> <<>>]
    /\ fresh = [t \in Thread |-> FALSE] /\ clean = TRUE /\ unsaved = FALSE
    /\ closed = FALSE /\ closing = "open"
    /\ answer = [c \in Callers |-> "none"] /\ asked = [c \in Callers |-> {}]
    /\ count = [taken |-> 0, accepted |-> 0, overflow |-> 0, rejected |-> 0]
    /\ acked = {}

(* Callers. *)

LogStartM ==                                                 \* mutant
    /\ ~closed /\ recording = 0 /\ next <= MaxId
    /\ recording' = Len(queue) + 1 /\ next' = next + 1
    /\ count' = [count EXCEPT !.taken = @ + 1]
    /\ UNCHANGED <<cfg, run, lineVars, waitVars, at, until, inflight, carried, spoolVars,
                   closed, closing, flushVars, acked>>

\* log(): past its check of _closed ...
LogStart ==
    /\ ~closed /\ recording = 0 /\ next <= MaxId
    /\ recording' = next /\ next' = next + 1
    /\ count' = [count EXCEPT !.taken = @ + 1]
    /\ UNCHANGED <<cfg, run, lineVars, waitVars, at, until, inflight, carried, spoolVars,
                   closed, closing, flushVars, acked>>

\* ... and _enqueue().
Enqueue ==
    /\ recording # 0
    /\ LET all == Append(queue, recording)
       IN  /\ queue' = Kept(all)
           /\ ahead' = Shifted(0, Overflow(all))
           /\ count' = [count EXCEPT !.overflow = @ + Overflow(all)]
           /\ IF \/ recording \in Urgent
                 \/ cfg.schedule = "immediate"
                 \/ cfg.schedule = "interval" /\ Len(Kept(all)) >= MaxBatch
              THEN RequestSend ELSE UNCHANGED <<wanted, wakePending, notified>>
    /\ Bump
    /\ recording' = 0
    /\ UNCHANGED <<cfg, next, run, waitVars, at, until, inflight, carried, file, saving,
                   unsaved, closed, closing, flushVars, acked>>

\* flush(timeout): a marker behind everything queued so far.
Ask(c) ==
    /\ ahead' = [d \in DOMAIN ahead \cup {c} |-> IF d = c THEN Len(queue) ELSE ahead[d]]
    /\ UNCHANGED queue
    /\ RequestSend
    /\ answer' = [answer EXCEPT ![c] = "waiting"]
    /\ asked' = [asked EXCEPT ![c] = ToSet(Held)]

Flush ==
    /\ "user" \in Callers /\ ~closed /\ answer["user"] = "none"
    /\ Ask("user")
    /\ UNCHANGED <<cfg, next, run, recording, waitVars, at, until, inflight, carried,
                   spoolVars, closed, closing, count, acked>>

\* The timeout of a flush() runs out; its marker stays in the queue.
FlushTimesOut(c) ==
    /\ answer[c] = "waiting"
    /\ answer' = [answer EXCEPT ![c] = "false"]
    /\ UNCHANGED <<cfg, next, run, recording, lineVars, waitVars, at, until, inflight,
                   carried, spoolVars, closed, closing, asked, count, acked>>

-----------------------------------------------------------------------------
(* close(). *)

Close ==
    /\ "close" \in Callers /\ closing = "open"
    /\ closing' = "flushing"
    /\ IF cfg.exitFlush THEN Ask("close") ELSE UNCHANGED <<lineVars, flushVars>>
    /\ UNCHANGED <<cfg, next, run, recording, waitVars, at, until, inflight, carried,
                   spoolVars, closed, count, acked>>

\* The flush has been answered, or was not wanted: _closed, and wake the worker.
CloseStops ==
    /\ closing = "flushing" /\ answer["close"] # "waiting"
    /\ closed' = TRUE /\ closing' = "joining"
    /\ notified' = (notified \/ at = "waiting")
    /\ UNCHANGED <<cfg, next, run, recording, queue, ahead, wanted, wakePending, waitVars, at,
                   until, inflight, carried, spoolVars, flushVars, count, acked>>

\* join() returns when the worker has ended, or after a second at most.
\* The markers are released, and _persist() takes its snapshot.
CloseSnapshots ==
    /\ closing = "joining"
    /\ Release
    /\ IF cfg.disk /\ ~clean
       THEN /\ saving' = [saving EXCEPT !["close"] = queue]
            /\ fresh' = [fresh EXCEPT !["close"] = TRUE]
            /\ closing' = "saving"
       ELSE closing' = "done" /\ UNCHANGED <<saving, fresh>>
    /\ UNCHANGED <<cfg, next, run, recording, queue, wanted, wakePending, notified, waitVars, at,
                   until, inflight, carried, file, clean, unsaved, closed, asked, count, acked>>

\* save(): the newest that fit replace the file, or it stays as it was; either
\* way the version counts as written.
Save(t) ==
    /\ \/ file' = Newest(MaxFile, saving[t]) /\ unsaved' = FALSE
       \/ DiskRefuses /\ file' = file /\ unsaved' = TRUE
    /\ clean' = fresh[t]
    /\ saving' = [saving EXCEPT ![t] = <<>>]
    /\ fresh' = [fresh EXCEPT ![t] = FALSE]

CloseSaves ==
    /\ closing = "saving"
    /\ Save("close")
    /\ closing' = "done"
    /\ UNCHANGED <<cfg, next, run, recording, lineVars, waitVars, at, until, inflight,
                   carried, closed, flushVars, count, acked>>

-----------------------------------------------------------------------------
(* The worker. *)

\* The top of the loop: wait, unless a send is owed and nothing holds it back.
Look ==
    /\ at = "look" /\ ~closed
    /\ IF wanted /\ Resumed THEN at' = "decide" /\ UNCHANGED until
       ELSE /\ at' = "waiting"
            /\ until' = LET base == IF cfg.schedule = "interval" THEN "tick" ELSE "idle"
                        IN  IF Resumed THEN base
                            ELSE IF wanted THEN "resume"
                            ELSE IF base = "tick" THEN "both" ELSE "idle"
    /\ notified' = FALSE
    /\ UNCHANGED <<cfg, next, run, recording, queue, ahead, wanted, wakePending, waitVars,
                   inflight, carried, spoolVars, closed, closing, flushVars, count, acked>>

\* The wait ends: notified, timed out, or time to write the spool.
Wake ==
    /\ at = "waiting"
    /\ \/ notified \/ cfg.disk
       \/ until = "tick" /\ tickDue
       \/ until = "resume" /\ Resumed
       \/ until = "both" /\ tickDue /\ Resumed
    /\ at' = "decide" /\ notified' = FALSE
    /\ UNCHANGED <<cfg, next, run, recording, queue, ahead, wanted, wakePending, waitVars,
                   until, inflight, carried, spoolVars, closed, closing, flushVars, count, acked>>

\* A wake is not a tick: it sends only what was asked for, or what is due.
Decide ==
    /\ at = "decide" /\ ~closed
    /\ wakePending' = FALSE
    /\ at' = IF wanted \/ (cfg.schedule = "interval" /\ tickDue) THEN "drain" ELSE "persist"
    /\ UNCHANGED <<cfg, next, run, recording, queue, ahead, wanted, notified, waitVars, until,
                   inflight, carried, spoolVars, closed, closing, flushVars, count, acked>>

\* The loop ends when the client is closed; nobody is left to answer markers.
Die ==
    /\ at \in {"look", "decide"} /\ closed
    /\ at' = "dead"
    /\ Release
    /\ UNCHANGED <<cfg, next, run, recording, queue, wanted, wakePending, notified, waitVars,
                   until, inflight, carried, spoolVars, closed, closing, asked, count, acked>>

\* After the send loop: the next tick, then the spool.
DrainEnds == at' = "persist" /\ tickDue' = FALSE

\* _drain_once(), up to its request.  A breaker that has cooled is half open
\* from here on, even when the backoff holds the pass back.
Drain ==
    /\ at = "drain"
    /\ open' = (open /\ cooling)
    /\ IF ~Resumed
       THEN /\ DrainEnds
            /\ UNCHANGED <<queue, ahead, wanted, inflight, carried, answer, clean, fresh>>
       ELSE LET n     == IF Len(queue) < MaxBatch THEN Len(queue) ELSE MaxBatch
                marks == {c \in DOMAIN ahead : ahead[c] <= n}
            IN  /\ wanted' = FALSE
                /\ queue' = SubSeq(queue, n + 1, Len(queue))
                /\ ahead' = [c \in DOMAIN ahead \ marks |-> ahead[c] - n]
                /\ IF queue = <<>>
                   THEN /\ DrainEnds
                        /\ answer' = Answered(marks, "true")
                        /\ UNCHANGED <<inflight, carried, clean, fresh>>
                   ELSE /\ at' = "posting" /\ inflight' = SubSeq(queue, 1, n) /\ carried' = marks
                        /\ Bump
                        /\ UNCHANGED <<answer, tickDue>>
    /\ UNCHANGED <<cfg, next, run, recording, wakePending, notified, hold, cooling, failures,
                   until, file, saving, unsaved, closed, closing, asked, count, acked>>

\* A pass that was answered, yes or no: the loop goes on while entries are queued.
Settled ==
    /\ failures' = 0 /\ hold' = FALSE
    /\ inflight' = <<>> /\ carried' = {}
    /\ answer' = Answered(carried, "true")
    /\ IF queue # <<>> /\ ~closed THEN at' = "drain" /\ UNCHANGED tickDue
       ELSE DrainEnds
    /\ UNCHANGED <<cfg, next, run, recording, lineVars, open, cooling, until, spoolVars,
                   closed, closing, asked>>

Accepted ==
    /\ at = "posting"
    /\ count' = [count EXCEPT !.accepted = @ + Len(inflight)]
    /\ acked' = acked \cup ToSet(inflight)
    /\ Settled

Rejected ==
    /\ at = "posting"
    /\ count' = [count EXCEPT !.rejected = @ + Len(inflight)]
    /\ Settled /\ UNCHANGED acked

\* _on_failure() and _requeue_front_locked(), which does not touch the version.
Failed ==
    /\ at = "posting"
    /\ failures' = IF failures < Threshold THEN failures + 1 ELSE failures
    /\ hold' = TRUE
    /\ IF failures' >= Threshold /\ ~open THEN open' = TRUE /\ cooling' = TRUE
       ELSE UNCHANGED <<open, cooling>>
    /\ LET all == inflight \o queue
       IN  /\ queue' = Kept(all)
           /\ ahead' = Shifted(Len(inflight), Overflow(all))
           /\ count' = [count EXCEPT !.overflow = @ + Overflow(all)]
    /\ wanted' = TRUE
    /\ inflight' = <<>> /\ carried' = {}
    /\ answer' = Answered(carried, "false")
    /\ DrainEnds
    /\ UNCHANGED <<cfg, next, run, recording, wakePending, notified, until, spoolVars, closed,
                   closing, asked, acked>>

\* _persist(): what is queued, unless the file already has this version.
Persist ==
    /\ at = "persist"
    /\ IF cfg.disk /\ ~clean
       THEN /\ at' = "saving"
            /\ saving' = [saving EXCEPT !["worker"] = queue]
            /\ fresh' = [fresh EXCEPT !["worker"] = TRUE]
       ELSE at' = "look" /\ UNCHANGED <<saving, fresh>>
    /\ UNCHANGED <<cfg, next, run, recording, lineVars, waitVars, until, inflight, carried,
                   file, clean, unsaved, closed, closing, flushVars, count, acked>>

WorkerSaves ==
    /\ at = "saving"
    /\ Save("worker")
    /\ at' = "look"
    /\ UNCHANGED <<cfg, next, run, recording, lineVars, waitVars, until, inflight, carried,
                   closed, closing, flushVars, count, acked>>

-----------------------------------------------------------------------------
(* Time, and the process. *)

HoldElapses ==
    /\ hold /\ hold' = FALSE
    /\ UNCHANGED <<cfg, next, run, recording, lineVars, open, cooling, failures, tickDue, at,
                   until, inflight, carried, spoolVars, closed, closing, flushVars, count, acked>>

CooldownElapses ==
    /\ cooling /\ cooling' = FALSE
    /\ UNCHANGED <<cfg, next, run, recording, lineVars, hold, open, failures, tickDue, at,
                   until, inflight, carried, spoolVars, closed, closing, flushVars, count, acked>>

TickElapses ==
    /\ cfg.schedule = "interval" /\ ~tickDue /\ tickDue' = TRUE
    /\ UNCHANGED <<cfg, next, run, recording, lineVars, hold, open, cooling, failures, at,
                   until, inflight, carried, spoolVars, closed, closing, flushVars, count, acked>>

\* load(): the spool, or nothing when it could not be read.
Loads == {Newest(MaxFile, file)} \cup IF DiskRefuses THEN {<<>>} ELSE {}

\* The process ends, killed or closed, and the next one restores the spool.
Restart ==
    /\ cfg.disk /\ run < MaxRuns
    /\ run' = run + 1
    /\ \E items \in Loads :
          /\ queue' = Newest(MaxQueued, items)
          /\ count' = [taken |-> Len(items), accepted |-> 0, rejected |-> 0,
                       overflow |-> Len(items) - Len(queue')]
          /\ wanted' = (items # <<>>) /\ wakePending' = (items # <<>>)
          /\ clean' = (items = <<>>) /\ unsaved' = (items = <<>> /\ file # <<>>)
    /\ ahead' = NoMarkers /\ notified' = FALSE
    /\ recording' = 0
    /\ hold' = FALSE /\ open' = FALSE /\ cooling' = FALSE /\ failures' = 0 /\ tickDue' = FALSE
    /\ at' = "look" /\ until' = "idle" /\ inflight' = <<>> /\ carried' = {}
    /\ saving' = [t \in Thread |-> <<>>]
    /\ fresh' = [t \in Thread |-> FALSE]
    /\ closed' = FALSE /\ closing' = "open"
    /\ answer' = [c \in Callers |-> "none"] /\ asked' = [c \in Callers |-> {}]
    /\ UNCHANGED <<cfg, next, file, acked>>

Worker ==
    \/ Look \/ Wake \/ Decide \/ Die \/ Drain \/ Accepted \/ Rejected \/ Failed
    \/ Persist \/ WorkerSaves

Closer == CloseStops \/ CloseSnapshots \/ CloseSaves

Next ==
    \/ LogStart \/ Enqueue \/ Flush \/ \E c \in Callers : FlushTimesOut(c)
    \/ Close \/ Closer \/ Worker
    \/ HoldElapses \/ CooldownElapses \/ TickElapses \/ Restart

Spec == Init /\ [][Next]_vars

-----------------------------------------------------------------------------
(* Properties. *)

TypeOK ==
    /\ cfg \in Configs /\ next \in 1..(MaxId + 1) /\ run \in 1..(MaxRuns + 1)
    /\ recording \in 0..MaxId /\ queue \in Seq(Entry)
    /\ DOMAIN ahead \subseteq Callers /\ \A c \in DOMAIN ahead : ahead[c] \in 0..Len(queue)
    /\ {wanted, wakePending, notified, hold, open, cooling, tickDue, clean, unsaved,
        closed} \subseteq BOOLEAN
    /\ failures \in 0..Threshold
    /\ at \in {"look", "waiting", "decide", "drain", "posting", "persist", "saving", "dead"}
    /\ until \in {"tick", "resume", "both", "idle"}
    /\ inflight \in Seq(Entry) /\ carried \subseteq Callers
    /\ file \in Seq(Entry) /\ saving \in [Thread -> Seq(Entry)]
    /\ fresh \in [Thread -> BOOLEAN]
    /\ closing \in {"open", "flushing", "joining", "saving", "done"}
    /\ answer \in [Callers -> {"none", "waiting", "true", "false"}]
    /\ asked \in [Callers -> SUBSET Entry]
    /\ count \in [taken : Nat, accepted : Nat, overflow : Nat, rejected : Nat]
    /\ acked \subseteq Entry

\* Every entry taken on is on its way to the queue, queued, in flight, or counted
\* once: through overflow, requeues, markers and restored entries.
Books ==
    count.taken = (IF recording = 0 THEN 0 ELSE 1) + Len(Held)
                  + count.accepted + count.overflow + count.rejected

\* The queue keeps its bound with one batch in flight, and the spool its own.
Bounded ==
    /\ Len(queue) <= MaxQueued /\ Len(inflight) <= MaxBatch
    /\ Len(file) <= MaxFile

\* Entries leave in the order they were recorded: what comes back after a failed
\* request goes in front of what was recorded meanwhile, and so does what a run
\* restores.
InOrder == \A i, j \in 1..Len(Held) : i < j => Held[i] < Held[j]

\* An entry a 2xx has answered for is never sent again by the same run.
NoResend == run = 1 => ToSet(Held) \cap acked = {}

\* A flush() that returns True: nothing that was pending when it was called still
\* is, even when its marker was overtaken by requeued entries or lay behind
\* several batches.
FlushTrue ==
    [][\A c \in Callers : answer[c] = "waiting" /\ answer'[c] = "true"
          => asked[c] \cap ToSet(Held') = {}]_vars

\* While the server keeps failing, a request goes out only after a cooldown.
OneProbe == at = "posting" /\ failures >= Threshold => ~cooling

\* Until close(), a worker that has nothing left to write has written exactly
\* what is pending, oldest given up first, unless the disk has refused it.
Durable ==
    cfg.disk /\ clean /\ at \in {"look", "waiting"} /\ closing = "open" /\ ~unsaved
        => file = Newest(MaxFile, queue)

\* The queue, the books, the order of the entries, the breaker and the spool,
\* together.
Contract == TypeOK /\ Books /\ Bounded /\ InOrder /\ NoResend /\ OneProbe /\ Durable

Status ==
    [e \in Entry |->
        IF e \in acked THEN "sent"
        ELSE IF e = recording
                \/ e \in ToSet(Held \o file \o saving["worker"] \o saving["close"]) THEN "pending"
        ELSE IF e < next THEN "lost" ELSE "new"]

D == INSTANCE Delivery WITH status <- Status

\* A recorded entry is sent, or lost once and for good, across threads that write
\* the spool at the same time, kills and restarts.
ImplementsDelivery == D!Spec
===============================================================================
