----------------------------- MODULE DotnetClient -----------------------------
(* The .NET client (FirstrunClient.cs) over its queue (EventQueue.cs) and    *)
(* its file (DiskQueue.cs).  A pass of the sender runs under _drainGate, on  *)
(* the worker thread or on the thread in Dispose(): `gate` is who runs it,   *)
(* `pass` where it is.  Log and Flush take no gate.  A deadline in the       *)
(* future is a flag that elapses, and a file counts whole lines.             *)
EXTENDS Naturals, Sequences, SequencesExt, TLC

CONSTANTS
    MaxId,          \* bound: entries recorded
    GroupOf,        \* the resource of an entry
    Urgent,         \* entries at or above FlushOnSeverity
    Durable,        \* entries at or above PersistFromSeverity
    Configs,        \* the policies: [mode, disk, exitFlush]
    MaxQueued, MaxBatch, Threshold,
    MaxLines,       \* MaxPersistedBytes, in lines
    DiskRefuses,    \* whether a write may fail
    MaxRuns         \* bound: process lifetimes

Entry == 1..MaxId

ASSUME DotnetAssumption ==
    /\ MaxId \in Nat /\ MaxRuns \in Nat /\ MaxLines \in Nat /\ DiskRefuses \in BOOLEAN
    /\ MaxQueued \in Nat \ {0} /\ MaxBatch \in Nat \ {0} /\ Threshold \in Nat \ {0}
    /\ Configs \subseteq [mode : {"immediate", "interval", "startup", "manual"},
                          disk : BOOLEAN, exitFlush : BOOLEAN]

VARIABLES
    cfg, run,
    next,           \* id of the next entry; ids are in the order of Seq
    recording,      \* the entry a Log is carrying past its check of _disposed, or 0
    landed,         \* it is in the queue, and the wake-up is still to be set
    queue,          \* _items, its entries
    marked, ahead,  \* the FlushMarker is in it, behind so many of them
    wake,           \* _wake
    requested,      \* _sendRequested
    hold,           \* _nextAttemptUtc is in the future
    open, cool,     \* _circuitOpen; _circuitRetryUtc is in the future
    failures,
    due,            \* _nextIntervalUtc has passed
    worker,         \* "look", "waiting", "entering", "pass", "exited"
    until,          \* what ends its wait: "never", "tick", "blocked", "either"
    gate,           \* "none", "worker", "closer"
    pass,           \* "none", "trim", "moving", "decide", "drain", "posting",
                    \* "compact", "finish", "leave"
    out,            \* what this pass has drained and not settled
    carried,        \* it has drained the marker
    settled, allSent,
    closer,         \* "open", "loop", "entering", "pass", "persist", "cancel",
                    \* "joining", "done"
    before,         \* its _queue.Count before a pass
    file, broken,
    tmp,            \* the rewritten file waiting for its name, and what comes after
    journaled,      \* _journaledThrough
    answer, asked,  \* the flush: "none", "waiting", "true", "false"; history
    count,          \* counters of this run
    acked           \* history: entries a 2xx has answered for

callVars   == <<next, recording, landed>>
lineVars   == <<queue, marked, ahead>>
holdVars   == <<hold, open, cool, failures>>
drainVars  == <<out, carried, settled, allSent>>
threadVars == <<worker, until, gate, closer, before>>
diskVars   == <<file, broken, tmp, journaled>>
flushVars  == <<answer, asked>>
vars == <<cfg, run, callVars, lineVars, wake, requested, holdVars, due, threadVars, pass,
          drainVars, diskVars, flushVars, count, acked>>

-----------------------------------------------------------------------------
(* Operators. *)

\* The entries of s that are in S, in their order.
Picked(s, S) ==
    LET upTo[n \in 0..Len(s)] ==
          IF n = 0 THEN <<>>
          ELSE IF s[n] \in S THEN Append(upTo[n - 1], s[n]) ELSE upTo[n - 1]
    IN  upTo[Len(s)]

Newest(n, s) == IF Len(s) <= n THEN s ELSE SubSeq(s, Len(s) - n + 1, Len(s))
Held == out \o queue
Count == Len(queue)
Disposed == closer # "open"

Fewer(k, n) == IF k > n THEN k - n ELSE 0

\* DropOldestEntryLocked() until the bound holds.
Kept(q) == Newest(MaxQueued, q)
Overflow(q) == Len(q) - Len(Kept(q))

\* The queue becomes q, with so many entries more in front, and keeps its bound;
\* the marker stays.
Requeued(q, more) ==
    /\ queue' = Kept(q)
    /\ ahead' = IF marked THEN Fewer(ahead + more, Overflow(q)) ELSE 0
    /\ count' = [count EXCEPT !.overflow = @ + Overflow(q)]
    /\ UNCHANGED marked

\* Group(): the request that is out is the resource of the oldest entry left, and
\* so on, in the order the resources appear.
SameResource == {e \in Entry : GroupOf[e] = GroupOf[Head(out)]}
Batch == Picked(out, SameResource)
Rest  == Picked(out, Entry \ SameResource)

\* The highest Seq among s and since.
Highest(s, since) ==
    CHOOSE n \in {since} \cup ToSet(s) : \A m \in {since} \cup ToSet(s) : m <= n

\* What RestoreAndCompact() reads back.
Restored(f) == Newest(MaxQueued, Newest(MaxLines, f))

NoTmp == [lines |-> <<>>, after |-> "none"]

-----------------------------------------------------------------------------
Init ==
    /\ cfg \in Configs /\ run = 1 /\ next = 1
    /\ queue = <<>> /\ marked = FALSE /\ ahead = 0
    /\ recording = 0 /\ landed = FALSE
    /\ wake = (cfg.mode = "startup") /\ requested = (cfg.mode = "startup")
    /\ hold = FALSE /\ open = FALSE /\ cool = FALSE /\ failures = 0 /\ due = TRUE
    /\ worker = "look" /\ until = "never" /\ gate = "none" /\ closer = "open" /\ before = 0
    /\ pass = "none" /\ out = <<>>
    /\ carried = FALSE /\ settled = FALSE /\ allSent = TRUE
    /\ tmp = NoTmp /\ answer = "none" /\ asked = {}
    /\ file = <<>> /\ broken = FALSE /\ journaled = 0
    /\ count = [taken |-> 0, accepted |-> 0, overflow |-> 0, rejected |-> 0]
    /\ acked = {}

(* Callers. *)

\* Enqueue(): past its check of _disposed ...
LogStart ==
    /\ ~Disposed /\ recording = 0 /\ next <= MaxId
    /\ recording' = next /\ next' = next + 1 /\ landed' = FALSE
    /\ count' = [count EXCEPT !.taken = @ + 1]
    /\ UNCHANGED <<cfg, run, lineVars, wake, requested, holdVars, due, threadVars, pass,
                   drainVars, diskVars, flushVars, acked>>

\* ... into the queue ...
Enqueue ==
    /\ recording # 0 /\ ~landed
    /\ Requeued(Append(queue, recording), 0)
    /\ landed' = TRUE
    /\ UNCHANGED <<cfg, run, next, recording, wake, requested, holdVars, due, threadVars,
                   pass, drainVars, diskVars, flushVars, acked>>

\* ... and the wake-up: RequestSend() for an urgent entry, otherwise what the
\* mode, the journal and a full batch call for.
Signal ==
    /\ recording # 0 /\ landed
    /\ requested' = (requested \/ recording \in Urgent)
    /\ wake' = (wake \/ recording \in Urgent \/ cfg.mode = "immediate" \/ cfg.disk
                     \/ Count >= MaxBatch)
    /\ recording' = 0 /\ landed' = FALSE
    /\ UNCHANGED <<cfg, run, next, lineVars, holdVars, due, threadVars, pass, drainVars,
                   diskVars, flushVars, count, acked>>

\* FlushAsync(): the marker goes behind everything queued so far.
Flush ==
    /\ ~Disposed /\ answer = "none"
    /\ answer' = "waiting" /\ asked' = ToSet(Held)
    /\ marked' = TRUE /\ ahead' = Len(queue)
    /\ requested' = TRUE /\ wake' = TRUE
    /\ UNCHANGED <<cfg, run, callVars, queue, holdVars, due, threadVars, pass, drainVars,
                   diskVars, count, acked>>

FlushTimesOut ==
    /\ answer = "waiting" /\ answer' = "false"
    /\ UNCHANGED <<cfg, run, callVars, lineVars, wake, requested, holdVars, due, threadVars,
                   pass, drainVars, diskVars, asked, count, acked>>

-----------------------------------------------------------------------------
(* The worker. *)

Resumed == ~hold /\ ~(open /\ cool)

LookM ==                                                     \* mutant
    /\ worker = "look" /\ ~Disposed
    /\ worker' = "waiting"
    /\ until' = IF cfg.mode = "interval" /\ (Count = 0 \/ Resumed) THEN "tick" ELSE "never"
    /\ UNCHANGED <<cfg, run, callVars, lineVars, wake, requested, holdVars, due, gate, closer,
                   before, pass, drainVars, diskVars, flushVars, count, acked>>

\* TimeUntilNextWork(): a deadline that has passed is none.
Look ==
    /\ worker = "look" /\ ~Disposed
    /\ worker' = "waiting"
    /\ until' = LET held == Count > 0 /\ ~Resumed
                IN  IF cfg.mode = "interval" THEN (IF held THEN "either" ELSE "tick")
                    ELSE IF held THEN "blocked" ELSE "never"
    /\ UNCHANGED <<cfg, run, callVars, lineVars, wake, requested, holdVars, due, gate, closer,
                   before, pass, drainVars, diskVars, flushVars, count, acked>>

ByClock ==
    \/ until \in {"tick", "either"} /\ due
    \/ until \in {"blocked", "either"} /\ Resumed

\* The wait ends, and Reset() comes before the pass looks at anything.
Wake ==
    /\ worker = "waiting" /\ ~Disposed
    /\ wake \/ ByClock
    /\ wake' = FALSE /\ worker' = "entering"
    /\ UNCHANGED <<cfg, run, callVars, lineVars, requested, holdVars, due, until, gate, closer,
                   before, pass, drainVars, diskVars, flushVars, count, acked>>

\* ReleaseAllMarkers(false), by the worker on its way out and by Dispose().
ReleaseMarkers ==
    /\ marked' = FALSE /\ ahead' = 0
    /\ answer' = IF marked /\ answer = "waiting" THEN "false" ELSE answer

Exit ==
    /\ \/ worker = "look" /\ Disposed
       \/ worker = "waiting" /\ (wake \/ ByClock) /\ Disposed
       \/ worker = "waiting" /\ closer \in {"joining", "done"}
    /\ worker' = "exited"
    /\ ReleaseMarkers
    /\ UNCHANGED <<cfg, run, callVars, queue, wake, requested, holdVars, due, until, gate,
                   closer, before, pass, drainVars, diskVars, asked, count, acked>>

-----------------------------------------------------------------------------
(* A pass, under the gate. *)

\* PersistPending(): what is queued past the watermark is appended, or, on a
\* disk that gives out, a part of it.
PersistPending(after) ==
    LET fresh == Picked(queue, {e \in Entry : e > journaled})
        lines == Picked(fresh, Durable)
    IN  IF ~cfg.disk \/ broken
        THEN pass' = after /\ UNCHANGED diskVars
        ELSE /\ journaled' = Highest(fresh, journaled)
             /\ \/ /\ file' = file \o lines /\ UNCHANGED broken
                   /\ IF lines # <<>> /\ Len(file') > MaxLines
                      THEN pass' = "trim" /\ tmp' = [NoTmp EXCEPT !.after = after]
                      ELSE pass' = after /\ UNCHANGED tmp
                \/ /\ DiskRefuses /\ lines # <<>>
                   /\ \E n \in 0..(Len(lines) - 1) : file' = file \o SubSeq(lines, 1, n)
                   /\ broken' = TRUE /\ pass' = after /\ UNCHANGED tmp

Enter(t) ==
    /\ gate = "none" /\ gate' = t
    /\ PersistPending("decide")
    /\ UNCHANGED <<cfg, run, callVars, lineVars, wake, requested, holdVars, due, until,
                   before, drainVars, flushVars, count, acked>>

WorkerEnters == worker = "entering" /\ worker' = "pass" /\ UNCHANGED closer /\ Enter("worker")

\* Rewrite(): the new file is written aside, the old one deleted, the new one
\* given its name.  A kill before the last step leaves neither.
Rewrite(lines, after) ==
    \/ lines = <<>> /\ file' = <<>> /\ pass' = after /\ UNCHANGED <<broken, tmp>>
    \/ /\ lines # <<>> /\ file' = <<>> /\ pass' = "moving"
       /\ tmp' = [lines |-> lines, after |-> after] /\ UNCHANGED broken
    \/ /\ DiskRefuses /\ broken' = TRUE /\ pass' = after /\ UNCHANGED <<file, tmp>>

\* TrimIfOversized(): the newest lines that fit.
Trim ==
    /\ pass = "trim"
    /\ Rewrite(Newest(MaxLines, file), tmp.after)
    /\ UNCHANGED <<cfg, run, callVars, lineVars, wake, requested, holdVars, due, threadVars,
                   drainVars, journaled, flushVars, count, acked>>

Move ==
    /\ pass = "moving"
    /\ \/ file' = tmp.lines /\ UNCHANGED broken
       \/ DiskRefuses /\ broken' = TRUE /\ UNCHANGED file
    /\ pass' = tmp.after /\ tmp' = NoTmp
    /\ UNCHANGED <<cfg, run, callVars, lineVars, wake, requested, holdVars, due, threadVars,
                   drainVars, journaled, flushVars, count, acked>>

\* Out of the gate; a pass of Dispose() that moved nothing is its last.
Release ==
    /\ gate' = "none" /\ pass' = "none"
    /\ IF gate = "worker" THEN worker' = "look" /\ UNCHANGED <<closer, before>>
       ELSE /\ closer' = IF closer = "persist" THEN "cancel"
                         ELSE IF Count >= before THEN "persist" ELSE "loop"
            /\ before' = 0 /\ UNCHANGED worker
    /\ UNCHANGED until

ShouldSend ==
    \/ requested
    \/ cfg.mode = "immediate" /\ Count > 0
    \/ cfg.mode = "interval" /\ (Count >= MaxBatch \/ due)

DecideM ==                                                   \* mutant
    /\ pass = "decide"
    /\ open' = FALSE /\ pass' = "drain" /\ requested' = FALSE /\ due' = FALSE
    /\ UNCHANGED <<cfg, run, callVars, lineVars, wake, hold, cool, failures, threadVars, drainVars,
                   diskVars, flushVars, count, acked>>

\* The schedule first, then the breaker and the backoff, which outrank it.
Decide ==
    /\ pass = "decide"
    /\ open' = (open /\ (cool \/ ~ShouldSend))
    /\ IF ShouldSend /\ Resumed
       THEN /\ pass' = "drain" /\ requested' = FALSE
            /\ due' = (due /\ cfg.mode # "interval")
            /\ UNCHANGED threadVars
       ELSE Release /\ UNCHANGED <<requested, due>>
    /\ UNCHANGED <<cfg, run, callVars, lineVars, wake, hold, cool, failures, drainVars, diskVars,
                   flushVars, count, acked>>

Drain ==
    /\ pass = "drain"
    /\ LET n == IF Count < MaxBatch THEN Count ELSE MaxBatch
       IN  /\ out' = SubSeq(queue, 1, n) /\ queue' = SubSeq(queue, n + 1, Count)
           /\ carried' = (marked /\ ahead <= n)
           /\ marked' = (marked /\ ahead > n)
           /\ ahead' = Fewer(ahead, n)
           /\ pass' = IF n = 0 THEN "finish" ELSE "posting"
    /\ settled' = FALSE /\ allSent' = TRUE
    /\ UNCHANGED <<cfg, run, callVars, wake, requested, holdVars, due, threadVars, diskVars,
                   flushVars, count, acked>>

\* OnSuccess(), after a 2xx and after a definite no.
Settle ==
    /\ failures' = 0 /\ hold' = FALSE
    /\ out' = Rest /\ settled' = TRUE
    /\ pass' = IF Rest = <<>> THEN "compact" ELSE "posting"
    /\ UNCHANGED <<cfg, run, callVars, lineVars, wake, requested, open, cool, due, threadVars,
                   carried, allSent, diskVars, flushVars>>

Accepted ==
    /\ pass = "posting"
    /\ count' = [count EXCEPT !.accepted = @ + Len(Batch)]
    /\ acked' = acked \cup ToSet(Batch)
    /\ Settle

Rejected ==
    /\ pass = "posting"
    /\ count' = [count EXCEPT !.rejected = @ + Len(Batch)]
    /\ Settle /\ UNCHANGED acked

\* OnFailure(), which ends the pass; a cancelled request fails too.  What was not
\* settled goes back in front (RequeueFront).
Failed ==
    /\ pass = "posting"
    /\ failures' = IF failures < Threshold THEN failures + 1 ELSE failures
    /\ hold' = TRUE
    /\ IF failures' >= Threshold /\ ~open THEN open' = TRUE /\ cool' = TRUE
       ELSE UNCHANGED <<open, cool>>
    /\ Requeued(Held, Len(out))
    /\ out' = <<>> /\ allSent' = FALSE
    /\ pass' = IF settled THEN "compact" ELSE "finish"
    /\ UNCHANGED <<cfg, run, callVars, wake, requested, due, threadVars, carried, settled,
                   diskVars, flushVars, acked>>

CompactM ==                                                  \* mutant
    /\ pass = "compact"
    /\ IF ~cfg.disk \/ broken THEN pass' = "finish" /\ UNCHANGED diskVars
       ELSE /\ journaled' = Highest(queue, 0)
            /\ Rewrite(Picked(queue, {e \in Durable : e > journaled}), "finish")
    /\ UNCHANGED <<cfg, run, callVars, lineVars, wake, requested, holdVars, due, threadVars,
                   drainVars, flushVars, count, acked>>

\* CompactJournal(): the file becomes what is still waiting.
Compact ==
    /\ pass = "compact"
    /\ IF ~cfg.disk \/ broken THEN pass' = "finish" /\ UNCHANGED diskVars
       ELSE /\ journaled' = Highest(queue, 0)
            /\ Rewrite(Picked(queue, Durable), "finish")
    /\ UNCHANGED <<cfg, run, callVars, lineVars, wake, requested, holdVars, due, threadVars,
                   drainVars, flushVars, count, acked>>

FinishM ==                                                   \* mutant
    /\ pass = "finish"
    /\ answer' = IF carried /\ answer = "waiting" THEN "true" ELSE answer
    /\ requested' = (requested \/ ~allSent \/ Count > 0)
    /\ wake' = (wake \/ (allSent /\ Count > 0))
    /\ out' = <<>> /\ carried' = FALSE /\ settled' = FALSE /\ allSent' = TRUE
    /\ Release
    /\ UNCHANGED <<cfg, run, callVars, lineVars, holdVars, due, diskVars, asked, count, acked>>

\* CompleteMarkers(), and what is left is still requested.
Finish ==
    /\ pass = "finish"
    /\ answer' = IF ~carried \/ answer # "waiting" THEN answer
                 ELSE IF allSent THEN "true" ELSE "false"
    /\ requested' = (requested \/ ~allSent \/ Count > 0)
    /\ wake' = (wake \/ (allSent /\ Count > 0))
    /\ out' = <<>> /\ carried' = FALSE /\ settled' = FALSE /\ allSent' = TRUE
    /\ Release
    /\ UNCHANGED <<cfg, run, callVars, lineVars, holdVars, due, diskVars, asked, count, acked>>

-----------------------------------------------------------------------------
(* Shutdown(). *)

Dispose ==
    /\ closer = "open"
    /\ IF cfg.exitFlush THEN closer' = "loop" /\ hold' = FALSE
       ELSE closer' = "persist" /\ UNCHANGED hold
    /\ UNCHANGED <<cfg, run, callVars, lineVars, wake, requested, open, cool, failures, due,
                   worker, until, gate, before, pass, drainVars, diskVars, flushVars, count,
                   acked>>

\* Another pass, until the queue is empty, the breaker opens or time is up.
CloserLoops ==
    /\ closer = "loop"
    /\ \/ /\ Count > 0 /\ ~open
          /\ closer' = "entering" /\ before' = Count /\ requested' = TRUE
       \/ closer' = "persist" /\ UNCHANGED <<before, requested>>
    /\ UNCHANGED <<cfg, run, callVars, lineVars, wake, holdVars, due, worker, until, gate, pass,
                   drainVars, diskVars, flushVars, count, acked>>

CloserEnters == closer = "entering" /\ closer' = "pass" /\ UNCHANGED worker /\ Enter("closer")

\* The last PersistPending() takes the gate, which memory does without.
CloserPersists ==
    /\ closer = "persist" /\ gate # "closer"
    /\ IF cfg.disk
       THEN gate = "none" /\ gate' = "closer" /\ PersistPending("leave") /\ UNCHANGED closer
       ELSE closer' = "cancel" /\ UNCHANGED <<gate, pass, diskVars>>
    /\ UNCHANGED <<cfg, run, callVars, lineVars, wake, requested, holdVars, due, worker, until,
                   before, drainVars, flushVars, count, acked>>

Leave ==
    /\ pass = "leave"
    /\ Release
    /\ UNCHANGED <<cfg, run, callVars, lineVars, wake, requested, holdVars, due, drainVars,
                   diskVars, flushVars, count, acked>>

Cancel ==
    /\ closer = "cancel"
    /\ closer' = "joining" /\ wake' = TRUE
    /\ UNCHANGED <<cfg, run, callVars, lineVars, requested, holdVars, due, worker, until, gate,
                   before, pass, drainVars, diskVars, flushVars, count, acked>>

\* Join() returns with the worker, or without it after a second.
Joined ==
    /\ closer = "joining"
    /\ closer' = "done"
    /\ ReleaseMarkers
    /\ UNCHANGED <<cfg, run, callVars, queue, wake, requested, holdVars, due, worker, until,
                   gate, before, pass, drainVars, diskVars, asked, count, acked>>

-----------------------------------------------------------------------------
(* Time, and the process. *)

HoldElapses ==
    /\ hold /\ hold' = FALSE
    /\ UNCHANGED <<cfg, run, callVars, lineVars, wake, requested, open, cool, failures, due,
                   threadVars, pass, drainVars, diskVars, flushVars, count, acked>>

CooldownElapses ==
    /\ cool /\ cool' = FALSE
    /\ UNCHANGED <<cfg, run, callVars, lineVars, wake, requested, hold, open, failures, due,
                   threadVars, pass, drainVars, diskVars, flushVars, count, acked>>

IntervalElapses ==
    /\ ~due /\ due' = TRUE
    /\ UNCHANGED <<cfg, run, callVars, lineVars, wake, requested, holdVars, threadVars, pass,
                   drainVars, diskVars, flushVars, count, acked>>

\* The process ends, killed or disposed of, and the next one opens the file: it
\* rewrites what it reads, cannot, cannot read, or is killed over the rewrite.
Restart ==
    /\ cfg.disk /\ run < MaxRuns
    /\ run' = run + 1
    /\ UNCHANGED <<cfg, next, acked>>
    /\ recording' = 0 /\ landed' = FALSE
    /\ wake' = (cfg.mode = "startup") /\ requested' = (cfg.mode = "startup")
    /\ hold' = FALSE /\ open' = FALSE /\ cool' = FALSE /\ failures' = 0 /\ due' = TRUE
    /\ worker' = "look" /\ until' = "never" /\ gate' = "none" /\ closer' = "open" /\ before' = 0
    /\ pass' = "none" /\ out' = <<>> /\ marked' = FALSE /\ ahead' = 0
    /\ carried' = FALSE /\ settled' = FALSE /\ allSent' = TRUE
    /\ tmp' = NoTmp /\ answer' = "none" /\ asked' = {}
    /\ \/ queue' = Restored(file) /\ file' = queue' /\ broken' = FALSE
       \/ DiskRefuses /\ queue' = Restored(file) /\ file' = file /\ broken' = TRUE
       \/ DiskRefuses /\ queue' = <<>> /\ file' = file /\ broken' = TRUE
       \/ queue' = <<>> /\ file' = <<>> /\ broken' = FALSE
    /\ journaled' = Highest(queue', 0)
    /\ count' = [taken |-> Len(queue'), accepted |-> 0, overflow |-> 0, rejected |-> 0]

Worker == Look \/ Wake \/ Exit \/ WorkerEnters
Pass   == Trim \/ Move \/ Decide \/ Drain \/ Accepted \/ Rejected \/ Failed
             \/ Compact \/ Finish \/ Leave
Closer == CloserLoops \/ CloserEnters \/ CloserPersists \/ Cancel \/ Joined

Next ==
    \/ LogStart \/ Enqueue \/ Signal \/ Flush \/ FlushTimesOut \/ Dispose
    \/ Worker \/ Pass \/ Closer
    \/ HoldElapses \/ CooldownElapses \/ IntervalElapses \/ Restart

Spec == Init /\ [][Next]_vars

\* Threads are scheduled and get the gate in the end, requests end, time passes.
Fairness ==
    /\ WF_vars(Look \/ Wake \/ Exit) /\ SF_vars(WorkerEnters) /\ WF_vars(Pass)
    /\ WF_vars(CloserLoops \/ Cancel \/ Joined)
    /\ SF_vars(CloserEnters) /\ SF_vars(CloserPersists)
    /\ WF_vars(FlushTimesOut)
    /\ WF_vars(HoldElapses) /\ WF_vars(CooldownElapses) /\ WF_vars(IntervalElapses)

FairSpec == Spec /\ Fairness

-----------------------------------------------------------------------------
(* Properties. *)

TypeOK ==
    /\ cfg \in Configs /\ run \in 1..(MaxRuns + 1) /\ next \in 1..(MaxId + 1)
    /\ recording \in 0..MaxId /\ queue \in Seq(Entry)
    /\ {landed, marked, wake, requested, hold, open, cool, due, carried, settled, allSent,
        broken} \subseteq BOOLEAN
    /\ ahead \in 0..Len(queue)
    /\ failures \in 0..Threshold
    /\ worker \in {"look", "waiting", "entering", "pass", "exited"}
    /\ until \in {"never", "tick", "blocked", "either"}
    /\ gate \in {"none", "worker", "closer"}
    /\ pass \in {"none", "trim", "moving", "decide", "drain", "posting", "compact",
                 "finish", "leave"}
    /\ out \in Seq(Entry)
    /\ closer \in {"open", "loop", "entering", "pass", "persist", "cancel", "joining", "done"}
    /\ before \in Nat /\ file \in Seq(Entry) /\ journaled \in 0..MaxId
    /\ tmp \in [lines : Seq(Entry), after : {"none", "decide", "finish", "leave"}]
    /\ answer \in {"none", "waiting", "true", "false"} /\ asked \subseteq Entry
    /\ count \in [taken : Nat, accepted : Nat, overflow : Nat, rejected : Nat]
    /\ acked \subseteq Entry

\* Every entry taken on is on its way to the queue, queued, in flight, or counted
\* once: through overflow, a partly failed pass, and two threads that send.
Books ==
    count.taken = (IF recording = 0 \/ landed THEN 0 ELSE 1) + Len(Held)
                  + count.accepted + count.overflow + count.rejected

\* The queue keeps its bound with one batch in flight.
Bounded == Count <= MaxQueued /\ Len(out) <= MaxBatch

\* What comes back after a failed request goes in front of what was recorded
\* meanwhile, and so does what a run restores.
InOrder == \A i, j \in 1..Len(Held) : i < j => Held[i] < Held[j]

\* An entry a 2xx has answered for is never sent again by the same run.
NoResend == run = 1 => ToSet(Held) \cap acked = {}

\* While the server keeps failing a pass goes out only after a cooldown, also
\* when it is Dispose() that sends (FirstrunClient.cs:856-857).
OneProbe == pass = "posting" /\ failures >= Threshold => ~cool

\* An entry the watermark has passed and that is still pending is in the file,
\* except while a rewrite has deleted it, or was given up for newer ones: the file
\* is full and holds nothing older.  What is queued was given up for entries that
\* are queued too, except in a pass that has settled some and not compacted yet.
\* And a worker that sleeps leaves nothing behind the watermark: no wake-up is
\* lost between Log, Reset and a pass.
Missing(L) == {e \in ToSet(L) \cap Durable : e <= journaled /\ e \notin ToSet(file)}
GivenUp(e) == Len(file) >= MaxLines /\ \A f \in ToSet(file) : e < f

Mirrored ==
    cfg.disk /\ ~broken /\ pass # "moving" =>
        /\ \A e \in Missing(Held) : GivenUp(e)
        /\ pass # "compact" /\ Missing(queue) # {} => ToSet(file) \subseteq ToSet(queue)
        /\ worker = "waiting" /\ ~wake /\ recording = 0 /\ gate = "none"
              => \A e \in ToSet(Held) : e <= journaled

\* The queue, the books, the order of the entries, the breaker and the journal,
\* together.
Contract == TypeOK /\ Books /\ Bounded /\ InOrder /\ NoResend /\ OneProbe /\ Mirrored

\* A flush that answers True: nothing that was pending when it was called still
\* is, whichever thread took the marker and whatever was requeued before it.
FlushTrue ==
    [][answer = "waiting" /\ answer' = "true" => asked \cap ToSet(Held') = {}]_vars

\* Dispose() returns, though it may wait for the gate and for a request.
DisposeReturns == closer # "open" ~> closer \in {"open", "done"}

\* On a schedule nothing stays behind: what is queued is sent, or tried again.
ScheduleHolds ==
    (cfg.mode = "interval" /\ Count > 0) ~> (pass = "posting" \/ Count = 0 \/ Disposed)

\* Dispose() ends and a schedule keeps going, whatever backoffs, cooldowns and
\* markers they meet.
Progress == DisposeReturns /\ ScheduleHolds

===============================================================================
