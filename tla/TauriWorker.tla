----------------------------- MODULE TauriWorker -----------------------------
(***************************************************************************)
(* The sender thread of the desktop client (sdk/tauri/src/lib.rs, Worker)  *)
(* with the channel the host's calls arrive on, over the queue of          *)
(* TauriQueue.  The thread does one thing at a time: an action is what it  *)
(* does between two points where it waits or reads the clock.  Time is     *)
(* three facts that cease to hold: the backoff and the cooldown run, and   *)
(* the deadline of a flush or a shutdown is still ahead.                   *)
(***************************************************************************)
EXTENDS TauriQueue, FiniteSets

CONSTANTS
    Modes,          \* the delivery modes to check
    Backings,       \* the backings to check
    Urgent,         \* entries at or above flush_on_severity
    MaxBatch,
    Threshold,      \* breaker_threshold
    MaxRuns,        \* bound: process lifetimes
    MaxFlushes,     \* bound: calls of flush(), over the whole behaviour
    MaxChannel      \* bound: messages the host is ahead of the thread

ASSUME WorkerAssumption ==
    /\ Modes \subseteq {"immediate", "interval", "startup", "manual"}
    /\ Backings \subseteq BOOLEAN
    /\ Urgent \subseteq Entry
    /\ MaxBatch \in Nat \ {0} /\ Threshold \in Nat \ {0}
    /\ MaxRuns \in Nat \ {0} /\ MaxFlushes \in Nat /\ MaxChannel \in Nat \ {0}

VARIABLES
    mode, exitFlush,    \* the policy: delivery, flush_on_exit
    channel,            \* messages sent and not received
    at,                 \* "drain", "sending", "settling" (answered, and settle()
                        \* is to come), "after" (drain has returned), "recv", "exited"
    goal,               \* what the drain is for: "run", "flush", "exit"
    late,               \* its deadline has passed
    emptied,            \* what it returned
    batch,              \* the entries peeked, until they are settled
    sendAt,             \* a send is scheduled
    backoff,            \* now < next_attempt
    cooling,            \* now < circuit_until
    open,               \* circuit_open
    failures,           \* capped at Threshold
    count,              \* counters of this run
    next, run, flushes, \* what the bounds bound
    faulted,            \* history: the disk tore a line or refused a write
    acked,              \* history: entries a run knows accepted or rejected
    mine                \* history: those this run knows of

policy == <<mode, exitFlush>>
clock == <<backoff, cooling>>
drainVars == <<at, goal, late, emptied, batch>>
breakerVars == <<open, failures>>
bookVars == <<count, acked, mine, faulted>>
bounds == <<next, run, flushes>>
vars == <<queueVars, policy, channel, drainVars, sendAt, clock, breakerVars, bookVars, bounds>>

Counts == [restored : Nat, appended : Nat, overflow : Nat, refused : Nat, settled : Nat]
Fresh(n) == [restored |-> n, appended |-> 0, overflow |-> 0, refused |-> 0, settled |-> 0]

-------------------------------------------------------------------------------
\* Worker::new and the drain run() starts with.
Start ==
    /\ channel = <<>> /\ at = "drain" /\ goal = "run" /\ late = FALSE
    /\ emptied = FALSE /\ batch = <<>> /\ sendAt = FALSE
    /\ backoff = FALSE /\ cooling = FALSE /\ open = FALSE /\ failures = 0

Init ==
    /\ durable \in Backings /\ file = <<>> /\ len = 0
    /\ mode \in Modes /\ exitFlush \in BOOLEAN
    /\ mode = "startup" => durable              \* resolve_policy
    /\ Start
    /\ count = Fresh(0) /\ acked = {} /\ mine = {} /\ faulted = FALSE
    /\ next = 1 /\ run = 1 /\ flushes = 0

-------------------------------------------------------------------------------
(* The host.                                                               *)

Sends(message) ==
    /\ at # "exited" /\ goal # "exit" /\ Len(channel) < MaxChannel
    /\ "shutdown" \notin ToSet(channel)
    /\ channel' = Append(channel, message)
    /\ UNCHANGED <<queueVars, policy, drainVars, sendAt, clock, breakerVars, bookVars>>

Log == next <= MaxId /\ Sends("entry") /\ next' = next + 1 /\ UNCHANGED <<run, flushes>>
Flush ==
    flushes < MaxFlushes /\ Sends("flush") /\ flushes' = flushes + 1 /\ UNCHANGED <<next, run>>
Drop == Sends("shutdown") /\ UNCHANGED bounds

-------------------------------------------------------------------------------
(* Time.                                                                   *)

BackoffElapses ==
    /\ backoff /\ backoff' = FALSE
    /\ UNCHANGED <<queueVars, policy, channel, drainVars, sendAt, cooling, breakerVars, bookVars, bounds>>

CooldownElapses ==
    /\ cooling /\ cooling' = FALSE
    /\ UNCHANGED <<queueVars, policy, channel, drainVars, sendAt, backoff, breakerVars, bookVars, bounds>>

DeadlinePasses ==
    /\ goal # "run" /\ ~late /\ at \in {"drain", "sending", "settling"}
    /\ late' = TRUE
    /\ UNCHANGED <<queueVars, policy, channel, at, goal, emptied, batch, sendAt, clock, breakerVars, bookVars, bounds>>

-------------------------------------------------------------------------------
(* Receiving.                                                              *)

\* gate() is still ahead.
Gated == IF open THEN cooling ELSE backoff

\* schedule_after_entry for the entry just queued.
ScheduledAfter(e) ==
    sendAt \/ e \in Urgent \/ mode \in {"immediate", "interval"}

\* Entries reach the channel in the order of their ids.
Oldest == next - Cardinality({i \in DOMAIN channel : channel[i] = "entry"})

Received(message) == at = "recv" /\ channel # <<>> /\ Head(channel) = message

Enqueue(outcome, change, fault) ==
    LET e == Oldest IN
    /\ Received("entry")
    /\ outcome
    /\ count' = change
    /\ faulted' = (faulted \/ fault)
    /\ channel' = Tail(channel)
    /\ sendAt' = ScheduledAfter(e)
    /\ UNCHANGED <<policy, drainVars, clock, breakerVars, acked, mine, bounds>>

EnqueueOk == Enqueue(AppendOk(Oldest), [count EXCEPT !.appended = @ + 1], FALSE)
EnqueueTrims ==
    Enqueue(AppendTrims(Oldest),
        [count EXCEPT !.appended = @ + 1,
                      !.overflow = @ + Len(Parsed(Joined(Whole(Oldest)))) - len'], FALSE)
EnqueueFails ==
    Enqueue(TrimFails(Oldest) \/ AppendFails(Oldest), [count EXCEPT !.refused = @ + 1], TRUE)

Begin(purpose) ==
    at' = "drain" /\ goal' = purpose /\ late' = FALSE /\ emptied' = FALSE /\ UNCHANGED batch

TakeFlush ==
    /\ Received("flush")
    /\ Begin("flush")
    /\ channel' = Tail(channel)
    /\ UNCHANGED <<queueVars, policy, sendAt, clock, breakerVars, bookVars, bounds>>

TakeShutdown ==
    /\ Received("shutdown")
    /\ IF exitFlush THEN Begin("exit")
       ELSE at' = "exited" /\ UNCHANGED <<goal, late, emptied, batch>>
    /\ channel' = Tail(channel)
    /\ UNCHANGED <<queueVars, policy, sendAt, clock, breakerVars, bookVars, bounds>>

\* recv_timeout: a scheduled send is never due before the gate it was set to.
Fire ==
    /\ at = "recv" /\ channel = <<>> /\ sendAt /\ ~Gated
    /\ Begin("run")
    /\ UNCHANGED <<queueVars, policy, channel, sendAt, clock, breakerVars, bookVars, bounds>>

-------------------------------------------------------------------------------
(* drain().                                                                *)

ReturnUntilEmpty(result) ==                                      \* mutant
    /\ at' = IF goal = "exit" /\ result THEN "exited" ELSE "after"
    /\ emptied' = result /\ batch' = <<>>
    /\ UNCHANGED <<goal, late>>
Return(result) ==
    /\ at' = IF goal = "exit" THEN "exited" ELSE "after"
    /\ emptied' = result /\ batch' = <<>>
    /\ UNCHANGED <<goal, late>>

Unchanged(rest) == UNCHANGED <<policy, channel, sendAt, cooling, bounds, bookVars, failures, rest>>

DrainEmpty ==
    /\ at = "drain" /\ len = 0
    /\ Return(TRUE)
    /\ Unchanged(<<queueVars, backoff, open>>)

DrainHeldTrue ==                                                 \* mutant
    /\ at = "drain" /\ len > 0 /\ open /\ cooling
    /\ Return(TRUE)
    /\ Unchanged(<<queueVars, backoff, open>>)

DrainHeld ==
    /\ at = "drain" /\ len > 0 /\ open /\ cooling
    /\ Return(FALSE)
    /\ Unchanged(<<queueVars, backoff, open>>)

MayDialWhenCooling == TRUE                                       \* mutant
MayDial == ~(open /\ cooling)

\* From here on the circuit is no longer open: half open is a state of failures.
DiallingStaysOpen == at = "drain" /\ len > 0 /\ MayDial /\ UNCHANGED open   \* mutant
Dialling == at = "drain" /\ len > 0 /\ MayDial /\ open' = FALSE

\* The backoff runs, or the deadline has passed: give up, for now.
DrainGivesUp ==
    /\ Dialling
    /\ backoff \/ (goal # "run" /\ late)
    /\ Return(FALSE)
    /\ Unchanged(<<queueVars, backoff>>)

\* thread::sleep until a next_attempt that is before the deadline.
DrainSleeps ==
    /\ Dialling
    /\ backoff /\ goal # "run" /\ ~late
    /\ backoff' = FALSE
    /\ Unchanged(<<queueVars, drainVars>>)

DrainSkipsUnread ==                                              \* mutant
    /\ Dialling /\ ~backoff /\ ~Readable
    /\ Unchanged(<<queueVars, drainVars, backoff>>)

\* Lines are counted that cannot be read, or not parsed.
DrainUnread ==
    /\ Dialling
    /\ ~backoff /\ ~(goal # "run" /\ late)
    /\ ~Readable \/ Waiting = <<>>
    /\ Return(Readable)
    /\ Unchanged(<<queueVars, backoff>>)

DrainSendsTaken ==                                               \* mutant
    /\ Dialling /\ ~backoff /\ Readable /\ Waiting # <<>>
    /\ batch' = SubSeq(Waiting, 1, Min({MaxBatch, Len(Waiting)}))
    /\ DropFront(Len(batch'))
    /\ at' = "sending"
    /\ Unchanged(<<backoff, goal, late, emptied>>)

DrainSends ==
    /\ Dialling
    /\ ~backoff /\ ~(goal # "run" /\ late)
    /\ Readable /\ Waiting # <<>>
    /\ batch' = SubSeq(Waiting, 1, Min({MaxBatch, Len(Waiting)}))
    /\ at' = "sending"
    /\ Unchanged(<<queueVars, backoff, goal, late, emptied>>)

\* Accepted, or rejected for good: it is counted, and then settled.
Answered ==
    /\ at = "sending" /\ at' = "settling"
    /\ count' = [count EXCEPT !.settled = @ + Len(batch)]
    /\ acked' = acked \cup ToSet(batch) /\ mine' = mine \cup ToSet(batch)
    /\ UNCHANGED <<queueVars, policy, channel, goal, late, emptied, batch, sendAt, clock, breakerVars, faulted, bounds>>

\* settle(), and on_success() whether or not it worked.
DropLate(n) == UNCHANGED queueVars                               \* mutant
Drops(n) == DropFront(n)

Succeeds ==
    /\ at = "settling" /\ at' = "drain" /\ batch' = <<>>
    /\ failures' = 0 /\ backoff' = FALSE
    /\ UNCHANGED <<policy, channel, goal, late, emptied, sendAt, cooling, open, count, acked, mine, bounds>>

Settle == Succeeds /\ Drops(Len(batch)) /\ UNCHANGED faulted

\* drop_front failed: reported, and the loop goes round with the same batch, here
\* until MaxId answers have been counted.
SettleFails == Succeeds /\ DropFails /\ faulted' = TRUE /\ count.settled <= MaxId

\* on_failure().
Failed(n) == IF n + 1 < Threshold THEN n + 1 ELSE Threshold

RespondTransient ==
    /\ at = "sending"
    /\ failures' = Failed(failures)
    /\ backoff' = TRUE
    /\ IF failures' >= Threshold THEN open' = TRUE /\ cooling' = TRUE
       ELSE UNCHANGED <<open, cooling>>
    /\ Return(FALSE)
    /\ UNCHANGED <<queueVars, policy, channel, sendAt, bookVars, bounds>>

\* schedule_after_drain(), with a clock that has moved on.
ScheduleGateOnly == ~(len = 0) /\ Gated                          \* mutant
ScheduledAfterDrain == mode = "interval" \/ (len > 0 /\ Gated)

Schedule ==
    /\ at = "after"
    /\ at' = "recv" /\ goal' = "run" /\ late' = FALSE /\ emptied' = FALSE
    /\ sendAt' = ScheduledAfterDrain
    /\ UNCHANGED <<queueVars, policy, channel, batch, clock, breakerVars, bookVars, bounds>>

-------------------------------------------------------------------------------
(* The process ends, or is killed at any point; the next run opens what is *)
(* left of the file.                                                       *)

Restart ==
    /\ run < MaxRuns /\ run' = run + 1
    /\ len' = Opened'
    /\ count' = Fresh(len')
    /\ channel' = <<>> /\ at' = "drain" /\ goal' = "run" /\ late' = FALSE
    /\ mine' = {} /\ emptied' = FALSE /\ batch' = <<>> /\ sendAt' = FALSE
    /\ backoff' = FALSE /\ cooling' = FALSE /\ open' = FALSE /\ failures' = 0
    /\ UNCHANGED <<durable, policy, acked, next, flushes>>

Killed ==
    /\ file' = IF durable THEN file ELSE <<>>
    /\ Restart /\ UNCHANGED faulted

KilledWriting ==
    /\ Received("entry")
    /\ Torn(Oldest)
    /\ Restart /\ faulted' = TRUE

Next ==
    \/ Log \/ Flush \/ Drop
    \/ BackoffElapses \/ CooldownElapses \/ DeadlinePasses
    \/ EnqueueOk \/ EnqueueTrims \/ EnqueueFails \/ TakeFlush \/ TakeShutdown \/ Fire
    \/ DrainEmpty \/ DrainHeld \/ DrainGivesUp \/ DrainSleeps \/ DrainUnread \/ DrainSends
    \/ Answered \/ RespondTransient \/ Settle \/ SettleFails \/ Schedule
    \/ Killed \/ KilledWriting

Spec == Init /\ [][Next]_vars

-------------------------------------------------------------------------------
TypeOK ==
    /\ QueueTypeOK
    /\ channel \in Seq({"entry", "flush", "shutdown"})
    /\ at \in {"drain", "sending", "settling", "after", "recv", "exited"}
    /\ goal \in {"run", "flush", "exit"} /\ late \in BOOLEAN /\ emptied \in BOOLEAN
    /\ batch \in Seq(Entry) /\ Len(batch) <= MaxBatch
    /\ at \in {"sending", "settling"} <=> batch # <<>>
    /\ sendAt \in BOOLEAN /\ backoff \in BOOLEAN /\ cooling \in BOOLEAN /\ open \in BOOLEAN
    /\ failures \in 0..Threshold /\ (open => failures = Threshold)
    /\ count \in Counts /\ faulted \in BOOLEAN /\ acked \subseteq Entry /\ mine \subseteq acked
    /\ next \in 1..(MaxId + 1) /\ run \in 1..MaxRuns /\ flushes \in 0..MaxFlushes

\* What this run has had answered and has yet to take off the queue.
Unsettled == IF at = "settling" THEN Len(batch) ELSE 0

\* Unless the disk misbehaves, every entry this run appended or found is waiting
\* or counted once, as settled or as dropped for room, whatever was killed or
\* retried; and the cached length is the number waiting (queue.rs, Queue::len).
Books ==
    ~faulted =>
        /\ len = Len(Waiting)
        /\ count.restored + count.appended + Unsettled = len + count.settled + count.overflow

\* Unless the disk misbehaves, a run never has waiting what was answered to it,
\* but for the batch it is about to settle; and kills between the answer and
\* drop_front, however many, leave one batch at most to be sent again, the
\* oldest entries (lib.rs settle: "A crash before this re-sends").
NoResend ==
    ~faulted =>
        /\ at # "settling" => ToSet(Waiting) \cap mine = {}
        /\ at = "settling" => ToSet(Waiting) \cap mine = ToSet(batch)
        /\ \E n \in 0..MaxBatch :
              /\ n <= Len(Waiting)
              /\ ToSet(Waiting) \cap acked = ToSet(SubSeq(Waiting, 1, n))

\* What is left behind never outgrows its limits, on disk as in memory.
Limited == ~faulted => len <= MaxEntries /\ Len(file) <= MaxBytes

\* The queue's side of the promise, whatever was killed, retried or trimmed
\* (queue.rs append, drop_front, trim, open).
QueueContract == TypeOK /\ Books /\ NoResend /\ Limited

\* Nothing is dialled while the breaker cools down, and after a threshold of
\* failures each cooldown buys one request, although the flag is already
\* cleared when the request leaves and flushes may come in between.
OneProbe ==
    /\ at = "sending" /\ failures = Threshold => ~cooling
    /\ failures = Threshold /\ at \in {"after", "recv"} => open \/ ~cooling

\* Unless the disk misbehaves, a flush that is told true has nothing left waiting:
\* what was logged before it was settled, or dropped for room.
FlushTrue == at = "after" /\ emptied /\ ~faulted => Waiting = <<>>

-------------------------------------------------------------------------------
(* Liveness.  Fairness: the thread runs, a request ends (it has a timeout),*)
(* clocks advance; a queue file that can never be rewritten again is left  *)
(* out by the strong fairness of Settle.                                   *)

Receive == EnqueueOk \/ EnqueueTrims \/ EnqueueFails \/ TakeFlush \/ TakeShutdown
Drain == DrainEmpty \/ DrainHeld \/ DrainGivesUp \/ DrainSleeps \/ DrainUnread \/ DrainSends

Fairness ==
    /\ WF_vars(Receive) /\ WF_vars(Fire) /\ WF_vars(Drain) /\ WF_vars(Schedule)
    /\ WF_vars(Answered \/ RespondTransient) /\ SF_vars(Settle)
    /\ WF_vars(BackoffElapses) /\ WF_vars(CooldownElapses) /\ WF_vars(DeadlinePasses)

FairSpec == Spec /\ Fairness

\* A drain ends and the thread is back to serve its channel: neither the
\* backoff it sleeps out nor the batches it finds keep it.
DrainEnds == at = "drain" ~> at \in {"recv", "exited"}

\* Dropping the handle ends the thread, whatever it is doing.
ExitCompletes == \A n \in 1..MaxRuns : "shutdown" \in ToSet(channel) /\ run = n ~> at = "exited" \/ run # n

\* The thread is never stuck, in its drain or at its end (lib.rs Worker::run).
EveryoneReturns == DrainEnds /\ ExitCompletes

\* What an interval client has queued is put on the wire while it runs, through
\* failures, an open breaker and flushes that gave up.
IntervalSends ==
    mode = "interval" /\ len > 0 ~>
        at \in {"sending", "exited"} \/ ~Readable \/ Waiting = <<>>

\* Every caller hears back, and a schedule keeps going.
Progress == EveryoneReturns /\ IntervalSends
===============================================================================
