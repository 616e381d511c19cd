------------------------------- MODULE GoClient -------------------------------
(* The Go client (firstrun.go, retry.go): callers put entries on a bounded   *)
(* channel; one goroutine, run(), owns the backlog, the breaker, the disk    *)
(* and every request.  `at` is where that goroutine is; an action is what it *)
(* does between two points at which it waits or reads the clock.  Time is    *)
(* counted in units of the ticker: hold, cool and retryIn count down.        *)
EXTENDS GoDiskQueue, FiniteSets, FiniteSetsExt, TLC

CONSTANTS
    MaxId,          \* bound: entries recorded
    GroupOf,        \* the identity and resource of an entry
    Urgent,         \* entries at or above FlushOnSeverity
    Configs,        \* the policies: [schedule, disk, exitFlush]
    QueueSize, MaxBatch, MaxRetries, Threshold,
    RetryBase,      \* RetryBase, in ticks
    Reset,          \* BreakerReset, in ticks
    MaxRuns         \* bound: process lifetimes

Entry  == 1..MaxId
Longer == IF RetryBase > Reset THEN RetryBase ELSE Reset

ASSUME GoAssumption ==
    /\ MaxId \in Nat /\ MaxRuns \in Nat /\ MaxRetries \in Nat /\ MaxBytes \in Nat
    /\ QueueSize \in Nat \ {0} /\ MaxBatch \in Nat \ {0} /\ Threshold \in Nat \ {0}
    /\ RetryBase \in Nat /\ Reset \in Nat /\ DiskRefuses \in BOOLEAN
    /\ Configs \subseteq [schedule : {"immediate", "interval", "startup", "manual"},
                          disk : BOOLEAN, exitFlush : BOOLEAN]

VARIABLES
    cfg,
    next,           \* id of the next entry
    recording,      \* the entry a Log is carrying past its check of closed, or 0
    channel,        \* c.ch
    closed,         \* closed is set and quit is closed
    flush,          \* the caller of Flush: "none", "asked", "taken"
    at,             \* "select", "deliver", "ready", "posting", "backoff", "exited"
    goal,           \* why it delivers: "loop", "flush", "close"
    pending,        \* the backlog
    left, try,      \* what is left of group(pending), and attempt's counter
    breaker,        \* [failures, cool, probing]
    hold,           \* until nextAttempt
    armed, retryIn, \* the retry timer
    ticked,         \* the ticker has fired
    budget,         \* the shutdown deadline: "none", "running", "spent"
    disk,           \* the queue file
    count,          \* counters of this run: [taken, sent, dropped]
    acked,          \* history: entries a 2xx has answered for
    run

callerVars == <<next, recording, channel, closed>>
timeVars   == <<hold, armed, retryIn, ticked>>
vars == <<cfg, callerVars, flush, at, goal, pending, left, try, breaker, timeVars,
          budget, disk, count, acked, run>>

-----------------------------------------------------------------------------
(* Operators. *)

IsOpen(b)  == b.failures >= Threshold
Allows(b)  == IsOpen(b) => ~b.probing /\ b.cool = 0
TakenM(b)  == b                                             \* mutant
Taken(b)   == IF IsOpen(b) THEN [b EXCEPT !.probing = TRUE] ELSE b
Success    == [failures |-> 0, cool |-> 0, probing |-> FALSE]
Failure(b) ==
    LET n == IF IsOpen(b) THEN Threshold ELSE b.failures + 1
    IN  [failures |-> n, cool |-> IF n >= Threshold THEN Reset ELSE 0, probing |-> FALSE]

\* holdOff(): the cooldown wins when it is longer.
HoldOff(b) == IF b.cool > RetryBase THEN b.cool ELSE RetryBase

\* group(): an entry goes behind those of its group, a group behind those that
\* appeared before it.
Place(t, e) ==
    LET same == {i \in 1..Len(t) : GroupOf[t[i]] = GroupOf[e]}
    IN  IF same = {} THEN Len(t) ELSE Max(same)

Grouped(s) ==
    LET upTo[n \in 0..Len(s)] ==
          IF n = 0 THEN <<>>
          ELSE InsertAt(upTo[n - 1], Place(upTo[n - 1], s[n]) + 1, s[n])
    IN  upTo[Len(s)]

\* The next batch is of one group, and no longer than MaxBatch.
Size ==
    Max({n \in 1..Len(left) : /\ n <= MaxBatch
                              /\ \A i \in 1..n : GroupOf[left[i]] = GroupOf[left[1]]})
Batch == SubSeq(left, 1, Size)
Rest  == SubSeq(left, Size + 1, Len(left))

\* What the sender holds: what is not yet answered for while it delivers.
Delivering == at \in {"ready", "posting", "backoff"}
Held == IF Delivering THEN left ELSE pending

Timed == cfg.schedule \in {"immediate", "interval"}

SendNow(s, fresh) ==
    \/ \E i \in 1..Len(fresh) : fresh[i] \in Urgent
    \/ cfg.schedule = "immediate"
    \/ cfg.schedule = "interval" /\ Len(s) >= MaxBatch

-----------------------------------------------------------------------------
Init ==
    /\ cfg \in Configs
    /\ next = 1 /\ recording = 0 /\ channel = <<>> /\ closed = FALSE /\ flush = "none"
    /\ at = "select" /\ goal = "loop" /\ pending = <<>> /\ left = <<>> /\ try = 0
    /\ breaker = Success /\ hold = 0 /\ armed = FALSE /\ retryIn = 0 /\ ticked = FALSE
    /\ budget = "none"
    /\ disk = [lines |-> <<>>, torn |-> FALSE, broken |-> ~cfg.disk]
    /\ count = [taken |-> 0, sent |-> 0, dropped |-> 0]
    /\ acked = {} /\ run = 1

(* Callers. *)

\* Log(): past its check of closed ...
LogStart ==
    /\ ~closed /\ recording = 0 /\ next <= MaxId
    /\ recording' = next /\ next' = next + 1
    /\ count' = [count EXCEPT !.taken = @ + 1]
    /\ UNCHANGED <<cfg, channel, closed, flush, at, goal, pending, left, try, breaker,
                   timeVars, budget, disk, acked, run>>

\* ... and enqueue(): a full channel gives up its oldest.
Enqueue ==
    /\ recording # 0
    /\ LET full == Len(channel) >= QueueSize
       IN  /\ channel' = Append(IF full THEN Tail(channel) ELSE channel, recording)
           /\ count' = [count EXCEPT !.dropped = @ + (IF full THEN 1 ELSE 0)]
    /\ recording' = 0
    /\ UNCHANGED <<cfg, next, closed, flush, at, goal, pending, left, try, breaker,
                   timeVars, budget, disk, acked, run>>

FlushAsk ==
    /\ flush = "none" /\ ~closed
    /\ flush' = "asked"
    /\ UNCHANGED <<cfg, callerVars, at, goal, pending, left, try, breaker, timeVars,
                   budget, disk, count, acked, run>>

\* ctx expires: the request is withdrawn if nobody took it, and forgotten if so.
FlushGivesUp ==
    /\ flush = "asked"
    /\ flush' = "none"
    /\ UNCHANGED <<cfg, callerVars, at, goal, pending, left, try, breaker, timeVars,
                   budget, disk, count, acked, run>>

Close ==
    /\ ~closed
    /\ closed' = TRUE
    /\ UNCHANGED <<cfg, next, recording, channel, flush, at, goal, pending, left, try,
                   breaker, timeVars, budget, disk, count, acked, run>>

-----------------------------------------------------------------------------
(* The sender. *)

LoopTopM == at' = "select" /\ armed' = FALSE /\ retryIn' = 0       \* mutant

\* The top of the loop arms the retry timer for what is held off.
LoopTop ==
    /\ at' = "select"
    /\ IF pending' = <<>> THEN armed' = FALSE /\ retryIn' = 0
       ELSE IF hold' > 0 /\ ~armed /\ Timed THEN armed' = TRUE /\ retryIn' = hold'
       ELSE UNCHANGED <<armed, retryIn>>

\* drain() and admit(): everything on the channel joins the backlog and its
\* mirror; what exceeds the bound, or the cap of the file, goes, oldest first.
Admit ==
    LET all  == pending \o channel
        kept == Newest(QueueSize, all)
    IN  /\ channel' = <<>>
        /\ \E d \in IF cfg.disk THEN AppendOutcomes(disk, channel) ELSE {disk} :
           \E r \in IF cfg.disk /\ (Len(kept) # Len(all) \/ OverCap(d))
                    THEN SyncOutcomes(d, kept) ELSE {[disk |-> d, kept |-> kept]} :
               /\ disk' = r.disk /\ pending' = r.kept
               /\ count' = [count EXCEPT !.dropped = @ + Len(all) - Len(r.kept)]

Receive ==
    /\ at = "select" /\ channel # <<>>
    /\ UNCHANGED hold
    /\ Admit
    /\ IF SendNow(pending', channel)
       THEN at' = "deliver" /\ goal' = "loop" /\ UNCHANGED <<armed, retryIn>>
       ELSE LoopTop /\ UNCHANGED goal
    /\ UNCHANGED <<cfg, next, recording, closed, flush, left, try, breaker, ticked,
                   budget, acked, run>>

Tick ==
    /\ at = "select" /\ ticked
    /\ ticked' = FALSE /\ at' = "deliver" /\ goal' = "loop"
    /\ UNCHANGED <<cfg, callerVars, flush, pending, left, try, breaker, hold, armed,
                   retryIn, budget, disk, count, acked, run>>

RetryFires ==
    /\ at = "select" /\ armed /\ retryIn = 0
    /\ armed' = FALSE /\ at' = "deliver" /\ goal' = "loop"
    /\ UNCHANGED <<cfg, callerVars, flush, pending, left, try, breaker, hold, retryIn,
                   ticked, budget, disk, count, acked, run>>

FlushTaken ==
    /\ at = "select" /\ flush = "asked"
    /\ flush' = "taken"
    /\ Admit
    /\ at' = "deliver" /\ goal' = "flush"
    /\ UNCHANGED <<cfg, next, recording, closed, left, try, breaker, timeVars, budget,
                   acked, run>>

\* The case of quit: a last send with a budget, unless the policy leaves the
\* backlog to the next run.
Quit ==
    /\ at = "select" /\ closed
    /\ Admit
    /\ at' = "deliver" /\ goal' = "close"
    /\ armed' = FALSE /\ retryIn' = 0
    /\ IF cfg.exitFlush THEN hold' = 0 /\ budget' = "running" ELSE UNCHANGED <<hold, budget>>
    /\ UNCHANGED <<cfg, next, recording, closed, flush, left, try, breaker, ticked, acked,
                   run>>

\* deliver() has returned: send() keeps the mirror in step when something left,
\* Flush is answered, and quit writes its last word (uncounted) and ends.
Return(out, sent, dropped) ==
    /\ left' = <<>> /\ try' = 0
    /\ \E r \in IF cfg.disk /\ (goal = "close" \/ Len(out) # Len(pending))
                THEN SyncOutcomes(disk, out) ELSE {[disk |-> disk, kept |-> out]} :
           /\ disk' = r.disk /\ pending' = r.kept
           /\ LET cut == IF goal = "close" THEN 0 ELSE Len(out) - Len(r.kept)
              IN  count' = [count EXCEPT !.sent = @ + sent, !.dropped = @ + dropped + cut]
    /\ IF goal = "close"
       THEN at' = "exited" /\ flush' = "none" /\ UNCHANGED <<armed, retryIn>>
       ELSE LoopTop /\ flush' = IF goal = "flush" THEN "none" ELSE flush

\* deliver(): nothing goes out while held off or while the breaker says no, and
\* asking again restarts the hold.
Deliver ==
    /\ at = "deliver"
    /\ IF pending = <<>> \/ (goal = "close" /\ ~cfg.exitFlush)
       THEN UNCHANGED <<breaker, hold>> /\ Return(pending, 0, 0)
       ELSE IF hold > 0 \/ ~Allows(breaker)
       THEN /\ hold' = HoldOff(breaker)
            /\ Return(Newest(QueueSize, pending), 0, 0)
            /\ UNCHANGED breaker
       ELSE /\ breaker' = Taken(breaker)
            /\ left' = Grouped(pending) /\ try' = 0 /\ at' = "ready"
            /\ UNCHANGED <<pending, hold, armed, retryIn, disk, count, flush>>
    /\ UNCHANGED <<cfg, callerVars, goal, ticked, budget, acked, run>>

GiveBackM(b) == hold' = HoldOff(b) /\ Return(Newest(QueueSize, pending), 0, 0)  \* mutant

\* What is not answered for stays, batch after batch.
GiveBack(b) ==
    /\ hold' = HoldOff(b)
    /\ Return(Newest(QueueSize, left), 0, 0)

\* attempt(): the shutdown budget may be spent, otherwise a request goes out.
Attempt ==
    /\ at = "ready"
    /\ IF budget = "spent" THEN GiveBack(breaker)
       ELSE at' = "posting"
            /\ UNCHANGED <<pending, left, try, hold, armed, retryIn, disk, count, flush>>
    /\ UNCHANGED <<cfg, callerVars, goal, breaker, ticked, budget, acked, run>>

\* A 2xx, or a definite no: the batch is settled and the next one goes out.
Settled(sent, dropped) ==
    /\ breaker' = Success
    /\ IF Rest # <<>>
       THEN /\ left' = Rest /\ try' = 0 /\ at' = "ready"
            /\ count' = [count EXCEPT !.sent = @ + sent, !.dropped = @ + dropped]
            /\ UNCHANGED <<pending, hold, armed, retryIn, disk, flush>>
       ELSE hold' = 0 /\ Return(<<>>, sent, dropped)

Accepted ==
    /\ at = "posting"
    /\ acked' = acked \cup ToSet(Batch)
    /\ Settled(Len(Batch), 0)
    /\ UNCHANGED <<cfg, callerVars, goal, ticked, budget, run>>

Refused ==
    /\ at = "posting"
    /\ Settled(0, Len(Batch))
    /\ UNCHANGED <<cfg, callerVars, goal, ticked, budget, acked, run>>

\* A transient failure is retried after a backoff, MaxRetries times.
Failed ==
    /\ at = "posting"
    /\ breaker' = Failure(breaker)
    /\ IF try >= MaxRetries THEN GiveBack(breaker')
       ELSE at' = "backoff" /\ try' = try + 1
            /\ UNCHANGED <<pending, left, hold, armed, retryIn, disk, count, flush>>
    /\ UNCHANGED <<cfg, callerVars, goal, ticked, budget, acked, run>>

BackoffEnds ==
    /\ at = "backoff"
    /\ at' = "ready"
    /\ UNCHANGED <<cfg, callerVars, flush, goal, pending, left, try, breaker, timeVars,
                   budget, disk, count, acked, run>>

\* sleep() gives up when the client closes.
BackoffCut ==
    /\ at = "backoff" /\ closed
    /\ GiveBack(breaker)
    /\ UNCHANGED <<cfg, callerVars, goal, breaker, ticked, budget, acked, run>>

-----------------------------------------------------------------------------
(* Time, and the process. *)

Less(n) == IF n = 0 THEN 0 ELSE n - 1

Clock ==
    /\ at # "exited"
    /\ hold' = Less(hold) /\ retryIn' = Less(retryIn)
    /\ breaker' = [breaker EXCEPT !.cool = Less(@)]
    /\ ticked' = (cfg.schedule = "interval")
    /\ <<hold, retryIn, breaker, ticked>>' # <<hold, retryIn, breaker, ticked>>
    /\ UNCHANGED <<cfg, callerVars, flush, at, goal, pending, left, try, armed, budget,
                   disk, count, acked, run>>

Expire ==
    /\ budget = "running" /\ at # "exited"
    /\ budget' = "spent"
    /\ UNCHANGED <<cfg, callerVars, flush, at, goal, pending, left, try, breaker, timeVars,
                   disk, count, acked, run>>

\* The process is killed, or has ended, and the next one starts on the file.
Restart ==
    /\ cfg.disk /\ run < MaxRuns
    /\ run' = run + 1
    /\ \E r \in LoadOutcomes(disk, QueueSize) :
           /\ disk' = r.disk /\ pending' = r.kept
           /\ count' = [taken |-> Len(r.kept), sent |-> 0, dropped |-> 0]
           /\ at' = IF r.kept # <<>> /\ cfg.schedule # "manual" THEN "deliver" ELSE "select"
    /\ recording' = 0 /\ channel' = <<>> /\ closed' = FALSE /\ flush' = "none"
    /\ goal' = "loop" /\ left' = <<>> /\ try' = 0 /\ breaker' = Success
    /\ hold' = 0 /\ armed' = FALSE /\ retryIn' = 0 /\ ticked' = FALSE /\ budget' = "none"
    /\ UNCHANGED <<cfg, next, acked>>

Sender ==
    \/ Receive \/ Tick \/ RetryFires \/ FlushTaken \/ Quit
    \/ Deliver \/ Attempt \/ Accepted \/ Refused \/ Failed \/ BackoffEnds \/ BackoffCut

Next ==
    \/ LogStart \/ Enqueue \/ FlushAsk \/ FlushGivesUp \/ Close
    \/ Sender \/ Clock \/ Expire \/ Restart

Spec == Init /\ [][Next]_vars

\* The goroutine is scheduled, requests time out, backoffs and the clock run.
\* A select with several cases ready picks among them at random, so one that
\* stays ready is taken.
Fairness ==
    /\ WF_vars(Sender) /\ WF_vars(Clock)
    /\ SF_vars(Tick) /\ SF_vars(RetryFires) /\ SF_vars(FlushTaken) /\ SF_vars(Quit)

FairSpec == Spec /\ Fairness

-----------------------------------------------------------------------------
(* Properties. *)

TypeOK ==
    /\ cfg \in Configs
    /\ next \in 1..(MaxId + 1) /\ recording \in 0..MaxId /\ channel \in Seq(Entry)
    /\ closed \in BOOLEAN /\ flush \in {"none", "asked", "taken"}
    /\ at \in {"select", "deliver", "ready", "posting", "backoff", "exited"}
    /\ goal \in {"loop", "flush", "close"}
    /\ pending \in Seq(Entry) /\ left \in Seq(Entry) /\ try \in 0..MaxRetries
    /\ breaker \in [failures : 0..Threshold, cool : 0..Reset, probing : BOOLEAN]
    /\ hold \in 0..Longer /\ armed \in BOOLEAN /\ retryIn \in 0..Longer
    /\ ticked \in BOOLEAN /\ budget \in {"none", "running", "spent"}
    /\ disk \in [lines : Seq(Entry \cup {Bad}), torn : BOOLEAN, broken : BOOLEAN]
    /\ count \in [taken : Nat, sent : Nat, dropped : Nat]
    /\ acked \subseteq Entry /\ run \in 1..(MaxRuns + 1)

\* Every entry taken on is on its way to the channel, in it, held by the sender,
\* sent, or counted as dropped, exactly once: through overflow at both bounds,
\* a partly failed delivery, and a rewrite that cuts the file.
Books ==
    count.taken = (IF recording = 0 THEN 0 ELSE 1) + Len(channel) + Len(Held)
                  + count.sent + count.dropped

\* Both buffers keep their bound, and the file its cap, except that a run on
\* which the disk gives out may leave one pass of the sender on top.
Bounded ==
    /\ Len(channel) <= QueueSize /\ Len(Held) <= QueueSize
    /\ cfg.disk => Len(disk.lines) <= MaxBytes
                       + (run - (IF disk.broken THEN 0 ELSE 1)) * QueueSize

\* Entries of one group leave in the order they were recorded, whatever
\* regrouping, failed deliveries and restarts they have been through.
InOrder ==
    LET line == Held \o channel
    IN  \A i, j \in 1..Len(line) :
            i < j /\ GroupOf[line[i]] = GroupOf[line[j]] => line[i] < line[j]

\* An entry a 2xx has answered for is never sent again by the same run.
NoResend == run = 1 => (ToSet(Held) \cup ToSet(channel)) \cap acked = {}

\* The file is a mirror: what a crash leaves behind covers what is not sent at
\* any moment and is exactly that between two deliveries, as long as no torn
\* line of an earlier run has swallowed an entry (diskqueue.go:15-18).
Mirrored ==
    cfg.disk /\ ~disk.broken /\ Bad \notin ToSet(disk.lines) =>
        /\ ToSet(Held) \subseteq ToSet(disk.lines)
        /\ run = 1 /\ at = "select" => ToSet(disk.lines) = ToSet(pending)

\* No batch makes its first request while the breaker is open, unless its
\* cooldown is over and no other probe is out.
FreshBatchGated ==
    [][at = "ready" /\ at' = "posting" /\ try = 0 /\ IsOpen(breaker)
          => breaker.cool = 0 /\ breaker.probing]_vars

\* Close completes, however many batches and backoffs it finds under way.
CloseCompletes == closed ~> at = "exited" \/ ~closed

\* A Flush that is not withdrawn is answered.
FlushReturns == flush # "none" ~> flush = "none"

\* A client without a ticker that is left alone with a backlog goes on trying, at
\* one request per hold, whatever its breaker says.  Left alone: every wake-up
\* during a hold restarts it (firstrun.go:1152-1153).
LeftAlone ==
    /\ cfg.schedule = "immediate" /\ ~closed
    /\ recording = 0 /\ channel = <<>> /\ flush = "none"

KeepsTrying == <>[]LeftAlone => []<>(at = "posting" \/ Held = <<>>)

\* The buffers, the books, the order of the entries and the file that mirrors
\* them, together.
Contract == TypeOK /\ Books /\ Bounded /\ InOrder /\ NoResend /\ Mirrored

\* Whoever waits is answered, and what is held off is tried again.
Progress == CloseCompletes /\ FlushReturns /\ KeepsTrying

Status ==
    [e \in Entry |->
        IF e \in acked THEN "sent"
        ELSE IF e = recording \/ e \in ToSet(channel \o Held)
                \/ (cfg.disk /\ e \in ToSet(disk.lines)) THEN "pending"
        ELSE IF e < next THEN "lost" ELSE "new"]

D == INSTANCE Delivery WITH status <- Status

\* A recorded entry is sent, or lost once and for good, through kills at any
\* point, restarts, torn lines and refused writes.
ImplementsDelivery == D!Spec
===============================================================================
