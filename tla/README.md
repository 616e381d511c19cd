# Verification of firstrun

firstrun is a self-hosted product-analytics and logging service: clients in several
languages record *entries* and deliver them in batches to `POST /v1/e`; an ingest server
writes them to a partitioned PostgreSQL log and meters them; a web application shows
boards over the log, administers projects and bills through Stripe. This directory holds
TLA+ modules that model the parts of it where order, failure and concurrency decide
whether it is right, the TLC configurations that check them, and proofs that TLAPS checks.

Contents: [Inventory](#inventory) · [Modules](#modules-and-the-code) ·
[Runs](#runs-bounds-and-what-they-show) · [Fairness](#fairness) · [Proofs](#proofs) ·
[Divergence](#divergence) · [Observations](#observations) · [Not modelled](#what-is-not-modelled-and-why)

## Inventory

### The delivery clients

All clients share one contract: recording an entry never blocks and never throws; entries
wait in a bounded queue that sheds its oldest; one sender at a time posts batches grouped
by resource; a transient failure (network, 429, 5xx) retries with backoff, a definite no
(other 4xx) abandons the batch; a circuit breaker opens after a number of consecutive
failures and lets one probe out per cooldown; a delivery *mode* (immediate, interval,
startup, manual) says when to send; a queue may be durable, and then outlives the process.

| Component | State it keeps | Operations | Hard because |
|---|---|---|---|
| Node client, `clients/node/src/client.ts` (with `queue.ts`, `retry.ts`, `shutdown.ts`) | bounded queue; slice in flight; retry count; breaker; interval, retry and coalesce timers; waiters of `flush()`; closing state; counters | `log`/`track`/`error` → `enqueue`; `restore`; `pump`/`drain`; `flush`; `flushOnExit`; `close` | handlers interleave at each `await`: entries arrive, `close()` clears the queue and the exit hook writes a checkpoint while a request is out |
| Node durable store, `clients/node/src/persistence.ts` | append-only segment of this run; buffer; promise chain of filesystem calls; segments of earlier runs | `record`, `checkpoint`, `close`, `load` | writes lag behind the queue they describe; any call may fail; the process may die between any two |
| Desktop client, `sdk/tauri/src/lib.rs`, `client.rs` | a channel; a sender thread with a schedule, a backoff, a breaker and counters | `log`, `flush`, `Drop`; `Worker::run`, `drain`, `settle`, `on_failure` | the one thread that can receive a shutdown also sleeps out backoffs and waits for requests |
| Desktop queue, `sdk/tauri/src/queue.rs` | an NDJSON file (or a `VecDeque`) and a cached length | `open`, `append`, `peek`, `drop_front`, `trim` | kills tear lines; the disk refuses writes; the cache can drift from the file |
| Go client, `clients/go` | a bounded channel; one goroutine with a backlog, a breaker, a retry timer; an NDJSON file | `Log`, `Flush`, `Close`; `run`, `deliver`, `attempt`; `append`, `sync`, `load` | callers fill the channel while a delivery fails half way; `Close` and a flush wait for a sender that may be in a backoff |
| Python client, `clients/python/src/firstrun` | a deque under one lock and condition; a worker thread; a spool file with versions | `log`, `flush`, `close`; the worker's look, drain, send, requeue, persist | the lock is dropped around every request and every write; two threads write one file |
| .NET client, `clients/dotnet/src/Firstrun` | a locked queue, an event, a send gate, a file with a watermark | `Log`, `FlushAsync`, `Dispose`; the worker's passes; append, trim, rewrite | `Dispose` sends on its own thread; the wake-up event is set and reset without a lock |
| Browser tag, `packages/web-tag` | a buffer with one timer per page; consent, session and referrer in storage that tabs share | `start`, `log`, `user`, `consent`, `stop`, page hide | several tabs, reloads and a visitor who changes identity and mind |

*Correct* means: every entry taken on is queued, in flight, or counted exactly once; it is
delivered in order and never again by the same run once acknowledged; memory and disk stay
bounded; a dead server is not hammered; what is told to a caller is true; what was durable stays
so until it is settled; everything that waits returns; and no session carries two people.

### The server and the dashboard

| Component | State | Operations | Hard because |
|---|---|---|---|
| Ingest data plane, `packages/ingest/src/{handlers,pipeline}.ts`, `db/log-entries.ts`, `db/usage.ts` | `log_entries` (key project, time, entry id), `usage_daily` | `POST /v1/e`: look the source up, insert `ON CONFLICT DO NOTHING`, add the number of *new* rows to the meter | separate statements, no transaction around them: clients resend, requests overlap, projects are deleted and statements fail in between |
| Meter push and billing, `apps/web/src/lib/stripe.server.ts`, `billing.server.ts`, `context.server.ts`, `db/billing.ts` | Stripe's meter events; the workspace's plan, customer, subscription | the hourly `pushMeter`; webhooks; checkout; portal | Stripe delivers late, twice and out of order, and deduplicates for a limited time; the job repeats itself |
| Partitions and retention, `db/partitions.ts`, `db/migrations/0000_initial.sql` | monthly partitions and a default one | ensure, drain the default, attach, drop whole months | DDL against a live table, replicas at once |
| Workspaces, `apps/web/src/lib/api.server.ts` over `db/repo.ts` | members and roles, projects, the plan's ceiling | invite, change a role, remove; add and delete projects | a check and the write it guards are two statements of concurrent requests |
| Live board, `apps/web/src/components/{dashboard,canvas}.tsx`, `packages/schema/src/{canvas,board}.ts` | the board on the screen, the loader's answer, an edit counter pair, a debounce, the saves in progress, a gesture; the server's row | every edit; drag, resize, arrow keys; autosave; the live beat; navigation | saves and answers cross; a gesture writes the board without saving it; requests have no timeout of their own |
| Query compiler, schema data, other screens, documentation, seeds, deployment | none of their own | translation, rendering, tooling | – |

*Correct* means: a client told 202 may forget its batch; the meter never counts an entry twice and,
unless something fails, never misses one; a day is billed right while it lasts; no
workspace's row ever holds the customer or subscription of another; a row is in the leaf its month
routes to and an answered one is not lost by moving it; the last administrator is not lost by
accident and the ceiling holds; a board does not
lose an edit, knows what is unsaved and ends up showing what the server holds.

### How they interact

A client's batch reaches `handleEntries` over HTTP with a client-generated id and time per
entry, which is the whole basis of idempotence: the client may send anything again (they all do, after a
lost answer or a crash), and the server must make that harmless (`Ingest` does, by the
primary key). The two sides are modelled apart: the client modules treat the server as an adversary that may
give any answer at any time, the server module treats clients as an adversary that may send any batch
again and at once, so each is checked against more behaviours than the composition has. The
ingest server and the meter push share `usage_daily` and are composed in `Metering`. Billing
meets the push only in the customer of a workspace, read when a push starts; `Metering` takes it as
given, and `Billing` says when it is the right one. The store and the sender of a client
call each other inside a handler and are composed the same way: `NodeClient` extends
`NodeStore`, `TauriWorker` extends `TauriQueue`, `GoClient` extends `GoDiskQueue`. `LiveBoard`
extends the geometry in `Canvas` and holds both ends of a save, page and row.

`PROJECT.json` lists every component with its status, and the hazards found, at their lines,
with the properties that address them.

## Modules and the code

| Module | Models | State |
|---|---|---|
| `Delivery` | the abstract promise of any client: an entry is `new`, `pending`, then `sent` or `lost` for good | `status` |
| `NodeStore` | `persistence.ts` | `buffered`, `writeTimer`, `tail` (the promise chain), `file`, `appended`, `degraded`; `segments`, `loading`, `cursor`, `adopted` (`load()`) |
| `NodeClient` | `client.ts`, `queue.ts`, `retry.ts`, `shutdown.ts` over `NodeStore` | `queue`, `inflight`, `pump`, `requests`, `attempt`, `breaker`, three timers, `calls` (flushes in progress), `closing`, `gaveUp`, `count` |
| `NodeDelivery` | the refinement `NodeClient ⇒ Delivery` | – |
| `TauriQueue` | `queue.rs` | `durable`, `file` (lines that may be corrupt, not UTF-8, or without a newline), `len` (the cached length) |
| `TauriWorker` | `lib.rs`, the channel and the sender thread, over `TauriQueue` | `channel`, `at` (the thread's program counter), `goal`, `late`, `emptied`, `batch`, `sendAt`, the two clocks, the breaker, `count` |
| `TauriDelivery` | the refinement `TauriWorker ⇒ Delivery` | – |
| `GoDiskQueue` | `diskqueue.go` as operators on a file of whole and torn lines | – |
| `GoClient` | `firstrun.go`, `retry.go`, `policy.go` over it, and its refinement of `Delivery` | `channel`, `pending` (backlog), `left` (what is left of its batches), `try`, `breaker`, `hold`, the retry timer and ticker, `flush`, `closed`, `budget`, `disk`, `count` |
| `PythonClient` | `_client.py`, `_spool.py`, and its refinement of `Delivery` | `queue`, `ahead` (how many entries are before each flush marker), `wanted`, `wakePending`, breaker and deadlines, the worker's and `close()`'s program counters, `inflight`, `carried`, `file`, `saving`, versions |
| `DotnetClient` | `FirstrunClient.cs`, `EventQueue.cs`, `DiskQueue.cs` | `queue`, `marked` and `ahead` (the flush marker in it), `wake`, `requested`, the gate and the pass under it, the worker, the closer, `file`, `tmp`, `journaled` (the watermark), breaker and deadlines |
| `BrowserTag` | `core.ts`, `browser.ts`, `tag.ts` | `page` (the document of each tab), `store` (local and session storage), what was `sent`, `lost`, and `stamps` (the resources it went out with) |
| `Ingest` | `handlers.ts`, `pipeline.ts`, `log-entries.ts`, `recordUsage`, `deleteProject`, `deleteSource` | `rows`, `usage`, `projects`, `sources`, open deletions, `request` (one record per request: where its handler is) |
| `Metering` | the hourly job and `pushMeter`, over `Ingest`, with Stripe as an external store | `hour`, `due`, `job`, `posting`; Stripe's `billed`, `seen` |
| `Billing` | `ensureCustomer`, `checkoutUrl`, `portalUrl`, `applyWebhook`, `handleStripeWebhook`, `setBilling`, `forceWorkspacePlan`, with Stripe as an external seller and sender of events | `row` (the billing columns), `checkout` (clicks), `handlers` (webhooks between lookup and update); Stripe's `owner`, `sessions`, `subs`, `unanswered` (events) |
| `Partitions` | `log_entries_ensure_partitions`, `log_entries_drop_expired`, inserts | `parts`, `rows`, `default`, `call` (the ensure transaction of each replica), `write` (inserts), the clock |
| `Workspaces` | the handlers that write members and projects | `members`, `projects`, `limited`, `request` (which statement of its handler comes next) |
| `Canvas` | `canvas.ts`, `moveBy`, `resizeBy`, the geometry the stored contract accepts, as operators | – |
| `LiveBoard` | `dashboard.tsx`, the gestures of `canvas.tsx`, `persistBoard`, the route's loader | `board`, `layout`, `waiting` (an answer put off), `edits`/`confirmed`, `timer`, `saves`, `net`, `active`, `loader`, `stored` |
| `MC*` | constants and bounds of the instances | – |
| `NodeClientProofs`, `TauriWorkerProofs`, `GoClientProofs`, `PythonClientProofs`, `DotnetClientProofs`, `BrowserTagProofs`, `MeteringProofs`; `WebProofs` for `Billing`, `Partitions`, `Workspaces` and `LiveBoard` | theorems (see Proofs) | – |

**Granularity.** In `NodeClient` one action is one turn of JavaScript between two awaits, with
every call it makes inside: `PumpEnd` is `pump()`'s `finally` block with its checkpoint,
`syncTimer` and `settleWaiters`; `Enqueue` records, trims, schedules and may start a
drain up to its first request. A continuation whose promise is already settled runs
before any new timer or response, which the guard `Quiet` says. In `TauriWorker` and `GoClient` one action
is what the thread or goroutine does between two points where it waits or reads a clock; in `PythonClient` and
`DotnetClient` what a thread does under one acquisition of the lock or gate, or between two
waits. In `BrowserTag` an action is one whole listener, timer or call of one tab. On the server
one action is one SQL statement: the statements of a request are not in a transaction, and
PostgreSQL makes a single one atomic. `deleteProject` is split at its two statements, with
the rows it has locked in `doomed`, on which an insert of the same key waits; a call of
`ensure_log_entry_partitions` is one transaction whose statements are actions of their own, and
which fails as a whole. In `Billing` one action is one call to Stripe or one SQL statement. In
`LiveBoard` one action is one handler, timer or settled promise of the page, with the effect
that Solid runs at its end.

**Data.** An entry is a number (the order of recording) with a resource group; a batch of the
server is a readable-or-not body with a key and a sequence of entry ids. Sizes in bytes
are counted in lines. A card of a board is its rectangle; its other settings are the number of the edit that last
set them. Time is nondeterminism: a timer that is set may fire, a cooldown that runs
may elapse, a deadline may pass; where the code compares durations (`GoClient`, `BrowserTag`) they are
counted in ticks.

**Failures.** Any request of a client may be answered 2xx, refused for good, or fail transiently (a
timeout, 408, 429, 5xx, and an answer that was lost after the server took the batch, are one case for the
client). Any filesystem call of the Node store may fail, with any prefix of an append in the
file; a Tauri or Go append may tear a line; the disk may refuse any write of any client. A
process may die between any two actions and starts again on what the disk holds. On the server, each
statement may fail, or commit and have its answer lost, and the process may die with all its requests. A
webhook may fail before or after its update and is then delivered again. A partition call may
fail at any statement. A save of a board may be lost, refused, answered late or after it was
given up; a loader may fail or never answer.

**Histories.** `acked`, `mine` (desktop: what this run was answered), `exposed` (Node: entries held in memory only; board: an edit was made
or sent without the protection the code gives the others, or left before it was saved), `inserted`, `fault`, `tangled`,
`raced`, `forced`, `unlimited`, `stale`, `answered`, `asked`, `wish` (each board with every edit made to it) are not in
the code; they are only read by properties.

**Correspondence** definition by definition, with lines, is the `map` of `PROJECT.json`. A definition
marked `mutant` is not part of a specification: it is a plausible bug that
shows that a property can fail.

## Runs, bounds and what they show

Every run explores its state space completely, inside its constraint where it has one. Deadlock is not
checked: every system here may stop (a client with nothing to do, a thread that has exited, a person who has
left, bounds reached).

| Run | cfg | Properties | Shows |
|---|---|---|---|
| `node` | `MCNodeClient_node` | `Contract`, `OrderlySending`, `TimerFollowsBreaker`, `JournalCovers`, `BreakerGates`, `DrainedIsTrue`, `ImplementsDelivery` | memory queues in three schedules and durable queues in two, host flush, exit hook and `close()` racing the sender, lagging and failing writes, segments that cannot be read or removed, a crash and a restart: books, bounds, order, no resend, breaker, true answers, a journal that covers what an open client has pending, and the refinement of `Delivery` by memory and disk |
| `node_live` | `MCNodeClient_live` | `Progress` | `flush()` and `close()` return, `close()` settles what is in flight |
| `tauri` | `MCTauri_tauri` | `QueueContract`, `OneProbe`, `FlushTrue`, `ImplementsDelivery`, `Progress` | both queues, three modes, kills, torn lines, refused writes, a flush and a drop racing retries: books, no resend within a run and one batch at most after kills, limits, one probe per cooldown, a true flush, the refinement; drains end, dropping the handle ends the thread, an interval client keeps sending |
| `go` | `MCGo_go` | `Contract`, `FreshBatchGated`, `ImplementsDelivery`, `Progress` | each mode, half-failed deliveries, a refusing disk, torn lines, a restart: books, order, a file that mirrors what is unsent; no batch starts through an open breaker; `Close` and `Flush` return, and an immediate client left alone with a backlog keeps trying |
| `python` | `MCPython_python` | `Contract`, `FlushTrue`, `ImplementsDelivery` | worker, callers, `flush()` and `close()` around the lock, two savers of one spool, kills and a restart, on a spool that may be unreadable |
| `dotnet` | `MCDotnet_dotnet` | `Contract`, `FlushTrue`, `Progress` | two sending threads under one gate, wake-ups set without a lock, a file appended, trimmed and rewritten: books, order, a watermark that tells the truth, no lost wake-up; `Dispose` returns and an interval client's schedule holds |
| `tag` | `MCTag_tag` | `Contract`, `OnePerson` | two tabs, two people, consent, withdrawal, reloads, idle sessions and a session id the page chooses: every entry is buffered with a timer armed, sent once, or given up knowingly; no session id the tag mints goes out with two people |
| `ingest` | `MCMetering_ingest` | `MeterSound`, `MeterExact`, `AnsweredIsStored`, `BillBounded` | three requests of overlapping batches with failures, deletions and pushes to Stripe: no entry metered twice, none missed without a fault, 202 means stored; a day is billed right while it lasts, and twice at most by the end of the next |
| `billing` | `MCBilling_billing` | `RowsKept`, `InStep`, `PayerIsMetered` | two workspaces, two clicks at once, an operator's lever, subscriptions in every status the code tells apart, webhooks lost, repeated, overlapping and reordered: a row holds only its own customer and subscription; delivered in order it names the subscription that stands, its plan and its status; the metered customer is the paying one at every moment and in any order, unless two clicks raced |
| `partitions` | `MCPartitions_partitions` | `Placed`, `NothingLost` | two callers of ensure, two inserts, retention and a clock that rolls over: rows are where their month routes them and nothing answered is lost |
| `workspaces` | `MCWorkspaces_workspaces` | `WithinCeiling`, which is violated | two requests at once on members and projects: two tabs pass the check of `addProject` on the same count ([Divergence](#divergence)) |
| `board` | `MCBoard_board` | `Contract`, `Kept`, `Converges` | two boards and seven pairs of edits, one of them a card too many, against slow, lost, refused and abandoned saves, answers that cross them, gestures, a hidden tab, navigation and leaving the page: the page knows what is unsaved, loses no protected edit, puts no card where the server would refuse it, and converges to the server's row |

Some properties are conjunctions of named parts: `Contract` is a module's type invariant
with its books, bounds and order (and, for the Go, Python and .NET clients, their file); `QueueContract`, `MeterSound`, `RowsKept`
and `Placed` likewise; `Progress` joins what must eventually happen.

**Bounds, and why they are enough.**

- *Entries* (`MaxId` 2–4): an order violation needs two entries of a group and one of another
  between them; overflow while a slice is in flight needs the capacity plus one. `node` has four
  entries in two alternating groups with `Capacity` 2, slices and batches of at most 2, so a slice is split by
  group, a tail of it comes back, and both ends of the queue overflow. Each entry is
  recorded at most once, so a bound on ids is a bound on the length of the story. `go`, `python` and `dotnet` have three,
  two where a disk multiplies the states (`Bounds` in their `MC` modules).
- *Queue limits* (`Capacity`, `QueueSize`, `MaxQueued` 2; `MaxEntries`, `MaxBytes`, `MaxFile`, `MaxLines`, `MaxDiskEntries` 1–4): every limit is met and
  exceeded. `CompactMin` stands for the 256 of `checkpoint()`; at 1 compactions happen.
- *Retries* (`MaxRetries` 1, `Threshold` 2): the first failure retries, the second gives up and
  opens the breaker. Failure counts are capped at `Threshold`, since the code only ever compares
  them with it. `MaxRequests` 2 makes one drain end with entries left.
- *Runs* (`MaxRuns` 2): one restart; the state a run starts from depends on the last run only. `MaxTail` 1 bounds how
  far the filesystem lags when a turn starts; one turn may queue two more calls.
- *Node policies* (`Bounds` of `MCNodeClient`): of the durable ones, the client with an exit flush ends by its exit
  hook and the startup client by `close()`; the two together, and host flushes, are checked on the memory queue.
  A store that has failed takes two entries, and the second run the third entry or `close()`, not both.
- *Desktop* (`MaxBatch` 1, `MaxFlushes` 1, `MaxChannel` 1): one flush in a behaviour, and how far the host
  may be ahead of the thread. A durable client with an exit flush starts again over one entry at most. The channel of the code is unbounded; no property says otherwise.
- *Go durations* (`RetryBase` 2, `Reset` 2 ticks): a hold may be renewed before it is over, and a cooldown ends with it.
- *Tag*: two tabs, two people, one foreign site, `MaxBuffer` 3 and four entries (the limit is met and passed; three entries where a
  tick has passed), three minted sessions and one the page chooses, one tick with `IdleTime` 0: a session may or may not have idled out.
- *Requests to the server* (3, interchangeable): two that overlap and one resent later. The bodies contain a batch, a
  part of it with a duplicate inside, an unknown key, and one in which nothing parses.
- *Days and hours* (`MaxDay` 2, `HoursPerDay` 2, `Window` 2 hours): a day is pushed during itself and
  again as "yesterday", and a push that started in one hour may still be running in the next. `Window` is the time
  Stripe remembers an identifier, here a day, which is what the code relies on ("at least 24 hours"): the first push of the
  next day falls inside it or outside, so TLC reaches days that are billed twice. A third telling needs a run that
  straddles the end of the next day, beyond `MaxDay`; that there is never a fourth is proved, not run.
- *Billing*: two workspaces and two customers, since a mix-up needs two; two clicks, since a race does. A sale is
  three events, or two while its first payment is on its way, so `MaxEvents` 7 in order gives a sale and every sequence of up to
  four or five more, or two sales; `MaxReordered` 4 gives the sale and one or two more, in every order, with two of them handled at once.
- *Partitions*: an entry older than any call reaches, one of the current month and one of a client whose clock is
  ahead; the job reaches one month back, the migration two; the clock turns one month.
- *Workspaces*: two people, two requests, three projects against a ceiling of one: the ceiling is reached and raced for.
- *Board*: scripts of two edits, since what a save or an answer can spoil is the edit before it. Their distances pass every
  limit of the geometry. `MAX_WIDGETS` 2 stands for 48, so that two additions to a card make one too many. Boards, saves and answers are not bounded otherwise.

**Mutants.** Every property of a passing run has a mutant in `PROJECT.json`: a definition of the model
replaced by one with a plausible bug, under which TLC finds that property violated in the same
instance. So none of the properties holds for want of states.

## Fairness

Safety runs assume none. The live runs assume, and nothing more:

- *Node*: requests end (`requestTimeoutMs` aborts them), filesystem calls
  return, and promise continuations run (weak fairness: nothing can disable them). Timers
  that stay set fire and cooldowns elapse, strongly fair: a turn of the event loop
  needs the microtask queue empty, so it is enabled again and again while the
  host keeps calling, and Node's loop does not pass over a due timer for ever.
- *Desktop*: the thread runs, clocks advance, a request ends (it has
  a timeout), all weak. `settle()` is strongly fair: a disk that refuses to drop a batch does not
  refuse for ever. That excludes one behaviour, a queue file that can never be rewritten again, on which the drain loop
  resends the same batch without end (Observations).
- *Go*: the goroutine and the clock go on (weak). The cases of its `select` are strongly fair: Go chooses
  among ready cases at random. `KeepsTrying` speaks of an immediate client that is left alone from some time on: nothing is
  recorded and nobody asks for a flush, since either restarts the hold (Observations).
- *.NET*: each thread goes on and deadlines elapse (weak); a thread that waits for the gate gets it if it is
  released again and again (strong: `lock` is fair enough for two threads). The interval is weakly fair, so the schedule is
  claimed of interval clients only.
- *Board*: timers and deadlines fire (weak: `setTimeout`, `setInterval`); a loader call that is made again and
  again is at some time answered (strong). Nothing is assumed of saves, of the person, or of navigation. `Converges` speaks of a board
  that is visible and left alone from some time on.

Nothing is assumed of the server's answers to a client, of the host's calls, or of crashes. `CloseSettles` holds when the host does
not call `flush()` after `close()`. In the runs the number of entries is bounded, so a host that floods a client for ever is not explored.

## Proofs

TLC checks the instances above; TLAPS proves the following for every value of the constants.
They rest only on the named assumptions of the modules (`StoreAssumption`, `ClientAssumption`, `WorkerAssumption`,
`QueueAssumption`, `PythonAssumption`, `DotnetAssumption`, `TagAssumption`, `IngestAssumption`, `MeteringAssumption`, `BillingAssumption`, `PartitionAssumption`,
`BoardAssumption`): sizes and bounds are natural numbers, positive where the code clamps them to at least one;
sets that are counted are finite; names stand apart; scripts are of edits the page offers. The theorems on `Workspaces` have a hypothesis of their own, `Sized` (there are requests, and finitely many requests and projects).

**`NodeClientProofs`.** `TypesHold`, `AccountedHolds`, `BoundedHolds` and, together, `ContractHolds`;
`TimerFollowsBreakerHolds`, `BreakerGatesHolds`. None of the invariants is inductive as it stands.
The strengthening is `IInv`: the types; the books and bounds; the timer invariant, extended to the
states in which `close()` or a drain is half way; and `Custody`, which ties the program counter to what the sender holds: something
is in flight exactly while a request is out, and an ending or idle pump has nothing
in flight. Without custody a retry could count a slice that a close has
already counted. `Inductive` has one lemma per action; steps shared by handlers (`Drain`, `StartPump`,
`Checkpoint`) have lemmas of their own, and lemmas about sequences say what `Trim`, `PutBack`, `Taken` and `Rest` do
to lengths and elements. `BreakerGates` is an action property and is proved from `IInv` and the case analysis of the step.
`DrainedIsTrueHolds` likewise: custody says that whoever may settle a waiter with `true` holds nothing.

`OrderlySendingHolds`, `JournalCoversHolds` and the refinement `DeliveryImplemented` need to know which entries are where,
and rest on a second invariant, `DInv`. `Orderly`: what is in flight and queued is in the order of recording within each
group, and nothing acknowledged is held (on the first run and over a memory queue: a later run replays). `Journal`: what is held
and not `exposed` is in the segment or in the chain of writes with no later snapshot that leaves it
out. `Earlier`: everything held, settled or on disk was recorded before the next entry, so a
new entry is nobody's duplicate. `NothingRead` and `Adopting` say what `load()` may have found, and that a segment is
only unlinked with its lines in memory. The refinement takes an entry to be `pending` while it is in memory, in the segment, on its way there or in
a segment of another run, under memory and disk policies alike: what is in none of these is never there again (`Moves`). Each of `load()`, `enqueue`, `checkpoint`, `close` and the
filesystem calls has a lemma that says which entries it reaches and which copies it keeps.

**`MeteringProofs`.** `AnsweredIsStoredHolds`: whatever is resent, overlaps, fails or is
deleted, an entry a client was told was accepted is a row, as long as its project exists.
The inductive invariant `VouchedIsStored` also speaks of requests
between insert and meter, since these will be answered 202 even if the meter fails. Only
`DeleteProject` removes rows, in the step that removes the project as well.

`MeterSoundHolds`, `MeterExactHolds` and `BillBoundedHolds` are about sums over days and requests. What a sum does when
one term changes is proved from the recursive function of the community module: a claim that fails fails for a
least set, as strict inclusion is well-founded on finite sets. With that, each step is an exchange between the
meter, what requests still owe it (`Owed`) and the rows inserted. `StripeInv` adds that Stripe has seen no day before it began
and was told nothing of one it has not seen (`SeenInTime`), that the total in hand is still on the meter (`ReadIsMetered`), that what is
still to be sent is of a day that ended at most a day and an hour ago (`SentInTime`), and how often a day can have been told
by the hour it was last told at (`Told`): each telling but the first comes a window, a day, after the one before. So there are
three at most, which is `BillBounded`; that there may be two is what the code does (Observations).

**`TauriWorkerProofs`.** `OneProbeHolds`, `QueueContractHolds`, `FlushTrueHolds` and the refinement `DeliveryImplemented`. `drain()` clears `circuit_open` *before* it
sends, so while a request is out the flag says nothing; `BreakerInv` says that at the threshold
either the flag is up or the cooldown is over, and that a request that is out, or answered and not settled, was let out.
`QueueInv` carries the rest. `Ids`: whatever is queued or settled is older than the oldest entry still on the channel, so
what is appended is new. `AtFront`: the batch that is out or to be settled is the front of the queue, whatever was
trimmed before, so `drop_front` takes what was answered for. `Sound`: unless the disk failed, the lines are whole
and in order, the cached length is right and the books balance, and the limits hold; a kill between an answer and `drop_front` leaves
settled lines waiting, which are a batch at the front (`Fronted`), and of those a run was itself told about only the batch it is settling (`Own`). `Told`: a
drain that reports the queue empty left it so. The refinement holds whatever the disk does. `Parsed` is a recursive function in the model
because the provers see nothing in `SelectSeq`.

**`GoClientProofs`.** `ContractHolds`, `FreshGatedHolds` and the refinement `DeliveryImplemented`, for any sizes, groups, severities,
policies and runs. Each operation on the file or the backlog is first described by what it does to a file and a sequence
(`Appends`, `Rewrites`, `Admits`, `Returns`), then every action is shown to be of one of nine `Kinds`, by what it does to the entries, and most of the invariant is shown to be kept
by each kind rather than by each of twenty actions. `Holding`: what is left of a delivery is part of the backlog, and all of it until a batch
has been settled, which is why a delivery that settled nothing may leave the file alone. `Room` and `Mirror` bound and compare the file with the
backlog: a file in use holds at least as many lines, so what `Close` writes uncounted cuts nothing (`LastWord`), and without a bad
line it has every entry. `Ranked`: whatever is on the channel is newer than everything else that is known, or `admit` could not append in
order. `Sorted`, with `GroupedIs`: grouping keeps the order of each group and loses nothing. `Unsent` needs the
order too, since a batch and the rest of the backlog are disjoint only because no group repeats an entry. `Grouped` and
`Readable` are recursive functions; that they exist is proved by least counterexample.

**`PythonClientProofs`.** `ContractHolds`, `FlushTrueHolds` and the refinement `DeliveryImplemented`, for any sizes, policies, runs and
callers. The invariant `Ind` adds to the types and bounds: a request is in flight exactly while the worker
posts, and only then does it carry markers (`Posting`); a cooldown runs only behind an open breaker, which is closed while a request is out
(`Breaker`); everything stored, sent or asked about is older than the next entry to reach the queue (`Numbered`); the
queue, the request, and each list of entries on its way to the spool are in order (`Sorted`); the first run holds nothing it has sent
(`Unsent`); until `close()` the spool is what the queue was at the last version saved, or will be once a save in progress
ends (`Mirror`); and every entry a flush waits for lies before its marker, or was in the request that carries it
(`Waits`), which overflow, a requeue in front and a late `close()` all move. For the refinement, `Handed` and `Recorded` say of one step that it stores
nothing but what is being recorded and that numbers are given out one by one.

**`DotnetClientProofs`.** `ContractHolds`, `FlushTrueHolds`, for any sizes, severities, groups and runs. `Ind` consists of `Gated` (who is in a
pass has the gate), `Posting`, `Breaker`, `Balanced`, `Numbered`, `Sorted`, `Unsent` and `Waits`, as above, and what the journal needs.
`Aside`: a rewritten file waits for its name only while a pass is about to move it. `Behind`: the watermark has passed every line of the file, without which an append could break its
order. `Noticed`: a worker that looks, waits or ends a pass with something past the watermark has its wake-up set, or a `Log` is
still about to set it; that is the lost wake-up. `Mirror` compares the file with the queue in both directions: what is pending
and not in the file is older than a full file, and what is in the file and no longer queued is older than the queue. The second
is false between a settled request and its compaction, and with a request out it must hold of the request too, since that may come back in
front; unless the queue is full, when nothing of it comes back. The group of a request, the rest, and what is durable are one filter, `Picked`, a recursive function;
that it exists and keeps order and count is proved by least counterexample (`First`), the prover having no induction.

**`WebProofs`, billing.** `RowsKeptHolds`. That a row holds only its own customer and subscription is not inductive: a
click writes a customer it minted two steps before, and an event is applied to a workspace looked up before. `Custody` says the
same of every place a customer or subscription is on its way to a row: clicks, checkout sessions, subscriptions, events and the
handlers between their lookup and their update. The lookup by customer keeps it because the row it finds is in custody too
(`TargetOwns`). The proof uses neither the order of delivery nor the unique index on customers.
`PayerIsMeteredHolds` follows from `OnePayer`: for a workspace no two clicks raced for, every click past its mint,
checkout session and subscription carries the one customer that is, or is about to be, on its row.
`InStepHolds` speaks of the subscription that stands: the newest, unless it was deleted, since `applyWebhook` leaves one that expired before it was
paid for, with its plan, on the row (Observations). It rests on `Catching`. Events in order are handled one at a time, the oldest first, and stay waiting
until they are applied (`InTurn`); a workspace that is not tangled has one live subscription at most, and it is the newest; and for each column
the newest waiting event that writes it writes what Stripe has, or with none waiting the row has that already
(`SubscriptionDue`, `PlanDue`, `StatusDue`: the columns differ in which events write them). A
repeated delivery is handled again before anything newer, so it undoes nothing.

**`WebProofs`, partitions.** `PlacedHolds`, `NothingLostHolds`, for any number of replicas, inserts and months.
Each call's progress is an invariant of its own record: the months behind it are covered (`Behind`), what it took from the default
partition has its month (`Drained`), it holds the lock from its first attach on (`Locking`), and it stays within what it was called
for (`InRange`, `Reached`); two calls create different months (`Apart`); an insert past its routing has a
leaf that nobody may attach over (`WriteInv`). From these, no ATTACH meets a row of its month in the default partition.

**`WebProofs`, workspaces.** `GuardedHolds`: `WithinReach` counts, beside the projects there are, the requests that have passed the
check and not written; it is the sum that a check bounds and a write leaves alone. `AdminRemainsHolds`: `Spares` says that a demotion or removal past its check, with no write
since, leaves an administrator, so a lost one needs an overtaken check or an invitation that demotes.

**`WebProofs`, boards.** `ContractHolds`, for any boards and scripts: the last edit is unsaved exactly while it is on its
debounce or in a save that is not over. Beside it `SavesInv` is needed: no save carries a newer edit than the last, none carries
the last while that waits for its debounce, and no two carry the same; without it the end of another save
could confirm the last edit. A gesture holds the gate shut, which keeps the held card where the pointer has
it. On the geometry: `NormaliseLegal` (any four integers become a card the contract accepts), `NormaliseKeeps` (a
legal card on the grid is left alone, so a board read back does not move) and `ResizeAnchored` (a card dragged by any
edges keeps the opposite side, whatever limit it reaches), which is the claim of the comment over `resizeBy`.

`EditsKeptHolds`: until an edit is made or sent unprotected, no interleaving of saves, answers, failures and visits to other boards undoes
one. The invariant is `Always`, which holds whatever becomes of the requests (`WishInv`: what each board should be is well
formed, and no card is on two boards; `HoldInv`: what the pointer holds is the next edit, half made), and, while nothing is
exposed, `Protected`. `OnScreen`: the screen is its board with every edit, but for the card that is held. `OnTimer` and
`OnTheWay` say that the debounce, or the one request on its way, carries every edit there was when it was armed or sent; `AtRest`, that any other
row is already right. An answer may be stale, so `Asking`, `Reading` and `Waiting` say of each stage of one (asked for, read,
put off by the gate) that it is what its board should be or that the last edit's own save is yet to read
the board again; `Refetched` keeps that save from being followed by one that does not.

`KeptHolds` adds that every card that is drawn or sent has a size and a place the stored contract accepts (`Legal`, from `NormaliseLegal` for
gestures and keys), but for how far down a new card is put: `findFreeSlot` looks neither at `MAX_WIDGET_Y` nor at
`MAX_WIDGETS`, and a board with a card too many is drawn and refused (Observations). `FreeSlotPlaced` is what it does ensure: on a board of up to six
cards the place it finds is one the contract accepts, for cards of any sizes. A card overlaps a new one in fewer than 300 of the
grid's rows, and there are 2001 (`TooManyRows`, by pigeonhole), and a finite set has
a largest and a smallest member (`Largest`, `Smallest`, by well-foundedness of strict inclusion).

**`BrowserTagProofs`.** `ContractHolds`, `OnePersonHolds`. An action of the tag applies operators to the world of one tab
(its page, the shared storage, what was sent and lost). Each operator is shown to keep a world good beside what the
other tabs hold, and the world a step ends in becomes the next state. `Balanced` is the books of a world: each entry is buffered on
one page, sent or lost. `Apart` says that the ids stored and sent are minted by now or chosen by a page, and that a minted one that went out
names one person at most (`Names`); `Own`, that what went out with the page's session names nobody but its person, and that a
minted session with a person is no other signed-in tab's (`Alone`); the stored session alone would not do, since a tab may adopt one that another has
just left. An id the page chooses is none of these, and leaving it mints a new one (`ChosenApart`).

*Only model-checked:* liveness and what its fairness enables (out of the prover's reach): `Progress` of four clients, `Converges`. Every invariant and action property of a passing run is also a theorem.
What is proved beside them: `GuardedHolds` and `AdminRemainsHolds` say what `Workspaces` keeps where the run shows what it does not.

## Divergence

`workspaces` states what a comment of `addProject` promises (`apps/web/src/lib/api.server.ts:1876`): "Counted at the moment of
creation rather than carried on the session, so two tabs cannot both pass the check on a stale number." TLC finds two requests that
count before either inserts: `countProjects` (1881) and `createProject` (1890) are two statements without a transaction or a constraint
between them, both pass, and a free workspace has two projects where its plan has one. `GuardedHolds` proves that the excess
stays below the number of requests in progress together.

## Observations

What the code does and a reader may not expect, met while modelling; most are behaviours of the models that a
property names as its exception, the others are outside of them. Lines are of the repository.

*Node client.* An interval client can stop sending: giving a batch up after `maxRetries` schedules no retry, and
with the breaker open `syncTimer` has stopped the interval timer too, so what is queued stays until enough new entries reach
`flushAt` (`client.ts:1095` against `README.md:426`). Restored entries are in memory only, although the comment
has them "written straight back out under this run's own segment" (409 against 407-408): `checkpoint()` only writes when the append log has outgrown the queue. An
entry recorded between `drain`'s return and `pump`'s `finally` leaves an immediate client with no timer
armed (469). `close()` before `restore()` resolves drops what `load()` has adopted (394). The `finally` block of a
drain that outlives `close()` checkpoints the cleared queue over what `close()` has just written (1022-1026), so the entries it
reports as "Not dropped: persisted. The next run drains them" (704) are gone; the books still count them as `left`. `load()` unlinks a segment before
anything it read is written elsewhere (`persistence.ts:190`), so a crash there loses what the first one preserved, against
`client.ts:407-408`. Both are behaviours of the model; `JournalCovers` claims the journal of an open client, and of its own entries.

*Desktop client.* A file torn inside a multibyte character is never rewritten: `lines()` fails on it, so `peek` and `trim` fail
for good while `append` keeps growing it (`queue.rs:277` against 149-150). A torn line has no newline, and the next entry continues it and is lost with
it. A flush that runs out of time on a healthy connection leaves an immediate client's entries with nothing
scheduled (`lib.rs:1246-1263`). While `drop_front` fails, an accepted batch is sent again at once, without backoff; a kill between the answer
and `drop_front` sends it again in the next run, as the code says (1448). The channel is unbounded, and
`recv_timeout` prefers a waiting message to an expired timer, so a busy host postpones a scheduled send.

*Go client.* `deliver()` renews the hold on every wake-up while held (1152-1153, 1185-1191), so steady traffic, flushes, or an interval shorter
than the hold push the probe ahead of itself for ever: it does not come after `BreakerReset`, "how long sending stays paused before one probe"
(`firstrun.go:306-309`). `KeepsTrying` therefore speaks of a client nobody disturbs. In the model one `Log` is under way at a time; the eight tries
of `enqueue` (826-843) lose an entry only to callers that fill the channel at once. `attempt()` retries inside a half-open breaker without asking it again. A delivery that `Close` finds in
progress is not under the shutdown deadline. `Flush` returns nil while held off. A `Log` past the closed check leaves its entry in the channel.
A torn last line swallows the next entry; entries that `load` trims or `Close` fails to sync are not counted.

*Python client.* `_wake_pending`, once set while the worker is sending, stays set (`_client.py:945` with 1018): later requests notify
nobody, and a client that is not on an interval sleeps for up to an hour, although entries are due
"as soon as a batch can be formed". `close()` whose join times out saves the queue without the batch in
flight (872-876). A failed save still marks its version as saved. Two savers share one temporary file. `flush()` returns True although
entries it waited for were dropped by overflow. A `log()` past the closed check is lost. A spool that cannot be read counts as empty (`_spool.py:86-88`), and the next save
replaces it.

*.NET client.* `TimeUntilNextWork` takes the earliest deadline, so an interval client behind an open breaker spins until the
hold is over (`FirstrunClient.cs:815-833` against 808-812). A backoff that elapses between the failure and that look is no deadline at
all: a manual, immediate or startup worker then waits for ever with its request outstanding. `Rewrite` deletes the file before it moves the new one
into place (`DiskQueue.cs:194-195` against 35-37), and the temporary file is never read back. `Shutdown` with an empty queue and a batch in flight
cancels it, and without a journal it is lost uncounted. The file is not the newest journaled part of what is pending: after a pass that
settled some of a batch, or an overflow while one is out, a full file may lack an entry that is pending and hold newer ones (`Mirrored` says how far). `Shutdown` waits for the gate beyond `ExitFlushTimeout`.

*Browser tag.* On a fresh load the first `user()` mints a new session, also for the person who was signed in before it: the page
has nobody yet (`core.ts:738`). `user()` does not flush and the resource is stamped on a whole batch (452-477), so
entries recorded before it go out with the next person's name and session; the model's `stamps` are of batches, and `OnePerson` says nothing of
whose the entries are. A page that gives `session()` an id of its own (766-770) may give one id to two people. A withdrawal in one tab leaves another consented, and it stores a session again. An idle and an
active tab replace each other's stored session.

*Ingest and jobs.* A day's bill is fixed by its first push: every push of a day uses one identifier with a growing total
(`stripe.server.ts:462`), Stripe discards repeated identifiers, so what arrives later that day is never billed, against "Reports one day's entries to
Stripe" (418). The comment rests that on Stripe's "rolling window of at least 24 hours" (420-424), but a day is still pushed as
"yesterday" up to 48 hours after its first push: with a window of a day it is billed twice, against "Both are safe to repeat"
(`context.server.ts:63-64`), and TLC reaches that; `BillBounded` says that no more than this can happen. Rows inserted after `deleteProject`'s `DELETE` took its snapshot
stay behind without a project (`repo.ts:1062`; reachable in `Ingest`). `ensureReady` caches a rejected promise, so a failed boot migration
fails every later request (`context.server.ts:44`).

*Billing.* Out of order, webhooks do not land on the same row: `created` or `updated` after `deleted` revives an ended plan, and no
later event corrects it (`stripe.server.ts:351` against 298-299, `db/billing.ts:36-39` and `docs/billing.md:147`); `InStep` is therefore claimed of events in
order. An `updated` that says `incomplete_expired` or `canceled` sets the status and keeps plan and subscription (345-355), against "put the
workspace back on free" (267-268): only `deleted` does that, and a subscription whose first payment never came has none. `InStep` takes such a one as standing. Two first clicks at once create two customers and the last write wins (148): the meter may then report to a customer without a
subscription.

*Partitions.* Rows older than any call reaches stay in the default partition, which retention never drops. A batch sent again after its month is
gone is stored and metered again. An insert into the default partition between its drain and the ATTACH fails the whole call until the next one.

*Workspaces.* `addMemberByLogin` is an upsert and can demote the last administrator, whom "cannot be demoted or removed" protects elsewhere
(`repo.ts:453` against 496-497). Two removals may both pass `isLastAdmin`. `AdminRemainsHolds` proves that nothing else loses him. `deleteWorkspace` leaves the rows of a project created between its two statements.
Saving the layout of a board that has been deleted is answered ok.

*Live board.* An answer that was asked for before an edit without `refetch` (a drag, a text, a copy, a removal) landed, and arrives while it
is unsaved, is applied when the gate opens: the saved edit is undone on the screen, and the next edit is derived from that copy and
undoes it on the server (`dashboard.tsx:343-349` against the comment at 325-334; `Kept` calls such edits `exposed`). A debounced save that fires after another
board was opened reads the new `props.dashboardId` and writes the old board's layout into the new board's row (254 with 298), a case
the comment at 335-341 describes as handled. Leaving the page drops what is on its debounce (229), against "a board that looks right but was never written is worse" (235).
The model does all three, and `Kept` calls these edits `exposed` too. Two saves in
flight may land in either order, and `confirmed` only counts. A save that was given up may still land. Nothing but the stored contract
counts cards: the 49th is drawn, refused with the whole board, and so is every later edit until one is removed (`dashboard.tsx:488-510`,
`board.ts:145`; in the model `MAX_WIDGETS`, 2 in the run). `findFreeSlot` does not know `MAX_WIDGET_Y`, so a copy on a very tall board that is full cannot be saved either (`canvas.ts:97-110`).

## What is not modelled, and why

- *Validation, clamping, wire formats, transport, context propagation* of the clients, and *HTTP middlewares and framework wrappers*: pure functions, or one entry
  per request with no state. They enter the models as policies, outcomes of a request and groups of entries. Python's `fork()` handling is left out.
- *Attributes and the resource map of a batch*, with its retry, and the body limit: no property here tells them apart.
- *Webhook signatures and the arithmetic of plans*: one check of a digest, and sums that nothing waits on.
- *Sign-in, sessions, access keys, instance administration, feeds*: single statements, each atomic.
- *Query compiler, ranges, buckets, feed cursors*: a pure translation whose result is PostgreSQL's to run; what it computes for every query is
  induction over syntax, and a bounded reference would restate it.
- *The events page*, which polls for new entries and loads older ones while its filter changes: an answer to the old filter may be merged into the new list. It
  keeps nothing on the server.
- *Other screens, documentation site, templates, seeds, scripts, deployment*: rendering, data and tooling. They are most of the lines of the
  repository, which is why the map covers a small share of them.
