------------------------------ MODULE Partitions ------------------------------
(***************************************************************************)
(* The monthly partitions of log_entries (db/migrations/0000_initial.sql,  *)
(* db/partitions.ts): replicas that call ensurePartitions on boot and every*)
(* six hours, the inserts of the data plane that race them, and the        *)
(* retention a person invokes.                                             *)
(*                                                                         *)
(* One call of log_entries_ensure_partitions is one transaction, and one   *)
(* action is one statement of it; an insert is a transaction of one        *)
(* statement, which takes its lock, may wait, and commits.  What           *)
(* PostgreSQL does by itself is external: who waits for which lock, where  *)
(* a row is routed, what ATTACH refuses.  A deadlock it detects, a crash   *)
(* and any other error end the transaction with nothing of it kept.        *)
(***************************************************************************)
EXTENDS Integers, FiniteSets

CONSTANTS
    Entry,          \* entries, each with the month its client stamped
    MonthOf,
    Replica,        \* whoever calls ensurePartitions: servers, the migration
    Back,           \* months_back of its call
    Ahead,          \* months_ahead
    Writer,         \* the inserts in progress at once
    Attached,       \* the partitions the database starts with
    FirstMonth,     \* bound: the clock's first and last month
    LastMonth

Month == 1..(LastMonth + Ahead)

ASSUME PartitionAssumption ==
    /\ FirstMonth \in Nat /\ LastMonth \in Nat /\ FirstMonth <= LastMonth
    /\ Ahead \in Nat
    /\ Back \in [Replica -> Nat] /\ \A r \in Replica : Back[r] < FirstMonth
    /\ Attached \subseteq Month
    /\ Entry # {} /\ MonthOf \in [Entry -> Month]

VARIABLES
    now,            \* date_trunc('month', now())
    parts,          \* the months attached
    rows,           \* the rows of each of their partitions
    default,        \* the rows of log_entries_default
    call,           \* the ensure call of each replica
    write,          \* the insert of each writer
    answered        \* history: entries whose insert committed

tables == <<parts, rows, default>>
partitionsVars == <<now, tables, call, write, answered>>

\* A call: the month it is at, the last it is for, what it has created, with
\* the rows it moved there, and whether it has attached a partition.
Call ==
    [at : {"idle", "look", "create", "drain", "attach", "commit"},
     month : Int, last : Int, made : SUBSET Month, moved : SUBSET Entry,
     locks : BOOLEAN]
NoCall == [at |-> "idle", month |-> 0, last |-> 0, made |-> {}, moved |-> {},
           locks |-> FALSE]

\* An insert: the leaf it routed its row to, 0 for the default partition.
Write == [at : {"idle", "routed", "inserted"}, entry : Entry, leaf : Month \cup {0}]
NoWrite == [at |-> "idle", entry |-> CHOOSE e \in Entry : TRUE, leaf |-> 0]

Of(m, s) == {e \in s : MonthOf[e] = m}
Stored == default \cup UNION {rows[m] : m \in parts}

-------------------------------------------------------------------------------
PartitionsInit ==
    /\ now = FirstMonth
    /\ parts = Attached
    /\ rows = [m \in Month |-> {}]
    /\ default = {}
    /\ call = [r \in Replica |-> NoCall]
    /\ write = [w \in Writer |-> NoWrite]
    /\ answered = {}

Tick ==
    /\ now < LastMonth
    /\ now' = now + 1
    /\ UNCHANGED <<tables, call, write, answered>>

-------------------------------------------------------------------------------
(* Locks, until the end of the transaction that took them.                 *)

\* Somebody other than r holds log_entries_default: a call that drained it or
\* attached beside it, or an insert routed there.
DefaultBusy(r) ==
    \/ \E q \in Replica \ {r} : call[q].locks \/ call[q].at = "attach"
    \/ \E w \in Writer : write[w].at = "inserted" /\ write[w].leaf = 0

\* An ACCESS EXCLUSIVE lock on it, which an attach takes.
DefaultLocked == \E q \in Replica : call[q].locks

\* Somebody else has created the month and not committed.
NameTaken(r, m) == \E q \in Replica \ {r} : m \in call[q].made

\* A row a call has moved, or another insert has written, and not committed.
RowBusy(w, e) ==
    \/ \E q \in Replica : e \in call[q].moved
    \/ \E v \in Writer \ {w} :
          write[v].at = "inserted" /\ write[v].entry = e /\ write[v].leaf = write[w].leaf

-------------------------------------------------------------------------------
(* log_entries_ensure_partitions.                                          *)

\* The call of r goes on as this one, or is over.
Goes(r, at, month, made, moved, locks) ==
    call' = [call EXCEPT ![r] =
        [at |-> at, month |-> month, last |-> call[r].last, made |-> made,
         moved |-> moved, locks |-> locks]]
CallEnds(r) == call' = [call EXCEPT ![r] = NoCall]

Ensure(r) ==
    /\ call[r].at = "idle"
    /\ call' = [call EXCEPT ![r] =
          [at |-> "look", month |-> now - Back[r], last |-> now + Ahead, made |-> {},
           moved |-> {}, locks |-> FALSE]]
    /\ UNCHANGED <<now, tables, write, answered>>

\* The loop, and log_entries_create_partition's early return.
PastShort(c) == c.month >= c.last                                \* mutant
Past(c) == c.month > c.last

Look(r) ==
    LET c == call[r] IN
    /\ c.at = "look"
    /\ IF Past(c) THEN Goes(r, "commit", c.month, c.made, c.moved, c.locks)
       ELSE IF c.month \in parts
       THEN Goes(r, "look", c.month + 1, c.made, c.moved, c.locks)
       ELSE Goes(r, "create", c.month, c.made, c.moved, c.locks)
    /\ UNCHANGED <<now, tables, write, answered>>

\* CREATE TABLE waits for the name and fails if its owner has committed it.
CreatePartition(r) ==
    LET c == call[r] IN
    /\ c.at = "create" /\ ~NameTaken(r, c.month)
    /\ IF c.month \in parts THEN CallEnds(r)
       ELSE Goes(r, "drain", c.month, c.made \cup {c.month}, c.moved, c.locks)
    /\ UNCHANGED <<now, tables, write, answered>>

\* The rows of the month that are committed leave the default partition.
Drain(r) ==
    LET c == call[r] IN
    /\ c.at = "drain"
    /\ \A q \in Replica \ {r} : ~call[q].locks
    /\ Goes(r, "attach", c.month, c.made, c.moved \cup Of(c.month, default), c.locks)
    /\ UNCHANGED <<now, tables, write, answered>>

\* ATTACH fails over a row of the month that the default partition still holds.
MayAlwaysAttach(r) == TRUE                                       \* mutant
MayAttach(r) == Of(call[r].month, default \ call[r].moved) = {}

Attach(r) ==
    LET c == call[r] IN
    /\ c.at = "attach" /\ ~DefaultBusy(r)
    /\ IF MayAttach(r) THEN Goes(r, "look", c.month + 1, c.made, c.moved, TRUE)
       ELSE CallEnds(r)
    /\ UNCHANGED <<now, tables, write, answered>>

Commit(r) ==
    /\ call[r].at = "commit"
    /\ parts' = parts \cup call[r].made
    /\ rows' = [m \in Month |->
          IF m \in call[r].made THEN Of(m, call[r].moved) ELSE rows[m]]
    /\ default' = default \ call[r].moved
    /\ CallEnds(r)
    /\ UNCHANGED <<now, write, answered>>

\* The job's catch, or the process dies: the transaction is rolled back.
EnsureFails(r) ==
    /\ call[r].at # "idle"
    /\ CallEnds(r)
    /\ UNCHANGED <<now, tables, write, answered>>

-------------------------------------------------------------------------------
(* insertLogEntries, one row of it.                                        *)

Leaf(e) == IF MonthOf[e] \in parts THEN MonthOf[e] ELSE 0

Route(w, e) ==
    /\ write[w].at = "idle"
    /\ write' = [write EXCEPT ![w] = [at |-> "routed", entry |-> e, leaf |-> Leaf(e)]]
    /\ UNCHANGED <<now, tables, call, answered>>

Ended(w) == [write EXCEPT ![w] = NoWrite]

\* The lock of the leaf is granted.  A row routed to the default partition is
\* refused if its month has been attached meanwhile, and one that is there
\* already is left alone.
Insert(w) ==
    LET e == write[w].entry
        leaf == write[w].leaf
    IN
    /\ write[w].at = "routed" /\ ~RowBusy(w, e)
    /\ leaf = 0 => ~DefaultLocked
    /\ IF leaf = 0 /\ MonthOf[e] \in parts
       THEN write' = Ended(w) /\ UNCHANGED answered
       ELSE IF e \in (IF leaf = 0 THEN default ELSE rows[leaf])
       THEN write' = Ended(w) /\ answered' = answered \cup {e}
       ELSE write' = [write EXCEPT ![w].at = "inserted"] /\ UNCHANGED answered
    /\ UNCHANGED <<now, tables, call>>

InsertCommits(w) ==
    LET e == write[w].entry
        leaf == write[w].leaf
    IN
    /\ write[w].at = "inserted"
    /\ IF leaf = 0
       THEN default' = default \cup {e} /\ UNCHANGED rows
       ELSE rows' = [rows EXCEPT ![leaf] = @ \cup {e}] /\ UNCHANGED default
    /\ write' = Ended(w)
    /\ answered' = answered \cup {e}
    /\ UNCHANGED <<now, parts, call>>

InsertFails(w) ==
    /\ write[w].at # "idle"
    /\ write' = Ended(w)
    /\ UNCHANGED <<now, tables, call, answered>>

-------------------------------------------------------------------------------
(* log_entries_drop_expired.  DROP TABLE locks the parent against everyone,*)
(* so it runs with no other transaction open on it.                        *)

Unlocked ==
    /\ \A r \in Replica : call[r].made = {}
    /\ \A w \in Writer : write[w].at = "idle"

ExpiredUnchecked(retain) == {m \in parts : m < now - retain}     \* mutant
Expired(retain) == {m \in parts : retain >= 1 /\ m < now - retain}

DropExpired(retain) ==
    /\ Unlocked
    /\ parts' = parts \ Expired(retain)
    /\ rows' = [m \in Month |-> IF m \in parts' THEN rows[m] ELSE {}]
    /\ UNCHANGED <<now, default, call, write, answered>>

-------------------------------------------------------------------------------
Maintain ==
    \E r \in Replica :
        \/ Ensure(r) \/ Look(r) \/ CreatePartition(r) \/ Drain(r) \/ Attach(r)
        \/ Commit(r) \/ EnsureFails(r)

Store ==
    \E w \in Writer :
        \/ \E e \in Entry : Route(w, e)
        \/ Insert(w) \/ InsertCommits(w) \/ InsertFails(w)

Retain == \E retain \in 0..LastMonth : DropExpired(retain)

PartitionsNext == Tick \/ Maintain \/ Store \/ Retain

PartitionsSpec == PartitionsInit /\ [][PartitionsNext]_partitionsVars
-------------------------------------------------------------------------------
PartitionsTypeOK ==
    /\ now \in FirstMonth..LastMonth
    /\ parts \subseteq Month /\ rows \in [Month -> SUBSET Entry] /\ default \subseteq Entry
    /\ call \in [Replica -> Call] /\ write \in [Writer -> Write]
    /\ answered \subseteq Entry

\* A row is in exactly one leaf, the one its month routes to: no partition is
\* attached beside a default partition that still holds rows of its month,
\* where no query pruned to the month would find them and a replay would be
\* inserted, and metered, a second time (0000_initial.sql:193-198).
Routed ==
    /\ \A m \in Month : \A e \in rows[m] : MonthOf[e] = m /\ m \in parts
    /\ \A e \in default : MonthOf[e] \notin parts

\* A call that is about to commit leaves every month it was called for, from
\* this one on, with a partition, created by it or by the replica that beat it
\* ("The partition it wanted exists either way", context.server.ts:100-101).
Covered ==
    \A r \in Replica : \A m \in now..LastMonth + Ahead :
        call[r].at = "commit" /\ m <= call[r].last => m \in parts \cup call[r].made

Placed == PartitionsTypeOK /\ Routed /\ Covered

\* An insert that was answered is never lost again: moving rows out of the
\* default partition, the calls that fail half way and two replicas at once
\* keep it, and retention takes it only when its month is past the one that
\* late entries are still expected in (partitions.ts MONTHS_BACK).
NothingLost ==
    \A e \in answered : e \in Stored \/ MonthOf[e] < now - 1
===============================================================================
