-------------------------------- MODULE Ingest --------------------------------
(***************************************************************************)
(* The public data plane: POST /v1/e (packages/ingest/src/handlers.ts and  *)
(* pipeline.ts), the row it writes (db/log-entries.ts), the meter it adds  *)
(* to (db/usage.ts), and the project deletion that races it (db/repo.ts).  *)
(*                                                                         *)
(* One action is one SQL statement, since requests interleave at every     *)
(* await and nothing here spans two statements in a transaction, except    *)
(* deleteProject, whose two statements share one.                          *)
(*                                                                         *)
(* A batch is what the client sent, as the handler sees it: whether the    *)
(* body can be read, the source its key names, the entries that parse, and *)
(* how many do not.  At most MAX_BATCH_ENTRIES entries reach the insert,   *)
(* which is not more than its CHUNK, so a batch is one statement.  The     *)
(* attributes are left out, and with them the resource and its retry.      *)
(***************************************************************************)
EXTENDS Naturals, Sequences, FiniteSets, FiniteSetsExt

CONSTANTS
    Request,        \* the requests that arrive over the whole behaviour
    Source,         \* the source keys ever minted
    Project,
    ProjectOf,      \* the project a source belongs to
    Entry,          \* entry ids, each with its one client-stamped time
    Batch,          \* the batches clients may send, again and at once
    MaxBatchEntries,
    MaxDay          \* bound: days of arrival

Nobody == "nobody"      \* a key no source has

BatchRecord ==
    [readable : BOOLEAN, key : Source \cup {Nobody}, kept : Seq(Entry), dropped : Nat]

ASSUME IngestAssumption ==
    /\ ProjectOf \in [Source -> Project]
    /\ Nobody \notin Source
    /\ Batch \subseteq BatchRecord
    /\ MaxBatchEntries \in Nat \ {0}
    /\ MaxDay \in Nat \ {0}
    /\ IsFiniteSet(Request) /\ IsFiniteSet(Project) /\ IsFiniteSet(Entry)

VARIABLES
    rows,           \* log_entries: the primary keys present
    usage,          \* usage_daily: entries per project and day of arrival
    projects,       \* the projects that exist
    sources,        \* the sources that exist
    deleting,       \* the projects with a deleteProject transaction open
    doomed,         \* the rows those have deleted and not committed
    day,            \* the database's clock, in UTC days
    request,        \* what the handler has of each request
    inserted,       \* history: rows ever inserted, per project
    fault           \* history: a statement failed or the server died

tableVars == <<rows, usage, inserted>>
adminVars == <<projects, sources, deleting, doomed>>
ingestVars == <<tableVars, adminVars, day, request, fault>>

Day == 1..MaxDay
Key == Project \X Entry

\* Where a request is: before, between and after its statements.
RequestRecord ==
    [at : {"free", "lookup", "insert", "meter", "done"},
     batch : BatchRecord, accepted : Nat, status : {0, 202, 400, 404, 500}]

NoBatch == [readable |-> FALSE, key |-> Nobody, kept |-> <<>>, dropped |-> 0]
Idle == [at |-> "free", batch |-> NoBatch, accepted |-> 0, status |-> 0]

\* The project a batch lands in, once its key has been looked up.
Target(r) == ProjectOf[request[r].batch.key]

InProgress(r) == request[r].at \in {"lookup", "insert", "meter"}

Keys(p, kept) == {<<p, kept[i]>> : i \in 1..Len(kept)}

-------------------------------------------------------------------------------
IngestInit ==
    /\ rows = {}
    /\ usage = [p \in Project |-> [d \in Day |-> 0]]
    /\ projects = Project /\ sources = Source
    /\ deleting = {} /\ doomed = {}
    /\ day = 1
    /\ request = [r \in Request |-> Idle]
    /\ inserted = [p \in Project |-> 0]
    /\ fault = FALSE

Becomes(r, at, accepted, status) ==
    request' = [request EXCEPT ![r] =
        [at |-> at, batch |-> request[r].batch, accepted |-> accepted, status |-> status]]

Answer(r, status) == Becomes(r, "done", request[r].accepted, status)

\* handleEntries up to sourceByKey: an unreadable body is answered at once.
Arrive(r, b) ==
    /\ request[r].at = "free"
    /\ request' = [request EXCEPT ![r] =
          [at |-> IF b.readable THEN "lookup" ELSE "done", batch |-> b, accepted |-> 0,
           status |-> IF b.readable THEN 0 ELSE 400]]
    /\ UNCHANGED <<tableVars, adminVars, day, fault>>

\* sourceByKey has answered: the checks between it and the insert.
Checked(b) ==
    IF b.key \notin sources THEN 404
    ELSE IF b.kept = <<>> THEN 202
    ELSE IF Len(b.kept) > MaxBatchEntries THEN 400 ELSE 0

Lookup(r) ==
    /\ request[r].at = "lookup"
    /\ LET status == Checked(request[r].batch) IN
         IF status = 0 THEN Becomes(r, "insert", 0, 0) ELSE Answer(r, status)
    /\ UNCHANGED <<tableVars, adminVars, day, fault>>

\* insertLogEntries: ON CONFLICT DO NOTHING, and the number of rows returned.
\* A key deleteProject has deleted and not committed makes the insert wait.
Fresh(r) == Keys(Target(r), request[r].batch.kept) \ rows

Store(r) ==
    /\ Keys(Target(r), request[r].batch.kept) \cap doomed = {}
    /\ rows' = rows \cup Fresh(r)
    /\ inserted' = [inserted EXCEPT ![Target(r)] = @ + Cardinality(Fresh(r))]

AcceptedBatch(r) == Len(request[r].batch.kept)                   \* mutant
Accepted(r) == Cardinality(Fresh(r))

InsertUnmetered(r) ==                                            \* mutant
    /\ request[r].at = "insert"
    /\ Store(r)
    /\ IF Fresh(r) = Keys(Target(r), request[r].batch.kept)
       THEN Becomes(r, "meter", Accepted(r), 0)
       ELSE Becomes(r, "done", Accepted(r), 202)
    /\ UNCHANGED <<usage, adminVars, day, fault>>
Insert(r) ==
    /\ request[r].at = "insert"
    /\ Store(r)
    /\ IF Fresh(r) = {} THEN Becomes(r, "done", 0, 202)
       ELSE Becomes(r, "meter", Accepted(r), 0)
    /\ UNCHANGED <<usage, adminVars, day, fault>>

\* recordUsage: the workspace is resolved in the statement, so a project that
\* has been deleted makes it a no-op; the day is the statement's.
Metered(r) ==
    IF Target(r) \in projects
    THEN usage' = [usage EXCEPT ![Target(r)][day] = @ + request[r].accepted]
    ELSE UNCHANGED usage

Meter(r) ==
    /\ request[r].at = "meter"
    /\ Metered(r)
    /\ Answer(r, 202)
    /\ UNCHANGED <<rows, inserted, adminVars, day, fault>>

-------------------------------------------------------------------------------
(* What fails: a statement the database did not run, one whose answer was  *)
(* lost after it committed, and the server process.                        *)

\* A failed meter write is swallowed: the batch is answered 202 all the same.
MeterFails(r) ==
    /\ request[r].at = "meter"
    /\ Metered(r) \/ UNCHANGED usage
    /\ Answer(r, 202)
    /\ fault' = TRUE
    /\ UNCHANGED <<rows, inserted, adminVars, day>>

\* Any other failure leaves the handler as an exception: a 5xx.
InsertFailsQuietly(r) ==                                         \* mutant
    /\ request[r].at = "insert"
    /\ Answer(r, 202)
    /\ fault' = TRUE
    /\ UNCHANGED <<tableVars, adminVars, day>>
Fails(r) ==
    /\ request[r].at \in {"lookup", "insert"}
    /\ Answer(r, 500)
    /\ fault' = TRUE
    /\ UNCHANGED <<tableVars, adminVars, day>>

InsertLost(r) ==
    /\ request[r].at = "insert"
    /\ Store(r)
    /\ Answer(r, 500)
    /\ fault' = TRUE
    /\ UNCHANGED <<usage, adminVars, day>>

\* The process dies: no request in progress is answered.
ServerDies ==
    /\ \E r \in Request : InProgress(r)
    /\ request' = [r \in Request |->
          IF InProgress(r)
          THEN [at |-> "done", batch |-> request[r].batch, accepted |-> request[r].accepted,
                status |-> request[r].status]
          ELSE request[r]]
    /\ fault' = TRUE
    /\ UNCHANGED <<tableVars, adminVars, day>>

-------------------------------------------------------------------------------
(* The dashboard deletes what requests still point at.                     *)

DeleteSource(s) ==
    /\ s \in sources
    /\ sources' = sources \ {s}
    /\ UNCHANGED <<tableVars, projects, deleting, doomed, day, request, fault>>

RowsOf(p) == {k \in rows : k[1] = p}

\* deleteProject's first statement, in its transaction.
DeleteEntries(p) ==
    /\ p \in projects \ deleting
    /\ deleting' = deleting \cup {p}
    /\ doomed' = doomed \cup RowsOf(p)
    /\ UNCHANGED <<tableVars, projects, sources, day, request, fault>>

EndedNever(p) == UNCHANGED <<deleting, doomed>>                  \* mutant
Ended(p) ==
    /\ deleting' = deleting \ {p}
    /\ doomed' = doomed \ RowsOf(p)

\* Its second statement and the commit; the sources go with the project.
DeleteProject(p) ==
    /\ p \in deleting
    /\ Ended(p)
    /\ rows' = rows \ (doomed \cap RowsOf(p))
    /\ projects' = projects \ {p}
    /\ sources' = {s \in sources : ProjectOf[s] # p}
    /\ UNCHANGED <<usage, inserted, day, request, fault>>

RollBack(p) ==
    /\ p \in deleting
    /\ Ended(p)
    /\ UNCHANGED <<tableVars, projects, sources, day, request, fault>>

-------------------------------------------------------------------------------
Serve ==
    \E r \in Request :
        \/ \E b \in Batch : Arrive(r, b)
        \/ Lookup(r) \/ Insert(r) \/ Meter(r)

Fail == \E r \in Request : Fails(r) \/ InsertLost(r) \/ MeterFails(r)

Administer ==
    \/ \E s \in Source : DeleteSource(s)
    \/ \E p \in Project : DeleteEntries(p) \/ DeleteProject(p) \/ RollBack(p)

-------------------------------------------------------------------------------
IngestTypeOK ==
    /\ rows \subseteq Key
    /\ usage \in [Project -> [Day -> Nat]]
    /\ projects \subseteq Project /\ sources \subseteq Source
    /\ deleting \subseteq projects /\ doomed \subseteq rows
    /\ day \in Day
    /\ DOMAIN request = Request
    /\ \A r \in Request :
          /\ request[r] \in RequestRecord
          /\ request[r].batch \in Batch \cup {NoBatch}
          /\ request[r].accepted <= MaxBatchEntries
    /\ inserted \in [Project -> Nat] /\ fault \in BOOLEAN

\* What the meter holds for a project over all days.
MeterOf(p) == SumFunctionOnSet(usage[p], Day)

\* What requests have stored for a project and not yet metered.
Stored == [r \in Request |-> request[r].accepted]
Waiting(p) == {r \in Request : request[r].at = "meter" /\ Target(r) = p}
Owed(p) == SumFunctionOnSet(Stored, Waiting(p))

\* A customer is never billed for a replay: whatever is sent again or twice at
\* once, fails half way, or is deleted in between, the meter never counts more
\* than the rows that were inserted (recordUsage gets `accepted`, pipeline.ts).
MeterWithin == \A p \in Project : MeterOf(p) + Owed(p) <= inserted[p]

\* Without a failure nothing stored escapes the meter of a project that exists:
\* a batch that was partly a duplicate counts exactly its new part, and several
\* requests at once count each row in exactly one of them.
MeterExact ==
    ~fault => \A p \in projects : MeterOf(p) + Owed(p) = inserted[p]

\* A client that is told 202 may forget the batch: every entry of it that
\* parses is a row, stored by this request or by another, unless the project
\* was deleted meanwhile.
AnsweredIsStored ==
    \A r \in Request :
        LET b == request[r].batch IN
        request[r].status = 202 /\ b.kept # <<>> /\ Target(r) \in projects
            => Keys(Target(r), b.kept) \subseteq rows
===============================================================================
