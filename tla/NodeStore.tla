------------------------------- MODULE NodeStore -------------------------------
(***************************************************************************)
(* The durable queue of the Node client (clients/node/src/persistence.ts): *)
(* one append-only segment per run, written behind a 0 ms timer through    *)
(* one serialised chain of filesystem calls, compacted by write-and-rename *)
(* and adopted, then unlinked, by the next run.                            *)
(*                                                                         *)
(* The operators below are the EntryStore calls the client makes inside    *)
(* its own handlers (Record, Checkpoint, CloseStore); the actions are what *)
(* the store does by itself (the write timer, the filesystem, loading).    *)
(* With cfg.disk = FALSE every call is MemoryStore's no-op.                *)
(*                                                                         *)
(* Sizes are counted in lines.  maxBytes becomes MaxLines and the 256 of   *)
(* the compaction test becomes CompactMin, so that both limits are met.    *)
(***************************************************************************)
EXTENDS Naturals, Sequences

CONSTANTS
    Entry,            \* entries, in the order they are recorded
    CompactMin,       \* 256 in persistence.ts: appends before a compaction
    MaxLines,         \* maxBytes, in lines
    MaxDiskEntries    \* maxDiskEntries: what load() keeps at most

ASSUME StoreAssumption ==
    /\ CompactMin \in Nat
    /\ MaxLines \in Nat \ {0}
    /\ MaxDiskEntries \in Nat \ {0}

VARIABLES
    cfg,         \* the resolved delivery policy of this process
    buffered,    \* recorded, not yet handed to the filesystem
    writeTimer,  \* the 0 ms timer that hands them over
    tail,        \* filesystem calls queued behind the promise chain
    awaited,     \* those of them that close() waits for
    file,        \* the lines of this run's segment
    appended,    \* appends since the last compaction
    degraded,    \* an IO failure turned the store into a memory store
    segments,    \* segments of earlier runs still in the directory
    loading,     \* "none", "reading", "unlinking" or "read"
    cursor,      \* the segment load() is at
    adopted      \* lines load() has read so far

writeVars == <<buffered, writeTimer, tail, awaited, file, appended, degraded>>
loadVars  == <<segments, loading, cursor, adopted>>
storeVars == <<writeVars, loadVars>>

WriteOp == [op : {"append", "replace"}, lines : Seq(Entry)]

StoreInit ==
    /\ buffered = <<>> /\ writeTimer = FALSE /\ tail = <<>> /\ awaited = 0
    /\ file = <<>> /\ appended = 0 /\ degraded = FALSE
    /\ segments = <<>> /\ adopted = <<>> /\ cursor = 1
    /\ loading = IF cfg.disk THEN "reading" ELSE "none"

WriteTypeOK ==
    /\ buffered \in Seq(Entry) /\ writeTimer \in BOOLEAN
    /\ tail \in Seq(WriteOp) /\ awaited \in Nat
    /\ file \in Seq(Entry) /\ appended \in Nat /\ degraded \in BOOLEAN

LoadTypeOK ==
    /\ segments \in Seq(Seq(Entry)) /\ adopted \in Seq(Entry)
    /\ cursor \in Nat \ {0}
    /\ loading \in {"none", "reading", "unlinking", "read"}
    /\ loading = "unlinking" => cursor <= Len(segments)

StoreTypeOK == WriteTypeOK /\ LoadTypeOK

-------------------------------------------------------------------------------
(* The calls the client makes.                                             *)

Live == cfg.disk /\ ~degraded

Larger(a, b) == IF a >= b THEN a ELSE b

\* record(): buffered, and the 0 ms timer is armed.
Record(e) ==
    /\ IF Live
       THEN /\ buffered' = Append(buffered, e)
            /\ writeTimer' = TRUE
       ELSE UNCHANGED <<buffered, writeTimer>>
    /\ UNCHANGED <<tail, awaited, file, appended, degraded>>

\* compact(): the snapshot replaces the segment; the buffer is inside it.
Compact(pending) ==
    /\ buffered' = <<>>
    /\ tail' = Append(tail, [op |-> "replace", lines |-> pending])

\* An empty queue truncates the segment, a long append log is compacted,
\* anything else writes nothing at all.
Compacts(pending) ==
    IF pending = <<>>
    THEN appended # 0 \/ file # <<>>
    ELSE \/ appended > Larger(CompactMin, 2 * Len(pending))
         \/ 2 * Len(file) > MaxLines

\* checkpoint(): what the client says is still pending.
CheckpointDropsBuffer(pending) ==                            \* mutant
    /\ buffered' = <<>>
    /\ tail' = IF Live /\ Compacts(pending)
               THEN Append(tail, [op |-> "replace", lines |-> pending]) ELSE tail
    /\ UNCHANGED <<writeTimer, awaited, file, appended, degraded>>
Checkpoint(pending) ==
    /\ IF Live /\ Compacts(pending)
       THEN Compact(pending)
       ELSE UNCHANGED <<buffered, tail>>
    /\ UNCHANGED <<writeTimer, awaited, file, appended, degraded>>

\* close(): the write timer dies, and the caller awaits the chain as it is now,
\* the snapshot at its end; what is queued behind it is not waited for.
CloseStore(pending) ==
    /\ IF Live
       THEN writeTimer' = FALSE /\ Compact(pending) /\ awaited' = Len(tail')
       ELSE UNCHANGED <<buffered, writeTimer, tail, awaited>>
    /\ UNCHANGED <<file, appended, degraded>>

-------------------------------------------------------------------------------
(* What the store does by itself.                                          *)

\* The 0 ms timer: flushBuffer().  Over the byte limit the lines are not
\* persisted (they stay in the memory queue).
FlushBuffer ==
    /\ writeTimer
    /\ writeTimer' = FALSE
    /\ buffered' = <<>>
    /\ IF buffered # <<>> /\ Len(file) + Len(buffered) <= MaxLines
       THEN tail' = Append(tail, [op |-> "append", lines |-> buffered])
       ELSE UNCHANGED tail
    /\ UNCHANGED <<awaited, file, appended, degraded, loadVars>>

\* One call of the chain is over.
Shift == tail' = Tail(tail) /\ awaited' = IF awaited = 0 THEN 0 ELSE awaited - 1

\* The head of the chain completes.  bytes is the length of file, and
\* appended is the number of lines since the last replace.
WriteDone ==
    /\ tail # <<>> /\ Shift
    /\ LET w == Head(tail) IN
       IF degraded
       THEN UNCHANGED <<file, appended>>
       ELSE IF w.op = "append"
            THEN file' = file \o w.lines /\ appended' = appended + Len(w.lines)
            ELSE file' = w.lines /\ appended' = 0
    /\ UNCHANGED <<buffered, writeTimer, degraded, loadVars>>

\* What a crash leaves of the write in progress: an append may have put any
\* prefix of its lines into the file (a partial line is skipped by decode),
\* a replace is a rename, so all or nothing.
Torn ==
    {file} \cup
    (IF tail = <<>> \/ degraded THEN {}
     ELSE LET w == Head(tail) IN
          IF w.op = "append"
          THEN {file \o SubSeq(w.lines, 1, n) : n \in 0..Len(w.lines)}
          ELSE {w.lines})

\* The head of the chain throws: fail() degrades the store to memory for the
\* rest of the run.
WriteFails ==
    /\ tail # <<>> /\ ~degraded /\ Shift
    /\ file' \in Torn
    /\ degraded' = TRUE
    /\ buffered' = <<>>
    /\ UNCHANGED <<writeTimer, appended, loadVars>>

\* load(), one segment: read it ...
ReadSegment ==
    /\ loading = "reading" /\ cursor <= Len(segments)
    /\ adopted' = adopted \o segments[cursor]
    /\ loading' = "unlinking"
    /\ UNCHANGED <<segments, cursor, writeVars>>

\* ... or fail to, which degrades the store and leaves the file where it is ...
ReadFails ==
    /\ loading = "reading" /\ cursor <= Len(segments)
    /\ cursor' = cursor + 1
    /\ degraded' = TRUE
    /\ buffered' = <<>>
    /\ UNCHANGED <<writeTimer, tail, awaited, file, appended, segments, loading, adopted>>

\* ... then unlink it.  A crash in between replays the segment.
UnlinkSegment ==
    /\ loading = "unlinking"
    /\ segments' = SubSeq(segments, 1, cursor - 1)
                       \o SubSeq(segments, cursor + 1, Len(segments))
    /\ loading' = "reading"
    /\ UNCHANGED <<cursor, adopted, writeVars>>

\* unlink() fails: the segment is truncated, or, where that fails too, stays to
\* be read again by the next run.
UnlinkFails ==
    /\ loading = "unlinking"
    /\ segments' \in {segments, [segments EXCEPT ![cursor] = <<>>]}
    /\ cursor' = cursor + 1
    /\ loading' = "reading"
    /\ UNCHANGED <<adopted, writeVars>>

\* The bound load() applies: the oldest lines go first.
WithinDiskBound(lines) ==
    IF Len(lines) > MaxDiskEntries
    THEN SubSeq(lines, Len(lines) - MaxDiskEntries + 1, Len(lines))
    ELSE lines

\* The process dies: memory is gone, the segment stays, and the next run
\* starts by reading the directory, or finds nothing in it if that fails.
CrashStore ==
    /\ \E left \in Torn :
         segments' = IF left = <<>> THEN segments ELSE Append(segments, left)
    /\ buffered' = <<>> /\ writeTimer' = FALSE /\ tail' = <<>> /\ awaited' = 0
    /\ file' = <<>> /\ appended' = 0 /\ degraded' = FALSE
    /\ adopted' = <<>> /\ cursor' \in {1, Len(segments') + 1}
    /\ loading' = IF cfg.disk THEN "reading" ELSE "none"
===============================================================================
