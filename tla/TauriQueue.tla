------------------------------ MODULE TauriQueue ------------------------------
(***************************************************************************)
(* The pending-entry queue of the desktop client (sdk/tauri/src/queue.rs), *)
(* in memory or as an NDJSON file that outlives the process.               *)
(*                                                                         *)
(* A line is what it decodes to: an entry, or Corrupt; whether its bytes   *)
(* are valid UTF-8; whether its newline was written.  Only the last line   *)
(* can lack one.  A queue in memory is a file whose calls never fail.      *)
(* Every line has the same size, so max_bytes counts lines.                *)
(***************************************************************************)
EXTENDS Integers, Sequences, SequencesExt

CONSTANTS
    MaxId,          \* bound: entries recorded over the whole behaviour
    MaxEntries,     \* max_entries
    MaxBytes,       \* max_bytes, in lines
    Faults          \* what the disk does: "tear" a line, refuse a "write"

ASSUME QueueAssumption ==
    /\ MaxId \in Nat /\ MaxEntries \in Nat \ {0} /\ MaxBytes \in Nat \ {0}
    /\ Faults \subseteq {"tear", "write"}

VARIABLES
    durable,        \* the backing: disk, or memory
    file,           \* the lines waiting, oldest first
    len             \* the cached length

queueVars == <<durable, file, len>>

Entry == 1..MaxId
Corrupt == 0
Line == [entry : Entry \cup {Corrupt}, utf8 : BOOLEAN, ended : BOOLEAN]
Whole(e) == [entry |-> e, utf8 |-> TRUE, ended |-> TRUE]

-------------------------------------------------------------------------------
\* read_lines: one line that is not UTF-8 fails the whole read; a line that
\* does not parse is skipped.
Readable == \A i \in DOMAIN file : file[i].utf8

Parsed(lines) ==
    LET upTo[n \in 0..Len(lines)] ==
          IF n = 0 THEN <<>>
          ELSE IF lines[n].entry = Corrupt THEN upTo[n - 1]
          ELSE Append(upTo[n - 1], lines[n])
    IN  upTo[Len(lines)]
Waiting == LET kept == Parsed(file) IN [i \in DOMAIN kept |-> kept[i].entry]

Terminated(lines) == [i \in DOMAIN lines |-> [lines[i] EXCEPT !.ended = TRUE]]

\* open(..., append): bytes written after a line without a newline continue it,
\* and what the two decode to together is neither.
Joined(l) ==
    IF file = <<>> \/ Last(file).ended THEN Append(file, l)
    ELSE Append(Front(file),
                [entry |-> Corrupt, utf8 |-> Last(file).utf8 /\ l.utf8, ended |-> l.ended])

\* Queue::open counts what a previous run left, and takes a file it cannot
\* read for an empty one.
Opened == IF Readable THEN Len(Waiting) ELSE 0

\* trim: the newest lines inside both limits, at least one.
TrimmedShort(lines) ==                                           \* mutant
    SubSeq(lines, Max({0, Len(lines) - MaxEntries - 1, Len(lines) - MaxBytes - 1}) + 1, Len(lines))
Trimmed(lines) ==
    SubSeq(lines, Max({0, Len(lines) - MaxEntries, Len(lines) - MaxBytes}) + 1, Len(lines))

Refusing == durable /\ "write" \in Faults

-------------------------------------------------------------------------------
\* append(e): kept is how many of the lines it read trim kept, when it ran.
AppendOk(e) ==
    LET lines == Joined(Whole(e)) IN
    /\ len + 1 <= MaxEntries /\ Len(lines) <= MaxBytes
    /\ file' = lines /\ len' = len + 1
    /\ UNCHANGED durable

\* Over a limit: trim reads the file again and rewrites it.
AppendTrims(e) ==
    LET lines == Joined(Whole(e)) IN
    /\ len + 1 > MaxEntries \/ Len(lines) > MaxBytes
    /\ \A i \in DOMAIN lines : lines[i].utf8
    /\ file' = Trimmed(Terminated(Parsed(lines)))
    /\ len' = Len(file')
    /\ UNCHANGED durable

\* It cannot be read, or not rewritten: the line is in the file all the same.
TrimFails(e) ==
    LET lines == Joined(Whole(e)) IN
    /\ len + 1 > MaxEntries \/ Len(lines) > MaxBytes
    /\ Refusing \/ \E i \in DOMAIN lines : ~lines[i].utf8
    /\ file' = lines /\ len' = len + 1
    /\ UNCHANGED durable

\* What may be written of a line: all but its newline, a part, a part that ends
\* inside a character.
Parts(e) ==
    {[entry |-> Corrupt, utf8 |-> u, ended |-> FALSE] : u \in BOOLEAN}
        \cup {[entry |-> e, utf8 |-> TRUE, ended |-> FALSE]}

\* The file cannot be opened, or the disk is full before the newline: what was
\* written of the line stays.
AppendFails(e) ==
    /\ Refusing
    /\ UNCHANGED file \/ \E l \in Parts(e) : file' = Joined(l)
    /\ UNCHANGED <<durable, len>>

\* The process is killed while it appends, inside the line or before its newline.
Torn(e) ==
    /\ durable /\ "tear" \in Faults
    /\ \E l \in Parts(e) : file' = Joined(l)

\* drop_front(n) of what read_lines returns: a rewrite, or an unlink of it all.
DropFront(n) ==
    /\ Readable
    /\ file' = SubSeq(Terminated(Parsed(file)), n + 1, Len(Parsed(file)))
    /\ len' = Len(file')
    /\ UNCHANGED durable

DropFails == (Refusing \/ ~Readable) /\ UNCHANGED queueVars

QueueTypeOK ==
    /\ durable \in BOOLEAN
    /\ file \in Seq(Line) /\ len \in Nat
    /\ \A i \in 1..(Len(file) - 1) : file[i].ended
===============================================================================
