----------------------------- MODULE GoDiskQueue -----------------------------
(* diskqueue.go: the file that mirrors what the sender of the Go client      *)
(* holds.  A file is [lines, torn, broken]: its lines in order, whether the  *)
(* last one lacks its newline, and whether this run has given the file up.   *)
(* An operation is the set of its outcomes: a disk that may refuse can fail  *)
(* any write after any prefix of it.                                         *)
EXTENDS Naturals, Sequences, SequencesExt

CONSTANTS
    MaxBytes,       \* QueueMaxBytes, in lines
    DiskRefuses     \* whether the disk may refuse a write

Bad == 0            \* a line that does not parse

\* The newest n of a sequence.
Newest(n, s) == IF Len(s) <= n THEN s ELSE SubSeq(s, Len(s) - n + 1, Len(s))

\* The lines that parse, in their order.
Readable(s) ==
    LET upTo[n \in 0..Len(s)] ==
          IF n = 0 THEN <<>>
          ELSE IF s[n] # Bad THEN Append(upTo[n - 1], s[n]) ELSE upTo[n - 1]
    IN  upTo[Len(s)]

\* A line that lacks its newline swallows the next one: both become one bad line.
Written(d, items) ==
    [d EXCEPT !.lines = @ \o (IF d.torn THEN Tail(items) ELSE items), !.torn = FALSE]

\* A write that failed after n whole lines, with or without a piece of the next.
Cut(d, items, n, piece) ==
    LET whole == IF n = 0 THEN d ELSE Written(d, SubSeq(items, 1, n))
    IN  IF piece /\ ~whole.torn
        THEN [lines |-> Append(whole.lines, Bad), torn |-> TRUE, broken |-> TRUE]
        ELSE [whole EXCEPT !.broken = TRUE]

AppendOutcomes(d, items) ==
    IF d.broken \/ items = <<>> THEN {d}
    ELSE {Written(d, items)}
         \cup {Cut(d, items, n, piece) :
                  n \in IF DiskRefuses THEN 0..(Len(items) - 1) ELSE {}, piece \in BOOLEAN}

OverCap(d) == ~d.broken /\ Len(d.lines) > MaxBytes

SyncOutcomesM(d, items) == {[disk |-> d, kept |-> items]}         \* mutant

\* The rewrite keeps the newest entries that fit.  A failure before the rename
\* leaves the old file, one after it (reopening) the new one; both end the disk.
SyncOutcomes(d, items) ==
    LET kept == Newest(MaxBytes, items)
        new  == [lines |-> kept, torn |-> FALSE, broken |-> FALSE]
    IN  IF d.broken THEN {[disk |-> d, kept |-> items]}
        ELSE {[disk |-> new, kept |-> kept]}
             \cup IF ~DiskRefuses THEN {}
                  ELSE {[disk |-> [d EXCEPT !.broken = TRUE], kept |-> items],
                        [disk |-> [new EXCEPT !.broken = TRUE], kept |-> kept]}

\* What a new run reads: the newest readable lines of the whole file, or of what
\* comes before a line it cannot read past.  The file stays as it is.
LoadOutcomes(d, max) ==
    LET open    == [d EXCEPT !.broken = FALSE]
        all     == Len(d.lines)
        Read(n) == Newest(max, Readable(SubSeq(d.lines, 1, n)))
    IN  {[disk |-> open, kept |-> Read(all)]}
        \cup {[disk |-> f, kept |-> Read(n)] :
                 f \in IF DiskRefuses THEN {open, [d EXCEPT !.broken = TRUE]} ELSE {},
                 n \in 0..all}
===============================================================================
