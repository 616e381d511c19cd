------------------------------- MODULE Metering -------------------------------
(***************************************************************************)
(* Ingest with the hourly job that reports the meter to Stripe             *)
(* (apps/web/src/lib/context.server.ts, pushMeter in stripe.server.ts).    *)
(* The projects are those of one workspace that has a Stripe customer.     *)
(* Stripe is external: it adds up the values of meter events per day, and  *)
(* discards an event whose identifier it has seen within Window hours.     *)
(***************************************************************************)
EXTENDS Ingest, Integers

CONSTANTS
    HoursPerDay,    \* bound: job runs in a day
    Window          \* hours Stripe keeps an identifier: a day, or more

ASSUME MeteringAssumption ==
    HoursPerDay \in Nat \ {0} /\ Window \in Nat /\ Window >= HoursPerDay

VARIABLES
    hour,           \* hours passed
    due,            \* the interval of this hour has not fired yet
    job,            \* the days the running push has left, oldest first
    posting,        \* the total read for the first of them, 0 before it is
    billed,         \* Stripe: entries reported per day
    seen            \* Stripe: the hour an event of a day was last taken, or Never

pushVars == <<hour, due, job, posting, billed, seen>>
vars == <<ingestVars, pushVars>>

Never == -1
DayOf(h) == (h \div HoursPerDay) + 1
MaxHour == HoursPerDay * MaxDay - 1

Init ==
    /\ IngestInit
    /\ hour = 0 /\ due = FALSE /\ job = <<>> /\ posting = 0
    /\ billed = [d \in Day |-> 0] /\ seen = [d \in Day |-> Never]

\* An hour passes; the interval has fired in the one before.
Tick ==
    /\ hour < MaxHour /\ ~due
    /\ hour' = hour + 1 /\ day' = DayOf(hour') /\ due' = TRUE
    /\ UNCHANGED <<tableVars, adminVars, request, fault, job, posting, billed, seen>>

\* The interval fires: yesterday, then today.  One push at a time: a run that
\* took longer than an hour would overlap the next.
PushStart ==
    /\ due /\ job = <<>>
    /\ due' = FALSE
    /\ job' = IF day > 1 THEN <<day - 1, day>> ELSE <<day>>
    /\ UNCHANGED <<ingestVars, hour, posting, billed, seen>>

Total(d) == SumFunctionOnSet([p \in Project |-> usage[p][d]], Project)

\* totalsForDay: a day nothing arrived on is not in the result.
PushRead ==
    /\ job # <<>> /\ posting = 0
    /\ posting' = Total(Head(job))
    /\ job' = IF posting' = 0 THEN Tail(job) ELSE job
    /\ UNCHANGED <<ingestVars, hour, due, billed, seen>>

\* Stripe takes the event unless it knows the identifier ws:day.
Known(d) == seen[d] # Never /\ hour - seen[d] < Window

Taken(d, value) ==
    IF Known(d) THEN UNCHANGED <<billed, seen>>
    ELSE /\ billed' = [billed EXCEPT ![d] = @ + value]
         /\ seen' = [seen EXCEPT ![d] = hour]

Posted == job' = Tail(job) /\ posting' = 0

\* The event reaches Stripe, whatever becomes of the answer.
PushPostHourly ==                                                \* mutant
    /\ posting > 0
    /\ billed' = [billed EXCEPT ![Head(job)] = @ + posting]
    /\ seen' = [seen EXCEPT ![Head(job)] = hour]
    /\ Posted
    /\ UNCHANGED <<ingestVars, hour, due>>
PushPost ==
    /\ posting > 0
    /\ Taken(Head(job), posting)
    /\ Posted
    /\ UNCHANGED <<ingestVars, hour, due>>

\* It does not: counted and logged, never retried by this run.
PushFails ==
    /\ posting > 0
    /\ Posted
    /\ fault' = TRUE
    /\ UNCHANGED <<tableVars, adminVars, day, request, hour, due, billed, seen>>

\* The process dies with the job's interval and the requests in progress.
Die ==
    /\ ServerDies
    /\ job' = <<>> /\ posting' = 0 /\ due' = FALSE
    /\ UNCHANGED <<hour, billed, seen>>

Next ==
    \/ (Serve \/ Fail \/ Administer) /\ UNCHANGED pushVars
    \/ Die
    \/ Tick \/ PushStart \/ PushRead \/ PushPost \/ PushFails

Spec == Init /\ [][Next]_vars

-------------------------------------------------------------------------------
TypeOK ==
    /\ IngestTypeOK
    /\ hour \in 0..MaxHour /\ due \in BOOLEAN
    /\ job \in Seq(Day) /\ Len(job) <= 2 /\ posting \in Nat
    /\ billed \in [Day -> Nat] /\ seen \in [Day -> Never..MaxHour]

\* The state is well typed and the meter never counts an entry that was not
\* stored, whatever fails, repeats or is deleted.
MeterSound == TypeOK /\ MeterWithin

\* Repeating the push within a day never doubles a bill: until the day is over
\* Stripe is told of no more entries than arrived on it.  The push goes on with
\* the day for as long again, and Stripe may have forgotten the identifier by
\* then: it can be told twice by the end of the next day, and once more by a run
\* that straddles it, but never again.
Tellings(d) == IF day = d THEN 1 ELSE IF day = d + 1 THEN 2 ELSE 3
BillBounded == \A d \in Day : billed[d] <= Tellings(d) * Total(d)
===============================================================================
