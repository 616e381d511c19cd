------------------------------ MODULE BrowserTag ------------------------------
(***************************************************************************)
(* The browser tag (packages/web-tag/src: core.ts behind browser.ts): the  *)
(* tabs of one visitor on one site, which share the site's storage and     *)
(* nothing else.                                                           *)
(*                                                                         *)
(* Every callback of the page runs to its end before the next one, so an   *)
(* action is one whole call, listener or timer, and the operators it is    *)
(* made of take a world to a world: the page of the tab that runs, the     *)
(* storage it sees, and what left the page.  Entries are numbers; names,   *)
(* attributes, the device id and the measurements themselves are left out. *)
(* A beacon is fire-and-forget: what was handed to send() has been sent.   *)
(***************************************************************************)
EXTENDS Naturals, Sequences, FiniteSets

CONSTANTS
    Tab,
    Person,         \* what the customer passes to user()
    Chosen,         \* and to session(), none of them an id the tag has minted
    Referrer,       \* hosts of other sites a page is reached from
    Configs,        \* [mode, storage]: data-mode, and data-ephemeral or blocked
    MaxBuffer,      \* MAX_BUFFER
    IdleTime,       \* SESSION_IDLE_MS, in ticks of the model's clock
    MaxId,          \* bound: entries recorded
    MaxSession,     \* bound: session ids minted
    MaxTime         \* bound: ticks of the clock

Id == 1..MaxId
SessionId == 1..MaxSession
AnySession == SessionId \cup Chosen

ASSUME TagAssumption ==
    /\ MaxBuffer \in Nat \ {0} /\ IdleTime \in Nat /\ MaxId \in Nat
    /\ MaxSession \in Nat /\ MaxTime \in Nat /\ \A c \in Chosen : c \notin Nat
    /\ Configs \subseteq [mode : {"immediate", "interval", "manual"},
                          storage : {"local", "session", "none"}]

VARIABLES
    cfg,
    now,
    page,           \* the document of each tab
    store,          \* localStorage, and the sessionStorage of each tab
    next,           \* id of the next entry
    minted,         \* session ids minted
    sent,           \* the entries handed to send()
    stamps,         \* the resources they went out with
    lost            \* entries dropped, withdrawn, or gone with their page

vars == <<cfg, now, page, store, next, minted, sent, stamps, lost>>

\* No person is named, no other site led here.
None == "none"

\* at: whether there is a document with the tag started, and not stopped.
Page == [at : {"away", "open", "stopped"}, consented : BOOLEAN,
         buffer : Seq(Id), armed : BOOLEAN, session : AnySession \cup {0},
         user : Person \cup {None}, seen : Nat, ref : Referrer \cup {None},
         from : Referrer \cup {None}, leave : BOOLEAN, vital : BOOLEAN]

Away == [at |-> "away", consented |-> FALSE, buffer |-> <<>>, armed |-> FALSE,
         session |-> 0, user |-> None, seen |-> 0, ref |-> None, from |-> None,
         leave |-> FALSE, vital |-> FALSE]

\* KEY_CONSENT and KEY_SESSION.  A stamp with seen = 0 is none.
Store == [consent : BOOLEAN, seen : Nat, ref : Referrer \cup {None},
          session : AnySession \cup {0}]
Empty == [consent |-> FALSE, seen |-> 0, ref |-> None, session |-> 0]

Area(t) == IF cfg.storage = "session" THEN t ELSE "local"
IdsOf(s) == {s[i] : i \in DOMAIN s}

-------------------------------------------------------------------------------
(* core.ts.                                                                *)

World(t) ==
    [page |-> page[t], store |-> store[Area(t)], next |-> next, minted |-> minted,
     sent |-> sent, stamps |-> stamps, lost |-> lost]

Blocked(w, s) == IF cfg.storage = "none" THEN w ELSE [w EXCEPT !.store = s]

PushUnbounded(w) ==                                              \* mutant
    [w EXCEPT !.page.buffer = Append(@, w.next), !.next = @ + 1]

Push(w) ==
    LET full == Len(w.page.buffer) >= MaxBuffer
        b == IF full THEN Tail(w.page.buffer) ELSE w.page.buffer
    IN [w EXCEPT !.page.buffer = Append(b, w.next), !.next = @ + 1,
                 !.lost = @ \cup (IdsOf(w.page.buffer) \ IdsOf(b))]

\* The resource is stamped on the whole batch.
FlushCopies(w) ==                                                \* mutant
    IF ~w.page.consented \/ w.page.buffer = <<>> THEN w
    ELSE [w EXCEPT !.sent = @ \cup IdsOf(w.page.buffer),
                   !.stamps = @ \cup {[session |-> w.page.session, user |-> w.page.user]}]

Flush(w) ==
    IF ~w.page.consented \/ w.page.buffer = <<>> THEN w
    ELSE [w EXCEPT !.page.buffer = <<>>,
                   !.sent = @ \cup IdsOf(w.page.buffer),
                   !.stamps = @ \cup {[session |-> w.page.session, user |-> w.page.user]}]

\* Whether an emit opens the coalescing window.
ArmsFirst(w) ==                                                  \* mutant
    cfg.mode = "immediate" /\ ~w.page.armed /\ Len(w.page.buffer) = 1
Arms(w) == cfg.mode = "immediate" /\ ~w.page.armed

\* flushAt: a manual page has none.
Fills(w) == cfg.mode # "manual" /\ Len(w.page.buffer) >= MaxBuffer

Emit(w, urgent) ==
    LET p == Push(w) IN
    IF ~p.page.consented THEN p
    ELSE IF urgent \/ Fills(p) THEN Flush(p)
    ELSE IF Arms(p) THEN [p EXCEPT !.page.armed = TRUE]
    ELSE p

SaveSession(w) ==
    IF w.page.consented /\ w.page.seen > 0
    THEN Blocked(w, [w.store EXCEPT !.seen = w.page.seen, !.ref = w.page.ref,
                                    !.session = w.page.session])
    ELSE w

Minted(w) == [w EXCEPT !.minted = @ + 1, !.page.session = w.minted + 1]

\* The visit has expired, or somebody arrives from somewhere new.
Cuts(w) ==
    \/ now - w.page.seen > IdleTime
    \/ w.page.from \notin {None, w.page.ref}

Bump(w) ==
    LET cut == Push([Minted(w) EXCEPT !.page.ref = w.page.from])
    IN SaveSession([IF Cuts(w) THEN cut ELSE w EXCEPT !.page.seen = now])

Log(w, urgent) == Emit(Bump(w), urgent)
View(w) == Emit([Bump(w) EXCEPT !.page.leave = TRUE], FALSE)

Leave(w) ==
    IF w.page.leave THEN Emit([w EXCEPT !.page.leave = FALSE], FALSE) ELSE w
Vital(w) ==
    IF w.page.vital THEN w ELSE Emit([w EXCEPT !.page.vital = TRUE], FALSE)

Session(w, id) == SaveSession([w EXCEPT !.page.session = id, !.page.seen = now])

UserKeepsSession(w, u) == [w EXCEPT !.page.user = u]             \* mutant
User(w, u) ==
    IF u = w.page.user THEN w ELSE Session(Minted([w EXCEPT !.page.user = u]), w.minted + 1)

ForgetNothing(w) == [w EXCEPT !.page.consented = FALSE, !.store = Empty,  \* mutant
                              !.lost = @ \cup IdsOf(w.page.buffer)]
Forget(w) ==
    [w EXCEPT !.page.consented = FALSE, !.page.buffer = <<>>, !.store = Empty,
              !.lost = @ \cup IdsOf(w.page.buffer)]

Agree(w) ==
    LET s == Blocked(w, [w.store EXCEPT !.consent = TRUE])
    IN Flush(SaveSession([s EXCEPT !.page.consented = TRUE]))

\* The commands of the page's own code.
Commands == [op : {"log", "error", "page", "flush", "yes", "no"}]
                \cup [op : {"user"}, user : Person \cup {None}]
                \cup [op : {"session"}, id : Chosen]

Call(w, c) ==
    CASE c.op = "log"     -> Log(w, FALSE)
      [] c.op = "error"   -> Log(w, TRUE)
      [] c.op = "page"    -> View(w)
      [] c.op = "session" -> Session(w, c.id)
      [] c.op = "user"    -> User(w, c.user)
      [] c.op = "flush"   -> Flush(w)
      [] c.op = "yes"     -> Agree(w)
      [] c.op = "no"      -> Forget(w)

\* createTag: a stored session is adopted while its visit is open.
Created(t, from) ==
    LET w == World(t)
        s == w.store
        answered == cfg.storage = "session" \/ s.consent
        adopts == answered /\ s.session # 0 /\ now - s.seen <= IdleTime
        blank == [w EXCEPT !.page = [Away EXCEPT !.at = "open", !.from = from]]
        known == [blank EXCEPT !.page.consented = TRUE, !.page.seen = s.seen, !.page.ref = s.ref]
    IN CASE adopts -> [known EXCEPT !.page.session = s.session]
         [] answered /\ ~adopts -> Minted(known)
         [] OTHER -> Minted(blank)

-------------------------------------------------------------------------------
(* browser.ts.                                                             *)

Init ==
    /\ cfg \in Configs
    /\ now = IdleTime + 1
    /\ page = [t \in Tab |-> Away]
    /\ store = [a \in Tab \cup {"local"} |-> Empty]
    /\ next = 1 /\ minted = 0
    /\ sent = {} /\ stamps = {} /\ lost = {}

Becomes(t, w) ==
    /\ w.next <= MaxId + 1 /\ w.minted <= MaxSession
    /\ page' = [page EXCEPT ![t] = w.page]
    /\ store' = [store EXCEPT ![Area(t)] = w.store]
    /\ next' = w.next /\ minted' = w.minted
    /\ sent' = w.sent /\ stamps' = w.stamps /\ lost' = w.lost
    /\ UNCHANGED <<cfg, now>>

Open(t) == page[t].at = "open"

Tick ==
    /\ now < IdleTime + 1 + MaxTime
    /\ now' = now + 1
    /\ UNCHANGED <<cfg, page, store, next, minted, sent, stamps, lost>>

\* start(): the first view, what the page had queued, and a flush.
Start(t, from, queued) ==
    /\ page[t].at = "away"
    /\ LET first == View(Created(t, from))
           then == IF queued = <<>> THEN first ELSE Call(first, queued[1])
       IN Becomes(t, Flush(then))

Command(t, c) == Open(t) /\ Becomes(t, Call(World(t), c))

\* A click, a submit or an uncaught error logs as the page's own code does.
Route(t) == Open(t) /\ Becomes(t, View(Leave(World(t))))

Hidden(t) == Open(t) /\ Becomes(t, Flush(Leave(Vital(World(t)))))

PageHide(t) == Open(t) /\ Becomes(t, Flush(Leave(World(t))))

Timer(t) ==
    /\ Open(t) /\ page[t].armed
    /\ Becomes(t, Flush([World(t) EXCEPT !.page.armed = FALSE]))

Interval(t) ==
    /\ Open(t) /\ cfg.mode = "interval"
    /\ Becomes(t, Flush(World(t)))

Stop(t) ==
    /\ Open(t)
    /\ LET w == Flush(World(t)) IN
       Becomes(t, [w EXCEPT !.page = [Away EXCEPT !.at = "stopped"],
                            !.lost = @ \cup IdsOf(w.page.buffer)])

\* The document is gone, with or without a pagehide before.
Gone(t) ==
    /\ page[t].at # "away"
    /\ Becomes(t, [World(t) EXCEPT !.page = Away, !.lost = @ \cup IdsOf(page[t].buffer)])

-------------------------------------------------------------------------------
Queues == {<<>>} \cup {<<c>> : c \in {d \in Commands : d.op \in {"yes", "no", "user"}}}

Next ==
    \/ Tick
    \/ \E t \in Tab :
          \/ \E from \in Referrer \cup {None}, q \in Queues : Start(t, from, q)
          \/ \E c \in Commands : Command(t, c)
          \/ Route(t) \/ Hidden(t) \/ PageHide(t)
          \/ Timer(t) \/ Interval(t) \/ Stop(t) \/ Gone(t)

Spec == Init /\ [][Next]_vars

-------------------------------------------------------------------------------
Held(t) == IdsOf(page[t].buffer)

TypeOK ==
    /\ cfg \in Configs /\ now \in Nat
    /\ page \in [Tab -> Page] /\ store \in [Tab \cup {"local"} -> Store]
    /\ next \in 1..MaxId + 1 /\ minted \in 0..MaxSession
    /\ sent \subseteq Id /\ lost \subseteq Id
    /\ stamps \subseteq [session : AnySession, user : Person \cup {None}]

\* Every entry recorded is in one buffer, or handed to send() once, or dropped,
\* withdrawn or gone with its page; and no buffer outgrows its bound.
Books ==
    /\ \A t \in Tab : Len(page[t].buffer) <= MaxBuffer
    /\ \A t \in Tab : Cardinality(Held(t)) = Len(page[t].buffer)
    /\ \A t \in Tab : Held(t) \cap (sent \cup lost) = {}
    /\ \A t, u \in Tab : t # u => Held(t) \cap Held(u) = {}
    /\ sent \cap lost = {}
    /\ sent \cup lost \cup UNION {Held(t) : t \in Tab} = 1..next - 1

\* An immediate page that may send and has something to send has its window
\* open, whatever answers and withdrawals came before: `armed` outlives them.
WindowOpen ==
    \A t \in Tab :
        Open(t) /\ page[t].consented /\ page[t].buffer # <<>> /\ cfg.mode = "immediate"
        => page[t].armed

Contract == TypeOK /\ Books /\ WindowOpen

\* No session id the tag mints goes out with two people ("one visit spanning two
\* accounts belongs to neither"), across tabs that share the stored session and
\* whatever sessions the page chooses in between.  What the batch holds may have
\* been recorded before the sign-in all the same: user() flushes nothing.
OnePerson ==
    \A s, r \in stamps :
        /\ s.session = r.session /\ s.session \in SessionId
        /\ s.user # None /\ r.user # None
        => s.user = r.user

===============================================================================
