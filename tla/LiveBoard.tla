------------------------------ MODULE LiveBoard ------------------------------
(***************************************************************************)
(* A board open in a browser (apps/web/src/components/dashboard.tsx): it is *)
(* edited in place, saves every edit by itself, and measures itself again  *)
(* on a timer.  Saves, loader answers, gestures and navigation interleave; *)
(* requests may be slow, lost, refused or land after the page gave them up. *)
(*                                                                         *)
(* One person edits, and does one thing at a time: no other edit is made    *)
(* while the pointer holds a card.  The router and the server's handling   *)
(* of a request are external: an invalidation calls the loader again, and  *)
(* the answer of the last call is the one the page gets.                   *)
(***************************************************************************)
EXTENDS Canvas, Sequences, FiniteSets

CONSTANTS
    Dash, First,    \* the boards of the project, and the one that is opened
    Scripts,        \* sequences of edits the person may make
    MAX_WIDGETS     \* how many cards one board may hold: 48

Kinds == {"frame", "text", "front", "add", "copy", "remove", "nudge", "move", "resize"}

(* An edit the page offers: a card that is held has a name, a new one has    *)
(* the size of its preset.                                                 *)
Offered(e) ==
    /\ e.kind \in Kinds /\ e.dx \in Int /\ e.dy \in Int
    /\ e.kind \in {"move", "resize"} => e.card # "none"
    /\ e.kind = "add" =>
          /\ SnapToGrid(e.dx) = e.dx /\ e.dx \in MIN_WIDGET_W .. CANVAS_WIDTH
          /\ SnapToGrid(e.dy) = e.dy /\ e.dy \in MIN_WIDGET_H .. MAX_WIDGET_H

ASSUME BoardAssumption ==
    /\ MAX_WIDGETS \in Nat
    /\ First \in Dash /\ \A d \in Dash : d \notin Nat
    /\ \A s \in Scripts : Len(s) \in Nat /\ \A i \in 1 .. Len(s) : Offered(s[i])

VARIABLES
    script,         \* the edits of this behaviour, in the order they are made
    stored,         \* the server's rows: dashboards.layout
    place,          \* the board in the address bar
    loader,         \* the loader call whose answer is awaited
    id,             \* props.dashboardId
    layout,         \* props.layout
    waiting,        \* next !== applied: layout is not on the screen yet
    board,          \* the board on the screen
    active,         \* the gesture, with the rect it started from
    editing, visible,
    mounted,        \* there is a page: it takes edits and answers
    outlived,       \* a save that outlived its page is to read a board again
    edits, confirmed,
    timer,          \* the debounced save
    saves,          \* the calls of run() in progress
    net,            \* save requests the server has not handled
    saving,         \* state() === "saving"
    beating,
    wish,           \* history: each board with every edit made to it
    exposed         \* history: an edit was made or sent unprotected

page     == <<id, layout, waiting, board>>
saver    == <<edits, confirmed, timer, saves, net, saving>>
reader   == <<place, loader, beating>>
host     == <<active, editing, visible, mounted, outlived>>
history  == <<wish, exposed>>
vars == <<script, page, saver, reader, host, stored, history>>

-------------------------------------------------------------------------------
(* Boards and edits.                                                       *)

(* of is the board this was read from, for the properties: the page has no  *)
(* such tag.  frame stands for what decides the numbers (range, filter, test *)
(* mode, a card's query), text for what does not (titles, notes, the order  *)
(* of the cards); each holds the last edit that set it.                    *)
Content(of, cards, frame, text) ==
    [of |-> of, cards |-> cards, frame |-> frame, text |-> text]

WithRect(b, card, rect) ==
    Content(b.of, [c \in DOMAIN b.cards |-> IF c = card THEN rect ELSE b.cards[c]],
            b.frame, b.text)

(* readWidgets: a card is put on the grid when it is read.  It stops at      *)
(* MAX_WIDGETS, and no row has more.                                       *)
ParseBoard(b) ==
    Content(b.of, [c \in DOMAIN b.cards |-> NormaliseRect(b.cards[c])], b.frame, b.text)

(* What the stored contract accepts of a board (board.ts: Board).           *)
Storable(b) ==
    /\ Cardinality(DOMAIN b.cards) <= MAX_WIDGETS
    /\ \A c \in DOMAIN b.cards : Accepted(b.cards[c])

Occupied(b) == {b.cards[c] : c \in DOMAIN b.cards}

WithCard(b, card, w, h) ==
    LET slot == FindFreeSlot(Occupied(b), w, h)
    IN  Content(b.of, [c \in DOMAIN b.cards \cup {card} |-> IF c = card THEN slot ELSE b.cards[c]],
                b.frame, b.text)

Without(b, card) ==
    Content(b.of, [c \in DOMAIN b.cards \ {card} |-> b.cards[c]], b.frame, b.text)

Gestures == {"move", "resize"}

Reshaped(r, e) ==
    NormaliseRect(IF e.kind = "move" THEN MoveBy(r, e.dx, e.dy)
                                     ELSE ResizeBy(r, e.edge, e.dx, e.dy))

(* nudge: an arrow key moves the card, or its far corner with alt.          *)
Nudged(r, e) ==
    NormaliseRect(IF e.edge = {} THEN MoveBy(r, e.dx, e.dy)
                  ELSE [x |-> r.x, y |-> r.y, w |-> r.w + e.dx, h |-> r.h + e.dy])

(* The board an edit makes of b.  n names what it adds or sets.             *)
Edited(b, e, n) ==
    CASE e.kind = "frame" -> Content(b.of, b.cards, n, b.text)
      [] e.kind \in {"text", "front"} -> Content(b.of, b.cards, b.frame, n)
      [] e.kind = "add"   -> WithCard(b, n, e.dx, e.dy)
      [] e.kind = "copy"  -> IF e.card \in DOMAIN b.cards
                             THEN WithCard(b, n, b.cards[e.card].w, b.cards[e.card].h) ELSE b
      [] e.kind = "remove" -> Without(b, e.card)
      [] e.kind = "nudge" -> IF e.card \in DOMAIN b.cards
                             THEN WithRect(b, e.card, Nudged(b.cards[e.card], e)) ELSE b
      [] e.kind \in Gestures -> IF e.card \in DOMAIN b.cards
                             THEN WithRect(b, e.card, Reshaped(b.cards[e.card], e)) ELSE b

Refetches(e) == e.kind \in {"frame", "add"}
Debounced(e) == e.kind \in {"text", "nudge"} \cup Gestures
Arranges(e)  == e.kind \in {"add", "nudge"} \cup Gestures

NoRect    == [x |-> 0, y |-> 0, w |-> 0, h |-> 0]
NoBoard   == Content("none", <<>>, 0, 0)
NoGesture == [card |-> "none", from |-> NoRect, rect |-> NoRect]
NoTimer   == [edit |-> 0, layout |-> NoBoard, refetch |-> FALSE]
NoLoader  == [at |-> "none", of |-> "none", answer |-> NoBoard]

Holding  == active.card # "none"
Pending  == timer.edit # 0
Awaiting == loader.at # "none"

(* The board without the gesture that is under way.                        *)
Shown == IF Holding THEN WithRect(board, active.card, active.from) ELSE board

Unsaved == confirmed < edits
Settled == ~Unsaved /\ ~Holding

(* live(): a fresh answer would take nothing away from anybody.             *)
Live == mounted /\ ~editing /\ Settled /\ ~saving /\ visible

-------------------------------------------------------------------------------
Init ==
    /\ script \in Scripts
    /\ stored = [d \in Dash |-> Content(d, [c \in {d} |-> [x |-> 20, y |-> 45, w |-> 200, h |-> 160]], 0, 0)]
    /\ place = First /\ id = place
    /\ layout = ParseBoard(stored[id]) /\ waiting = FALSE /\ board = layout
    /\ loader = NoLoader
    /\ active = NoGesture /\ editing = FALSE /\ visible = TRUE
    /\ mounted = TRUE /\ outlived = FALSE
    /\ edits = 0 /\ confirmed = 0 /\ timer = NoTimer /\ saves = {} /\ net = {}
    /\ saving = FALSE /\ beating = FALSE
    /\ wish = [d \in Dash |-> ParseBoard(stored[d])] /\ exposed = FALSE

-------------------------------------------------------------------------------
(* Saving.                                                                 *)

(* run(): the request goes to the board that is open now.                   *)
Send(p) ==
    /\ saves' = saves \cup {[edit |-> p.edit, refetch |-> p.refetch, at |-> "sent"]}
    /\ net' = net \cup {[edit |-> p.edit, layout |-> p.layout, to |-> id]}
    /\ saving' = TRUE

(* An answer that is older than this edit may reach the screen after it:    *)
(* no answer the save itself asks for will replace it.                      *)
Unprotected(b, pending, refetch) ==
    \/ ~refetch /\ (Awaiting \/ pending \/ \E s \in saves : s.refetch)
    \/ b.of # id

(* The edit about to be made, as run() will send it.                        *)
Payload(next, e) == [edit |-> edits + 1, layout |-> next, refetch |-> Refetches(e)]

\* mutant: a pending debounce is not cancelled
ArmedStill(p, debounced) == IF debounced THEN p ELSE timer

(* clearTimeout: the next edit carries whatever the last one had not sent.  *)
Armed(p, debounced) == IF debounced THEN p ELSE NoTimer

(* persist(next, opts): before is the board next was derived from, pending   *)
(* whether an answer still waits behind it.                                *)
Persist(before, pending, next, e) ==
    /\ board' = next
    /\ edits' = edits + 1
    /\ timer' = Armed(Payload(next, e), Debounced(e))
    /\ \/ Debounced(e) /\ UNCHANGED <<saves, net, saving>>
       \/ ~Debounced(e) /\ Send(Payload(next, e))
    /\ wish' = [wish EXCEPT ![id] = Edited(wish[id], e, edits + 1)]
    /\ exposed' = \/ exposed
                  \/ Unprotected(before, pending, Refetches(e))
                  \/ ~Debounced(e) /\ net # {}
    /\ UNCHANGED confirmed

(* The debounce runs out.                                                  *)
TimerFires ==
    /\ Pending
    /\ timer' = NoTimer
    /\ Send(timer)
    /\ exposed' = (exposed \/ net # {} \/ timer.layout.of # id)
    /\ UNCHANGED <<script, page, edits, confirmed, reader, host, stored, wish>>

(* The effect over the loader's answer: l is props.layout, and pending says *)
(* that it is not the one applied last.                                    *)
Take(l, pending, open) ==
    /\ waiting' = (pending /\ ~open)
    /\ board' = IF pending /\ open THEN l ELSE board

\* mutant: whichever save settles last speaks for every edit
SettleAll(done) ==
    /\ saves' = saves \ done
    /\ confirmed' = IF done = {} THEN confirmed ELSE edits
    /\ saving' = (saving /\ done = {})

\* mutant: an earlier save that settles later walks the count back
SettleBack(done) ==
    /\ saves' = saves \ done
    /\ confirmed' \in IF done = {} THEN {confirmed} ELSE {s.edit : s \in done}
    /\ saving' = (saving /\ done = {})

(* The end of these runs, well or badly.  Confirming an edit confirms every *)
(* edit before it, so confirmed only moves forward.                        *)
Settle(done) ==
    /\ saves' = saves \ done
    /\ confirmed' \in {confirmed} \cup {s.edit : s \in done}
    /\ confirmed <= confirmed' /\ \A s \in done : s.edit <= confirmed'
    /\ saving' = (saving /\ done = {})

\* mutant: the gate does not look at the gesture
GateIgnoresGesture(confirms) == edits <= confirms

\* mutant: the gate does not look at what is unsaved
GateIgnoresEdits(confirms) == ~Holding

GateOpen(confirms) == edits <= confirms /\ ~Holding

SaveEnds(s) ==
    /\ Settle({s})
    /\ Take(layout, waiting, GateOpen(confirmed'))
    /\ UNCHANGED <<id, layout, edits, timer>>

(* persistBoard: the row is the request's, whatever it was before.          *)
Land(r) ==
    /\ Storable(r.layout)
    /\ stored' = [stored EXCEPT ![r.to] = r.layout]
    /\ net' = net \ {r}
    /\ saves' = {IF s.edit = r.edit
                 THEN [edit |-> s.edit, refetch |-> s.refetch, at |-> "landed"] ELSE s :
                 s \in saves}
    /\ UNCHANGED <<script, page, edits, confirmed, timer, saving, reader, host,
                   history>>

(* The server says no, or the request never gets there.                    *)
Refuse(r) ==
    /\ net' = net \ {r}
    /\ exposed' = TRUE
    /\ \/ \E s \in saves : s.edit = r.edit /\ SaveEnds(s)
       \/ UNCHANGED <<page, edits, confirmed, timer, saves, saving>>
    /\ UNCHANGED <<script, reader, host, stored, wish>>

Asked(d) == [at |-> "asked", of |-> d, answer |-> NoBoard]

(* The answer of a save: the board is read again, or the save is over.      *)
SaveAnswered(s) ==
    /\ s.at = "landed"
    /\ \/ /\ s.refetch
          /\ loader' = Asked(place)
          /\ saves' = (saves \ {s}) \cup {[edit |-> s.edit, refetch |-> TRUE, at |-> "reading"]}
          /\ UNCHANGED <<page, edits, confirmed, timer, saving>>
       \/ ~s.refetch /\ SaveEnds(s) /\ UNCHANGED loader
    /\ UNCHANGED <<script, net, place, beating, host, stored, history>>

\* mutant: no deadline on the invalidation a save awaits
GiveUpRequest(s) ==
    /\ s.at # "reading"
    /\ SaveEnds(s)
    /\ exposed' = TRUE
    /\ UNCHANGED <<script, net, reader, host, stored, wish>>

(* deadline(): what it was waiting for may still happen.                    *)
GiveUp(s) ==
    /\ SaveEnds(s)
    /\ exposed' = TRUE
    /\ UNCHANGED <<script, net, reader, host, stored, wish>>

-------------------------------------------------------------------------------
(* Reading.                                                                *)

(* beat(): router.invalidate(), if it is safe to ask.                       *)
Beat ==
    /\ ~beating /\ Live
    /\ beating' = TRUE /\ loader' = Asked(place)
    /\ UNCHANGED <<script, page, saver, place, host, stored, history>>

(* A tab that comes back beats at once.                                    *)
Wake ==
    /\ visible' = ~visible
    /\ LET beats == mounted /\ ~visible /\ ~beating /\ ~editing /\ Settled /\ ~saving
       IN  /\ beating' = (beating \/ beats)
           /\ loader' = IF beats THEN Asked(place) ELSE loader
    /\ UNCHANGED <<script, page, saver, place, active, editing, mounted, outlived, stored,
                   history>>

(* The other board's address: the page stays mounted until the answer.      *)
Navigate(d) ==
    /\ mounted /\ d # place
    /\ place' = d /\ loader' = Asked(d)
    /\ exposed' = (exposed \/ (d = board.of /\ Unsaved))
    /\ UNCHANGED <<script, page, saver, beating, host, stored, wish>>

(* Some other page, and from there a board again: the page is unmounted, and *)
(* onCleanup drops what is on its debounce.  A save that is out may still    *)
(* ask for its board, but what it then sets is nobody's.                    *)
Leave(d) ==
    /\ mounted' = FALSE /\ place' = d /\ loader' = Asked(d)
    /\ board' = Shown /\ waiting' = FALSE
    /\ active' = NoGesture /\ editing' = FALSE /\ beating' = FALSE
    /\ timer' = NoTimer /\ saves' = {} /\ saving' = FALSE /\ confirmed' = edits
    /\ outlived' = (outlived \/ \E s \in saves : s.refetch)
    /\ exposed' = (exposed \/ Pending \/ net # {} \/ \E s \in saves : s.refetch)
    /\ UNCHANGED <<script, id, layout, edits, net, visible, stored, wish>>

OutlivedSaveReads ==
    /\ outlived /\ outlived' \in BOOLEAN
    /\ loader' = Asked(place)
    /\ UNCHANGED <<script, page, saver, place, beating, active, editing, visible, mounted,
                   stored, history>>

(* loadProject reads the row ...                                           *)
Read ==
    /\ loader.at = "asked"
    /\ loader' = [at |-> "read", of |-> place, answer |-> ParseBoard(stored[place])]
    /\ UNCHANGED <<script, page, saver, place, beating, host, stored, history>>

(* ... and the page gets it: everyone who awaits an invalidation goes on.   *)
Answer ==
    LET l    == loader.answer
        done == {s \in saves : s.at = "reading"}
    IN  /\ loader.at = "read"
        /\ loader' = NoLoader /\ beating' = FALSE
        /\ id' = loader.of /\ layout' = l
        /\ Settle(done)
        /\ Take(l, TRUE, GateOpen(confirmed'))
        /\ mounted' = TRUE
        /\ exposed' = (exposed \/ (loader.of # id /\ Pending))
        /\ UNCHANGED <<script, edits, timer, net, place, active, editing, visible, outlived,
                       stored, wish>>

LoaderFails ==
    LET done == {s \in saves : s.at = "reading"}
    IN  /\ loader.at \in {"asked", "read"}
        /\ loader' = NoLoader /\ beating' = FALSE
        /\ Settle(done)
        /\ Take(layout, waiting, GateOpen(confirmed'))
        /\ exposed' = (exposed \/ done # {})
        /\ UNCHANGED <<script, id, layout, edits, timer, net, place, host, stored, wish>>

(* A socket somebody holds: neither answered nor reset.                    *)
LoaderHangs ==
    /\ loader.at \in {"asked", "read"}
    /\ loader' = [at |-> "lost", of |-> "none", answer |-> NoBoard]
    /\ UNCHANGED <<script, page, saver, place, beating, host, stored, history>>

BeatGivesUp ==
    /\ beating /\ beating' = FALSE
    /\ UNCHANGED <<script, page, saver, place, loader, host, stored, history>>

-------------------------------------------------------------------------------
(* The person.                                                             *)

Has(e) == e.kind \in {"frame", "text", "front", "add"} \/ e.card \in DOMAIN board.cards

Arrange ==
    /\ mounted /\ ~Holding
    /\ editing' = ~editing
    /\ UNCHANGED <<script, page, saver, reader, active, visible, mounted, outlived, stored,
                   history>>

Edit ==
    /\ mounted /\ edits < Len(script) /\ ~Holding
    /\ LET e == script[edits + 1]
       IN  /\ e.kind \notin Gestures /\ Has(e) /\ (Arranges(e) => editing)
           /\ Persist(board, waiting, Edited(board, e, edits + 1), e)
    /\ UNCHANGED <<script, id, layout, waiting, reader, host, stored>>

(* begin() and the pointer's moves: the board is changed, nothing is saved. *)
Grab ==
    /\ mounted /\ edits < Len(script) /\ ~Holding /\ editing
    /\ LET e    == script[edits + 1]
           from == board.cards[e.card]
       IN  /\ e.kind \in Gestures /\ Has(e)
           /\ active' = [card |-> e.card, from |-> from, rect |-> Reshaped(from, e)]
           /\ board' = WithRect(board, e.card, Reshaped(from, e))
    /\ UNCHANGED <<script, id, layout, waiting, saver, reader, editing, visible, mounted,
                   outlived, stored, history>>

(* finish(): the gate opens before the card is committed or put back.       *)
Uncovered == IF waiting /\ ~Unsaved THEN layout ELSE board

Release ==
    /\ Holding
    /\ active' = NoGesture
    /\ waiting' = (waiting /\ Unsaved)
    /\ Persist(Uncovered, waiting', WithRect(Uncovered, active.card, active.rect),
               script[edits + 1])
    /\ UNCHANGED <<script, id, layout, reader, editing, visible, mounted, outlived, stored>>

Escape ==
    /\ Holding
    /\ active' = NoGesture
    /\ waiting' = (waiting /\ Unsaved)
    /\ board' = WithRect(Uncovered, active.card, active.from)
    /\ UNCHANGED <<script, id, layout, saver, reader, editing, visible, mounted, outlived, stored,
                   history>>

-------------------------------------------------------------------------------
Next ==
    \/ TimerFires \/ Beat \/ Wake \/ Read \/ Answer \/ LoaderFails \/ LoaderHangs
    \/ BeatGivesUp \/ Arrange \/ Edit \/ Grab \/ Release \/ Escape
    \/ \E r \in net : Land(r) \/ Refuse(r)
    \/ \E s \in saves : SaveAnswered(s) \/ GiveUp(s)
    \/ \E d \in Dash : Navigate(d) \/ Leave(d)
    \/ OutlivedSaveReads

Spec == Init /\ [][Next]_vars
Fairness ==
    /\ WF_vars(TimerFires) /\ WF_vars(Beat) /\ WF_vars(BeatGivesUp)
    /\ WF_vars(\E s \in saves : GiveUp(s))
    /\ SF_vars(Read) /\ SF_vars(Answer)
FairSpec == Spec /\ Fairness

-------------------------------------------------------------------------------
(* Types, so far as the proofs need them.                                  *)
TypeOK ==
    /\ edits \in Nat /\ confirmed \in Nat /\ timer.edit \in Nat
    /\ \A s \in saves : s.edit \in Nat
    /\ saving \in BOOLEAN /\ waiting \in BOOLEAN

(* unsaved() says what it means, "the server has not seen my most recent    *)
(* change": the last edit is on its debounce or in a save that is not over, *)
(* whatever other saves are out, late or given up.                         *)
GateIsTrue ==
    /\ confirmed <= edits
    /\ Unsaved <=> (Pending \/ \E s \in saves : s.edit = edits)
    /\ Pending => timer.edit = edits
    /\ saving => saves # {}

(* A card that is held is where the pointer has put it.                     *)
PreviewShown ==
    Holding => /\ active.card \in DOMAIN board.cards
               /\ board.cards[active.card] = active.rect

(* The page knows what it has not saved, and shows what is held: the gate    *)
(* over loader answers and the beat (dashboard.tsx: unsaved, live) says the  *)
(* truth whatever saves are out, and nothing moves a card under a gesture.  *)
Contract == TypeOK /\ GateIsTrue /\ PreviewShown

(* Whatever an edit makes of a card, the stored contract accepts its place,  *)
(* but for how far down findFreeSlot puts a new one, which knows no limit.   *)
(* How many cards there are is nobody's check but the contract's.           *)
Fits(card, r) ==
    /\ r.x \in 0 .. CANVAS_WIDTH - r.w /\ 0 <= r.y
    /\ r.w \in MIN_WIDGET_W .. CANVAS_WIDTH /\ r.h \in MIN_WIDGET_H .. MAX_WIDGET_H
    /\ r.y <= MAX_WIDGET_Y \/ card \in Nat

Legal ==
    \A b \in {board, layout} \cup {r.layout : r \in net} :
        \A c \in DOMAIN b.cards : Fits(c, b.cards[c])

(* An edit is not undone: the screen shows every edit made to the board it  *)
(* shows, and once nothing is out the row of a board holds every edit made  *)
(* to it, unless an edit was sent unprotected: two save requests on their    *)
(* way at once, a save that was refused (one card too many), failed or was   *)
(* given up, an edit without a refetch beside an older answer, or an edit    *)
(* whose board or page was left before it was saved.                       *)
EditsKept ==
    ~exposed =>
        /\ Shown = wish[board.of]
        /\ \A d \in Dash : (net = {} /\ (Pending => d # id)) => ParseBoard(stored[d]) = wish[d]

(* What an edit does to a card stays on the canvas, and stays.              *)
Kept == Legal /\ EditsKept

Left == mounted /\ visible /\ ~editing /\ ~Holding

(* Whatever was lost, late or given up, a board that is visible and left    *)
(* alone ends up showing what the server holds, and goes on reading it:     *)
(* deadline() and the finally of run() strand nothing (dashboard.tsx).      *)
Converges == <>[]Left => /\ <>[](board = ParseBoard(stored[id]))
                         /\ []<>Live

=============================================================================
