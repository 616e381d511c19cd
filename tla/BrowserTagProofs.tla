--------------------------- MODULE BrowserTagProofs ---------------------------
(***************************************************************************)
(* The browser tag's books, its coalescing window, and that no session it  *)
(* mints goes out with two people, for any number of tabs, people,         *)
(* referrers and sessions the page chooses, every configuration and size.  *)
(*                                                                         *)
(* An action applies operators to the world of one tab.  Each of them      *)
(* keeps that world Good beside what the other tabs hold; the world a step *)
(* ends in then becomes the next state.                                    *)
(***************************************************************************)
EXTENDS BrowserTag, FiniteSetTheorems, SequenceTheorems, TLAPS

Anyone == Person \cup {None}
AnyId == Nat \cup Chosen
Stamp == [session : AnyId, user : Anyone]

\* A world on the way: the bounds on ids are looked at when it becomes a state.
PageOnTheWay ==
    [at : {"away", "open", "stopped"}, consented : BOOLEAN,
     buffer : Seq(Nat), armed : BOOLEAN, session : AnyId,
     user : Anyone, seen : Nat, ref : Referrer \cup {None},
     from : Referrer \cup {None}, leave : BOOLEAN, vital : BOOLEAN]
StoreOnTheWay ==
    [consent : BOOLEAN, seen : Nat, ref : Referrer \cup {None}, session : AnyId]
WorldOnTheWay ==
    [page : PageOnTheWay, store : StoreOnTheWay, next : Nat \ {0}, minted : Nat,
     sent : SUBSET Nat, stamps : SUBSET Stamp, lost : SUBSET Nat]

Distinct(s) == \A i, j \in DOMAIN s : s[i] = s[j] => i = j

\* The books of a world, O being what the other tabs hold.
Balanced(w, O) ==
    /\ Len(w.page.buffer) <= MaxBuffer /\ Distinct(w.page.buffer)
    /\ IdsOf(w.page.buffer) \cap (w.sent \cup w.lost \cup O) = {}
    /\ w.sent \cap w.lost = {} /\ O \cap (w.sent \cup w.lost) = {}
    /\ w.sent \cup w.lost \cup IdsOf(w.page.buffer) \cup O = 1..w.next - 1

\* A session is chosen by the page, or one of the n minted, or none (0).
Known(s, n) == s \in Chosen \/ (s \in Nat /\ s <= n)
Live(s, n) == s \in Chosen \/ (s \in Nat /\ 1 <= s /\ s <= n)

\* Its sessions, Q being the visits on the other tabs: what went out with a
\* minted session of one of them names nobody but its person.
Names(st, visit) ==
    \A r \in st :
        /\ r.session = visit.session /\ visit.session \notin Chosen
        /\ visit.user # None /\ r.user # None
        => r.user = visit.user
Apart(w, Q) ==
    /\ Known(w.store.session, w.minted)
    /\ \A r \in w.stamps : Live(r.session, w.minted)
    /\ \A q \in Q : Known(q.session, w.minted)
    /\ \A s \in w.stamps \cup Q : Names(w.stamps, s)

\* And those of its own page: a minted session with a person is no other tab's.
Visit(p) == [session |-> p.session, user |-> p.user]
Alone(p, Q) ==
    p.session \notin Chosen /\ p.user # None
    => \A q \in Q : q.user # None => q.session # p.session
Own(w, Q) ==
    /\ w.page.at = "open" /\ Live(w.page.session, w.minted)
    /\ Names(w.stamps, Visit(w.page)) /\ Alone(w.page, Q)

Good(w, O, Q) == w \in WorldOnTheWay /\ Balanced(w, O) /\ Apart(w, Q) /\ Own(w, Q)

\* The coalescing window, as WindowOpen has it.
Windowed(w) ==
    w.page.consented /\ w.page.buffer # <<>> /\ cfg.mode = "immediate" => w.page.armed

Given == TagAssumption /\ now \in Nat

LEMMA ChosenApart ==
    ASSUME Given
    PROVE  \A c \in Chosen : c \notin Nat
BY DEF Given, TagAssumption

-------------------------------------------------------------------------------
(* Buffers.                                                                *)

LEMMA IdsOfAppend ==
    ASSUME NEW s \in Seq(Nat), NEW n \in Nat
    PROVE  /\ Append(s, n) \in Seq(Nat) /\ Len(Append(s, n)) = Len(s) + 1
           /\ IdsOf(Append(s, n)) = IdsOf(s) \cup {n}
           /\ (Distinct(s) /\ n \notin IdsOf(s) => Distinct(Append(s, n)))
<1> DEFINE a == Append(s, n)
<1>1. a \in Seq(Nat) /\ Len(a) = Len(s) + 1 /\ Len(s) \in Nat
  OBVIOUS
<1>2. DOMAIN a = 1..Len(s) + 1 /\ DOMAIN s = 1..Len(s)
  OBVIOUS
<1>3. \A i \in 1..Len(s) : a[i] = s[i]
  OBVIOUS
<1>4. a[Len(s) + 1] = n
  OBVIOUS
<1> HIDE DEF a
<1>5. \A i \in DOMAIN a : i \in DOMAIN s \/ i = Len(s) + 1
  BY <1>1, <1>2
<1>6. \A i \in DOMAIN s : i \in DOMAIN a
  BY <1>1, <1>2
<1>7. Len(s) + 1 \in DOMAIN a
  BY <1>1, <1>2
<1>8. IdsOf(a) = IdsOf(s) \cup {n}
  BY <1>2, <1>3, <1>4, <1>5, <1>6, <1>7 DEF IdsOf
<1>9. Distinct(s) /\ n \notin IdsOf(s) => Distinct(a)
  BY <1>2, <1>3, <1>4, <1>5 DEF Distinct, IdsOf
<1> QED
  BY <1>1, <1>8, <1>9 DEF a

LEMMA IdsOfTail ==
    ASSUME NEW s \in Seq(Nat), s # <<>>
    PROVE  /\ Tail(s) \in Seq(Nat) /\ Len(Tail(s)) = Len(s) - 1
           /\ IdsOf(Tail(s)) \subseteq IdsOf(s)
           /\ (Distinct(s) => Distinct(Tail(s)))
<1> DEFINE r == Tail(s)
<1>1. r \in Seq(Nat) /\ Len(r) = Len(s) - 1 /\ Len(s) \in Nat
  OBVIOUS
<1>2. DOMAIN r = 1..Len(s) - 1 /\ DOMAIN s = 1..Len(s)
  BY <1>1
<1>3. \A i \in 1..Len(s) - 1 : r[i] = s[i + 1]
  OBVIOUS
<1> HIDE DEF r
<1>4. \A i \in DOMAIN r : i \in Nat /\ i + 1 \in DOMAIN s /\ r[i] = s[i + 1]
  BY <1>1, <1>2, <1>3
<1>5. IdsOf(r) \subseteq IdsOf(s)
  BY <1>4 DEF IdsOf
<1>6. ASSUME Distinct(s), NEW i \in DOMAIN r, NEW j \in DOMAIN r, r[i] = r[j]
      PROVE  i = j
  <2>1. i + 1 = j + 1
    BY <1>4, <1>6 DEF Distinct
  <2> QED
    BY <1>4, <2>1
<1> QED
  BY <1>1, <1>5, <1>6 DEF r, Distinct

LEMMA SeqGrows ==
    ASSUME NEW S, NEW T, NEW s \in Seq(S), IdsOf(s) \subseteq T
    PROVE  s \in Seq(T)
<1>1. Len(s) \in Nat /\ DOMAIN s = 1..Len(s) /\ s = [i \in 1..Len(s) |-> s[i]]
  OBVIOUS
<1>2. \A i \in 1..Len(s) : s[i] \in T
  BY <1>1 DEF IdsOf
<1>3. s \in [1..Len(s) -> T]
  BY <1>1, <1>2
<1> QED
  BY <1>1, <1>3, SeqDef

\* A buffer holds as many entries as it is long.
LEMMA DistinctCounts ==
    ASSUME NEW s \in Seq(Nat), Distinct(s)
    PROVE  Cardinality(IdsOf(s)) = Len(s)
<1> DEFINE n == Len(s)
<1>1. n \in Nat /\ DOMAIN s = 1..n
  OBVIOUS
<1> HIDE DEF n
<1>2. s \in Bijection(1..n, IdsOf(s))
  <2>1. s \in [1..n -> IdsOf(s)]
    BY <1>1 DEF IdsOf
  <2>2. \A i, j \in 1..n : s[i] = s[j] => i = j
    BY <1>1 DEF Distinct
  <2>3. \A x \in IdsOf(s) : \E i \in 1..n : s[i] = x
    BY <1>1 DEF IdsOf
  <2> QED
    BY <2>1, <2>2, <2>3 DEF Bijection, Injection, IsInjective, Surjection
<1>3. IsFiniteSet(1..n) /\ Cardinality(1..n) = n
  <2>1. IsFiniteSet(1..n) /\ Cardinality(1..n) = IF 1 > n THEN 0 ELSE n - 1 + 1
    BY <1>1, FS_Interval
  <2> QED
    BY <1>1, <2>1
<1>4. Cardinality(1..n) = Cardinality(IdsOf(s))
  BY <1>2, <1>3, FS_Bijection DEF ExistsBijection
<1> QED
  BY <1>3, <1>4 DEF n

-------------------------------------------------------------------------------
(* The operators of core.ts.                                               *)

\* What an operator does to the fields of a world and of its page.
LEMMA Fields ==
    ASSUME NEW w \in WorldOnTheWay
    PROVE  /\ w.page \in PageOnTheWay /\ w.store \in StoreOnTheWay
           /\ w.page.buffer \in Seq(Nat) /\ w.page.session \in AnyId
           /\ w.page.user \in Anyone /\ w.page.seen \in Nat
           /\ w.page.consented \in BOOLEAN
           /\ w.next \in Nat \ {0} /\ w.minted \in Nat
           /\ w.sent \in SUBSET Nat /\ w.lost \in SUBSET Nat /\ w.stamps \in SUBSET Stamp
           /\ w.store.session \in AnyId
BY DEF WorldOnTheWay, PageOnTheWay, StoreOnTheWay

\* A step that leaves the buffer, the ids and the session alone.
LEMMA Alike ==
    ASSUME NEW O, NEW Q, NEW v, NEW w, Good(w, O, Q), v \in WorldOnTheWay,
           v.next = w.next, v.minted = w.minted, v.sent = w.sent, v.stamps = w.stamps,
           v.lost = w.lost, v.page.buffer = w.page.buffer, v.page.at = w.page.at,
           v.page.session = w.page.session, v.page.user = w.page.user,
           Known(v.store.session, w.minted)
    PROVE  Good(v, O, Q)
<1>1. Balanced(v, O)
  BY DEF Good, Balanced
<1>2. Apart(v, Q)
  BY DEF Good, Apart
<1>3. Visit(v.page) = Visit(w.page)
  BY DEF Visit
<1>4. Own(v, Q)
  BY <1>3 DEF Good, Own, Alone
<1> QED
  BY <1>1, <1>2, <1>4 DEF Good

\* A new entry goes to the end of the buffer, and the oldest makes room for it.
LEMMA PushFields ==
    ASSUME NEW w \in WorldOnTheWay, MaxBuffer \in Nat \ {0},
           Len(w.page.buffer) <= MaxBuffer
    PROVE  \E b \in Seq(Nat) :
              /\ Push(w) \in WorldOnTheWay
              /\ Push(w).next = w.next + 1 /\ Push(w).minted = w.minted
              /\ Push(w).sent = w.sent /\ Push(w).stamps = w.stamps
              /\ Push(w).store = w.store
              /\ Push(w).lost = w.lost \cup (IdsOf(w.page.buffer) \ IdsOf(b))
              /\ Push(w).page.buffer = Append(b, w.next)
              /\ Push(w).page.at = w.page.at /\ Visit(Push(w).page) = Visit(w.page)
              /\ Push(w).page.armed = w.page.armed
              /\ Push(w).page.consented = w.page.consented
              /\ Len(b) < MaxBuffer /\ IdsOf(b) \subseteq IdsOf(w.page.buffer)
              /\ (Distinct(w.page.buffer) => Distinct(b))
<1> DEFINE old == w.page.buffer
           b == IF Len(old) >= MaxBuffer THEN Tail(old) ELSE old
<1>1. old \in Seq(Nat) /\ Len(old) \in Nat /\ w.next \in Nat
  BY Fields
<1>2. b \in Seq(Nat) /\ Len(b) < MaxBuffer /\ IdsOf(b) \subseteq IdsOf(old)
      /\ (Distinct(old) => Distinct(b))
  <2>1. CASE Len(old) >= MaxBuffer
    <3>1. old # <<>>
      BY <1>1, <2>1
    <3> QED
      BY <1>1, <2>1, <3>1, IdsOfTail
  <2>2. CASE ~(Len(old) >= MaxBuffer)
    BY <1>1, <2>2
  <2> QED
    BY <2>1, <2>2
<1>3. Push(w) = [w EXCEPT !.page.buffer = Append(b, w.next), !.next = @ + 1,
                          !.lost = @ \cup (IdsOf(old) \ IdsOf(b))]
  BY DEF Push
<1>4. Append(b, w.next) \in Seq(Nat) /\ IdsOf(old) \in SUBSET Nat
  BY <1>1, <1>2 DEF IdsOf
<1> DEFINE p == [w.page EXCEPT !.buffer = Append(b, w.next)]
           gone == w.lost \cup (IdsOf(old) \ IdsOf(b))
<1> HIDE DEF b
<1>5. /\ p \in PageOnTheWay /\ p.buffer = Append(b, w.next)
      /\ p.at = w.page.at /\ Visit(p) = Visit(w.page)
      /\ p.armed = w.page.armed /\ p.consented = w.page.consented
  BY <1>4, Fields DEF PageOnTheWay, Visit
<1>6. Push(w) = [w EXCEPT !.page = p, !.next = w.next + 1, !.lost = gone]
  BY <1>3
<1>7. gone \in SUBSET Nat /\ w.next + 1 \in Nat \ {0}
  BY <1>1, <1>4, Fields
<1> HIDE DEF p, gone
<1>8. /\ Push(w) \in WorldOnTheWay
      /\ Push(w).next = w.next + 1 /\ Push(w).minted = w.minted
      /\ Push(w).sent = w.sent /\ Push(w).stamps = w.stamps
      /\ Push(w).store = w.store /\ Push(w).lost = gone /\ Push(w).page = p
  BY <1>5, <1>6, <1>7 DEF WorldOnTheWay
<1> QED
  BY <1>2, <1>5, <1>8 DEF gone

LEMMA PushGood ==
    ASSUME Given, NEW O, NEW Q, NEW w, Good(w, O, Q)
    PROVE  /\ Good(Push(w), O, Q)
           /\ Push(w).page.consented = w.page.consented
           /\ Push(w).page.armed = w.page.armed
<1>1. w \in WorldOnTheWay /\ Balanced(w, O) /\ MaxBuffer \in Nat \ {0}
  BY DEF Good, Given, TagAssumption
<1> DEFINE v == Push(w)
           old == w.page.buffer
<1>2. PICK b \in Seq(Nat) :
         /\ v \in WorldOnTheWay
         /\ v.next = w.next + 1 /\ v.minted = w.minted
         /\ v.sent = w.sent /\ v.stamps = w.stamps /\ v.store = w.store
         /\ v.lost = w.lost \cup (IdsOf(old) \ IdsOf(b))
         /\ v.page.buffer = Append(b, w.next)
         /\ v.page.at = w.page.at /\ Visit(v.page) = Visit(w.page)
         /\ v.page.armed = w.page.armed /\ v.page.consented = w.page.consented
         /\ Len(b) < MaxBuffer /\ IdsOf(b) \subseteq IdsOf(old)
         /\ (Distinct(old) => Distinct(b))
  BY <1>1, PushFields DEF Balanced
<1> HIDE DEF v
<1>3. w.next \in Nat \ {0} /\ Len(b) \in Nat
  BY <1>1, Fields
<1>4. w.next \notin 1..w.next - 1 /\ 1..w.next = (1..w.next - 1) \cup {w.next}
  BY <1>3
<1>5. v.next - 1 = w.next
  BY <1>2, <1>3
<1>6. Balanced(v, O)
  <2>1. Distinct(b) /\ w.next \notin IdsOf(b)
    BY <1>1, <1>2, <1>4 DEF Balanced
  <2>2. IdsOf(v.page.buffer) = IdsOf(b) \cup {w.next} /\ Distinct(v.page.buffer)
        /\ Len(v.page.buffer) = Len(b) + 1
    BY <1>2, <1>3, <2>1, IdsOfAppend
  <2>3. Len(v.page.buffer) <= MaxBuffer
    BY <1>1, <1>2, <1>3, <2>2
  <2> DEFINE K == IdsOf(b)
             H == IdsOf(old)
             N == 1..w.next - 1
  <2>4. /\ K \subseteq H /\ H \cap (w.sent \cup w.lost \cup O) = {}
        /\ w.sent \cap w.lost = {} /\ O \cap (w.sent \cup w.lost) = {}
        /\ w.sent \cup w.lost \cup H \cup O = N
        /\ w.next \notin N
        /\ IdsOf(v.page.buffer) = K \cup {w.next}
        /\ v.sent = w.sent /\ v.lost = w.lost \cup (H \ K)
    BY <1>1, <1>2, <1>4, <2>2 DEF Balanced
  <2> HIDE DEF K, H, N
  <2>5. /\ IdsOf(v.page.buffer) \cap (v.sent \cup v.lost \cup O) = {}
        /\ v.sent \cap v.lost = {} /\ O \cap (v.sent \cup v.lost) = {}
        /\ v.sent \cup v.lost \cup IdsOf(v.page.buffer) \cup O = N \cup {w.next}
    BY <2>4
  <2> QED
    BY <1>4, <1>5, <2>2, <2>3, <2>5 DEF Balanced, N
<1>7. Apart(v, Q)
  BY <1>2 DEF Good, Apart
<1>8. Own(v, Q)
  <2>1. v.page.session = w.page.session /\ v.page.user = w.page.user
    BY <1>2 DEF Visit
  <2> QED
    BY <1>2, <2>1 DEF Good, Own, Alone
<1> QED
  BY <1>2, <1>6, <1>7, <1>8 DEF Good, v

LEMMA BufferOnly ==
    ASSUME NEW p \in PageOnTheWay, NEW b \in Seq(Nat)
    PROVE  LET x == [p EXCEPT !.buffer = b] IN
           /\ x \in PageOnTheWay /\ x.buffer = b /\ x.at = p.at
           /\ Visit(x) = Visit(p) /\ x.consented = p.consented
           /\ x.user = p.user /\ x.session = p.session
BY DEF PageOnTheWay, Visit

\* Handing the batch to send(): all of the buffer, under one resource.
LEMMA FlushGood ==
    ASSUME Given, NEW O, NEW Q, NEW w, Good(w, O, Q)
    PROVE  /\ Good(Flush(w), O, Q) /\ Windowed(Flush(w))
           /\ Flush(w).store = w.store
           /\ Flush(w).page.consented = w.page.consented
<1>1. w \in WorldOnTheWay /\ Balanced(w, O) /\ Apart(w, Q) /\ Own(w, Q)
  BY DEF Good
<1>2. CASE ~w.page.consented \/ w.page.buffer = <<>>
  BY <1>2 DEF Flush, Windowed
<1>3. CASE w.page.consented /\ w.page.buffer # <<>>
  <2> DEFINE p == [w.page EXCEPT !.buffer = <<>>]
             out == w.sent \cup IdsOf(w.page.buffer)
             with == w.stamps \cup {Visit(w.page)}
  <2>1. Flush(w) = [w EXCEPT !.page = p, !.sent = out, !.stamps = with]
    BY <1>3 DEF Flush, Visit
  <2>2. /\ p \in PageOnTheWay /\ p.buffer = <<>> /\ p.at = w.page.at
        /\ Visit(p) = Visit(w.page) /\ p.consented = w.page.consented
        /\ p.user = w.page.user /\ p.session = w.page.session
    <3>1. <<>> \in Seq(Nat) /\ w.page \in PageOnTheWay
      BY <1>1, Fields
    <3> DEFINE old == w.page
               none == <<>>
    <3>2. p = [old EXCEPT !.buffer = none] /\ old \in PageOnTheWay /\ none \in Seq(Nat)
      BY <3>1
    <3> HIDE DEF p, old, none
    <3>3. /\ p \in PageOnTheWay /\ p.buffer = none /\ p.at = old.at
          /\ Visit(p) = Visit(old) /\ p.consented = old.consented
          /\ p.user = old.user /\ p.session = old.session
      BY <3>2, BufferOnly
    <3> QED
      BY <3>3 DEF old, none
  <2>3. Visit(w.page) \in Stamp
    BY <1>1, Fields DEF Stamp, Visit
  <2>4. out \in SUBSET Nat /\ with \in SUBSET Stamp
    BY <1>1, <2>3, Fields DEF IdsOf
  <2>5. Visit(w.page).session = w.page.session /\ Visit(w.page).user = w.page.user
    BY DEF Visit
  <2> HIDE DEF p, out, with
  <2> DEFINE v == Flush(w)
  <2>6. /\ v \in WorldOnTheWay /\ v.page = p /\ v.sent = out /\ v.stamps = with
        /\ v.next = w.next /\ v.minted = w.minted /\ v.store = w.store /\ v.lost = w.lost
    BY <1>1, <2>1, <2>2, <2>4 DEF WorldOnTheWay
  <2> HIDE DEF v
  <2>7. Balanced(v, O)
    <3>1. v.page.buffer = <<>> /\ IdsOf(v.page.buffer) = {} /\ Distinct(v.page.buffer)
          /\ Len(v.page.buffer) = 0
      BY <2>2, <2>6 DEF IdsOf, Distinct
    <3>2. MaxBuffer \in Nat
      BY DEF Given, TagAssumption
    <3> QED
      BY <1>1, <2>6, <3>1, <3>2 DEF Balanced, out
  <2>8. Apart(v, Q)
    <3>1. /\ Known(v.store.session, v.minted) /\ \A q \in Q : Known(q.session, v.minted)
          /\ \A r \in v.stamps : Live(r.session, v.minted)
      BY <1>1, <2>5, <2>6 DEF Apart, Own, with
    <3>2. Names(v.stamps, Visit(w.page))
      BY <1>1, <2>5, <2>6 DEF Own, Names, with
    <3>3. \A s \in w.stamps : Names(v.stamps, s)
      BY <1>1, <2>5, <2>6 DEF Apart, Own, Names, with
    <3>4. \A q \in Q : Names(v.stamps, q)
      <4> SUFFICES ASSUME NEW q \in Q, NEW r \in v.stamps, r.session = q.session,
                          q.session \notin Chosen, q.user # None, r.user # None
                   PROVE  r.user = q.user
        BY DEF Names
      <4>1. CASE r \in w.stamps
        BY <1>1, <4>1 DEF Apart, Names
      <4>2. CASE r = Visit(w.page)
        BY <1>1, <2>5, <4>2 DEF Own, Alone
      <4> QED
        BY <2>6, <4>1, <4>2 DEF with
    <3> QED
      BY <2>6, <3>1, <3>2, <3>3, <3>4 DEF Apart, with
  <2>9. Own(v, Q)
    <3>1. Names(v.stamps, Visit(v.page))
      BY <1>1, <2>2, <2>5, <2>6 DEF Own, Names, with
    <3> QED
      BY <1>1, <2>2, <2>6, <3>1 DEF Own, Alone
  <2>10. Windowed(v)
    BY <2>2, <2>6 DEF Windowed
  <2> QED
    BY <2>2, <2>6, <2>7, <2>8, <2>9, <2>10 DEF Good, v
<1> QED
  BY <1>2, <1>3

\* Recording one entry opens the window or sends the batch.
LEMMA EmitGood ==
    ASSUME Given, NEW O, NEW Q, NEW w, Good(w, O, Q), NEW urgent \in BOOLEAN
    PROVE  Good(Emit(w, urgent), O, Q) /\ Windowed(Emit(w, urgent))
<1> DEFINE p == Push(w)
<1>1. Good(p, O, Q) /\ p \in WorldOnTheWay
  BY PushGood DEF Good
<1> HIDE DEF p
<1>2. CASE ~p.page.consented
  <2>1. Emit(w, urgent) = p
    BY <1>2 DEF Emit, p
  <2> QED
    BY <1>1, <1>2, <2>1 DEF Windowed
<1>3. CASE p.page.consented /\ (urgent \/ Fills(p))
  <2>1. Emit(w, urgent) = Flush(p)
    BY <1>3 DEF Emit, p
  <2> QED
    BY <1>1, <2>1, FlushGood
<1>4. CASE p.page.consented /\ ~(urgent \/ Fills(p)) /\ Arms(p)
  <2> DEFINE x == [p.page EXCEPT !.armed = TRUE]
             v == [p EXCEPT !.page = x]
  <2>1. Emit(w, urgent) = v
    BY <1>4 DEF Emit, p
  <2>2. /\ x \in PageOnTheWay /\ x.buffer = p.page.buffer /\ x.at = p.page.at
        /\ x.session = p.page.session /\ x.user = p.page.user /\ x.armed
    BY <1>1, Fields DEF PageOnTheWay
  <2> HIDE DEF x
  <2>3. /\ v \in WorldOnTheWay /\ v.page = x /\ v.store = p.store /\ v.next = p.next
        /\ v.minted = p.minted /\ v.sent = p.sent /\ v.stamps = p.stamps /\ v.lost = p.lost
    BY <1>1, <2>2 DEF WorldOnTheWay
  <2> HIDE DEF v
  <2>4. Known(v.store.session, p.minted)
    BY <1>1, <2>3 DEF Good, Apart
  <2>5. Good(v, O, Q)
    BY <1>1, <2>2, <2>3, <2>4, Alike
  <2> QED
    BY <2>1, <2>2, <2>3, <2>5 DEF Windowed
<1>5. CASE p.page.consented /\ ~(urgent \/ Fills(p)) /\ ~Arms(p)
  <2>1. Emit(w, urgent) = p
    BY <1>5 DEF Emit, p
  <2> QED
    BY <1>1, <1>5, <2>1 DEF Windowed, Arms
<1> QED
  BY <1>2, <1>3, <1>4, <1>5

\* What only the page knows: when it was last seen, where it came from, what
\* its listeners have done.
LEMMA PageGood ==
    ASSUME NEW O, NEW Q, NEW w, Good(w, O, Q), NEW x \in PageOnTheWay,
           x.buffer = w.page.buffer, x.at = w.page.at,
           x.session = w.page.session, x.user = w.page.user
    PROVE  Good([w EXCEPT !.page = x], O, Q)
<1> DEFINE v == [w EXCEPT !.page = x]
<1>1. w \in WorldOnTheWay /\ Known(w.store.session, w.minted)
  BY DEF Good, Apart
<1>2. /\ v \in WorldOnTheWay /\ v.page = x /\ v.store = w.store /\ v.next = w.next
      /\ v.minted = w.minted /\ v.sent = w.sent /\ v.stamps = w.stamps /\ v.lost = w.lost
  BY <1>1 DEF WorldOnTheWay
<1> HIDE DEF v
<1>3. Good(v, O, Q)
  BY <1>1, <1>2, Alike
<1> QED
  BY <1>3 DEF v

\* What the store may be given.
LEMMA StoreGood ==
    ASSUME NEW O, NEW Q, NEW w, Good(w, O, Q), NEW x \in StoreOnTheWay,
           Known(x.session, w.minted)
    PROVE  /\ Good(Blocked(w, x), O, Q) /\ Blocked(w, x).page = w.page
           /\ (Windowed(w) => Windowed(Blocked(w, x)))
<1> DEFINE v == [w EXCEPT !.store = x]
<1>1. w \in WorldOnTheWay
  BY DEF Good
<1>2. /\ v \in WorldOnTheWay /\ v.page = w.page /\ v.store = x /\ v.next = w.next
      /\ v.minted = w.minted /\ v.sent = w.sent /\ v.stamps = w.stamps /\ v.lost = w.lost
  BY <1>1 DEF WorldOnTheWay
<1> HIDE DEF v
<1>3. Good(v, O, Q) /\ (Windowed(w) => Windowed(v))
  BY <1>1, <1>2, Alike DEF Windowed
<1>4. Blocked(w, x) = w \/ Blocked(w, x) = v
  BY DEF Blocked, v
<1> QED
  BY <1>2, <1>3, <1>4

LEMMA SaveSessionGood ==
    ASSUME NEW O, NEW Q, NEW w, Good(w, O, Q)
    PROVE  /\ Good(SaveSession(w), O, Q) /\ SaveSession(w).page = w.page
           /\ (Windowed(w) => Windowed(SaveSession(w)))
<1>1. w \in WorldOnTheWay /\ Known(w.page.session, w.minted)
  BY DEF Good, Own, Live, Known
<1>2. CASE ~(w.page.consented /\ w.page.seen > 0)
  BY <1>2 DEF SaveSession
<1>3. CASE w.page.consented /\ w.page.seen > 0
  <2> DEFINE x == [w.store EXCEPT !.seen = w.page.seen, !.ref = w.page.ref,
                                  !.session = w.page.session]
  <2>1. SaveSession(w) = Blocked(w, x)
    BY <1>3 DEF SaveSession
  <2>2. w.page \in PageOnTheWay /\ w.store \in StoreOnTheWay
    BY <1>1, Fields
  <2>3. x \in StoreOnTheWay /\ x.session = w.page.session
    BY <2>2 DEF PageOnTheWay, StoreOnTheWay
  <2> HIDE DEF x
  <2> QED
    BY <1>1, <2>1, <2>3, StoreGood
<1> QED
  BY <1>2, <1>3

\* A new session is nobody's yet, whoever the page belongs to.
LEMMA MintedGood ==
    ASSUME Given, NEW O, NEW Q, NEW w \in WorldOnTheWay, Balanced(w, O), Apart(w, Q),
           w.page.at = "open"
    PROVE  /\ Good(Minted(w), O, Q) /\ Minted(w).page = [w.page EXCEPT !.session = w.minted + 1]
           /\ (Windowed(w) => Windowed(Minted(w)))
<1> DEFINE x == [w.page EXCEPT !.session = w.minted + 1]
           v == Minted(w)
<1>1. w.minted \in Nat /\ w.page \in PageOnTheWay
  BY Fields
<1>2. /\ x \in PageOnTheWay /\ x.buffer = w.page.buffer /\ x.at = "open"
      /\ x.session = w.minted + 1 /\ x.user = w.page.user
      /\ x.consented = w.page.consented /\ x.armed = w.page.armed
  <2> DEFINE n == w.minted + 1
  <2>1. n \in AnyId /\ x = [w.page EXCEPT !.session = n]
    BY <1>1 DEF AnyId
  <2> HIDE DEF n, x
  <2>2. /\ x \in PageOnTheWay /\ x.buffer = w.page.buffer /\ x.at = w.page.at
        /\ x.session = n /\ x.user = w.page.user
        /\ x.consented = w.page.consented /\ x.armed = w.page.armed
    BY <1>1, <2>1 DEF PageOnTheWay
  <2> QED
    BY <2>2 DEF n
<1>3. v = [w EXCEPT !.minted = w.minted + 1, !.page = x]
  BY DEF Minted
<1> HIDE DEF x, v
<1>4. /\ v \in WorldOnTheWay /\ v.page = x /\ v.store = w.store /\ v.next = w.next
      /\ v.minted = w.minted + 1 /\ v.sent = w.sent /\ v.stamps = w.stamps /\ v.lost = w.lost
  <2> DEFINE n == w.minted + 1
  <2>1. n \in Nat /\ v = [w EXCEPT !.minted = n, !.page = x]
    BY <1>1, <1>3
  <2> HIDE DEF n
  <2>2. /\ v \in WorldOnTheWay /\ v.page = x /\ v.store = w.store /\ v.next = w.next
        /\ v.minted = n /\ v.sent = w.sent /\ v.stamps = w.stamps /\ v.lost = w.lost
    BY <1>2, <2>1 DEF WorldOnTheWay
  <2> QED
    BY <2>2 DEF n
<1>5. Balanced(v, O)
  BY <1>2, <1>4 DEF Balanced
<1>6. Apart(v, Q)
  <2>1. Known(v.store.session, v.minted)
    BY <1>1, <1>4 DEF Apart, Known
  <2>2. \A r \in w.stamps : Live(r.session, w.minted + 1)
    BY <1>1 DEF Apart, Live
  <2>3. \A q \in Q : Known(q.session, w.minted + 1)
    BY <1>1 DEF Apart, Known
  <2> QED
    BY <1>4, <2>1, <2>2, <2>3 DEF Apart
<1>7. Own(v, Q)
  <2>1. \A n : Known(n, w.minted) \/ Live(n, w.minted) => n # w.minted + 1
    BY <1>1, ChosenApart DEF Known, Live
  <2>2. \A r \in w.stamps : r.session # w.minted + 1
    BY <2>1 DEF Apart
  <2>3. \A q \in Q : q.session # w.minted + 1
    BY <2>1 DEF Apart
  <2>4. Names(v.stamps, Visit(v.page)) /\ Alone(v.page, Q)
    BY <1>2, <1>4, <2>2, <2>3 DEF Names, Visit, Alone
  <2>5. Live(v.page.session, v.minted)
    BY <1>1, <1>2, <1>4 DEF Live
  <2> QED
    BY <1>2, <1>4, <2>4, <2>5 DEF Own
<1> QED
  BY <1>2, <1>4, <1>5, <1>6, <1>7 DEF Good, Windowed, x, v

\* The page starts a visit: under an id of its own, or the one just minted.
LEMMA SessionGood ==
    ASSUME Given, NEW O, NEW Q, NEW w, Good(w, O, Q),
           NEW id, id \in Chosen \/ id = w.page.session
    PROVE  Good(Session(w, id), O, Q) /\ (Windowed(w) => Windowed(Session(w, id)))
<1> DEFINE x == [w.page EXCEPT !.session = id, !.seen = now]
           v == [w EXCEPT !.page = x]
<1>1. w \in WorldOnTheWay /\ Balanced(w, O) /\ Apart(w, Q) /\ Own(w, Q)
  BY DEF Good
<1>2. Session(w, id) = SaveSession(v)
  BY DEF Session
<1>3. id \in AnyId
  BY <1>1, Fields DEF AnyId
<1>4. /\ x \in PageOnTheWay /\ x.buffer = w.page.buffer /\ x.at = w.page.at
      /\ x.session = id /\ x.user = w.page.user
      /\ x.consented = w.page.consented /\ x.armed = w.page.armed
  BY <1>1, <1>3, Fields DEF PageOnTheWay, Given
<1> HIDE DEF x
<1>5. /\ v \in WorldOnTheWay /\ v.page = x /\ v.store = w.store /\ v.next = w.next
      /\ v.minted = w.minted /\ v.sent = w.sent /\ v.stamps = w.stamps /\ v.lost = w.lost
  BY <1>1, <1>4 DEF WorldOnTheWay
<1> HIDE DEF v
<1>6. Balanced(v, O) /\ Apart(v, Q)
  BY <1>1, <1>4, <1>5 DEF Balanced, Apart
<1>7. Own(v, Q)
  <2>1. Names(v.stamps, Visit(v.page)) /\ Alone(v.page, Q) /\ Live(v.page.session, v.minted)
    <3>1. CASE id \in Chosen
      BY <1>4, <1>5, <3>1 DEF Names, Visit, Alone, Live
    <3>2. CASE id = w.page.session
      BY <1>1, <1>4, <1>5, <3>2 DEF Own, Visit, Alone
    <3> QED
      BY <3>1, <3>2
  <2> QED
    BY <1>1, <1>4, <1>5, <2>1 DEF Own
<1>8. Good(v, O, Q) /\ (Windowed(w) => Windowed(v))
  BY <1>4, <1>5, <1>6, <1>7 DEF Good, Windowed
<1> QED
  BY <1>2, <1>8, SaveSessionGood

LEMMA UserGood ==
    ASSUME Given, NEW O, NEW Q, NEW w, Good(w, O, Q), NEW u \in Anyone
    PROVE  Good(User(w, u), O, Q) /\ (Windowed(w) => Windowed(User(w, u)))
<1>1. CASE u = w.page.user
  BY <1>1 DEF User
<1>2. CASE u # w.page.user
  <2> DEFINE x == [w.page EXCEPT !.user = u]
             v == [w EXCEPT !.page = x]
  <2>1. w \in WorldOnTheWay /\ Balanced(w, O) /\ Apart(w, Q) /\ w.page.at = "open"
    BY DEF Good, Own
  <2>2. User(w, u) = Session(Minted(v), w.minted + 1)
    BY <1>2 DEF User
  <2>3. /\ x \in PageOnTheWay /\ x.buffer = w.page.buffer /\ x.at = w.page.at
        /\ x.consented = w.page.consented /\ x.armed = w.page.armed
    BY <2>1, Fields DEF PageOnTheWay
  <2> HIDE DEF x
  <2>4. /\ v \in WorldOnTheWay /\ v.page = x /\ v.store = w.store /\ v.next = w.next
        /\ v.minted = w.minted /\ v.sent = w.sent /\ v.stamps = w.stamps /\ v.lost = w.lost
    BY <2>1, <2>3 DEF WorldOnTheWay
  <2> HIDE DEF v
  <2>5. Balanced(v, O) /\ Apart(v, Q) /\ v.page.at = "open"
    BY <2>1, <2>3, <2>4 DEF Balanced, Apart
  <2>6. Windowed(w) => Windowed(v)
    BY <2>3, <2>4 DEF Windowed
  <2> DEFINE m == Minted(v)
  <2>7. /\ Good(m, O, Q) /\ (Windowed(v) => Windowed(m))
        /\ m.page = [v.page EXCEPT !.session = v.minted + 1]
    BY <2>4, <2>5, MintedGood
  <2>8. m.page.session = w.minted + 1
    BY <2>3, <2>4, <2>7 DEF PageOnTheWay
  <2> HIDE DEF m
  <2>9. Good(Session(m, w.minted + 1), O, Q)
        /\ (Windowed(m) => Windowed(Session(m, w.minted + 1)))
    BY <2>7, <2>8, SessionGood
  <2> QED
    BY <2>2, <2>6, <2>7, <2>9 DEF m
<1> QED
  BY <1>1, <1>2

\* The rest of a call: the visit it belongs to.
LEMMA BumpGood ==
    ASSUME Given, NEW O, NEW Q, NEW w, Good(w, O, Q)
    PROVE  Good(Bump(w), O, Q)
<1> DEFINE m == Minted(w)
           y == [m.page EXCEPT !.ref = w.page.from]
           r == [m EXCEPT !.page = y]
           b == IF Cuts(w) THEN Push(r) ELSE w
           x == [b.page EXCEPT !.seen = now]
           v == [b EXCEPT !.page = x]
<1>1. w \in WorldOnTheWay /\ Balanced(w, O) /\ Apart(w, Q) /\ w.page.at = "open"
  BY DEF Good, Own
<1>2. Good(m, O, Q) /\ m \in WorldOnTheWay
  BY <1>1, MintedGood DEF Good
<1>3. Bump(w) = SaveSession(v)
  BY DEF Bump
<1> HIDE DEF m
<1>4. w.page.from \in Referrer \cup {None}
  BY <1>1, Fields DEF PageOnTheWay
<1>5. /\ y \in PageOnTheWay /\ y.buffer = m.page.buffer /\ y.at = m.page.at
      /\ y.session = m.page.session /\ y.user = m.page.user
  BY <1>2, <1>4, Fields DEF PageOnTheWay
<1> HIDE DEF y
<1>6. Good(r, O, Q)
  BY <1>2, <1>5, PageGood
<1> HIDE DEF r
<1>7. Good(b, O, Q) /\ b \in WorldOnTheWay
  BY <1>6, PushGood DEF Good
<1> HIDE DEF b
<1>8. /\ x \in PageOnTheWay /\ x.buffer = b.page.buffer /\ x.at = b.page.at
      /\ x.session = b.page.session /\ x.user = b.page.user
  BY <1>7, Fields DEF PageOnTheWay, Given
<1> HIDE DEF x
<1>9. Good(v, O, Q)
  BY <1>7, <1>8, PageGood
<1> HIDE DEF v
<1> QED
  BY <1>3, <1>9, SaveSessionGood

LEMMA LogGood ==
    ASSUME Given, NEW O, NEW Q, NEW w, Good(w, O, Q), NEW urgent \in BOOLEAN
    PROVE  Good(Log(w, urgent), O, Q) /\ Windowed(Log(w, urgent))
BY BumpGood, EmitGood DEF Log

LEMMA ViewGood ==
    ASSUME Given, NEW O, NEW Q, NEW w, Good(w, O, Q)
    PROVE  Good(View(w), O, Q) /\ Windowed(View(w))
<1> DEFINE b == Bump(w)
           x == [b.page EXCEPT !.leave = TRUE]
           v == [b EXCEPT !.page = x]
<1>1. Good(b, O, Q) /\ b \in WorldOnTheWay
  BY BumpGood DEF Good
<1>2. View(w) = Emit(v, FALSE)
  BY DEF View
<1> HIDE DEF b
<1>3. /\ x \in PageOnTheWay /\ x.buffer = b.page.buffer /\ x.at = b.page.at
      /\ x.session = b.page.session /\ x.user = b.page.user
  BY <1>1, Fields DEF PageOnTheWay
<1> HIDE DEF x
<1>4. Good(v, O, Q)
  BY <1>1, <1>3, PageGood
<1> HIDE DEF v
<1> QED
  BY <1>2, <1>4, EmitGood

LEMMA LeaveGood ==
    ASSUME Given, NEW O, NEW Q, NEW w, Good(w, O, Q)
    PROVE  Good(Leave(w), O, Q)
<1> DEFINE x == [w.page EXCEPT !.leave = FALSE]
           v == [w EXCEPT !.page = x]
<1>1. w \in WorldOnTheWay
  BY DEF Good
<1>2. Leave(w) = Emit(v, FALSE) \/ Leave(w) = w
  BY DEF Leave
<1>3. /\ x \in PageOnTheWay /\ x.buffer = w.page.buffer /\ x.at = w.page.at
      /\ x.session = w.page.session /\ x.user = w.page.user
  BY <1>1, Fields DEF PageOnTheWay
<1> HIDE DEF x
<1>4. Good(v, O, Q)
  BY <1>3, PageGood
<1> HIDE DEF v
<1> QED
  BY <1>2, <1>4, EmitGood

LEMMA VitalGood ==
    ASSUME Given, NEW O, NEW Q, NEW w, Good(w, O, Q)
    PROVE  Good(Vital(w), O, Q)
<1> DEFINE x == [w.page EXCEPT !.vital = TRUE]
           v == [w EXCEPT !.page = x]
<1>1. w \in WorldOnTheWay
  BY DEF Good
<1>2. Vital(w) = Emit(v, FALSE) \/ Vital(w) = w
  BY DEF Vital
<1>3. /\ x \in PageOnTheWay /\ x.buffer = w.page.buffer /\ x.at = w.page.at
      /\ x.session = w.page.session /\ x.user = w.page.user
  BY <1>1, Fields DEF PageOnTheWay
<1> HIDE DEF x
<1>4. Good(v, O, Q)
  BY <1>3, PageGood
<1> HIDE DEF v
<1> QED
  BY <1>2, <1>4, EmitGood

\* A withdrawal forgets what is stored and what has not gone out.
LEMMA ForgetGood ==
    ASSUME Given, NEW O, NEW Q, NEW w, Good(w, O, Q)
    PROVE  Good(Forget(w), O, Q) /\ Windowed(Forget(w))
<1> DEFINE x == [w.page EXCEPT !.consented = FALSE, !.buffer = <<>>]
           gone == w.lost \cup IdsOf(w.page.buffer)
           v == Forget(w)
<1>1. w \in WorldOnTheWay /\ Balanced(w, O) /\ Apart(w, Q) /\ Own(w, Q) /\ MaxBuffer \in Nat
  BY DEF Good, Given, TagAssumption
<1>2. v = [w EXCEPT !.page = x, !.store = Empty, !.lost = gone]
  BY DEF Forget
<1>3. <<>> \in Seq(Nat) /\ w.page \in PageOnTheWay
  BY <1>1, Fields
<1>4. /\ x \in PageOnTheWay /\ x.buffer = <<>> /\ x.at = w.page.at
      /\ x.session = w.page.session /\ x.user = w.page.user /\ ~x.consented
  <2> DEFINE none == <<>>
  <2>1. none \in Seq(Nat)
    BY <1>3
  <2> HIDE DEF none
  <2>2. x = [w.page EXCEPT !.consented = FALSE, !.buffer = none]
    BY DEF none
  <2>3. /\ x \in PageOnTheWay /\ x.buffer = none /\ x.at = w.page.at
        /\ x.session = w.page.session /\ x.user = w.page.user /\ ~x.consented
    BY <1>3, <2>1, <2>2 DEF PageOnTheWay
  <2> QED
    BY <2>3 DEF none
<1>5. Empty \in StoreOnTheWay /\ Empty.session = 0
  BY DEF Empty, StoreOnTheWay, AnyId
<1>6. gone \in SUBSET Nat
  BY <1>1, Fields DEF IdsOf
<1> HIDE DEF x, gone, v
<1>7. /\ v \in WorldOnTheWay /\ v.page = x /\ v.store = Empty /\ v.next = w.next
      /\ v.minted = w.minted /\ v.sent = w.sent /\ v.stamps = w.stamps /\ v.lost = gone
  BY <1>1, <1>2, <1>4, <1>5, <1>6 DEF WorldOnTheWay
<1>8. Balanced(v, O)
  <2>1. v.page.buffer = <<>> /\ IdsOf(v.page.buffer) = {} /\ Distinct(v.page.buffer)
        /\ Len(v.page.buffer) = 0
    BY <1>4, <1>7 DEF IdsOf, Distinct
  <2> QED
    BY <1>1, <1>7, <2>1 DEF Balanced, gone
<1>9. Apart(v, Q)
  BY <1>1, <1>5, <1>7, Fields DEF Apart, Known
<1>10. Own(v, Q)
  <2>1. Visit(v.page) = Visit(w.page)
    BY <1>4, <1>7 DEF Visit
  <2> QED
    BY <1>1, <1>4, <1>7, <2>1 DEF Own, Alone
<1> QED
  BY <1>4, <1>7, <1>8, <1>9, <1>10 DEF Good, Windowed, v

\* Consent is stored, the session with it, and what has waited goes out.
LEMMA AgreeGood ==
    ASSUME Given, NEW O, NEW Q, NEW w, Good(w, O, Q)
    PROVE  Good(Agree(w), O, Q) /\ Windowed(Agree(w))
<1> DEFINE y == [w.store EXCEPT !.consent = TRUE]
           s == Blocked(w, y)
           x == [s.page EXCEPT !.consented = TRUE]
           v == [s EXCEPT !.page = x]
<1>1. w \in WorldOnTheWay /\ Known(w.store.session, w.minted)
  BY DEF Good, Apart
<1>2. Agree(w) = Flush(SaveSession(v))
  BY DEF Agree
<1>3. y \in StoreOnTheWay /\ y.session = w.store.session
  BY <1>1, Fields DEF StoreOnTheWay
<1> HIDE DEF y
<1>4. Good(s, O, Q) /\ s \in WorldOnTheWay
  BY <1>1, <1>3, StoreGood DEF Good
<1> HIDE DEF s
<1>5. /\ x \in PageOnTheWay /\ x.buffer = s.page.buffer /\ x.at = s.page.at
      /\ x.session = s.page.session /\ x.user = s.page.user
  BY <1>4, Fields DEF PageOnTheWay
<1> HIDE DEF x
<1>6. Good(v, O, Q)
  BY <1>4, <1>5, PageGood
<1> HIDE DEF v
<1> QED
  BY <1>2, <1>6, SaveSessionGood, FlushGood

LEMMA CallGood ==
    ASSUME Given, NEW O, NEW Q, NEW w, Good(w, O, Q), NEW c \in Commands
    PROVE  Good(Call(w, c), O, Q) /\ (Windowed(w) => Windowed(Call(w, c)))
<1>1. CASE c.op = "log"
  BY <1>1, LogGood DEF Call
<1>2. CASE c.op = "error"
  BY <1>2, LogGood DEF Call
<1>3. CASE c.op = "page"
  BY <1>3, ViewGood DEF Call
<1>4. CASE c.op = "session"
  <2>1. c.id \in Chosen
    BY <1>4 DEF Commands
  <2> QED
    BY <1>4, <2>1, SessionGood DEF Call
<1>5. CASE c.op = "user"
  <2>1. c.user \in Anyone
    BY <1>5 DEF Commands, Anyone
  <2> QED
    BY <1>5, <2>1, UserGood DEF Call
<1>6. CASE c.op = "flush"
  BY <1>6, FlushGood DEF Call
<1>7. CASE c.op = "yes"
  BY <1>7, AgreeGood DEF Call
<1>8. CASE c.op = "no"
  BY <1>8, ForgetGood DEF Call
<1> QED
  BY <1>1, <1>2, <1>3, <1>4, <1>5, <1>6, <1>7, <1>8 DEF Commands

-------------------------------------------------------------------------------
(* The tabs together.                                                      *)

Others(t) == UNION {Held(u) : u \in Tab \ {t}}

\* The visits on them, and the sessions in storage, which name nobody.
Kept == {[session |-> store[a].session, user |-> None] : a \in Tab \cup {"local"}}
OtherVisits(t) == {Visit(page[u]) : u \in Tab \ {t}} \cup Kept

\* Without a document there is nothing to send and nobody to send it for.
Quits(p) ==
    /\ p.at = "open" => p.session # 0
    /\ p.at # "open" => p.buffer = <<>> /\ p.user = None

\* Sessions have been chosen or minted; what went out with the minted session of
\* a tab, or with a minted session at all, names one person; and no two tabs have
\* one such session with a person each.
SessionsInv ==
    /\ \A t \in Tab : Known(page[t].session, minted) /\ Quits(page[t])
    /\ \A a \in Tab \cup {"local"} : Known(store[a].session, minted)
    /\ \A r \in stamps : Live(r.session, minted)
    /\ \A t \in Tab : Names(stamps, Visit(page[t]))
    /\ \A r \in stamps : Names(stamps, r)
    /\ \A t, u \in Tab :
          /\ t # u /\ page[t].session \notin Chosen
          /\ page[t].user # None /\ page[u].user # None
          => page[t].session # page[u].session

TagInv ==
    /\ TypeOK /\ Books /\ WindowOpen /\ SessionsInv
    /\ \A t \in Tab : Distinct(page[t].buffer)

\* A world a step may end in.
Final(w, O, Q) ==
    /\ w \in WorldOnTheWay /\ Balanced(w, O) /\ Apart(w, Q)
    /\ Known(w.page.session, w.minted) /\ Quits(w.page)
    /\ Names(w.stamps, Visit(w.page)) /\ Alone(w.page, Q)
    /\ (w.page.at = "open" => Windowed(w))

LEMMA GoodIsFinal ==
    ASSUME Given, NEW O, NEW Q, NEW w, Good(w, O, Q), Windowed(w)
    PROVE  Final(w, O, Q)
<1>1. Own(w, Q) /\ w.minted \in Nat
  BY Fields DEF Good
<1>2. Known(w.page.session, w.minted) /\ w.page.session # 0
  BY <1>1, ChosenApart DEF Own, Live, Known
<1> QED
  BY <1>1, <1>2 DEF Good, Own, Final, Quits

LEMMA WorldFields ==
    ASSUME NEW t \in Tab
    PROVE  /\ World(t).page = page[t] /\ World(t).store = store[Area(t)]
           /\ World(t).next = next /\ World(t).minted = minted /\ World(t).sent = sent
           /\ World(t).stamps = stamps /\ World(t).lost = lost
           /\ Area(t) \in Tab \cup {"local"}
BY DEF World, Area

\* Every reachable state is a good world for each of its tabs.
LEMMA WorldFits ==
    ASSUME Given, TagInv, NEW t \in Tab
    PROVE  /\ World(t) \in WorldOnTheWay /\ Balanced(World(t), Others(t))
           /\ Apart(World(t), OtherVisits(t))
           /\ (Open(t) => Good(World(t), Others(t), OtherVisits(t)) /\ Windowed(World(t)))
<1> DEFINE w == World(t)
           O == Others(t)
           Q == OtherVisits(t)
<1>1. /\ w.page = page[t] /\ w.store = store[Area(t)] /\ w.next = next
      /\ w.minted = minted /\ w.sent = sent /\ w.stamps = stamps /\ w.lost = lost
      /\ Area(t) \in Tab \cup {"local"}
  BY WorldFields
<1>2. /\ MaxId \in Nat /\ MaxSession \in Nat /\ MaxBuffer \in Nat
  BY DEF Given, TagAssumption
<1>3. \A u \in Tab : page[u] \in Page /\ page[u] \in PageOnTheWay
      /\ page[u].session \in AnyId /\ page[u].buffer \in Seq(Id)
  <2> TAKE u \in Tab
  <2>1. page[u] \in Page
    BY DEF TagInv, TypeOK
  <2>2. Id \subseteq Nat /\ SessionId \subseteq Nat
    BY <1>2 DEF Id, SessionId
  <2>3. page[u].buffer \in Seq(Id) /\ page[u].session \in AnySession \cup {0}
    BY <2>1 DEF Page
  <2>4. page[u].buffer \in Seq(Nat) /\ page[u].session \in AnyId
    <3> DEFINE b == page[u].buffer
    <3>1. b \in Seq(Id) /\ Id \subseteq Nat
      BY <2>2, <2>3
    <3> HIDE DEF b
    <3>2. b \in Seq(Nat)
      BY <3>1, SeqMonotonic
    <3>3. page[u].session \in AnyId
      <4> DEFINE n == page[u].session
      <4>1. n \in SessionId \cup Chosen \cup {0}
        BY <2>3 DEF AnySession
      <4> HIDE DEF n
      <4>2. n \in AnyId
        BY <2>2, <4>1 DEF AnyId
      <4> QED
        BY <4>2 DEF n
    <3> QED
      BY <3>2, <3>3 DEF b
  <2> QED
    BY <2>1, <2>3, <2>4 DEF Page, PageOnTheWay, Anyone
<1>4. w \in WorldOnTheWay
  <2>1. store[Area(t)] \in StoreOnTheWay
    BY <1>1, <1>2 DEF TagInv, TypeOK, Store, StoreOnTheWay, SessionId, AnySession, AnyId
  <2>2. next \in Nat \ {0} /\ minted \in Nat /\ sent \in SUBSET Nat /\ lost \in SUBSET Nat
    BY <1>2 DEF TagInv, TypeOK, Id
  <2>3. stamps \in SUBSET Stamp
    BY <1>2 DEF TagInv, TypeOK, Stamp, SessionId, AnySession, AnyId, Anyone
  <2> QED
    BY <1>3, <2>1, <2>2, <2>3 DEF World, WorldOnTheWay
<1>5. Balanced(w, O)
  <2>1. O \cap (sent \cup lost) = {} /\ IdsOf(page[t].buffer) \cap O = {}
    <3>1. \A u \in Tab \ {t} : /\ Held(u) \cap (sent \cup lost) = {}
                              /\ Held(t) \cap Held(u) = {}
      BY DEF TagInv, Books
    <3> QED
      BY <3>1 DEF Others, Held
  <2>2. sent \cup lost \cup IdsOf(page[t].buffer) \cup O = 1..next - 1
    BY DEF TagInv, Books, Others, Held
  <2>3. Len(page[t].buffer) <= MaxBuffer /\ Distinct(page[t].buffer)
        /\ IdsOf(page[t].buffer) \cap (sent \cup lost) = {} /\ sent \cap lost = {}
    BY DEF TagInv, Books, Held
  <2> HIDE DEF w, O
  <2> QED
    BY <1>1, <2>1, <2>2, <2>3 DEF Balanced
<1>6. Apart(w, Q)
  <2>1. \A q \in Q : \/ \E u \in Tab \ {t} : q = Visit(page[u])
                     \/ \E a \in Tab \cup {"local"} :
                            q.session = store[a].session /\ q.user = None
    BY DEF OtherVisits, Kept
  <2>2. \A a \in Tab \cup {"local"} : Known(store[a].session, minted)
    BY DEF TagInv, SessionsInv
  <2>3. \A q \in Q : Known(q.session, minted) /\ Names(stamps, q)
    <3> TAKE q \in Q
    <3>1. CASE \E u \in Tab \ {t} : q = Visit(page[u])
      BY <1>3, <3>1 DEF TagInv, SessionsInv, Visit
    <3>2. CASE \E a \in Tab \cup {"local"} : q.session = store[a].session /\ q.user = None
      BY <2>2, <3>2 DEF Names
    <3> QED
      BY <2>1, <3>1, <3>2
  <2>4. Known(store[Area(t)].session, minted)
    BY <1>1 DEF TagInv, SessionsInv
  <2> HIDE DEF w, Q
  <2> QED
    BY <1>1, <2>3, <2>4 DEF Apart, TagInv, SessionsInv
<1>7. ASSUME Open(t)
      PROVE  Own(w, Q) /\ Windowed(w)
  <2>1. \A q \in Q : q.user # None =>
            \E u \in Tab \ {t} : q.session = page[u].session /\ q.user = page[u].user
    BY DEF OtherVisits, Kept, Visit
  <2>2. page[t].at = "open" /\ Live(page[t].session, minted)
    BY <1>7 DEF Open, TagInv, SessionsInv, Quits, Known, Live
  <2>3. Alone(page[t], Q)
    BY <2>1 DEF TagInv, SessionsInv, Alone
  <2>4. Names(stamps, Visit(page[t]))
    BY DEF TagInv, SessionsInv
  <2> HIDE DEF w, Q
  <2> QED
    BY <1>1, <1>7, <2>2, <2>3, <2>4 DEF Own, Windowed, TagInv, WindowOpen
<1> QED
  BY <1>4, <1>5, <1>6, <1>7 DEF Good

\* And a world a step ends in is a state that is good again.
LEMMA Settles ==
    ASSUME Given, TagInv, NEW t \in Tab, NEW w,
           Final(w, Others(t), OtherVisits(t)), Becomes(t, w)
    PROVE  TagInv'
<1>1. /\ w \in WorldOnTheWay /\ Balanced(w, Others(t)) /\ Apart(w, OtherVisits(t))
      /\ Known(w.page.session, w.minted) /\ Quits(w.page)
      /\ Names(w.stamps, Visit(w.page)) /\ Alone(w.page, OtherVisits(t))
      /\ (w.page.at = "open" => Windowed(w))
  BY DEF Final
<1>2. /\ w.page \in PageOnTheWay /\ w.store \in StoreOnTheWay
      /\ w.page.buffer \in Seq(Nat) /\ w.page.session \in AnyId
      /\ w.next \in Nat \ {0} /\ w.minted \in Nat
      /\ w.sent \in SUBSET Nat /\ w.lost \in SUBSET Nat /\ w.stamps \in SUBSET Stamp
      /\ w.store.session \in AnyId
  BY <1>1, Fields
<1>3. /\ w.next <= MaxId + 1 /\ w.minted <= MaxSession
      /\ page' = [page EXCEPT ![t] = w.page] /\ store' = [store EXCEPT ![Area(t)] = w.store]
      /\ next' = w.next /\ minted' = w.minted /\ sent' = w.sent /\ stamps' = w.stamps
      /\ lost' = w.lost /\ cfg' = cfg /\ now' = now
  BY DEF Becomes
<1>4. MaxId \in Nat /\ MaxSession \in Nat /\ MaxBuffer \in Nat /\ Area(t) \in Tab \cup {"local"}
  BY WorldFields DEF Given, TagAssumption
<1>5. page \in [Tab -> Page] /\ store \in [Tab \cup {"local"} -> Store]
  BY DEF TagInv, TypeOK
<1>6. page'[t] = w.page /\ \A u \in Tab : u # t => page'[u] = page[u]
  BY <1>3, <1>5
<1>7. /\ store'[Area(t)] = w.store
      /\ \A a \in Tab \cup {"local"} : a # Area(t) => store'[a] = store[a]
  BY <1>3, <1>4, <1>5
<1>8. \A q \in OtherVisits(t) : Known(q.session, w.minted)
      /\ Names(w.stamps, q)
  BY <1>1 DEF Apart
<1>9. \A u \in Tab : u # t => Visit(page[u]) \in OtherVisits(t)
      /\ Visit(page[u]).session = page[u].session /\ Visit(page[u]).user = page[u].user
  BY DEF OtherVisits, Visit
<1>10. \A u \in Tab : Distinct(page'[u].buffer) /\ Len(page'[u].buffer) <= MaxBuffer
  BY <1>1, <1>6 DEF Balanced, TagInv, Books
<1>11. Books' /\ (sent \cup lost \cup IdsOf(w.page.buffer))' \subseteq Nat
  <2> DEFINE H(u) == IdsOf(page'[u].buffer)
             O == Others(t)
  <2>1. H(t) = IdsOf(w.page.buffer) /\ \A u \in Tab : u # t => H(u) = Held(u) /\ Held(u) \subseteq O
    BY <1>6 DEF Held, Others
  <2>2. \A u \in Tab : Held(t)' = H(t) /\ Held(u)' = H(u)
    BY DEF Held
  <2>3. O \subseteq UNION {H(u) : u \in Tab}
    BY <2>1 DEF Others
  <2>4. \A u \in Tab : H(u) \subseteq O \cup H(t)
    BY <2>1
  <2>5. \A u, v \in Tab : u # v => H(u) \cap H(v) = {}
    <3> TAKE u, v \in Tab
    <3>1. CASE u # t /\ v # t
      BY <2>1, <3>1 DEF TagInv, Books
    <3>2. CASE u = t \/ v = t
      BY <1>1, <2>1, <3>2 DEF Balanced
    <3> QED
      BY <3>1, <3>2
  <2>6. \A u \in Tab : H(u) \cap (w.sent \cup w.lost) = {}
    BY <1>1, <2>1 DEF Balanced
  <2>7. UNION {H(u) : u \in Tab} = H(t) \cup O
    <3>1. H(t) \subseteq UNION {H(u) : u \in Tab}
      OBVIOUS
    <3> HIDE DEF H, O
    <3> QED
      BY <2>3, <2>4, <3>1
  <2>8. w.sent \cup w.lost \cup UNION {H(u) : u \in Tab} = 1..w.next - 1
    <3>1. w.sent \cup w.lost \cup H(t) \cup O = 1..w.next - 1
      BY <1>1, <2>1 DEF Balanced
    <3> HIDE DEF H, O
    <3> QED
      BY <2>7, <3>1
  <2>9. \A u \in Tab : Cardinality(H(u)) = Len(page'[u].buffer)
    <3> TAKE u \in Tab
    <3>1. page'[u].buffer \in Seq(Nat)
      BY <1>2, <1>6, WorldFits, Fields, WorldFields
    <3> QED
      BY <1>10, <3>1, DistinctCounts
  <2>10. UNION {Held(u)' : u \in Tab} = UNION {H(u) : u \in Tab}
    BY DEF Held
  <2>11. Books'
    <3> HIDE DEF H, O
    <3>1. w.sent \cap w.lost = {}
      BY <1>1 DEF Balanced
    <3> QED
      BY <1>3, <1>10, <2>2, <2>5, <2>6, <2>8, <2>9, <2>10, <3>1 DEF Books
  <2> QED
    BY <1>2, <1>3, <2>11 DEF IdsOf
<1>12. w.page \in Page
  <2>1. IdsOf(w.page.buffer) \subseteq Id
    <3>1. IdsOf(w.page.buffer) \subseteq 1..w.next - 1
      BY <1>1 DEF Balanced
    <3>2. 1..w.next - 1 \subseteq Id
      BY <1>2, <1>3, <1>4 DEF Id
    <3> QED
      BY <3>1, <3>2
  <2>2. w.page.buffer \in Seq(Id)
    BY <1>2, <2>1, SeqGrows
  <2>3. w.page.session \in AnySession \cup {0}
    BY <1>1, <1>2, <1>3, <1>4 DEF AnySession, SessionId, Known
  <2> QED
    BY <1>2, <2>2, <2>3 DEF PageOnTheWay, Page, Anyone
<1>13. w.store \in Store
  <2>1. w.store.session \in AnySession \cup {0}
    BY <1>1, <1>2, <1>3, <1>4 DEF Apart, AnySession, SessionId, Known
  <2> QED
    BY <1>2, <2>1 DEF StoreOnTheWay, Store
<1>14. TypeOK'
  <2>1. page' \in [Tab -> Page] /\ store' \in [Tab \cup {"local"} -> Store]
    BY <1>3, <1>4, <1>5, <1>12, <1>13
  <2>2. next' \in 1..MaxId + 1 /\ minted' \in 0..MaxSession
    BY <1>2, <1>3, <1>4
  <2>3. sent' \subseteq Id /\ lost' \subseteq Id
    <3>1. w.sent \cup w.lost \subseteq 1..w.next - 1
      BY <1>1 DEF Balanced
    <3>2. 1..w.next - 1 \subseteq Id
      BY <1>2, <1>3, <1>4 DEF Id
    <3> QED
      BY <1>3, <3>1, <3>2
  <2>4. stamps' \subseteq [session : AnySession, user : Person \cup {None}]
    <3>1. \A r \in w.stamps : r.session \in AnySession
      BY <1>1, <1>2, <1>3, <1>4 DEF Apart, Live, AnySession, SessionId
    <3> QED
      BY <1>2, <1>3, <3>1 DEF Stamp, Anyone
  <2> QED
    BY <1>3, <2>1, <2>2, <2>3, <2>4 DEF TypeOK, TagInv
<1>15. WindowOpen'
  <2> SUFFICES ASSUME NEW u \in Tab, page'[u].at = "open", page'[u].consented,
                      page'[u].buffer # <<>>, cfg.mode = "immediate"
               PROVE  page'[u].armed
    BY <1>3 DEF WindowOpen, Open
  <2>1. CASE u = t
    BY <1>1, <1>6, <2>1 DEF Windowed
  <2>2. CASE u # t
    BY <1>6, <2>2 DEF TagInv, WindowOpen, Open
  <2> QED
    BY <2>1, <2>2
<1>16. SessionsInv'
  <2>1. \A u \in Tab : Known(page'[u].session, minted') /\ Quits(page'[u])
    BY <1>1, <1>3, <1>6, <1>8, <1>9 DEF TagInv, SessionsInv
  <2>2. \A a \in Tab \cup {"local"} : Known(store'[a].session, minted')
    <3> TAKE a \in Tab \cup {"local"}
    <3>1. CASE a = Area(t)
      BY <1>1, <1>3, <1>7, <3>1 DEF Apart
    <3>2. CASE a # Area(t)
      <4> DEFINE q == [session |-> store[a].session, user |-> None]
      <4>1. q \in OtherVisits(t) /\ q.session = store[a].session
        BY DEF OtherVisits, Kept
      <4> QED
        BY <1>3, <1>7, <1>8, <3>2, <4>1
    <3> QED
      BY <3>1, <3>2
  <2>3. \A r \in stamps' : Live(r.session, minted') /\ Names(stamps', r)
    BY <1>1, <1>3 DEF Apart
  <2>4. \A u \in Tab : Names(stamps', Visit(page'[u]))
    BY <1>1, <1>3, <1>6, <1>8, <1>9
  <2>5. ASSUME NEW u \in Tab, NEW v \in Tab, u # v, page'[u].session \notin Chosen,
               page'[u].user # None, page'[v].user # None
        PROVE  page'[u].session # page'[v].session
    <3>1. CASE u = t
      BY <1>1, <1>6, <1>9, <2>5, <3>1 DEF Alone
    <3>2. CASE v = t
      BY <1>1, <1>6, <1>9, <2>5, <3>2 DEF Alone
    <3>3. CASE u # t /\ v # t
      BY <1>6, <2>5, <3>3 DEF TagInv, SessionsInv
    <3> QED
      BY <3>1, <3>2, <3>3
  <2> QED
    BY <2>1, <2>2, <2>3, <2>4, <2>5 DEF SessionsInv
<1> QED
  BY <1>10, <1>11, <1>14, <1>15, <1>16 DEF TagInv

-------------------------------------------------------------------------------
(* The actions.                                                            *)

LEMMA AwayFields ==
    /\ Away \in PageOnTheWay /\ Away.buffer = <<>> /\ Away.session = 0
    /\ Away.user = None /\ Away.at = "away"
<1> DEFINE none == <<>>
<1>1. none \in Seq(Nat)
  OBVIOUS
<1> HIDE DEF none
<1>2. Away = [at |-> "away", consented |-> FALSE, buffer |-> none, armed |-> FALSE,
              session |-> 0, user |-> None, seen |-> 0, ref |-> None, from |-> None,
              leave |-> FALSE, vital |-> FALSE]
  BY DEF Away, none
<1>3. /\ Away \in PageOnTheWay /\ Away.buffer = none /\ Away.session = 0
      /\ Away.user = None /\ Away.at = "away"
  BY <1>1, <1>2 DEF PageOnTheWay, Anyone, AnyId
<1> QED
  BY <1>3 DEF none

\* A page that opens: a stored session is adopted by somebody nobody has named
\* yet, or a new one is minted.
LEMMA CreatedGood ==
    ASSUME Given, TagInv, NEW t \in Tab, page[t].at = "away",
           NEW from \in Referrer \cup {None}
    PROVE  Good(Created(t, from), Others(t), OtherVisits(t))
<1> DEFINE w == World(t)
           s == w.store
           O == Others(t)
           Q == OtherVisits(t)
           answered == cfg.storage = "session" \/ s.consent
           adopts == answered /\ s.session # 0 /\ now - s.seen <= IdleTime
           opened == [Away EXCEPT !.at = "open", !.from = from]
           blank == [w EXCEPT !.page = opened]
           kp == [opened EXCEPT !.consented = TRUE, !.seen = s.seen, !.ref = s.ref]
           known == [blank EXCEPT !.page = kp]
           ap == [kp EXCEPT !.session = s.session]
           adopted == [known EXCEPT !.page = ap]
<1>1. w \in WorldOnTheWay /\ Balanced(w, O) /\ Apart(w, Q) /\ w.page = page[t]
  BY WorldFits, WorldFields
<1>2. w.page.buffer = <<>>
  BY <1>1 DEF TagInv, SessionsInv, Quits
<1>3. /\ s \in StoreOnTheWay /\ s.session \in AnyId /\ Known(s.session, w.minted)
      /\ s.seen \in Nat /\ s.ref \in Referrer \cup {None}
  BY <1>1, Fields DEF Apart, StoreOnTheWay
<1>4. Created(t, from) = CASE adopts -> adopted
                           [] answered /\ ~adopts -> Minted(known)
                           [] OTHER -> Minted(blank)
  BY DEF Created
<1> HIDE DEF w
<1>5. /\ opened \in PageOnTheWay /\ opened.buffer = <<>> /\ opened.at = "open"
      /\ opened.user = None
  BY AwayFields DEF PageOnTheWay
<1> HIDE DEF opened
<1>6. /\ kp \in PageOnTheWay /\ kp.buffer = <<>> /\ kp.at = "open" /\ kp.user = None
  BY <1>3, <1>5 DEF PageOnTheWay
<1> HIDE DEF kp
<1>7. /\ ap \in PageOnTheWay /\ ap.buffer = <<>> /\ ap.at = "open" /\ ap.user = None
      /\ ap.session = s.session
  BY <1>3, <1>6 DEF PageOnTheWay
<1> HIDE DEF ap
<1>8. ASSUME NEW x \in PageOnTheWay, x.buffer = <<>>, NEW v, v = [w EXCEPT !.page = x]
      PROVE  /\ v \in WorldOnTheWay /\ Balanced(v, O) /\ Apart(v, Q) /\ v.page = x
             /\ v.minted = w.minted /\ v.stamps = w.stamps
  <2>1. /\ v \in WorldOnTheWay /\ v.page = x /\ v.store = w.store /\ v.next = w.next
        /\ v.minted = w.minted /\ v.sent = w.sent /\ v.stamps = w.stamps /\ v.lost = w.lost
    BY <1>1, <1>8 DEF WorldOnTheWay
  <2> QED
    BY <1>1, <1>2, <1>8, <2>1 DEF Balanced, Apart
<1>9. blank = [w EXCEPT !.page = opened] /\ known = [w EXCEPT !.page = kp]
      /\ adopted = [w EXCEPT !.page = ap]
  BY <1>1 DEF WorldOnTheWay
<1>10. Good(Minted(blank), O, Q)
  <2> HIDE DEF blank
  <2>1. /\ blank \in WorldOnTheWay /\ Balanced(blank, O) /\ Apart(blank, Q)
        /\ blank.page = opened
    BY <1>5, <1>8, <1>9
  <2> QED
    BY <1>5, <2>1, MintedGood
<1>11. Good(Minted(known), O, Q)
  <2> HIDE DEF known
  <2>1. /\ known \in WorldOnTheWay /\ Balanced(known, O) /\ Apart(known, Q)
        /\ known.page = kp
    BY <1>6, <1>8, <1>9
  <2> QED
    BY <1>6, <2>1, MintedGood
<1>12. ASSUME adopts PROVE Good(adopted, O, Q)
  <2>1. s.session # 0
    BY <1>12
  <2> HIDE DEF adopted, s
  <2>2. /\ adopted \in WorldOnTheWay /\ Balanced(adopted, O) /\ Apart(adopted, Q)
        /\ adopted.page = ap /\ adopted.minted = w.minted
    BY <1>7, <1>8, <1>9
  <2>3. Own(adopted, Q)
    BY <1>3, <1>7, <2>1, <2>2 DEF Own, Names, Visit, Alone, Known, Live
  <2> QED
    BY <2>2, <2>3 DEF Good
<1> HIDE DEF adopted, known, blank, O, Q, adopts, answered
<1>13. Good(Created(t, from), O, Q)
  BY <1>4, <1>10, <1>11, <1>12
<1> QED
  BY <1>13 DEF O, Q

LEMMA StartKeeps ==
    ASSUME Given, TagInv, NEW t \in Tab, NEW from \in Referrer \cup {None},
           NEW queued \in Queues, Start(t, from, queued)
    PROVE  TagInv'
<1> DEFINE O == Others(t)
           Q == OtherVisits(t)
           first == View(Created(t, from))
           then == IF queued = <<>> THEN first ELSE Call(first, queued[1])
<1>1. page[t].at = "away" /\ Becomes(t, Flush(then))
  BY DEF Start
<1>2. Good(first, O, Q)
  BY <1>1, CreatedGood, ViewGood
<1>3. queued # <<>> => queued[1] \in Commands
  BY DEF Queues
<1> HIDE DEF first, O, Q
<1>4. Good(then, O, Q)
  BY <1>2, <1>3, CallGood
<1> HIDE DEF then
<1>5. Final(Flush(then), O, Q)
  BY <1>4, FlushGood, GoodIsFinal
<1> QED
  BY <1>1, <1>5, Settles DEF O, Q

\* A tab that is closed or stopped gives up what it holds.
LEMMA EndFinal ==
    ASSUME Given, NEW O, NEW Q, NEW w \in WorldOnTheWay, Balanced(w, O), Apart(w, Q),
           NEW x, x = Away \/ x = [Away EXCEPT !.at = "stopped"]
    PROVE  Final([w EXCEPT !.page = x, !.lost = w.lost \cup IdsOf(w.page.buffer)], O, Q)
<1> DEFINE gone == w.lost \cup IdsOf(w.page.buffer)
           v == [w EXCEPT !.page = x, !.lost = gone]
<1>1. /\ x \in PageOnTheWay /\ x.buffer = <<>> /\ x.at # "open" /\ x.user = None
      /\ x.session = 0
  BY AwayFields DEF PageOnTheWay
<1>2. gone \in SUBSET Nat /\ w.minted \in Nat /\ MaxBuffer \in Nat
  BY Fields DEF IdsOf, Given, TagAssumption
<1> HIDE DEF gone
<1>3. /\ v \in WorldOnTheWay /\ v.page = x /\ v.store = w.store /\ v.next = w.next
      /\ v.minted = w.minted /\ v.sent = w.sent /\ v.stamps = w.stamps /\ v.lost = gone
  BY <1>1, <1>2 DEF WorldOnTheWay
<1> HIDE DEF v
<1>4. Balanced(v, O)
  <2>1. v.page.buffer = <<>> /\ IdsOf(v.page.buffer) = {} /\ Distinct(v.page.buffer)
        /\ Len(v.page.buffer) = 0
    BY <1>1, <1>3 DEF IdsOf, Distinct
  <2> QED
    BY <1>2, <1>3, <2>1 DEF Balanced, gone
<1>5. Apart(v, Q)
  BY <1>3 DEF Apart
<1>6. Names(v.stamps, Visit(v.page)) /\ Alone(v.page, Q) /\ Known(v.page.session, v.minted)
  BY <1>1, <1>2, <1>3 DEF Names, Visit, Alone, Known
<1>7. Final(v, O, Q)
  BY <1>1, <1>2, <1>3, <1>4, <1>5, <1>6 DEF Final, Quits
<1> QED
  BY <1>7 DEF v, gone

LEMMA StopKeeps ==
    ASSUME Given, TagInv, NEW t \in Tab, Stop(t) \/ Gone(t)
    PROVE  TagInv'
<1> DEFINE O == Others(t)
           Q == OtherVisits(t)
<1>1. CASE Stop(t)
  <2> DEFINE w == Flush(World(t))
  <2>1. Good(World(t), O, Q)
    BY <1>1, WorldFits DEF Stop
  <2>2. w \in WorldOnTheWay /\ Balanced(w, O) /\ Apart(w, Q)
    BY <2>1, FlushGood DEF Good
  <2>3. Becomes(t, [w EXCEPT !.page = [Away EXCEPT !.at = "stopped"],
                             !.lost = w.lost \cup IdsOf(w.page.buffer)])
    BY <1>1 DEF Stop
  <2> HIDE DEF w
  <2> QED
    BY <2>2, <2>3, EndFinal, Settles
<1>2. CASE Gone(t)
  <2> DEFINE w == World(t)
  <2>1. w \in WorldOnTheWay /\ Balanced(w, O) /\ Apart(w, Q)
        /\ w.page = page[t] /\ w.lost = lost
    BY WorldFits, WorldFields
  <2>2. Becomes(t, [w EXCEPT !.page = Away, !.lost = w.lost \cup IdsOf(w.page.buffer)])
    BY <1>2, <2>1 DEF Gone
  <2> HIDE DEF w
  <2> QED
    BY <2>1, <2>2, EndFinal, Settles
<1> QED
  BY <1>1, <1>2

\* A listener, a timer or a call of an open page.
LEMMA PageKeeps ==
    ASSUME Given, TagInv, NEW t \in Tab,
           \/ \E c \in Commands : Command(t, c)
           \/ Route(t) \/ Hidden(t) \/ PageHide(t) \/ Timer(t) \/ Interval(t)
    PROVE  TagInv'
<1> DEFINE O == Others(t)
           Q == OtherVisits(t)
           w == World(t)
<1>1. Good(w, O, Q) /\ Windowed(w) /\ w \in WorldOnTheWay
  BY WorldFits DEF Command, Route, Hidden, PageHide, Timer, Interval
<1>2. ASSUME NEW c \in Commands, Command(t, c) PROVE TagInv'
  <2>1. Final(Call(w, c), O, Q)
    BY <1>1, CallGood, GoodIsFinal
  <2> QED
    BY <1>2, <2>1, Settles DEF Command
<1>3. CASE Route(t)
  <2>1. Final(View(Leave(w)), O, Q)
    BY <1>1, LeaveGood, ViewGood, GoodIsFinal
  <2> QED
    BY <1>3, <2>1, Settles DEF Route
<1>4. CASE Hidden(t)
  <2>1. Final(Flush(Leave(Vital(w))), O, Q)
    BY <1>1, VitalGood, LeaveGood, FlushGood, GoodIsFinal
  <2> QED
    BY <1>4, <2>1, Settles DEF Hidden
<1>5. CASE PageHide(t)
  <2>1. Final(Flush(Leave(w)), O, Q)
    BY <1>1, LeaveGood, FlushGood, GoodIsFinal
  <2> QED
    BY <1>5, <2>1, Settles DEF PageHide
<1>6. CASE Timer(t)
  <2> DEFINE x == [w.page EXCEPT !.armed = FALSE]
             v == [w EXCEPT !.page = x]
  <2>1. Becomes(t, Flush(v))
    BY <1>6 DEF Timer
  <2> HIDE DEF w
  <2>2. /\ x \in PageOnTheWay /\ x.buffer = w.page.buffer /\ x.at = w.page.at
        /\ x.session = w.page.session /\ x.user = w.page.user
    BY <1>1, Fields DEF PageOnTheWay
  <2> HIDE DEF x
  <2>3. Good(v, O, Q)
    BY <1>1, <2>2, PageGood
  <2> HIDE DEF v
  <2>4. Final(Flush(v), O, Q)
    BY <2>3, FlushGood, GoodIsFinal
  <2> QED
    BY <2>1, <2>4, Settles
<1>7. CASE Interval(t)
  <2>1. Final(Flush(w), O, Q)
    BY <1>1, FlushGood, GoodIsFinal
  <2> QED
    BY <1>7, <2>1, Settles DEF Interval
<1> QED
  BY <1>2, <1>3, <1>4, <1>5, <1>6, <1>7

LEMMA StartsGood == Given /\ Init => TagInv
<1> SUFFICES ASSUME TagAssumption, Init PROVE TagInv
  BY DEF Given
<1>1. MaxBuffer \in Nat /\ MaxId \in Nat /\ MaxSession \in Nat /\ IdleTime \in Nat
  BY DEF TagAssumption
<1>2. \A t \in Tab : page[t] = Away
  BY DEF Init
<1>3. /\ Away \in Page /\ Away.buffer = <<>> /\ Away.session = 0 /\ Away.user = None
      /\ Away.at = "away"
  BY DEF Away, Page
<1>4. Empty \in Store /\ Empty.session = 0
  BY DEF Empty, Store
<1>5. IdsOf(<<>>) = {} /\ Distinct(<<>>) /\ Len(<<>>) = 0 /\ Cardinality({}) = 0
  BY FS_EmptySet DEF IdsOf, Distinct
<1>6. TypeOK
  BY <1>1, <1>3, <1>4 DEF Init, TypeOK
<1>7. \A t \in Tab : Held(t) = {} /\ page[t].buffer = <<>>
  BY <1>2, <1>3, <1>5 DEF Held
<1>8. Books
  <2>1. UNION {Held(t) : t \in Tab} = {} /\ 1..next - 1 = {}
    BY <1>7 DEF Init
  <2>2. sent = {} /\ lost = {}
    BY DEF Init
  <2>3. \A t \in Tab : /\ Len(page[t].buffer) <= MaxBuffer
                       /\ Cardinality(Held(t)) = Len(page[t].buffer)
    <3> TAKE t \in Tab
    <3>1. page[t].buffer = <<>> /\ Held(t) = {}
      BY <1>7
    <3>2. Len(page[t].buffer) = 0
      BY <3>1
    <3>3. Cardinality(Held(t)) = 0
      BY <1>5, <3>1
    <3> QED
      BY <1>1, <3>2, <3>3
  <2>4. sent \cup lost \cup UNION {Held(t) : t \in Tab} = 1..next - 1
    BY <2>1, <2>2
  <2> QED
    BY <1>7, <2>2, <2>3, <2>4 DEF Books
<1>9. WindowOpen
  BY <1>7 DEF WindowOpen
<1>10. SessionsInv
  BY <1>1, <1>2, <1>3, <1>4 DEF SessionsInv, Init, Quits, Names, Visit, Known
<1> QED
  BY <1>5, <1>6, <1>7, <1>8, <1>9, <1>10 DEF TagInv

LEMMA StepKeeps == TagAssumption /\ TagInv /\ [Next]_vars => TagInv'
<1> SUFFICES ASSUME TagAssumption, TagInv, [Next]_vars PROVE TagInv'
  OBVIOUS
<1>1. Given
  BY DEF Given, TagInv, TypeOK
<1>2. CASE Tick \/ UNCHANGED vars
  <2>1. UNCHANGED <<cfg, page, store, next, minted, sent, stamps, lost>>
        /\ now' \in Nat
    BY <1>1, <1>2 DEF Tick, vars, Given
  <2>2. TypeOK'
    BY <2>1 DEF TagInv, TypeOK
  <2>3. \A t \in Tab : Held(t)' = Held(t)
    BY <2>1 DEF Held
  <2>4. UNION {Held(t)' : t \in Tab} = UNION {Held(t) : t \in Tab}
    BY <2>3
  <2>5. Books'
    BY <2>1, <2>3, <2>4 DEF TagInv, Books
  <2>6. WindowOpen'
    BY <2>1 DEF TagInv, WindowOpen, Open
  <2>7. SessionsInv'
    BY <2>1 DEF TagInv, SessionsInv
  <2> QED
    BY <2>1, <2>2, <2>5, <2>6, <2>7 DEF TagInv
<1>3. ASSUME NEW t \in Tab, NEW from \in Referrer \cup {None}, NEW q \in Queues,
             Start(t, from, q)
      PROVE  TagInv'
  BY <1>1, <1>3, StartKeeps
<1>4. ASSUME NEW t \in Tab,
             \/ \E c \in Commands : Command(t, c)
             \/ Route(t) \/ Hidden(t) \/ PageHide(t) \/ Timer(t) \/ Interval(t)
      PROVE  TagInv'
  BY <1>1, <1>4, PageKeeps
<1>5. ASSUME NEW t \in Tab, Stop(t) \/ Gone(t)
      PROVE  TagInv'
  BY <1>1, <1>5, StopKeeps
<1> QED
  BY <1>2, <1>3, <1>4, <1>5 DEF Next

\* Every entry recorded is in one buffer, handed to send() once, or given up;
\* buffers are bounded; and a page that may send and has something to send has
\* its window open (Contract), whatever tabs share, answer, withdraw and reload.
THEOREM ContractHolds == Spec => []Contract
<1>1. Init => TagInv
  BY TagAssumption, StartsGood DEF Given, Init, TagAssumption
<1>2. TagInv /\ [Next]_vars => TagInv'
  BY TagAssumption, StepKeeps
<1>3. TagInv => Contract
  BY DEF TagInv, Contract
<1> QED
  BY <1>1, <1>2, <1>3, PTL DEF Spec

\* No session the tag mints goes out with two people (OnePerson), although tabs
\* adopt each other's stored session, overwrite it, and the page starts sessions
\* of its own choosing in between.
THEOREM OnePersonHolds == Spec => []OnePerson
<1>1. Init => TagInv
  BY TagAssumption, StartsGood DEF Given, Init, TagAssumption
<1>2. TagInv /\ [Next]_vars => TagInv'
  BY TagAssumption, StepKeeps
<1>3. TagInv => OnePerson
  <2>1. \A s \in SessionId : s \notin Chosen
    BY TagAssumption DEF TagAssumption, SessionId
  <2> QED
    BY <2>1 DEF TagInv, SessionsInv, Names, OnePerson
<1> QED
  BY <1>1, <1>2, <1>3, PTL DEF Spec

===============================================================================
