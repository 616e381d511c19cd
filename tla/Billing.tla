-------------------------------- MODULE Billing --------------------------------
(***************************************************************************)
(* What a workspace is on and who pays for it: checkout and portal         *)
(* (ensureCustomer, checkoutUrl, portalUrl), the webhook (applyWebhook,    *)
(* handleStripeWebhook) of apps/web/src/lib/stripe.server.ts, the columns  *)
(* they write (db/billing.ts) and the operator's lever (forceWorkspacePlan *)
(* of api.server.ts).                                                      *)
(*                                                                         *)
(* Stripe is external: it mints customers, sells subscriptions and emits   *)
(* an event for everything that happens to one.  An event is delivered     *)
(* until it has been answered 2xx, in the order it was emitted (ordered)   *)
(* or in any order and several at once.                                    *)
(***************************************************************************)
EXTENDS Naturals, Sequences, FiniteSets, SequencesExt

CONSTANTS
    Workspace,
    Checkout,       \* the clicks on a plan or on the portal
    Price,          \* prices a subscription may have: plans, and unknown ones
    Levers,         \* plans and statuses an operator forces
    Orders,         \* which deliveries to check: in order, out of order
    MaxCustomers,   \* bound: customers minted
    MaxEvents,      \* bound: events emitted, when delivered in order
    MaxReordered,   \* bound: events emitted, when delivered in any order
    MaxHandlers     \* bound: webhooks handled at once

Nobody == "nobody"
None == 0
Plan == {"free", "pro", "scale"}
Sold == {"pro", "scale"} \cap Price
BillingStatus == {"active", "past_due", "canceled"}

\* What Stripe says of a subscription; "paused" stands for the statuses
\* statusFor does not name.
SubStatus == {"incomplete", "incomplete_expired", "active", "paused",
              "past_due", "unpaid", "canceled"}

ASSUME BillingAssumption ==
    /\ Nobody \notin Workspace
    /\ Orders \subseteq BOOLEAN
    /\ Levers \subseteq [plan : Plan, status : BillingStatus]
    /\ MaxCustomers \in Nat /\ MaxEvents \in Nat /\ MaxReordered \in 0..MaxEvents
    /\ MaxHandlers \in Nat \ {0}

VARIABLES
    row,            \* the billing columns of workspaces
    checkout,       \* clicks in progress
    ordered,        \* how Stripe delivers
    owner,          \* Stripe: the workspace each customer was minted for
    sessions,       \* Stripe: checkout sessions open
    subs,           \* Stripe: subscriptions ever sold
    unanswered,     \* Stripe: events not answered 2xx; an id is a time
    emitted,        \* what MaxEvents bounds
    handlers,       \* webhooks between their lookup and their update
    tangled,        \* history: workspaces billed on two subscriptions at once
    raced,          \* history: workspaces two clicks minted customers for at once
    forced          \* history: workspaces an operator's plan is still in force for

stripeVars == <<owner, sessions, subs, unanswered, emitted>>
marks == <<tangled, raced, forced>>
billingVars == <<row, checkout, ordered, stripeVars, handlers, marks>>

Customer == 1..MaxCustomers
Row == [plan : Plan, status : BillingStatus,
        customer : Customer \cup {None}, subscription : Nat]

EventType == {"completed", "created", "updated", "deleted", "paid", "failed"}
Event == [id : 1..MaxEvents, type : EventType,
          sub : Nat \ {None}, price : Price, status : SubStatus]

Click == [at : {"free", "create", "write", "session", "done"},
          workspace : Workspace \cup {Nobody}, price : Sold \cup {"portal"},
          customer : Customer \cup {None}]

Away(at) == [at |-> at, workspace |-> Nobody, price |-> "portal", customer |-> None]

BillingInit ==
    /\ row = [w \in Workspace |-> [plan |-> "free", status |-> "active",
                                   customer |-> None, subscription |-> None]]
    /\ checkout = [k \in Checkout |-> Away("free")]
    /\ ordered \in Orders
    /\ owner = <<>> /\ sessions = {} /\ subs = <<>> /\ unanswered = {} /\ emitted = 0
    /\ handlers = {}
    /\ tangled = {} /\ raced = {} /\ forced = {}

-------------------------------------------------------------------------------
(* Checkout and the portal.                                                *)

Moves(k, at, customer) ==
    checkout' = [checkout EXCEPT ![k] =
        [at |-> at, workspace |-> @.workspace, price |-> @.price, customer |-> customer]]
Ends(k) == checkout' = [checkout EXCEPT ![k] = Away("done")]

\* A customer that was read off the row is used; otherwise one is created.
AlwaysCreates(w) == TRUE                                         \* mutant
Creates(w) == row[w].customer = None

\* requireAdmin reads the workspace; nothing reads it again.
Asks(k, w, price) ==
    /\ checkout[k].at = "free"
    /\ checkout' = [checkout EXCEPT ![k] =
          [at |-> IF Creates(w) THEN "create" ELSE "session",
           workspace |-> w, price |-> price, customer |-> row[w].customer]]
    /\ raced' = IF /\ Creates(w)
                   /\ \E j \in Checkout : checkout[j].workspace = w
                                         /\ checkout[j].at \in {"create", "write"}
                THEN raced \cup {w} ELSE raced
    /\ UNCHANGED <<row, ordered, stripeVars, handlers, tangled, forced>>

\* POST /customers; its answer may be lost.
Mint(k) ==
    /\ checkout[k].at = "create" /\ Len(owner) < MaxCustomers
    /\ owner' = Append(owner, checkout[k].workspace)
    /\ Moves(k, "write", Len(owner')) \/ Ends(k)
    /\ UNCHANGED <<row, ordered, sessions, subs, unanswered, emitted, handlers, marks>>

\* setBilling(w, patch): one UPDATE, refused by the unique index on customers.
SetBillingAll(w, new) == row' = [v \in Workspace |-> new]        \* mutant
SetBilling(w, new) ==
    /\ \A v \in Workspace \ {w} : new.customer # None => row[v].customer # new.customer
    /\ row' = [row EXCEPT ![w] = new]

KeepCustomer(k) ==
    /\ checkout[k].at = "write"
    /\ LET w == checkout[k].workspace IN
         SetBilling(w, [row[w] EXCEPT !.customer = checkout[k].customer])
    /\ Moves(k, "session", checkout[k].customer)
    /\ UNCHANGED <<ordered, stripeVars, handlers, marks>>

\* POST /checkout/sessions or /billing_portal/sessions.
OpenSession(k) ==
    /\ checkout[k].at = "session"
    /\ sessions' = IF checkout[k].price = "portal" THEN sessions
                   ELSE sessions \cup {[workspace |-> checkout[k].workspace,
                                        customer |-> checkout[k].customer,
                                        price |-> checkout[k].price]}
    /\ Ends(k)
    /\ UNCHANGED <<row, ordered, owner, subs, unanswered, emitted, handlers, marks>>

\* Stripe or the database says no, or the process dies.
GivesUp(k) ==
    /\ checkout[k].at \in {"create", "write", "session"}
    /\ Ends(k)
    /\ UNCHANGED <<row, ordered, stripeVars, handlers, marks>>

\* forceWorkspacePlan.
ForcePlan(w, lever) ==
    /\ SetBilling(w, [row[w] EXCEPT !.plan = lever.plan, !.status = lever.status])
    /\ forced' = forced \cup {w}
    /\ UNCHANGED <<checkout, ordered, stripeVars, handlers, tangled, raced>>

-------------------------------------------------------------------------------
(* Stripe.                                                                 *)

LiveSub(i) == subs[i].status \notin {"canceled", "incomplete_expired"}
LiveOf(w) == {i \in DOMAIN subs : subs[i].workspace = w /\ LiveSub(i)}

\* Events carry the subscription as it was when they were emitted.
Emit(types, i) ==
    /\ emitted + Len(types) <= IF ordered THEN MaxEvents ELSE MaxReordered
    /\ emitted' = emitted + Len(types)
    /\ unanswered' = unanswered \cup
          {[id |-> emitted + n, type |-> types[n], sub |-> i,
            price |-> subs'[i].price, status |-> subs'[i].status] : n \in DOMAIN types}
    /\ UNCHANGED <<row, checkout, ordered, owner, handlers, raced, forced>>

\* The first payment goes through, or is still on its way when the session ends.
Pay(s) ==
    /\ s \in sessions
    /\ sessions' = sessions \ {s}
    /\ \E status \in {"active", "incomplete"} :
          /\ subs' = Append(subs, [workspace |-> s.workspace, customer |-> s.customer,
                                   price |-> s.price, status |-> status])
          /\ Emit(IF status = "active" THEN <<"created", "paid", "completed">>
                                       ELSE <<"created", "completed">>, Len(subs'))
    /\ tangled' = IF LiveOf(s.workspace) # {} THEN tangled \cup {s.workspace} ELSE tangled

Becomes(i, price, status, told) ==
    /\ LiveSub(i)
    /\ subs' = [subs EXCEPT ![i] = [workspace |-> @.workspace, customer |-> @.customer,
                                   price |-> price, status |-> status]]
    /\ \E types \in told : Emit(types, i)
    /\ UNCHANGED <<sessions, tangled>>

\* Events of one change, which are told in no particular order.
EitherWay(types) == {types, Reverse(types)}

\* In the portal, or by the operator in Stripe; an invoice not paid, or paid late;
\* a first payment that never came; the end.
Changes(i) ==
    \/ \E price \in Price \ {subs[i].price} :
          Becomes(i, price, subs[i].status, {<<"updated">>})
    \/ /\ subs[i].status = "active"
       /\ \E status \in {"past_due", "unpaid"} :
             Becomes(i, subs[i].price, status, EitherWay(<<"failed", "updated">>))
    \/ /\ subs[i].status = "active"
       /\ Becomes(i, subs[i].price, "paused", {<<"updated">>})
    \/ /\ subs[i].status # "active"
       /\ Becomes(i, subs[i].price, "active", EitherWay(<<"paid", "updated">>))
    \/ /\ subs[i].status = "incomplete"
       /\ Becomes(i, subs[i].price, "incomplete_expired", {<<"updated">>})
    \/ Becomes(i, subs[i].price, "canceled", {<<"deleted">>, <<"updated", "deleted">>})

\* The first invoice is tried and not paid, which leaves the subscription as it is.
FirstInvoice(i) ==
    /\ subs[i].status = "incomplete"
    /\ subs' = subs
    /\ Emit(<<"failed">>, i)
    /\ UNCHANGED <<sessions, tangled>>

\* What was metered is invoiced after the end.
LastInvoice(i) ==
    /\ subs[i].status = "canceled"
    /\ subs' = subs
    /\ Emit(<<"paid">>, i) \/ Emit(<<"failed">>, i)
    /\ tangled' = IF LiveOf(subs[i].workspace) # {} THEN tangled \cup {subs[i].workspace}
                                                    ELSE tangled
    /\ UNCHANGED sessions

-------------------------------------------------------------------------------
(* The webhook.                                                            *)

\* workspaceIdFor: by the customer, or by the metadata of the subscription.  A
\* checkout names its workspace, an invoice names only its customer.
ByCustomer(c) == {w \in Workspace : row[w].customer = c}
Target(e) ==
    LET s == subs[e.sub] IN
    IF e.type = "completed" THEN s.workspace
    ELSE IF ByCustomer(s.customer) # {} THEN CHOOSE w \in ByCustomer(s.customer) : TRUE
    ELSE IF e.type \in {"paid", "failed"} THEN Nobody ELSE s.workspace

\* statusFor
StatusRaw(status) == status                                      \* mutant
StatusFor(status) ==
    CASE status \in {"past_due", "unpaid"} -> "past_due"
      [] status \in {"canceled", "incomplete_expired"} -> "canceled"
      [] OTHER -> "active"

About(e) == e.type \in {"created", "updated", "deleted"}

\* applyWebhook: the columns an event writes, absolutely, and those it leaves.
AppliedKeepsPlan(e, r) ==                                        \* mutant
    [plan |-> IF About(e) /\ e.price \in Plan THEN e.price ELSE r.plan,
     status |-> IF About(e) THEN StatusFor(e.status) ELSE r.status,
     customer |-> r.customer,
     subscription |-> IF e.type = "deleted" THEN None ELSE e.sub]
Applied(e, r) ==
    [plan |-> CASE e.type = "deleted" -> "free"
                [] e.type \in {"created", "updated"} /\ e.price \in Plan -> e.price
                [] OTHER -> r.plan,
     status |-> IF About(e) THEN StatusFor(e.status)
                ELSE IF e.type = "failed" THEN "past_due" ELSE "active",
     customer |-> IF e.type = "completed" THEN subs[e.sub].customer ELSE r.customer,
     subscription |-> IF e.type = "deleted" THEN None
                      ELSE IF e.type \in {"paid", "failed"} THEN r.subscription ELSE e.sub]

Receive(e) ==
    /\ ordered => handlers = {} /\ \A f \in unanswered : e.id <= f.id
    /\ Cardinality(handlers) < MaxHandlers
    /\ handlers' = handlers \cup {[event |-> e, target |-> Target(e)]}
    /\ UNCHANGED <<row, checkout, ordered, stripeVars, marks>>

\* The 200 gets through, or is lost and the event is delivered again.
Answered(h) ==
    /\ handlers' = handlers \ {h}
    /\ unanswered' \in {unanswered, unanswered \ {h.event}}

Handle(h) ==
    /\ IF h.target = Nobody THEN UNCHANGED row
       ELSE SetBilling(h.target, Applied(h.event, row[h.target]))
    /\ Answered(h)
    /\ forced' = IF About(h.event) /\ (h.event.type = "deleted" \/ h.event.price \in Plan)
                 THEN forced \ {h.target} ELSE forced
    /\ UNCHANGED <<checkout, ordered, owner, sessions, subs, emitted, tangled, raced>>

\* A statement fails, or the process dies: a 5xx, or nothing.
HandleFails(h) ==
    /\ handlers' = handlers \ {h}
    /\ UNCHANGED <<row, checkout, ordered, stripeVars, marks>>

-------------------------------------------------------------------------------
BillingNext ==
    \/ \E k \in Checkout :
          \/ \E w \in Workspace, price \in Sold \cup {"portal"} : Asks(k, w, price)
          \/ Mint(k) \/ KeepCustomer(k) \/ OpenSession(k) \/ GivesUp(k)
    \/ \E w \in Workspace, lever \in Levers : ForcePlan(w, lever)
    \/ \E s \in sessions : Pay(s)
    \/ \E i \in DOMAIN subs : Changes(i) \/ FirstInvoice(i) \/ LastInvoice(i)
    \/ \E e \in unanswered : Receive(e)
    \/ \E h \in handlers : Handle(h) \/ HandleFails(h)

BillingSpec == BillingInit /\ [][BillingNext]_billingVars

-------------------------------------------------------------------------------
SubscriptionRecord ==
    [workspace : Workspace, customer : Customer, price : Price, status : SubStatus]

BillingTypeOK ==
    /\ row \in [Workspace -> Row]
    /\ checkout \in [Checkout -> Click]
    /\ owner \in Seq(Workspace) /\ Len(owner) <= MaxCustomers
    /\ sessions \subseteq [workspace : Workspace, customer : Customer, price : Sold]
    /\ subs \in Seq(SubscriptionRecord)
    /\ unanswered \subseteq Event /\ emitted \in 0..MaxEvents
    /\ handlers \subseteq [event : Event, target : Workspace \cup {Nobody}]
    /\ ordered \in BOOLEAN
    /\ tangled \subseteq Workspace /\ raced \subseteq Workspace /\ forced \subseteq Workspace

\* No workspace ever pays for another: the customer and the subscription on its
\* row were minted for it and sold to it, although events find their row by a
\* customer, lookups race updates, and clicks write customers they read before.
Isolated ==
    \A w \in Workspace :
        /\ row[w].customer # None => owner[row[w].customer] = w
        /\ row[w].subscription # None => subs[row[w].subscription].workspace = w

AllHandled == unanswered = {} /\ handlers = {}

\* The newest subscription of a workspace, unless it was deleted: one that expired
\* before it was paid for stays on the row, with its plan.
Standing(w) ==
    {i \in DOMAIN subs : /\ subs[i].workspace = w /\ subs[i].status # "canceled"
                         /\ \A j \in DOMAIN subs : subs[j].workspace = w => j <= i}

\* What a live subscription shows; of a first payment on its way nothing is said.
Shows(i, x) ==
    LiveSub(i) /\ subs[i].status # "incomplete" =>
        x = IF subs[i].status \in {"past_due", "unpaid"} THEN "past_due" ELSE "active"

\* The row says what it should of the subscription that stands, or of none.
Matches(w) ==
    \/ \E i \in Standing(w) :
          /\ row[w].subscription = i
          /\ subs[i].price \in Plan => row[w].plan = subs[i].price
          /\ Shows(i, row[w].status)
    \/ /\ Standing(w) = {}
       /\ row[w].plan = "free" /\ row[w].subscription = None

\* The rows are well typed and keep to their own workspace.
RowsKept == BillingTypeOK /\ Isolated

\* Delivered in order, however often and whatever fails in between, the events of
\* a workspace billed on one subscription at a time leave its row naming the one
\* that stands, on the plan of its price and with its status, and nothing of one
\* that was deleted; what an operator forced in the meantime is gone with the
\* next event.  (In any other order only RowsKept holds.)
InStep ==
    ordered /\ AllHandled => \A w \in Workspace \ (tangled \cup forced) : Matches(w)

\* The customer that is metered is the one that pays, at every moment and in
\* whatever order the events arrive, unless two first clicks ran at once.
PayerIsMetered ==
    \A w \in Workspace \ raced : \A i \in LiveOf(w) : row[w].customer = subs[i].customer

===============================================================================
