--------------------------- MODULE Subscriptions ---------------------------
(***************************************************************************)
(* The subscription lifecycle: POST /subscribe and /cancel, the webhook    *)
(* endpoint's subscription reconciler, the hourly expiry sweep, and the    *)
(* creator's block list, running in concurrent workers over one database,  *)
(* against gateways that charge on their own and redeliver events.         *)
(*                                                                         *)
(* A request is a database session: it reads, may call a gateway, and      *)
(* commits.  Each handler is split where another commit can come between,  *)
(* and keeps in job[w] what it read.  A commit is one step.                *)
(***************************************************************************)
EXTENDS GatewayEvents, FiniteSets

CONSTANTS
    Worker,           \* threads of the API and of the Celery worker (a bound)
    EventId,          \* ids of the events the gateways may send (a bound)
    MaxTime,          \* the clock stops here (a bound)
    PlatformGateway   \* settings.PAYMENT_PROVIDER

ASSUME PlatformAssumption == PlatformGateway \in GatewayName
ASSUME TimeAssumption == MaxTime \in Nat
ASSUME UsersAssumption == IsFiniteSet(Pair)

VARIABLES
    row,          \* row[p]: the pair's subscription row
    blocked,      \* pairs with a blocked_user row
    processed,    \* events marked in processed_webhook_event
    booked,       \* booked[e, p]: payment rows event e gave pair p
    job,          \* job[w]: the request worker w is in the middle of
    checkout,     \* checkout[c]: the gateway's record of hosted checkout c
    sent,         \* sent[e]: the event with id e, once a gateway sent it
    acked,        \* events answered with a 200
    notified,     \* events whose handler queued tasks.notify_payment_failed
    now           \* clock

db == <<row, blocked, processed, booked>>
gateways == <<checkout, sent>>
delivery == <<acked, notified>>
vars == <<row, blocked, processed, booked, job, checkout, sent, acked, notified,
          now>>

CheckoutRecord ==
    [state   : {"unopened", "open", "live", "ended"},
     gateway : GatewayName \cup {None},
     pair    : Pair \cup {None},
     opened  : Nat,          \* when the checkout was created
     until   : Nat,          \* end of the last period charged for
     renews  : BOOLEAN]      \* will charge again

Unopened == [state |-> "unopened", gateway |-> None, pair |-> None,
             opened |-> 0, until |-> 0, renews |-> FALSE]

Job ==
    [op : {"idle"}]
    \cup [op : {"subscribe"}, pair : Pair, gateway : GatewayName]
    \cup [op : {"checkout"}, pair : Pair, gateway : GatewayName, read : Row]
    \cup [op : {"reconcile"}, pair : Pair, event : EventId, read : Row]
    \cup [op : {"notify"}, event : EventId]
    \cup [op : {"cancel", "told", "block", "reblock"}, pair : Pair, read : Row]
    \cup [op : {"sweep"}, pairs : SUBSET Pair]

Idle == [op |-> "idle"]

TypeOK ==
    /\ row \in [Pair -> Row]
    /\ blocked \subseteq Pair
    /\ processed \subseteq EventId
    /\ booked \in [EventId \X Pair -> Nat]
    /\ job \in [Worker -> Job]
    /\ checkout \in [Checkout -> CheckoutRecord]
    /\ sent \in [EventId -> Event \cup {None}]
    /\ acked \subseteq EventId
    /\ notified \subseteq EventId
    /\ now \in Nat

Init ==
    /\ row = [p \in Pair |-> NoRow]
    /\ blocked = {}
    /\ processed = {}
    /\ booked = [x \in EventId \X Pair |-> 0]
    /\ job = [w \in Worker |-> Idle]
    /\ checkout = [c \in Checkout |-> Unopened]
    /\ sent = [e \in EventId |-> None]
    /\ acked = {}
    /\ notified = {}
    /\ now = 0

Start(w, j) == job[w] = Idle /\ job' = [job EXCEPT ![w] = j]
Continue(w, j) == job' = [job EXCEPT ![w] = j]
Finish(w) == job' = [job EXCEPT ![w] = Idle]

----------------------------------------------------------------------------
(* POST /subscribe.                                                        *)

\* The router refuses blocked users and resolves the gateway.
SubscribeAdmit(w, p, g) ==
    /\ p \notin blocked
    /\ Start(w, [op |-> "subscribe", pair |-> p, gateway |-> g])
    /\ UNCHANGED <<db, gateways, delivery, now>>

\* A row that is not terminal is returned as it is.
SubscribeExisting(w) ==
    /\ job[w].op = "subscribe"
    /\ row[job[w].pair].status \in NonTerminal
    /\ Finish(w)
    /\ UNCHANGED <<db, gateways, delivery, now>>

\* Otherwise the service goes to the gateway with the row it read, if any.
SubscribeRead(w) ==
    /\ job[w].op = "subscribe"
    /\ row[job[w].pair].status \notin NonTerminal
    /\ Continue(w, [op |-> "checkout", pair |-> job[w].pair,
                    gateway |-> job[w].gateway, read |-> row[job[w].pair]])
    /\ UNCHANGED <<db, gateways, delivery, now>>

\* Rows are never deleted, so ids are counted.
NewId == 1 + Cardinality({p \in Pair : row[p].status # "absent"})

\* Mutants of PendingRow: reactivation keeps the old reference; it keeps the old
\* gateway; the row is active before anything is paid.
MutPendingRef(r, g, c) ==
    [r EXCEPT !.status = "incomplete", !.end = OpenedEnd(g, now), !.gateway = g,
              !.ref = IF @ = None THEN OpenedRef(g, c) ELSE @, !.url = c]
MutPendingGateway(r, g, c) ==
    [r EXCEPT !.status = "incomplete", !.end = OpenedEnd(g, now),
              !.gateway = IF @ = None THEN g ELSE @,
              !.ref = OpenedRef(g, c), !.url = c]
MutPendingActive(r, g, c) ==
    [r EXCEPT !.status = "active", !.end = OpenedEnd(g, now),
              !.gateway = g, !.ref = OpenedRef(g, c), !.url = c]

\* The row create_subscription writes from the one it read: a new one, or the
\* terminal one reactivated in place.  cancel_at_period_end is not assigned.
PendingRow(r, g, c) ==
    [r EXCEPT !.status  = "incomplete",
              !.end     = OpenedEnd(g, now),
              !.gateway = g,
              !.ref     = OpenedRef(g, c),
              !.url     = c]

\* The gateway opened checkout c, and the row is committed.  The url reaches
\* the subscriber with the response, so no charge can precede this step.
SubscribeCommit(w, c) ==
    /\ job[w].op = "checkout"
    /\ checkout[c].state = "unopened"
    /\ LET p == job[w].pair
           g == job[w].gateway
           read == job[w].read
       IN  /\ \/ /\ read.status = "absent"
                 /\ row[p].status = "absent"
                 /\ row' = [row EXCEPT ![p] =
                               [PendingRow(NoRow, g, c) EXCEPT !.id = NewId]]
              \/ /\ read.status # "absent"
                 /\ row' = [row EXCEPT ![p] =
                               Flush(@, read, PendingRow(read, g, c))]
           /\ checkout' = [checkout EXCEPT ![c] =
                 [state |-> "open", gateway |-> g, pair |-> p,
                  opened |-> now, until |-> now, renews |-> AutoRenews(g)]]
    /\ Finish(w)
    /\ UNCHANGED <<blocked, processed, booked, sent, delivery, now>>

\* uq_subscription_subscriber_creator: another request inserted the pair's
\* row meanwhile; the insert fails and nobody receives the checkout's url.
SubscribeConflict(w) ==
    /\ job[w].op = "checkout"
    /\ job[w].read.status = "absent"
    /\ row[job[w].pair].status # "absent"
    /\ Finish(w)
    /\ UNCHANGED <<db, gateways, delivery, now>>

----------------------------------------------------------------------------
(* POST /webhooks/{provider}: the subscription reconciler.                 *)

ByRef(ev, ref) == {p \in Pair : row[p].ref = ref /\ row[p].gateway = ev.gateway}

\* Mutant of ByPayer: the creator an event pins is not looked at.
MutByPayer(ev) ==
    LET mine == {p \in Pair :
                    /\ ev.recurring
                    /\ ev.payer = p[1]
                    /\ row[p].gateway = ev.gateway
                    /\ row[p].status \in NonTerminal}
    IN  {p \in mine : \A q \in mine : row[q].id <= row[p].id}

\* The user the payer's address belongs to: rows of that user which are not
\* terminal, of the creator the event pins if it pins one, the latest by id.
ByPayer(ev) ==
    LET mine == {p \in Pair :
                    /\ ev.recurring
                    /\ ev.payer = p[1]
                    /\ ev.creator \in {None, p[2]}
                    /\ row[p].gateway = ev.gateway
                    /\ row[p].status \in NonTerminal}
    IN  {p \in mine : \A q \in mine : row[q].id <= row[p].id}

\* The rows an event finds (at most one): by its own reference, else by the
\* checkout session it names, else by the payer's email.
Match(ev) ==
    LET own     == ByRef(ev, ev.ref)
        session == IF ev.session = None THEN {} ELSE ByRef(ev, ev.session)
    IN  CASE own # {}     -> own
          [] session # {} -> session
          [] OTHER        -> ByPayer(ev)

\* A marked event is a duplicate delivery: acknowledged, nothing applied.
DeliverDuplicate(e) ==
    /\ e \in processed
    /\ acked' = acked \cup {e}
    /\ UNCHANGED <<db, gateways, job, notified, now>>

\* Mutant of DeliverUnmatched: an event without a row is refused.
MutDeliverUnmatched(e) == FALSE

\* No row: acknowledged with a 200 and left unmarked.
DeliverUnmatched(e) ==
    /\ sent[e] # None
    /\ e \notin processed
    /\ Match(sent[e]) = {}
    /\ acked' = acked \cup {e}
    /\ UNCHANGED <<db, gateways, job, notified, now>>

\* A row: the handler goes on with what it read.
DeliverMatched(w, e) ==
    /\ sent[e] # None
    /\ e \notin processed
    /\ \E p \in Match(sent[e]) :
          Start(w, [op |-> "reconcile", pair |-> p, event |-> e, read |-> row[p]])
    /\ UNCHANGED <<db, gateways, delivery, now>>

\* Mutant of Markable: no unique constraint on the ledger.
MutMarkable(e) == TRUE

\* uq_webhook_event_provider_id lets the mark in.
Markable(e) == e \notin processed

\* A refused renewal is notified when the row read was not yet past due.
NotifiesFailure(ev, r) ==
    /\ StatusFromEvent(ev, r.status) = "past_due"
    /\ r.status # "past_due"

\* Row, payment and mark commit together.
ReconcileCommit(w) ==
    /\ job[w].op = "reconcile"
    /\ Markable(job[w].event)
    /\ LET e == job[w].event
           p == job[w].pair
           read == job[w].read
           ev == sent[e]
       IN  /\ row' = [row EXCEPT ![p] = Flush(@, read, Reconcile(ev, read, now))]
           /\ processed' = processed \cup {e}
           /\ booked' = [booked EXCEPT ![<<e, p>>] =
                            @ + (IF PaymentCompleted(ev, read) THEN 1 ELSE 0)]
           /\ IF NotifiesFailure(ev, read)
              THEN Continue(w, [op |-> "notify", event |-> e]) /\ UNCHANGED acked
              ELSE Finish(w) /\ acked' = acked \cup {e}
    /\ UNCHANGED <<blocked, gateways, notified, now>>

\* A concurrent delivery committed first: this one's mark breaks the unique
\* constraint, it rolls back and is acknowledged as a duplicate.
ReconcileLost(w) ==
    /\ job[w].op = "reconcile"
    /\ ~Markable(job[w].event)
    /\ acked' = acked \cup {job[w].event}
    /\ Finish(w)
    /\ UNCHANGED <<db, gateways, notified, now>>

\* Queued after the commit, best effort: a broker error is swallowed.
NotifyFailure(w) ==
    /\ job[w].op = "notify"
    /\ notified' \in {notified, notified \cup {job[w].event}}
    /\ acked' = acked \cup {job[w].event}
    /\ Finish(w)
    /\ UNCHANGED <<db, gateways, now>>

----------------------------------------------------------------------------
(* POST /cancel.  SubscriptionService(db) is built without the row's own   *)
(* gateway: the call goes to PlatformGateway.  Only Stripe's makes one.    *)

CallsStripe(r) == PlatformGateway = "stripe" /\ r.ref # None

\* Stripe knows subscription ids of its own, not sessions or foreign refs.
KnownToStripe(r) ==
    r.ref[1] = "resource" /\ checkout[r.ref[2]].gateway = "stripe"

CancelRead(w, p) ==
    /\ row[p].status \in NonTerminal
    /\ Start(w, [op |-> IF CallsStripe(row[p]) THEN "cancel" ELSE "told",
                 pair |-> p, read |-> row[p]])
    /\ UNCHANGED <<db, gateways, delivery, now>>

\* Stripe stops renewing.
CancelTell(w) ==
    /\ job[w].op = "cancel"
    /\ KnownToStripe(job[w].read)
    /\ checkout' = [checkout EXCEPT ![job[w].read.ref[2]].renews = FALSE]
    /\ Continue(w, [job[w] EXCEPT !.op = "told"])
    /\ UNCHANGED <<db, sent, delivery, now>>

\* Stripe answers with an error, which nothing catches: the request fails.
CancelRejected(w) ==
    /\ job[w].op = "cancel"
    /\ ~KnownToStripe(job[w].read)
    /\ Finish(w)
    /\ UNCHANGED <<db, gateways, delivery, now>>

CancelCommit(w) ==
    /\ job[w].op = "told"
    /\ row' = [row EXCEPT ![job[w].pair] =
                  Flush(@, job[w].read, [job[w].read EXCEPT !.flag = TRUE])]
    /\ Finish(w)
    /\ UNCHANGED <<blocked, processed, booked, gateways, delivery, now>>

----------------------------------------------------------------------------
(* POST and DELETE /creator/blocks.                                        *)

\* uq_blocked_user_creator_user: the insert of a second block waits for the
\* first one to end.  A pair that is blocked already needs no insert.
BlockRead(w, p) ==
    /\ \A v \in Worker : job[v].op = "block" => job[v].pair # p
    /\ Start(w, [op |-> IF p \in blocked THEN "reblock" ELSE "block",
                 pair |-> p, read |-> row[p]])
    /\ UNCHANGED <<db, gateways, delivery, now>>

\* A subscription that is not terminal is canceled locally and detached from
\* its gateway; a terminal row is left as it is, reference included.
BlockedRow(r) ==
    IF r.status \in NonTerminal
    THEN [r EXCEPT !.status = "canceled", !.url = None,
                   !.flag = FALSE, !.ref = None]
    ELSE r

BlockCommit(w) ==
    /\ job[w].op \in {"block", "reblock"}
    /\ blocked' = IF job[w].op = "block" THEN blocked \cup {job[w].pair} ELSE blocked
    /\ row' = [row EXCEPT ![job[w].pair] =
                  Flush(@, job[w].read, BlockedRow(job[w].read))]
    /\ Finish(w)
    /\ UNCHANGED <<processed, booked, gateways, delivery, now>>

Unblock(p) ==
    /\ p \in blocked
    /\ blocked' = blocked \ {p}
    /\ UNCHANGED <<row, processed, booked, job, gateways, delivery, now>>

----------------------------------------------------------------------------
(* tasks.expire_canceled_subscriptions, hourly.                            *)

\* Mutant of Lapsed: only subscriptions in arrears are swept.
MutLapsed(p) ==
    /\ row[p].flag
    /\ row[p].status = "past_due"
    /\ row[p].end # None
    /\ row[p].end <= now

\* Canceled by the subscriber and past the end of the period paid for.
Lapsed(p) ==
    /\ row[p].flag
    /\ row[p].status \in {"active", "trialing", "past_due"}
    /\ row[p].end # None
    /\ row[p].end <= now

SweepRead(w) ==
    /\ \E p \in Pair : Lapsed(p)
    /\ Start(w, [op |-> "sweep", pairs |-> {p \in Pair : Lapsed(p)}])
    /\ UNCHANGED <<db, gateways, delivery, now>>

\* Both columns differ from what was read, so both are written.
SweepCommit(w) ==
    /\ job[w].op = "sweep"
    /\ row' = [p \in Pair |->
                  IF p \in job[w].pairs
                  THEN [row[p] EXCEPT !.status = "canceled", !.flag = FALSE]
                  ELSE row[p]]
    /\ Finish(w)
    /\ UNCHANGED <<blocked, processed, booked, gateways, delivery, now>>

----------------------------------------------------------------------------
\* A request dies before it commits (a gateway's error, a crash): its session
\* is rolled back and nothing is answered.
Abort(w) ==
    /\ job[w] # Idle
    /\ Finish(w)
    /\ UNCHANGED <<db, gateways, delivery, now>>

----------------------------------------------------------------------------
(* The gateways.                                                           *)

Send(e, ev) == sent[e] = None /\ sent' = [sent EXCEPT ![e] = ev]

\* A first charge once the subscriber paid; renewals by themselves where the
\* gateway renews, by hand (again through the same link) where it does not.
Charge(c, e) ==
    LET k == checkout[c]
    IN  /\ \/ k.state = "open"
           \/ k.state = "live" /\ (AutoRenews(k.gateway) => k.renews /\ k.until <= now)
        /\ \E ev \in AsPaid(ChargeNotice(k.gateway, c, k.pair, now), c) : Send(e, ev)
        /\ checkout' = [checkout EXCEPT ![c].state = "live",
                                        ![c].until = now + TierPeriod]
        /\ UNCHANGED <<db, job, delivery, now>>

\* A charge is refused: the first one, or one that was due.
Decline(c, e) ==
    LET k == checkout[c]
    IN  /\ \/ k.state = "open"
           \/ k.state = "live" /\ (AutoRenews(k.gateway) => k.renews /\ k.until <= now)
        /\ \E ev \in AsPaid(DeclineNotice(k.gateway, c, k.pair, now), c) : Send(e, ev)
        /\ UNCHANGED <<db, job, checkout, delivery, now>>

\* Stripe reports the finished checkout, before or after its first charge; a
\* gateway reports a change of its subscription.  The mock's hosted activation
\* is such a report.
Announce(c, e) ==
    LET k == checkout[c]
    IN  /\ \/ /\ k.gateway = "stripe"
              /\ k.state \in {"open", "live"}
              /\ Send(e, CompletedNotice(c, k.pair))
           \/ /\ k.state = "live" \/ (k.state = "open" /\ k.gateway = "mock")
              /\ \E s \in AnnouncedStatus(k.gateway) :
                    Send(e, LifecycleNotice(k.gateway, c, k.pair, s, k.opened))
        /\ checkout' = [checkout EXCEPT ![c].state = "live"]
        /\ UNCHANGED <<db, job, delivery, now>>

\* The gateway ends a subscription.
End(c, e) ==
    LET k == checkout[c]
    IN  /\ k.state = "live"
        /\ k.gateway # "wompi"
        /\ Send(e, EndNotice(k.gateway, c, k.pair))
        /\ checkout' = [checkout EXCEPT ![c].state = "ended"]
        /\ UNCHANGED <<db, job, delivery, now>>

Tick ==
    /\ now < MaxTime
    /\ now' = now + 1
    /\ UNCHANGED <<db, job, gateways, delivery>>

----------------------------------------------------------------------------
Deliver(e) ==
    \/ DeliverDuplicate(e)
    \/ DeliverUnmatched(e)
    \/ \E w \in Worker : DeliverMatched(w, e)

Commit(w) ==
    \/ SubscribeExisting(w) \/ SubscribeConflict(w)
    \/ \E c \in Checkout : SubscribeCommit(w, c)
    \/ ReconcileCommit(w) \/ ReconcileLost(w) \/ NotifyFailure(w)
    \/ CancelRejected(w) \/ CancelCommit(w)
    \/ BlockCommit(w) \/ SweepCommit(w)

Request(w) ==
    \E p \in Pair :
        \/ \E g \in Gateway : SubscribeAdmit(w, p, g)
        \/ CancelRead(w, p)
        \/ BlockRead(w, p)

GatewayStep ==
    \E c \in Checkout, e \in EventId :
        Charge(c, e) \/ Decline(c, e) \/ Announce(c, e) \/ End(c, e)

Next ==
    \/ \E w \in Worker : Request(w) \/ SweepRead(w) \/ Abort(w)
    \/ \E w \in Worker : SubscribeRead(w) \/ CancelTell(w) \/ Commit(w)
    \/ \E e \in EventId : Deliver(e)
    \/ \E p \in Pair : Unblock(p)
    \/ GatewayStep
    \/ Tick

Spec == Init /\ [][Next]_vars

----------------------------------------------------------------------------
(* Safety.                                                                 *)

\* access.resolve_viewer_context: what content, media and stories ask.
HasAccess(p) == p \notin blocked /\ IsActiveFollower(row[p], now)

RL == INSTANCE RevenueLedger WITH Account <- Pair

\* Every event takes effect once, whatever the redeliveries, the concurrent
\* deliveries and the handlers that die: marking it processed and booking its
\* one payment is a single step (handle_webhook's ledger and rollback).
ImplementsLedger == RL!Spec

\* Event ev may count for pair p: its checkout is p's, or it is a recurring
\* Wompi event that gives p's subscriber as the payer, and p's creator is the
\* one charged for if it pins a creator at all.  Without that pin the payer's
\* latest row is chosen, another creator's perhaps (handle_webhook accepts that
\* as a limitation).
Creditable(ev, p) ==
    \/ p = ev.charged
    \/ /\ ev.gateway = "wompi" /\ ev.recurring
       /\ p[1] = ev.payer
       /\ ev.creator # None => p[2] = ev.charged[2]

\* A payment is booked to the pair whose checkout was charged, by whichever of
\* the three lookups the row was found and whatever happened to it since.  It
\* goes to another pair only through the address given at Wompi, never to
\* another creator than a pinned one, and never past a row that stores its
\* reference: neither when the handler looked, nor ever after
\* (handle_webhook's matching).
BookedToPayer ==
    \A e \in EventId, p \in Pair :
        booked[<<e, p>>] > 0 =>
            /\ Creditable(sent[e], p)
            /\ p # sent[e].charged => ByRef(sent[e], sent[e].ref) = {}

\* Nobody is a follower without an event that said so: opening checkouts,
\* canceling, blocking and sweeping in any order never make a row active
\* (create_subscription: only a webhook activates a row).
AccessEarned ==
    \A p \in Pair :
        HasAccess(p) =>
            \E e \in processed :
                /\ Creditable(sent[e], p)
                /\ sent[e].type = "succeeded" \/ sent[e].status \in Follower

\* The subscriber's wish not to renew is never lost to a concurrent renewal,
\* failure or re-subscription that read the row before it: the flag goes only
\* when the row ends as canceled (cancel_at_period_end, expire and block).
CancelIsKept ==
    [][\A p \in Pair :
          row[p].flag /\ ~row'[p].flag => row'[p].status = "canceled"]_vars

PageMatches(r) == r.url # None /\ r.ref # None => r.ref[2] = r.url

\* The row p takes the reference of Stripe's finished checkout from a handler
\* that read the row while it showed no page, and keeps the page it was given
\* since.
LateAdoption(w, p) ==
    /\ job[w].op = "reconcile" /\ job[w].pair = p
    /\ sent[job[w].event].session # None
    /\ job[w].read.url = None
    /\ row[p].url # None /\ row'[p].url = row[p].url
    /\ row'[p].ref = sent[job[w].event].ref

\* The payment page a row shows is the one its reference names, so that what
\* is paid there finds the row.  Reactivation, block, webhooks and the adoption
\* of Stripe's id all move one or the other, from reads that are out of date;
\* only the adoption ever parts them (create_subscription, handle_webhook and
\* block).
PageKeepsRef ==
    [][\A p \in Pair : PageMatches(row[p]) /\ ~PageMatches(row'[p]) =>
          \E w \in Worker : LateAdoption(w, p)]_vars

\* The gateway a row names is the one its reference is of, which is what every
\* webhook's lookup asks for.
GatewayMatches(p) ==
    row[p].ref # None => checkout[row[p].ref[2]].gateway = row[p].gateway

\* A purchase, or an adoption of Stripe's id, whose row went to another gateway
\* since it was read.
Overtaken(w, p) ==
    /\ job[w].op \in {"checkout", "reconcile"} /\ job[w].pair = p
    /\ row[p].gateway # job[w].read.gateway

\* Reference and gateway of a row are written by different requests, each only
\* where it differs from what was read; they stay of one checkout unless the
\* request that parts them has been overtaken by a purchase through another
\* gateway (create_subscription's reactivation in place, handle_webhook).
GatewayKeepsRef ==
    [][\A p \in Pair : GatewayMatches(p) /\ ~GatewayMatches(p)' =>
          \E w \in Worker : Overtaken(w, p)]_vars

\* A failed charge is announced at most once: whichever deliveries of an event
\* overlap or die, one handler comes to the notice, and only after its commit
\* (handle_webhook's notice behind the ledger).
NoticedOnce ==
    \A w \in Worker : job[w].op = "notify" =>
        /\ job[w].event \in processed \ notified
        /\ \A v \in Worker \ {w} :
              job[v].op = "notify" => job[v].event # job[w].event

----------------------------------------------------------------------------
(* What the steps keep, and the safety properties follow from.             *)

\* Checkout c was opened for p.  It is never opened again.
Owns(c, p) == checkout[c].state # "unopened" /\ checkout[c].pair = p

OpenedForPairs ==
    \A c \in Checkout :
        checkout[c].state # "unopened" =>
            checkout[c].pair \in Pair /\ checkout[c].gateway \in GatewayName

\* Handlers hold events that were sent; Stripe is called with a reference.
JobsGrounded ==
    \A w \in Worker :
        /\ job[w].op = "reconcile" => sent[job[w].event] # None
        /\ job[w].op = "cancel" => job[w].read.ref # None

RowsOwned ==
    \A p \in Pair : row[p].ref # None => Owns(row[p].ref[2], p)

\* An event is about the checkout that was charged and comes from its gateway, a
\* session is Stripe's, of the same checkout and finished, a creator it pins is
\* the one charged for, and only Wompi's events are recurring.
EventsOwned ==
    \A e \in EventId :
        sent[e] # None =>
            /\ Owns(sent[e].ref[2], sent[e].charged)
            /\ checkout[sent[e].ref[2]].gateway = sent[e].gateway
            /\ sent[e].session # None =>
                  /\ sent[e].session[2] = sent[e].ref[2]
                  /\ sent[e].type = "created" /\ sent[e].status = "active"
                  /\ sent[e].gateway = "stripe"
            /\ sent[e].creator \in {None, sent[e].charged[2]}
            /\ sent[e].recurring => sent[e].gateway = "wompi"

\* Every lookup led to the row of a pair the event may count for, and so did
\* every booking.
JobsOwned ==
    \A w \in Worker :
        job[w].op = "reconcile" => Creditable(sent[job[w].event], job[w].pair)
BooksOwned ==
    \A e \in EventId, p \in Pair :
        booked[<<e, p>>] > 0 => Creditable(sent[e], p)

\* No row stores the reference of event e.
Unstored(e) == ByRef(sent[e], sent[e].ref) = {}

\* A lookup that led to another pair than the one charged passed no row that
\* stores the event's reference, and none has come to store it since.
JobsElsewhere ==
    \A w \in Worker :
        job[w].op = "reconcile" /\ job[w].pair # sent[job[w].event].charged =>
            Unstored(job[w].event)

BooksSent ==
    \A e \in EventId, p \in Pair : booked[<<e, p>>] > 0 => sent[e] # None

\* A cancellation is of a row there is, and only such a row carries the flag.
CancelsFound ==
    /\ \A w \in Worker :
          job[w].op \in {"cancel", "told"} => row[job[w].pair].status # "absent"
    /\ \A p \in Pair : row[p].status = "absent" => ~row[p].flag

\* What is booked is marked.
BooksMarked ==
    \A e \in EventId, p \in Pair : booked[<<e, p>>] > 0 => e \in processed

----------------------------------------------------------------------------
(* Liveness.  Gateways redeliver an event until it is answered and Celery  *)
(* beat runs the sweep every hour, so deliveries and sweeps are tried      *)
(* again and again; requests queue for a worker, every request ends, and   *)
(* not every attempt dies.  Users, gateways and the clock owe nothing.     *)

Fairness ==
    /\ \A e \in EventId : SF_vars(e \notin acked /\ Deliver(e))
    /\ \A w \in Worker :
          WF_vars(SubscribeRead(w) \/ CancelTell(w) \/ Commit(w) \/ Abort(w))
    /\ \A w \in Worker : SF_vars(ReconcileCommit(w)) /\ SF_vars(ReconcileLost(w))
    /\ \A w \in Worker : SF_vars(NotifyFailure(w)) /\ SF_vars(SweepCommit(w))
    /\ SF_vars(\E w \in Worker : SweepRead(w))

FairSpec == Spec /\ Fairness

\* Every event is answered in the end: no order of deliveries, crashes and
\* commits makes the endpoint refuse a redelivery for ever.
EventuallyAcked == \A e \in EventId : sent[e] # None ~> e \in acked

\* A non-renewing subscription past its period does not stay one: the sweep
\* cancels it, unless a renewal moves its period or it ends otherwise
\* (cancel_at_period_end's promise, kept by expire_canceled_subscriptions).
Overdue(p) ==
    /\ row[p].flag
    /\ row[p].status \in NonTerminal \ {"incomplete"}
    /\ row[p].end \in 0 .. now

EventuallySwept == \A p \in Pair : Overdue(p) ~> ~Overdue(p)

----------------------------------------------------------------------------
(* What comments and documents of the repository say, and the code does    *)
(* not do: each is refuted by a run.                                       *)

\* models.py on cancel_at_period_end: set when the subscriber cancels.  A
\* subscription bought again is not one its subscriber canceled.
RenewedIsNotCanceled ==
    [][\A p \in Pair :
          row[p].status \in Terminal /\ row'[p].status = "incomplete"
             => ~row'[p].flag]_vars

\* block_user: a late webhook can never find and reactivate a blocked pair's
\* row; the block stands even if the money later lands.
BlockStands ==
    [][\A p \in blocked :
          row[p].status \in Terminal => row'[p].status # "active"]_vars

\* handle_webhook: an on-time renewal, a payment without a period of its own
\* for a row that is active, buys one month on top of the row's window, or
\* from now on where the window is over.
PaymentBuysMonth ==
    [][\A p \in Pair, e \in EventId :
          /\ booked'[<<e, p>>] > booked[<<e, p>>]
          /\ sent[e].end = None
          /\ row[p].status = "active"
          /\ row[p].end # None
          => row'[p].end >= Later(row[p].end, now) + TierPeriod]_vars
=============================================================================
