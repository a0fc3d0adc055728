------------------------------ MODULE Unlocks ------------------------------
(***************************************************************************)
(* One-time purchases: paid broadcasts (services/broadcasts.py, rows of    *)
(* paid_unlock) and paid messages (services/paid_messages.py, rows of      *)
(* paid_message_unlock).  A subscriber is handed a gateway's payment link, *)
(* pays there, and the webhook opens the item; a refund closes it; the     *)
(* same row is then reactivated with a new link.                           *)
(*                                                                         *)
(* A handler reads and commits in two steps, with the row it read in       *)
(* job[w]; the session's UPDATE names only the columns it changed.         *)
(***************************************************************************)
EXTENDS Naturals, FiniteSets

CONSTANTS
    Subscriber, Post, Message,   \* buyers; items with a price
    Gateway,                     \* gateways a creator has enabled
    Worker,                      \* API threads (a bound)
    Link, EventId,               \* payment links and events (bounds)
    None

Item == Post \cup Message
Key == Subscriber \X Item

ASSUME GatewayAssumption == Gateway \subseteq {"mock", "wompi", "stripe"}
ASSUME ItemsAssumption == Post \cap Message = {}

VARIABLES
    unlock,       \* unlock[k]: the row of subscriber k[1] and item k[2]
    deleted,      \* posts their creator deleted
    processed,    \* events marked in processed_webhook_event
    booked,       \* booked[e, k]: payments of kind "unlock" event e gave k
    returned,     \* those whose status is "refunded"
    job,          \* job[w]: the request worker w is in the middle of
    link,         \* link[l]: whom the gateway opened payment link l for
    sent,         \* sent[e]: the event with id e, once a gateway sent it
    acked         \* events answered with a 200

db == <<unlock, deleted, processed, booked, returned>>
vars == <<unlock, deleted, processed, booked, returned, job, link, sent, acked>>

Row == [gateway : Gateway \cup {None}, ref : Link \cup {None},
        url : Link \cup {None}, paid : BOOLEAN, refunded : BOOLEAN]

NoRow == [gateway |-> None, ref |-> None, url |-> None,
          paid |-> FALSE, refunded |-> FALSE]

\* What a gateway sends about a payment link.  ref: the reference it quotes,
\* if it is the link's; meta: the buyer and item stamped on the charge, if it
\* returns them; link: the link that was paid, which no handler sees.
Event == [gateway : Gateway, type : {"succeeded", "failed", "created", "refunded"},
          ref : Link \cup {None}, meta : Key \cup {None}, link : Link]

Page == [gateway : Gateway, key : Key, charged : BOOLEAN]

ASSUME NoneAssumption == None \notin Link \cup Key \cup Page \cup Event

Job == [op : {"idle"}]
       \cup [op : {"link"}, key : Key, gateway : Gateway, read : Row]
       \cup [op : {"paid", "refund"}, key : Key, event : EventId, read : Row]

Idle == [op |-> "idle"]

TypeOK ==
    /\ unlock \in [Key -> Row]
    /\ deleted \subseteq Post
    /\ processed \subseteq EventId
    /\ booked \in [EventId \X Key -> Nat]
    /\ returned \subseteq EventId \X Key
    /\ job \in [Worker -> Job]
    /\ link \in [Link -> Page \cup {None}]
    /\ sent \in [EventId -> Event \cup {None}]
    /\ acked \subseteq EventId

Init ==
    /\ unlock = [k \in Key |-> NoRow]
    /\ deleted = {}
    /\ processed = {}
    /\ booked = [x \in EventId \X Key |-> 0]
    /\ returned = {}
    /\ job = [w \in Worker |-> Idle]
    /\ link = [l \in Link |-> None]
    /\ sent = [e \in EventId |-> None]
    /\ acked = {}

Start(w, j) == job[w] = Idle /\ job' = [job EXCEPT ![w] = j]
Finish(w) == job' = [job EXCEPT ![w] = Idle]

----------------------------------------------------------------------------
(* The lock.                                                               *)

\* get_unlock: the row is in force once paid, until refunded.
Open(k) == unlock[k].paid /\ ~unlock[k].refunded

Present(k) == unlock[k].ref # None

\* create_unlock answers from the row it has unless there is none, it was
\* refunded, or it is neither paid nor has a page to return to.
NeedsLink(r) == r.refunded \/ (~r.paid /\ r.url = None)

----------------------------------------------------------------------------
(* POST /content/{post_id}/unlock and POST /messages/{message_id}/unlock.  *)

\* The service goes to the gateway with the row it read.
BuyPost(w, k, g) ==
    /\ k[2] \in Post \ deleted
    /\ NeedsLink(unlock[k])
    /\ Start(w, [op |-> "link", key |-> k, gateway |-> g, read |-> unlock[k]])
    /\ UNCHANGED <<db, link, sent, acked>>

\* A message is bought by its recipient, follower or not.
BuyMessage(w, k, g) ==
    /\ k[2] \in Message
    /\ NeedsLink(unlock[k])
    /\ Start(w, [op |-> "link", key |-> k, gateway |-> g, read |-> unlock[k]])
    /\ UNCHANGED <<db, link, sent, acked>>

\* The row after its UPDATE: reference and page are new, the other columns
\* are written where they differ from what was read.
Relinked(cur, read, g, l) ==
    [cur EXCEPT !.gateway  = IF read.gateway = g THEN @ ELSE g,
                !.ref      = l,
                !.url      = l,
                !.paid     = IF read.paid THEN FALSE ELSE @,
                !.refunded = IF read.refunded THEN FALSE ELSE @]

\* The gateway opened link l and the row is committed: inserted, or
\* reactivated in place.  The page's url goes out with the response.
LinkCommit(w, l) ==
    /\ job[w].op = "link"
    /\ link[l] = None
    /\ LET k == job[w].key
           g == job[w].gateway
           read == job[w].read
       IN  /\ k[2] \notin deleted
           /\ (read = NoRow) = ~Present(k)
           /\ unlock' = [unlock EXCEPT ![k] = Relinked(@, read, g, l)]
           /\ link' = [link EXCEPT ![l] =
                          [gateway |-> g, key |-> k, charged |-> FALSE]]
    /\ Finish(w)
    /\ UNCHANGED <<deleted, processed, booked, returned, sent, acked>>

\* uq_paid_(message_)unlock: another first purchase inserted the row; its url
\* is answered and nobody receives this one's.
LinkConflict(w) ==
    /\ job[w].op = "link"
    /\ job[w].read = NoRow
    /\ Present(job[w].key)
    /\ Finish(w)
    /\ UNCHANGED <<db, link, sent, acked>>

\* DELETE /creator/content/{post_id}: the unlocks go, the payments stay.
DeletePost(p) ==
    /\ p \notin deleted
    /\ deleted' = deleted \cup {p}
    /\ unlock' = [k \in Key |-> IF k[2] = p THEN NoRow ELSE unlock[k]]
    /\ UNCHANGED <<processed, booked, returned, job, link, sent, acked>>

----------------------------------------------------------------------------
(* POST /webhooks/{provider}: routing by reference.                        *)

\* Mutant of ByRef: the refund lookup's condition, paid rows only.
MutByRef(ev, items) ==
    {k \in Key : /\ k[2] \in items
                 /\ unlock[k].paid
                 /\ unlock[k].ref = ev.ref
                 /\ unlock[k].gateway = ev.gateway
                 /\ ~unlock[k].refunded}

\* find_by_ref: any state but refunded.
ByRef(ev, items) ==
    {k \in Key : /\ k[2] \in items
                 /\ Present(k)
                 /\ unlock[k].ref = ev.ref
                 /\ unlock[k].gateway = ev.gateway
                 /\ ~unlock[k].refunded}

Undelivered(e) == sent[e] # None /\ e \notin processed

\* An event that is marked already is a duplicate: acknowledged, no effect.
DeliverDuplicate(e) ==
    /\ e \in processed
    /\ acked' = acked \cup {e}
    /\ UNCHANGED <<db, job, link, sent>>

\* Mutant of OpensUnlock: a refused payment is taken for a payment.
MutOpensUnlock(ev) == ev.type \in {"succeeded", "failed"}

\* Only payment.succeeded opens; Stripe's checkout.session.completed is
\* normalized to subscription.created and does not.
OpensUnlock(ev) == ev.type = "succeeded"

\* A payment for a broadcast, or else for a message, that stores its ref.
DeliverPaidPost(w, e) ==
    /\ Undelivered(e) /\ OpensUnlock(sent[e])
    /\ \E k \in ByRef(sent[e], Post) :
          Start(w, [op |-> "paid", key |-> k, event |-> e, read |-> unlock[k]])
    /\ UNCHANGED <<db, link, sent, acked>>

DeliverPaidMessage(w, e) ==
    /\ Undelivered(e) /\ OpensUnlock(sent[e])
    /\ \E k \in ByRef(sent[e], Message) :
          Start(w, [op |-> "paid", key |-> k, event |-> e, read |-> unlock[k]])
    /\ UNCHANGED <<db, link, sent, acked>>

\* Any other event of an unlock's reference is only marked.
DeliverMarked(e) ==
    /\ Undelivered(e)
    /\ ~OpensUnlock(sent[e]) /\ sent[e].type # "refunded"
    /\ ByRef(sent[e], Item) # {}
    /\ processed' = processed \cup {e}
    /\ acked' = acked \cup {e}
    /\ UNCHANGED <<unlock, deleted, booked, returned, job, link, sent>>

\* No unlock owns the reference: the subscription reconciler answers, and may
\* mark the event.
DeliverElsewhere(e) ==
    /\ Undelivered(e)
    /\ sent[e].type # "refunded"
    /\ ByRef(sent[e], Item) = {}
    /\ processed' \in {processed, processed \cup {e}}
    /\ acked' = acked \cup {e}
    /\ UNCHANGED <<unlock, deleted, booked, returned, job, link, sent>>

\* Mutant of Markable: no unique constraint on the ledger.
MutMarkable(e) == TRUE

\* uq_webhook_event_provider_id lets the mark in.
Markable(e) == e \notin processed

\* Mutant of Books: the payment row is forgotten.
MutBooks(read) == FALSE

\* A row that was paid already books nothing more.
Books(read) == ~read.paid

\* Row, payment and mark commit together (handle_paid, _mark_processed).  The
\* row must still be there: an UPDATE of no row fails.
PaidCommit(w) ==
    /\ job[w].op = "paid"
    /\ Markable(job[w].event)
    /\ LET e == job[w].event
           k == job[w].key
           read == job[w].read
       IN  /\ read.paid \/ Present(k)
           /\ unlock' = IF read.paid THEN unlock
                        ELSE [unlock EXCEPT
                                ![k].paid = TRUE,
                                ![k].url = IF read.url = None THEN @ ELSE None]
           /\ booked' = [booked EXCEPT ![<<e, k>>] =
                            IF Books(read) THEN @ + 1 ELSE @]
           /\ processed' = processed \cup {e}
           /\ acked' = acked \cup {e}
    /\ Finish(w)
    /\ UNCHANGED <<deleted, returned, link, sent>>

\* A concurrent delivery of the event committed first: rolled back.
CommitLost(w) ==
    /\ job[w].op \in {"paid", "refund"}
    /\ ~Markable(job[w].event)
    /\ acked' = acked \cup {job[w].event}
    /\ Finish(w)
    /\ UNCHANGED <<db, link, sent>>

----------------------------------------------------------------------------
(* payment.refunded.                                                       *)

Charged(ev) ==
    {k \in Key : unlock[k].paid /\ unlock[k].ref = ev.ref
                                /\ unlock[k].gateway = ev.gateway}

\* BroadcastService._unlock_from_event: the paid row of the reference, else
\* the row the charge's metadata names, paid or not.
RefundedPost(ev) ==
    LET own == {k \in Charged(ev) : k[2] \in Post}
    IN  IF own # {} THEN own
        ELSE {k \in Key : k = ev.meta /\ k[2] \in Post
                                      /\ Present(k) /\ unlock[k].gateway = ev.gateway}

\* The router asks for a broadcast with the reference first; every other
\* refund is looked up among the paid messages, by reference only.
Refunded(ev) ==
    IF ByRef(ev, Post) # {}
    THEN RefundedPost(ev)
    ELSE {k \in Charged(ev) : k[2] \in Message}

DeliverRefund(w, e) ==
    /\ Undelivered(e) /\ sent[e].type = "refunded"
    /\ \E k \in Refunded(sent[e]) :
          Start(w, [op |-> "refund", key |-> k, event |-> e, read |-> unlock[k]])
    /\ UNCHANGED <<db, link, sent, acked>>

\* No unlock: answered with a 200 and left unmarked.
DeliverRefundUnmatched(e) ==
    /\ Undelivered(e) /\ sent[e].type = "refunded"
    /\ Refunded(sent[e]) = {}
    /\ acked' = acked \cup {e}
    /\ UNCHANGED <<db, job, link, sent>>

Completed == {x \in EventId \X Key : booked[x] > 0} \ returned

\* A completed payment with the refund's reference; for a broadcast, failing
\* that, one of the buyer and post its metadata names (the code takes the
\* oldest; the model any); for a message it must be that message's.
RefundedPayment(ev, k) ==
    LET own == {x \in Completed : sent[x[1]].ref = ev.ref /\ ev.ref # None}
    IN  CASE k[2] \in Message -> {x \in own : x[2] = k}
          [] own # {}         -> own
          [] OTHER            -> {x \in Completed : x[2] = ev.meta}

\* What the handler marks refunded: one such payment, if there is any.
Returns(ev, k) ==
    LET found == RefundedPayment(ev, k)
    IN  IF found = {} THEN {{}} ELSE {{x} : x \in found}

RefundCommit(w) ==
    /\ job[w].op = "refund"
    /\ Markable(job[w].event)
    /\ LET e == job[w].event
           k == job[w].key
       IN  /\ Present(k)
           /\ unlock' = [unlock EXCEPT
                            ![k].refunded = TRUE,
                            ![k].paid = IF job[w].read.paid THEN FALSE ELSE @]
           /\ \E x \in Returns(sent[e], k) : returned' = returned \cup x
           /\ processed' = processed \cup {e}
           /\ acked' = acked \cup {e}
    /\ Finish(w)
    /\ UNCHANGED <<deleted, booked, link, sent>>

----------------------------------------------------------------------------
\* A request dies before it commits: its session is rolled back.
Abort(w) ==
    /\ job[w] # Idle
    /\ Finish(w)
    /\ UNCHANGED <<db, link, sent, acked>>

(* The gateways.                                                           *)

Send(e, ev) == sent[e] = None /\ sent' = [sent EXCEPT ![e] = ev]

Notice(l, type) ==
    [gateway |-> link[l].gateway, type |-> type, ref |-> l, meta |-> None, link |-> l]

\* The subscriber pays, once or again.  Wompi may omit the link's id and name
\* the transaction; Stripe reports the finished session.
Pay(l, e) ==
    /\ link[l] # None
    /\ LET paid == Notice(l, IF link[l].gateway = "stripe" THEN "created"
                                                           ELSE "succeeded")
       IN  \/ Send(e, paid)
           \/ link[l].gateway = "wompi" /\ Send(e, [paid EXCEPT !.ref = None])
    /\ link' = [link EXCEPT ![l].charged = TRUE]
    /\ UNCHANGED <<db, job, acked>>

\* A payment is refused.
Refuse(l, e) ==
    /\ link[l] # None
    /\ link[l].gateway \in {"mock", "wompi"}
    /\ Send(e, Notice(l, "failed"))
    /\ UNCHANGED <<db, job, link, acked>>

\* A charge is refunded.  The mock quotes the link, and may return the
\* metadata; Stripe quotes the charge and returns it; Wompi sends nothing.
Refund(l, e) ==
    /\ link[l] # None
    /\ link[l].charged
    /\ \/ /\ link[l].gateway = "mock"
          /\ \E meta \in {None, link[l].key} :
                Send(e, [Notice(l, "refunded") EXCEPT !.meta = meta])
       \/ /\ link[l].gateway = "stripe"
          /\ Send(e, [Notice(l, "refunded") EXCEPT !.ref = None, !.meta = link[l].key])
    /\ UNCHANGED <<db, job, link, acked>>

----------------------------------------------------------------------------
Buy(w) ==
    \/ \E k \in Key, g \in Gateway : BuyPost(w, k, g) \/ BuyMessage(w, k, g)
    \/ \E l \in Link : LinkCommit(w, l)
    \/ LinkConflict(w)
    \/ Abort(w)

Deliver(w, e) ==
    \/ DeliverPaidPost(w, e) \/ DeliverPaidMessage(w, e)
    \/ DeliverMarked(e) \/ DeliverElsewhere(e) \/ DeliverDuplicate(e)
    \/ DeliverRefund(w, e) \/ DeliverRefundUnmatched(e)

Commit(w) == PaidCommit(w) \/ RefundCommit(w) \/ CommitLost(w)

Next ==
    \/ \E w \in Worker : Buy(w) \/ Commit(w) \/ \E e \in EventId : Deliver(w, e)
    \/ \E l \in Link, e \in EventId : Pay(l, e) \/ Refuse(l, e) \/ Refund(l, e)
    \/ \E p \in Post : DeletePost(p)

Spec == Init /\ [][Next]_vars

----------------------------------------------------------------------------
(* What must hold.                                                         *)

\* Nobody sees an item without a payment: an open unlock has a processed
\* payment of a link that was opened for that very subscriber and item,
\* whatever purchases, refunds and redeliveries overlap.
OpenIsPaid ==
    \A k \in Key : Open(k) =>
        \E e \in processed : sent[e].type = "succeeded" /\ link[sent[e].link].key = k

RefundsOf(k) ==
    {e \in processed : sent[e].type = "refunded" /\ link[sent[e].link].key = k}

\* Access and revenue agree: an open unlock is covered by a payment row of
\* its own that has not been refunded, whichever two handlers overlap.  It
\* takes a second refund of the item, that read the row before a payment and
\* commits after it, to open one without (a row refunded, paid late, refunded
\* again and bought again: three handlers at once).
OpenIsCounted ==
    \A k \in Key : Open(k) =>
        \/ \E x \in Completed : x[2] = k
        \/ \E e, f \in RefundsOf(k) : e # f

Ledger == INSTANCE RevenueLedger WITH Account <- Key

\* Unlock webhooks settle an event at most once (ProcessedWebhookEvent).
ImplementsLedger == Ledger!Spec

\* A payment that was answered with a 200 is not sent again, so it has opened
\* its item: no order of purchases, refunds, deliveries and crashes leaves a
\* row locked whose stored link was paid and acknowledged (handle_paid).
AckedIsOpened ==
    \A e \in acked, k \in Key :
        /\ sent[e].type = "succeeded"
        /\ Present(k) /\ unlock[k].ref = sent[e].ref
        /\ unlock[k].gateway = sent[e].gateway
        => unlock[k].paid \/ unlock[k].refunded
=============================================================================
