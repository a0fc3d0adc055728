--------------------------- MODULE WebhookRouting ---------------------------
(***************************************************************************)
(* POST /webhooks/{provider} in front of both reconcilers: Unlocks owns    *)
(* the events whose reference one of its rows stores, and every other one  *)
(* falls through to Subscriptions.  Both mark the one ledger of processed  *)
(* events.  The unlocks' variables carry a u where the name is taken.      *)
(***************************************************************************)
EXTENDS Subscriptions

CONSTANTS
    Post, Message, Link,   \* as in Unlocks
    Owner                  \* Owner[i]: the creator who sells item i

\* An unlock opens a page of Stripe, Wompi or the mock.  Ids of creators, posts
\* and messages are told apart.  A server has a thread, a reference a checkout.
ASSUME RoutingAssumption ==
    /\ Gateway \subseteq {"mock", "wompi", "stripe"}
    /\ Owner \in [Post \cup Message -> Creator]
    /\ Post \cap Message = {}
    /\ Creator \cap (Post \cup Message) = {}
    /\ Checkout # {} /\ Worker # {}

VARIABLES unlock, deleted, ubooked, returned, ujob, link, usent

unlocks == <<unlock, deleted, ubooked, returned, ujob, link, usent>>
rvars == <<vars, unlocks>>

U == INSTANCE Unlocks WITH
        booked <- ubooked, job <- ujob, sent <- usent

\* NULL is no payment link, and no pair or record.
ASSUME NullAssumption == None \notin Link \cup U!Key \cup U!Page \cup U!Event

RInit == Init /\ U!Init

\* Mutant of AsSubscriptionEvent: every gateway's payments pass for recurring.
MutAsSubscriptionEvent(ev, payer) ==
    [gateway   |-> ev.gateway,
     type      |-> ev.type,
     ref       |-> <<"charge", CHOOSE c \in Checkout : TRUE>>,
     session   |-> None,
     status    |-> IF ev.type = "succeeded" THEN "active" ELSE None,
     end       |-> None,
     payer     |-> payer,
     creator   |-> None,
     recurring |-> TRUE,
     charged   |-> <<link[ev.link].key[1], Owner[link[ev.link].key[2]]>>]

\* Wompi's flat payload for an unlock's link, as the subscription reconciler
\* reads it: a payment that names a payer and, because of its EnlacePago
\* block, passes for recurring.  The merchant reference is unlock_{id}, which
\* int() refuses, so no creator is pinned.  Its reference is one that no
\* subscription stores; charged is the buyer and the item's creator.
AsSubscriptionEvent(ev, payer) ==
    [gateway   |-> ev.gateway,
     type      |-> ev.type,
     ref       |-> <<"charge", CHOOSE c \in Checkout : TRUE>>,
     session   |-> None,
     status    |-> IF ev.type = "succeeded" THEN "active" ELSE None,
     end       |-> None,
     payer     |-> payer,
     creator   |-> None,
     recurring |-> ev.gateway = "wompi",
     charged   |-> <<link[ev.link].key[1], Owner[link[ev.link].key[2]]>>]

\* Checkouts and unlocks draw their event ids from one gateway.
DistinctIds ==
    \A e \in EventId : /\ sent'[e] # sent[e] => usent[e] = None
                       /\ usent'[e] # usent[e] => sent[e] = None

\* A thread serves one request at a time, of either kind.
OneRequest == \A w \in Worker : job'[w] = Idle \/ ujob'[w] = U!Idle

\* Mutant of FallThrough: the subscription reconciler is asked first.
MutFallThrough(e) ==
    /\ usent[e] # None /\ sent[e] = None
    /\ usent[e].type # "refunded"
    /\ e \notin processed
    /\ \E payer \in Subscriber \cup {None} :
          sent' = [sent EXCEPT ![e] = AsSubscriptionEvent(usent[e], payer)]
    /\ UNCHANGED <<db, job, checkout, delivery, now, unlocks>>

\* No unlock owns the reference: the event goes on to Subscriptions, with the
\* address the payer typed, which is the same in every delivery.
FallThrough(e) ==
    /\ usent[e] # None /\ sent[e] = None
    /\ usent[e].type # "refunded"
    /\ e \notin processed
    /\ U!ByRef(usent[e], Post \cup Message) = {}
    /\ \E payer \in Subscriber \cup {None} :
          sent' = [sent EXCEPT ![e] = AsSubscriptionEvent(usent[e], payer)]
    /\ UNCHANGED <<db, job, checkout, delivery, now, unlocks>>

\* What Unlocks does, with a broadcast sold to active followers only; an event it does not own is left to FallThrough.
UnlockStep ==
    /\ \/ \E w \in Worker, k \in U!Key, g \in Gateway :
             \/ U!BuyPost(w, k, g) /\ HasAccess(<<k[1], Owner[k[2]]>>)
             \/ U!BuyMessage(w, k, g)
       \/ \E w \in Worker, l \in Link : U!LinkCommit(w, l)
       \/ \E w \in Worker : U!LinkConflict(w) \/ U!Abort(w) \/ U!Commit(w)
       \/ \E w \in Worker, e \in EventId :
             \/ U!DeliverPaidPost(w, e) \/ U!DeliverPaidMessage(w, e)
             \/ U!DeliverMarked(e)
             \/ U!DeliverRefund(w, e) \/ U!DeliverRefundUnmatched(e)
       \/ \E l \in Link, e \in EventId : U!Pay(l, e) \/ U!Refuse(l, e) \/ U!Refund(l, e)
       \/ \E p \in Post : U!DeletePost(p)
    /\ UNCHANGED <<row, blocked, booked, job, gateways, notified, now>>

RNext ==
    \/ UnlockStep /\ DistinctIds /\ OneRequest
    \/ Next /\ UNCHANGED unlocks /\ DistinctIds /\ OneRequest
    \/ \E e \in EventId : FallThrough(e)

RSpec == RInit /\ [][RNext]_rvars

----------------------------------------------------------------------------
(* What the endpoint keeps.                                                *)

\* The payments of both kinds in one ledger.
Account == Pair \cup U!Key
AllBooked ==
    [x \in EventId \X Account |-> IF x[2] \in Pair THEN booked[x] ELSE ubooked[x]]

EL == INSTANCE RevenueLedger WITH booked <- AllBooked

\* An event takes effect once, in one of the two reconcilers: a redelivery of
\* an unlock's event that is routed to the other one, because its reference was
\* replaced meanwhile, is never booked a second time, even while the first
\* handler is at work (webhooks.py's routing over one ProcessedWebhookEvent).
EndpointLedger == EL!Spec

\* What the gateways sent about unlocks.
Mine(events) == {e \in events : usent[e] # None}

UM == INSTANCE Unlocks WITH
        booked <- ubooked, job <- ujob, sent <- usent,
        processed <- Mine(processed), acked <- Mine(acked \cup processed)

\* Whatever the subscription reconciler does with the events that fall through
\* to it, and with its own, unlocks go on as Unlocks alone describes them: an
\* event it takes is one that no unlock owns at the time it is settled, however
\* long ago it was routed (DeliverElsewhere).
UnlocksUndisturbed == UM!Spec

\* How far the routing goes wrong: a monthly payment booked for an unlock's
\* event is a completed payment through Wompi, of somebody who typed that
\* subscriber's address, and no unlock stores its link any more.
StraysAreWompi ==
    \A e \in EventId, p \in Pair :
        usent[e] # None /\ booked[<<e, p>>] > 0 =>
            /\ usent[e].gateway = "wompi" /\ usent[e].type = "succeeded"
            /\ sent[e].payer = p[1]
            /\ U!ByRef(usent[e], Post \cup Message) = {}

\* A provider's one-time purchase must never be reconciled against a
\* subscription row: that would record a spurious monthly payment for what
\* was a one-time unlock (handle_webhook's gate on event.recurring).
OneTimeIsNotMonthly ==
    \A e \in EventId : usent[e] # None =>
        \A p \in Pair : booked[<<e, p>>] = 0
=============================================================================
