------------------------- MODULE SubscriptionRules -------------------------
(***************************************************************************)
(* The decisions of services/subscriptions.py that touch no database: what *)
(* a normalized webhook event does to the subscription row a handler has   *)
(* read, when it books a payment, and which columns the commit writes.     *)
(*                                                                         *)
(* A row is the Subscription model reduced to the columns the lifecycle    *)
(* reads and writes.  Checkouts stand for both the hosted page a gateway   *)
(* opened and its url; gateway references are pairs <<kind, checkout>>,    *)
(* because Stripe names one checkout twice (cs_... then sub_...) and a     *)
(* Wompi notification may name its transaction instead of the link.        *)
(***************************************************************************)
EXTENDS Integers

CONSTANTS
    Subscriber,     \* users who may subscribe
    Creator,        \* users with the creator role
    Gateway,        \* gateways the creators enabled, a subset of GatewayName
    Checkout,       \* hosted checkouts the gateways may open (a bound)
    TierPeriod,     \* _TIER_PERIOD_DAYS, in clock ticks
    None            \* SQL NULL / Python None

GatewayName == {"stripe", "paypal", "wompi", "mock"}

ASSUME GatewayAssumption == Gateway \subseteq GatewayName
ASSUME PeriodAssumption == TierPeriod \in Nat \ {0}
ASSUME NoneAssumption ==
    /\ None \notin Int
    /\ None \notin STRING
    /\ None \notin Subscriber \cup Creator \cup Checkout
    /\ None \notin {"session", "resource", "charge"} \X Checkout

Pair == Subscriber \X Creator

----------------------------------------------------------------------------
(* Rows.                                                                   *)

NonTerminal == {"active", "trialing", "past_due", "incomplete"}
Terminal == {"canceled", "expired"}
Status == NonTerminal \cup Terminal
Follower == {"active", "trialing"}

\* Follows from the strings being no None; the provers know no STRING.
ASSUME StatusAssumption == None \notin Status

\* "session" is Stripe's cs_ id; "resource" is the id later events carry;
\* "charge" is the id of one payment, which no row ever stores.
Ref == {"session", "resource", "charge"} \X Checkout

Row == [id      : Nat,                      \* primary key, 0 = no row
        status  : Status \cup {"absent"},
        end     : Nat \cup {None},          \* current_period_end
        gateway : GatewayName \cup {None},  \* payment_provider
        ref     : Ref \cup {None},          \* external_ref
        url     : Checkout \cup {None},     \* checkout_url
        flag    : BOOLEAN]                  \* cancel_at_period_end

NoRow == [id |-> 0, status |-> "absent", end |-> None, gateway |-> None,
          ref |-> None, url |-> None, flag |-> FALSE]

\* access.is_active_follower: no look at the block list.
IsActiveFollower(r, t) ==
    /\ r.status \in Follower
    /\ r.end = None \/ r.end > t

----------------------------------------------------------------------------
(* Normalized events (payments/base.py, WebhookEvent).                     *)

EventType == {"created", "updated", "canceled", "succeeded", "failed"}

Event == [gateway   : GatewayName,
          type      : EventType,
          ref       : Ref,
          session   : Ref \cup {None},          \* metadata.checkout_session_id
          status    : Status \cup {None},       \* subscription_status
          end       : Nat \cup {None},          \* period_end
          payer     : Subscriber \cup {None},   \* customer_email
          creator   : Creator \cup {None},      \* metadata.creator_id
          recurring : BOOLEAN,
          charged   : Pair]   \* history: whose checkout it is; never read

\* _status_from_event; None where the code returns None.
StatusFromEvent(ev, current) ==
    CASE ev.type = "canceled"  -> "canceled"
      [] ev.type = "failed"    -> IF current = "incomplete" THEN None
                                                            ELSE "past_due"
      [] ev.type = "succeeded" -> "active"
      [] OTHER                 -> ev.status

\* Mutant of NextStatus: "no transition" reaches the row.
MutNextStatus(ev, r) == StatusFromEvent(ev, r.status)

\* The status left on the row: unchanged where no transition is decided.
NextStatus(ev, r) ==
    IF StatusFromEvent(ev, r.status) = None THEN r.status
                                            ELSE StatusFromEvent(ev, r.status)

Later(a, b) == IF a >= b THEN a ELSE b

\* A payment that renews a row already active, with no period of its own.
RenewsInPlace(ev, r) ==
    /\ ev.type = "succeeded"
    /\ ev.end = None
    /\ r.status = "active"
    /\ r.end # None

\* current_period_end after the event: a supplied period wins, a gap is
\* filled for rows in good standing, a renewal in place adds one period.
NextEnd(ev, r, t) ==
    CASE ev.end # None                                     -> ev.end
      [] r.end = None /\ NextStatus(ev, r) \in Follower    -> t + TierPeriod
      [] RenewsInPlace(ev, r)             -> Later(r.end, t) + TierPeriod
      [] OTHER                                             -> r.end

\* The row a handler that read r writes for ev at time t.
Reconcile(ev, r, t) ==
    [r EXCEPT !.status = NextStatus(ev, r),
              !.end    = NextEnd(ev, r, t),
              !.url    = IF StatusFromEvent(ev, r.status) = "active"
                         THEN None ELSE @,
              !.ref    = IF ev.session # None /\ @ = ev.session
                         THEN ev.ref ELSE @]

\* Which events record a Payment: every payment.succeeded, and the mock
\* gateway's announcement that takes a row into active.
PaymentCompleted(ev, r) ==
    \/ ev.type = "succeeded"
    \/ /\ ev.gateway = "mock"
       /\ ev.type \in {"created", "updated"}
       /\ ev.status = "active"
       /\ r.status # "active"

----------------------------------------------------------------------------
(* The session's UPDATE: only columns whose value differs from the value   *)
(* the request read are written; the others keep what is now in the table. *)

Column(now, read, new) == IF new = read THEN now ELSE new

\* Mutant of Flush: the whole row is written back.
MutFlush(now, read, new) == [new EXCEPT !.id = now.id]

Flush(now, read, new) ==
    [id      |-> now.id,
     status  |-> Column(now.status, read.status, new.status),
     end     |-> Column(now.end, read.end, new.end),
     gateway |-> Column(now.gateway, read.gateway, new.gateway),
     ref     |-> Column(now.ref, read.ref, new.ref),
     url     |-> Column(now.url, read.url, new.url),
     flag    |-> Column(now.flag, read.flag, new.flag)]
=============================================================================
