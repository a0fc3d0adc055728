--------------------------- MODULE GatewayEvents ---------------------------
(***************************************************************************)
(* What the four payment gateways send, after verify_webhook of            *)
(* payments/{stripe,paypal,wompi,mock}.py has normalized it.  The gateways *)
(* are not part of the repository; their behaviour is the one those        *)
(* modules parse.  c is the checkout an event is about, p the pair it was  *)
(* opened for, t the time of the charge.                                   *)
(***************************************************************************)
EXTENDS SubscriptionRules

\* create_subscription's external_ref: Stripe hands out the session id first.
OpenedRef(g, c) == IF g = "stripe" THEN <<"session", c>> ELSE <<"resource", c>>

\* create_subscription's current_period_end: only the mock reports one.
OpenedEnd(g, t) == IF g = "mock" THEN t + TierPeriod ELSE None

\* Gateways that charge again by themselves; a Wompi link is paid by hand and
\* the mock never charges.
AutoRenews(g) == g \in {"stripe", "paypal"}

\* Fields every event of checkout c carries.
Notice(g, c, p, type) ==
    [gateway   |-> g,
     type      |-> type,
     ref       |-> <<"resource", c>>,
     session   |-> None,
     status    |-> None,
     end       |-> None,
     payer     |-> None,
     creator   |-> None,
     recurring |-> FALSE,
     charged   |-> p]

\* A charge that went through: Stripe's invoice and PayPal's sale date a
\* period, Wompi's transaction and the mock's event do not.
ChargeNotice(g, c, p, t) ==
    [Notice(g, c, p, "succeeded") EXCEPT
        !.status = IF g = "mock" THEN None ELSE "active",
        !.end    = IF g \in {"stripe", "paypal"} THEN t + TierPeriod ELSE None]

\* A refused charge: Stripe's invoice still carries its period.
DeclineNotice(g, c, p, t) ==
    [Notice(g, c, p, "failed") EXCEPT
        !.end = IF g = "stripe" THEN t + TierPeriod ELSE None]

\* What a Wompi notification of a payment through checkout c may say, in the
\* legacy payload (transaccion) or the flat one.  It names the link, or else an
\* id that no row stores.  The address is typed in on Wompi's page, so it may be
\* another account's or nobody's (None).  It echoes the merchant reference,
\* which is the creator, or omits it, or garbles it: then no creator is pinned,
\* and the event is recurring still if it has an EnlacePago block or an
\* idSuscripcion.
AsPaid(n, c) ==
    IF n.gateway = "wompi"
    THEN {[n EXCEPT !.ref = <<x[1], c>>, !.payer = x[2],
                    !.creator = x[3][1], !.recurring = x[3][2]] :
             x \in {"resource", "charge"} \X (Subscriber \cup {None})
                     \X {<<n.charged[2], TRUE>>, <<None, TRUE>>, <<None, FALSE>>}}
    ELSE {n}

\* checkout.session.completed: names the session and the subscription, and
\* its "complete" is no subscription status, so it normalizes to active.
CompletedNotice(c, p) ==
    [Notice("stripe", c, p, "created") EXCEPT
        !.session = <<"session", c>>,
        !.status  = "active"]

\* Subscription lifecycle events.  Stripe's carry whatever status its
\* subscription is in; the mock's carry what they are given, which may be no
\* status at all.  PayPal dates a period from the time the subscription was
\* created, whatever the time of the event.
AnnouncedStatus(g) ==
    CASE g = "stripe" -> Status
      [] g = "paypal" -> {"active", "past_due"}
      [] g = "mock"   -> Status \cup {None}
      [] g = "wompi"  -> {}

LifecycleNotice(g, c, p, s, opened) ==
    [Notice(g, c, p, "updated") EXCEPT
        !.status = s,
        !.end    = IF g = "paypal" /\ s \in Follower
                   THEN opened + TierPeriod ELSE None]

\* The gateway ended the subscription; Wompi has no such event.
EndNotice(g, c, p) == [Notice(g, c, p, "canceled") EXCEPT !.status = "canceled"]
=============================================================================
