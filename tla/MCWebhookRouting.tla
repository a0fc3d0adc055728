-------------------------- MODULE MCWebhookRouting --------------------------
(***************************************************************************)
(* Small instances of WebhookRouting for TLC.                              *)
(***************************************************************************)
EXTENDS WebhookRouting, TLC

\* One creator sells everything.
MCOwner == [i \in Post \cup Message |-> CHOOSE c \in Creator : TRUE]

Symmetry == Permutations(Worker) \cup Permutations(EventId)

\* Of the subscriptions' requests only the purchase: cancellation, blocks and
\* the sweep meet the webhooks in the runs of Subscriptions.
Buys ==
    \A w \in Worker : job[w].op \in {"idle", "subscribe", "checkout", "reconcile", "notify"}

\* The buyer goes for one of the two items: an event names no link but its own.
OneItem ==
    Cardinality({ujob[w].key : w \in {w \in Worker : ujob[w] # U!Idle}}
                   \cup {link[l].key : l \in {l \in Link : link[l] # None}}) <= 1

\* What a subscription's own events say: Wompi's pin the creator, the mock's tell
\* of a start or an end.  The rest of what they may say is in the runs of
\* Subscriptions.
PlainlySaid ==
    \A e \in EventId :
        sent[e] # None /\ usent[e] = None =>
            /\ sent[e].gateway = "wompi" => sent[e].creator # None
            /\ sent[e].status \in {None, "active", "canceled"}

MCNext == RNext /\ Buys' /\ OneItem' /\ PlainlySaid'
MCSpec == RInit /\ [][MCNext]_rvars
=============================================================================
