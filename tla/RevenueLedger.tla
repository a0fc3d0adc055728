--------------------------- MODULE RevenueLedger ---------------------------
(***************************************************************************)
(* What the idempotency ledger promises (ProcessedWebhookEvent and Payment *)
(* in models.py): a gateway event takes effect once.  It is settled in one *)
(* transaction that marks it processed and books at most one payment, to   *)
(* one account, and no payment is booked at any other moment.              *)
(***************************************************************************)
EXTENDS Naturals

CONSTANTS EventId, Account

VARIABLES
    processed,      \* events marked in processed_webhook_event
    booked          \* booked[e, a]: payment rows event e gave account a

vars == <<processed, booked>>

Init ==
    /\ processed = {}
    /\ booked = [x \in EventId \X Account |-> 0]

Settle(e) ==
    /\ e \notin processed
    /\ processed' = processed \cup {e}
    /\ \/ UNCHANGED booked
       \/ \E a \in Account : booked' = [booked EXCEPT ![<<e, a>>] = 1]

Next == \E e \in EventId : Settle(e)

Spec == Init /\ [][Next]_vars

\* Booked at most once, to one account.
AtMostOnce ==
    \A e \in EventId : \A a, b \in Account :
        /\ booked[<<e, a>>] <= 1
        /\ booked[<<e, a>>] + booked[<<e, b>>] > 1 => a = b
=============================================================================
