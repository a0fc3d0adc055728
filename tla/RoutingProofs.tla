--------------------------- MODULE RoutingProofs ---------------------------
(***************************************************************************)
(* Theorems about WebhookRouting: the two reconcilers behind one endpoint. *)
(* What each does alone is proved in SubscriptionsProofs and UnlocksProofs *)
(* and used here step by step; what is new is where they meet, the ids of  *)
(* events, the ledger of processed ones and the events that fall through.  *)
(***************************************************************************)
EXTENDS WebhookRouting, SubscriptionsProofs

\* The lemmas about Unlocks, for the unlocks as UM sees them.
UP == INSTANCE UnlocksProofs WITH
        booked <- ubooked, job <- ujob, sent <- usent,
        processed <- Mine(processed), acked <- Mine(acked \cup processed)

\* Unlocks' own assumptions.
LEMMA UnlocksAssumed ==
    /\ UP!GatewayAssumption
    /\ UP!ItemsAssumption
    /\ UP!NoneAssumption
BY RoutingAssumption, NullAssumption
   DEF UP!GatewayAssumption, UP!ItemsAssumption, UP!NoneAssumption,
       UP!Item, UP!Key, UP!Page, UP!Event, U!Item, U!Key, U!Page, U!Event

----------------------------------------------------------------------------
(* UM is Unlocks as UnlocksProofs knows it: the same definitions, taken in *)
(* twice.                                                                  *)

LEMMA SameInit == UM!Init => UP!Init
BY Zenon DEF UM!Init, UP!Init, UM!Item, UP!Item, UM!Key, UP!Key, UM!NoRow, UP!NoRow,
       UM!Idle, UP!Idle

LEMMA SameStep == [UM!Next]_(UM!vars) => [UP!Next]_(UP!vars)
<1> USE DEF UM!Item, UP!Item, UM!Key, UP!Key, UM!db, UP!db, UM!Idle, UP!Idle,
            UM!Start, UP!Start, UM!Finish, UP!Finish, UM!Present, UP!Present,
            UM!NoRow, UP!NoRow
<1>1. \A w \in Worker : UM!Buy(w) => UP!Buy(w)
  BY Zenon DEF UM!Buy, UP!Buy, UM!NeedsLink, UP!NeedsLink, UM!BuyPost, UP!BuyPost,
         UM!BuyMessage, UP!BuyMessage, UM!Relinked, UP!Relinked, UM!LinkCommit,
         UP!LinkCommit, UM!LinkConflict, UP!LinkConflict, UM!Abort, UP!Abort
<1>2. \A w \in Worker, e \in EventId : UM!Deliver(w, e) => UP!Deliver(w, e)
  <2> SUFFICES ASSUME NEW w \in Worker, NEW e \in EventId
               PROVE  UM!Deliver(w, e) => UP!Deliver(w, e)
    OBVIOUS
  <2> USE DEF UM!Undelivered, UP!Undelivered, UM!OpensUnlock, UP!OpensUnlock
  <2>1. \A items : UM!ByRef(usent[e], items) = UP!ByRef(usent[e], items)
    BY DEF UM!ByRef, UP!ByRef
  <2>2. UM!Refunded(usent[e]) = UP!Refunded(usent[e])
    BY <2>1 DEF UM!Charged, UP!Charged, UM!RefundedPost, UP!RefundedPost,
                UM!Refunded, UP!Refunded
  <2>3. /\ UM!DeliverPaidPost(w, e) => UP!DeliverPaidPost(w, e)
        /\ UM!DeliverPaidMessage(w, e) => UP!DeliverPaidMessage(w, e)
    BY <2>1 DEF UM!DeliverPaidPost, UP!DeliverPaidPost, UM!DeliverPaidMessage,
                UP!DeliverPaidMessage
  <2>4. /\ UM!DeliverMarked(e) => UP!DeliverMarked(e)
        /\ UM!DeliverElsewhere(e) => UP!DeliverElsewhere(e)
        /\ UM!DeliverDuplicate(e) => UP!DeliverDuplicate(e)
    BY <2>1, Zenon
    DEF UM!DeliverMarked, UP!DeliverMarked, UM!DeliverElsewhere,
        UP!DeliverElsewhere, UM!DeliverDuplicate, UP!DeliverDuplicate
  <2>5. /\ UM!DeliverRefund(w, e) => UP!DeliverRefund(w, e)
        /\ UM!DeliverRefundUnmatched(e) => UP!DeliverRefundUnmatched(e)
    BY <2>2 DEF UM!DeliverRefund, UP!DeliverRefund, UM!DeliverRefundUnmatched,
                UP!DeliverRefundUnmatched
  <2>6. QED
    BY <2>3, <2>4, <2>5 DEF UM!Deliver, UP!Deliver
<1>3. \A w \in Worker : UM!Commit(w) => UP!Commit(w)
  BY Zenon DEF UM!Commit, UP!Commit, UM!Markable, UP!Markable, UM!Books, UP!Books,
         UM!PaidCommit, UP!PaidCommit, UM!CommitLost, UP!CommitLost,
         UM!Completed, UP!Completed, UM!RefundedPayment, UP!RefundedPayment,
         UM!Returns, UP!Returns, UM!RefundCommit, UP!RefundCommit
<1>4. \A l \in Link, e \in EventId :
         /\ UM!Pay(l, e) => UP!Pay(l, e)
         /\ UM!Refuse(l, e) => UP!Refuse(l, e)
         /\ UM!Refund(l, e) => UP!Refund(l, e)
  BY DEF UM!Send, UP!Send, UM!Notice, UP!Notice, UM!Pay, UP!Pay,
         UM!Refuse, UP!Refuse, UM!Refund, UP!Refund
<1>5. \A p \in Post : UM!DeletePost(p) => UP!DeletePost(p)
  BY DEF UM!DeletePost, UP!DeletePost
<1>6. UNCHANGED UM!vars => UNCHANGED UP!vars
  BY DEF UM!vars, UP!vars
<1>7. QED
  BY <1>1, <1>2, <1>3, <1>4, <1>5, <1>6 DEF UM!Next, UP!Next

----------------------------------------------------------------------------
(* What Unlocks does behind the endpoint is a step of UM.                  *)

\* Every event that was marked or answered was sent by somebody.
Known ==
    \A e \in processed \cup acked :
        e \in EventId /\ (sent[e] # None \/ usent[e] # None)

\* How the events about unlocks follow the ledger that both share.
LEMMA MineMoves ==
    /\ UNCHANGED <<processed, acked, usent>> =>
           UNCHANGED <<Mine(processed), Mine(acked \cup processed)>>
    /\ \A e \in EventId : UNCHANGED usent /\ usent[e] # None =>
           /\ processed' = processed => UNCHANGED Mine(processed)
           /\ processed' = processed \cup {e} =>
                  Mine(processed)' = Mine(processed) \cup {e}
           /\ acked' = acked \cup {e} /\ processed' \in {processed, processed \cup {e}} =>
                  Mine(acked \cup processed)' = Mine(acked \cup processed) \cup {e}
BY DEF Mine

\* A gateway's new event about an unlock has an id nobody answered to.
LEMMA MineSent ==
    ASSUME Known, DistinctIds, UNCHANGED <<processed, acked>>,
           \A e \in EventId : usent[e] # None => usent'[e] # None
    PROVE  UNCHANGED <<Mine(processed), Mine(acked \cup processed)>>
<1>1. \A e \in processed \cup acked : usent'[e] # None => usent[e] # None
  BY DEF Known, DistinctIds
<1>2. QED
  BY <1>1 DEF Mine, Known

LEMMA UnlockRefines ==
    ASSUME UP!Owned, Known, UnlockStep, DistinctIds
    PROVE  [UM!Next]_(UM!vars)
<1> USE DEF U!Item, UM!Item, U!Key, UM!Key, U!db, UM!db, U!Idle, UM!Idle,
            U!Start, UM!Start, U!Finish, UM!Finish, U!Present, UM!Present,
            U!NoRow, UM!NoRow
<1>k. U!Key = UM!Key
  OBVIOUS
<1>1. ASSUME NEW w \in Worker, NEW k \in U!Key, NEW g \in Gateway,
             U!BuyPost(w, k, g) \/ U!BuyMessage(w, k, g)
      PROVE  UM!Buy(w)
  <2>1. UNCHANGED <<processed, acked, usent>>
    BY <1>1 DEF U!BuyPost, U!BuyMessage
  <2>2. UNCHANGED <<Mine(processed), Mine(acked \cup processed)>>
    BY <2>1, MineMoves
  <2>3. UM!BuyPost(w, k, g) \/ UM!BuyMessage(w, k, g)
    BY <1>1, <2>2 DEF U!BuyPost, U!BuyMessage, UM!BuyPost, UM!BuyMessage,
                      U!NeedsLink, UM!NeedsLink
  <2>4. QED
    BY <2>3 DEF UM!Buy
<1>2. ASSUME NEW w \in Worker,
             (\E l \in Link : U!LinkCommit(w, l)) \/ U!LinkConflict(w) \/ U!Abort(w)
      PROVE  UM!Buy(w)
  <2>1. UNCHANGED <<processed, acked, usent>>
    BY <1>2 DEF U!LinkCommit, U!LinkConflict, U!Abort
  <2>2. UNCHANGED <<Mine(processed), Mine(acked \cup processed)>>
    BY <2>1, MineMoves
  <2>3. \A l \in Link : U!LinkCommit(w, l) => UM!LinkCommit(w, l)
    BY <2>2 DEF U!LinkCommit, UM!LinkCommit, U!Relinked, UM!Relinked
  <2>4. QED
    BY <1>2, <2>2, <2>3 DEF U!LinkConflict, UM!LinkConflict, U!Abort, UM!Abort, UM!Buy
<1>3. ASSUME NEW w \in Worker, U!Commit(w)
      PROVE  UM!Commit(w)
  <2> DEFINE e == ujob[w].event
  <2>1. UNCHANGED usent
    BY <1>3 DEF U!Commit, U!PaidCommit, U!RefundCommit, U!CommitLost
  <2>2. ujob[w].op \in {"paid", "refund"}
    BY <1>3 DEF U!Commit, U!PaidCommit, U!RefundCommit, U!CommitLost
  <2>3. usent[e] # None /\ e \in EventId
    BY <2>2, UP!JobFields, UnlocksAssumed DEF UP!Owned, UP!JobsOwned, UP!JobOwned, UP!TypeOK
  <2>4. e \in processed <=> e \in Mine(processed)
    BY <2>3 DEF Mine
  <2>5. CASE U!PaidCommit(w)
    <3>1. Mine(processed)' = Mine(processed) \cup {e}
          /\ Mine(acked \cup processed)' = Mine(acked \cup processed) \cup {e}
      BY <2>1, <2>3, <2>5, MineMoves DEF U!PaidCommit
    <3>2. UM!PaidCommit(w)
      BY <2>4, <2>5, <3>1 DEF U!PaidCommit, UM!PaidCommit, U!Markable, UM!Markable,
                              U!Books, UM!Books
    <3>3. QED
      BY <3>2 DEF UM!Commit
  <2>6. CASE U!RefundCommit(w)
    <3>1. Mine(processed)' = Mine(processed) \cup {e}
          /\ Mine(acked \cup processed)' = Mine(acked \cup processed) \cup {e}
      BY <2>1, <2>3, <2>6, MineMoves DEF U!RefundCommit
    <3>2. \A k : U!Returns(usent[e], k) = UM!Returns(usent[e], k)
      BY DEF U!Returns, UM!Returns, U!RefundedPayment, UM!RefundedPayment,
             U!Completed, UM!Completed
    <3>3. UM!RefundCommit(w)
      BY <2>4, <2>6, <3>1, <3>2 DEF U!RefundCommit, UM!RefundCommit,
                                    U!Markable, UM!Markable
    <3>4. QED
      BY <3>3 DEF UM!Commit
  <2>7. CASE U!CommitLost(w)
    <3>1. Mine(processed)' = Mine(processed)
          /\ Mine(acked \cup processed)' = Mine(acked \cup processed) \cup {e}
      BY <2>1, <2>3, <2>7, MineMoves DEF U!CommitLost
    <3>2. UM!CommitLost(w)
      BY <2>4, <2>7, <3>1 DEF U!CommitLost, UM!CommitLost, U!Markable, UM!Markable
    <3>3. QED
      BY <3>2 DEF UM!Commit
  <2>8. QED
    BY <1>3, <2>5, <2>6, <2>7 DEF U!Commit
<1>4. ASSUME NEW w \in Worker, NEW e \in EventId,
             \/ U!DeliverPaidPost(w, e) \/ U!DeliverPaidMessage(w, e)
             \/ U!DeliverMarked(e)
             \/ U!DeliverRefund(w, e) \/ U!DeliverRefundUnmatched(e)
      PROVE  UM!Deliver(w, e)
  <2> USE DEF U!Undelivered, UM!Undelivered, U!OpensUnlock, UM!OpensUnlock
  <2>1. \A items : U!ByRef(usent[e], items) = UM!ByRef(usent[e], items)
    BY DEF U!ByRef, UM!ByRef
  <2>2. U!Refunded(usent[e]) = UM!Refunded(usent[e])
    BY <2>1 DEF U!Charged, UM!Charged, U!RefundedPost, UM!RefundedPost,
                U!Refunded, UM!Refunded
  <2>3. usent[e] # None /\ e \notin processed
    BY <1>4 DEF U!DeliverPaidPost, U!DeliverPaidMessage, U!DeliverMarked,
                U!DeliverRefund, U!DeliverRefundUnmatched
  <2>4. e \notin Mine(processed)
    BY <2>3 DEF Mine
  <2>5. CASE U!DeliverPaidPost(w, e) \/ U!DeliverPaidMessage(w, e)
    <3>1. UNCHANGED <<Mine(processed), Mine(acked \cup processed)>>
      BY <2>5, MineMoves DEF U!DeliverPaidPost, U!DeliverPaidMessage
    <3>2. UM!DeliverPaidPost(w, e) \/ UM!DeliverPaidMessage(w, e)
      BY <2>1, <2>4, <2>5, <3>1 DEF U!DeliverPaidPost, U!DeliverPaidMessage,
                                    UM!DeliverPaidPost, UM!DeliverPaidMessage
    <3>3. QED
      BY <3>2 DEF UM!Deliver
  <2>6. CASE U!DeliverMarked(e)
    <3>1. Mine(processed)' = Mine(processed) \cup {e}
          /\ Mine(acked \cup processed)' = Mine(acked \cup processed) \cup {e}
      BY <2>3, <2>6, MineMoves DEF U!DeliverMarked
    <3>2. UM!DeliverMarked(e)
      BY <2>1, <2>4, <2>6, <3>1 DEF U!DeliverMarked, UM!DeliverMarked
    <3>3. QED
      BY <3>2 DEF UM!Deliver
  <2>7. CASE U!DeliverRefund(w, e)
    <3>1. UNCHANGED <<Mine(processed), Mine(acked \cup processed)>>
      BY <2>7, MineMoves DEF U!DeliverRefund
    <3>2. UM!DeliverRefund(w, e)
      BY <2>2, <2>4, <2>7, <3>1 DEF U!DeliverRefund, UM!DeliverRefund
    <3>3. QED
      BY <3>2 DEF UM!Deliver
  <2>8. CASE U!DeliverRefundUnmatched(e)
    <3>1. Mine(processed)' = Mine(processed)
          /\ Mine(acked \cup processed)' = Mine(acked \cup processed) \cup {e}
      BY <2>3, <2>8, MineMoves DEF U!DeliverRefundUnmatched
    <3>2. UM!DeliverRefundUnmatched(e)
      BY <2>2, <2>4, <2>8, <3>1 DEF U!DeliverRefundUnmatched, UM!DeliverRefundUnmatched
    <3>3. QED
      BY <3>2 DEF UM!Deliver
  <2>9. QED
    BY <1>4, <2>5, <2>6, <2>7, <2>8
<1>5. ASSUME NEW l \in Link, NEW e \in EventId,
             U!Pay(l, e) \/ U!Refuse(l, e) \/ U!Refund(l, e)
      PROVE  UM!Pay(l, e) \/ UM!Refuse(l, e) \/ UM!Refund(l, e)
  <2>1. UNCHANGED <<processed, acked>>
    BY <1>5 DEF U!Pay, U!Refuse, U!Refund
  <2>2. \E ev : usent[e] = None /\ usent' = [usent EXCEPT ![e] = ev]
    BY <1>5 DEF U!Pay, U!Refuse, U!Refund, U!Send
  <2>3. \A f \in EventId : usent[f] # None => usent'[f] # None
    BY <2>2 DEF UP!Owned, UP!TypeOK
  <2>4. UNCHANGED <<Mine(processed), Mine(acked \cup processed)>>
    BY <2>1, <2>3, MineSent
  <2>5. QED
    BY <1>5, <2>4 DEF U!Send, UM!Send, U!Notice, UM!Notice, U!Pay, UM!Pay,
                      U!Refuse, UM!Refuse, U!Refund, UM!Refund
<1>6. ASSUME NEW p \in Post, U!DeletePost(p)
      PROVE  UM!DeletePost(p)
  <2>1. UNCHANGED <<Mine(processed), Mine(acked \cup processed)>>
    BY <1>6, MineMoves DEF U!DeletePost
  <2>2. QED
    BY <1>6, <2>1 DEF U!DeletePost, UM!DeletePost
<1>7. QED
  BY <1>1, <1>2, <1>3, <1>4, <1>5, <1>6 DEF UnlockStep, UM!Next

----------------------------------------------------------------------------
(* What Subscriptions does is a step of UM, or none.                       *)

\* A step answers and marks nothing new, or one event that was sent.
LEMMA AckEffects ==
    ASSUME TypeInv, NoticedOnce, [Next]_vars
    PROVE  \/ /\ processed' = processed
              /\ acked' \cup processed' = acked \cup processed
           \/ \E e \in EventId :
                 /\ sent[e] # None /\ e \notin processed /\ UNCHANGED sent
                 /\ processed' \in {processed, processed \cup {e}}
                 /\ acked' \cup processed' = (acked \cup processed) \cup {e}
<1> DEFINE Silent == UNCHANGED <<processed, acked>>
           Old == \E e \in processed : acked' = acked \cup {e} /\ UNCHANGED processed
<1> USE DEF db, gateways, delivery
<1>t. job \in [Worker -> Job] /\ \A w \in Worker : job[w] \in Job
  BY DEF TypeInv, TypeOK
<1>1. ASSUME NEW w \in Worker, Request(w) PROVE Silent
  BY <1>1 DEF Request, SubscribeAdmit, CancelRead, BlockRead
<1>2. ASSUME NEW w \in Worker,
             SweepRead(w) \/ Abort(w) \/ SubscribeRead(w) \/ CancelTell(w)
      PROVE  Silent
  BY <1>2 DEF SweepRead, Abort, SubscribeRead, CancelTell
<1>3. ASSUME NEW w \in Worker,
             \/ SubscribeExisting(w) \/ SubscribeConflict(w)
             \/ \E c \in Checkout : SubscribeCommit(w, c)
             \/ CancelRejected(w) \/ CancelCommit(w) \/ BlockCommit(w) \/ SweepCommit(w)
      PROVE  Silent
  BY <1>3, Zenon
  DEF SubscribeExisting, SubscribeConflict, SubscribeCommit, CancelRejected,
      CancelCommit, BlockCommit, SweepCommit
<1>4. ASSUME NEW e \in EventId, DeliverDuplicate(e) PROVE Old
  BY <1>4 DEF DeliverDuplicate
<1>5. ASSUME NEW w \in Worker, ReconcileLost(w) \/ NotifyFailure(w) PROVE Old
  BY <1>5 DEF ReconcileLost, NotifyFailure, Markable, NoticedOnce
<1>6. ASSUME NEW e \in EventId, DeliverUnmatched(e)
      PROVE  /\ sent[e] # None /\ e \notin processed /\ UNCHANGED <<sent, processed>>
             /\ acked' = acked \cup {e}
  BY <1>6 DEF DeliverUnmatched
<1>7. ASSUME NEW e \in EventId, NEW w \in Worker, DeliverMatched(w, e) PROVE Silent
  BY <1>7 DEF DeliverMatched
<1>8. ASSUME NEW w \in Worker, ReconcileCommit(w)
      PROVE  \E e \in EventId :
                /\ sent[e] # None /\ e \notin processed /\ UNCHANGED sent
                /\ processed' = processed \cup {e}
                /\ acked' \in {acked, acked \cup {e}}
  <2>1. job[w].op = "reconcile"
    BY <1>8 DEF ReconcileCommit
  <2>2. job[w].event \in EventId
    BY <1>t, <2>1, JobFields
  <2>3. sent[job[w].event] # None
    BY <2>1 DEF TypeInv, JobsGrounded
  <2>4. QED
    BY <1>8, <2>2, <2>3 DEF ReconcileCommit, Markable
<1>9. ASSUME (\E p \in Pair : Unblock(p)) \/ GatewayStep \/ Tick \/ UNCHANGED vars
      PROVE  Silent
  BY <1>9 DEF Unblock, GatewayStep, Charge, Decline, Announce, End, Tick, vars
<1> HIDE DEF Silent, Old
<1>10. \/ Silent \/ Old
       \/ \E e \in EventId : DeliverUnmatched(e)
       \/ \E w \in Worker : ReconcileCommit(w)
  BY <1>1, <1>2, <1>3, <1>4, <1>5, <1>7, <1>9 DEF Next, Deliver, Commit
<1>11. CASE \E e \in EventId : DeliverUnmatched(e)
  <2>1. PICK e \in EventId : DeliverUnmatched(e)
    BY <1>11
  <2>2. /\ sent[e] # None /\ e \notin processed /\ UNCHANGED <<sent, processed>>
        /\ acked' = acked \cup {e}
    BY <1>6, <2>1
  <2>3. acked' \cup processed' = (acked \cup processed) \cup {e}
    BY <2>2
  <2>4. QED
    BY <2>2, <2>3
<1>12. CASE \E w \in Worker : ReconcileCommit(w)
  <2>1. PICK e \in EventId : /\ sent[e] # None /\ e \notin processed /\ UNCHANGED sent
                             /\ processed' = processed \cup {e}
                             /\ acked' \in {acked, acked \cup {e}}
    BY <1>8, <1>12
  <2>2. acked' \cup processed' = (acked \cup processed) \cup {e}
    BY <2>1
  <2>3. QED
    BY <2>1, <2>2
<1>13. CASE Silent \/ Old
  BY <1>13 DEF Silent, Old
<1>14. QED
  BY <1>10, <1>11, <1>12, <1>13

\* An event of an unlock that went on to Subscriptions.
Stray(e) == sent[e] # None /\ usent[e] # None

\* It is one that no unlock owns, as AsSubscriptionEvent reads it.
Fits(e) ==
    /\ usent[e].type # "refunded"
    /\ UP!ByRef(usent[e], Post \cup Message) = {}
    /\ sent[e].type = usent[e].type
    /\ sent[e].ref[1] = "charge" /\ sent[e].session = None
    /\ sent[e].status \in {"active", None}
    /\ sent[e].status = "active" => sent[e].type = "succeeded"
    /\ sent[e].recurring <=> usent[e].gateway = "wompi"

Strays == \A e \in EventId : Stray(e) => Fits(e)

\* It fits as long as no row stores its reference again.
LEMMA StrayFits ==
    ASSUME NEW e \in EventId, Fits(e), UNCHANGED <<sent[e], usent[e]>>,
           UP!ByRef(usent[e], Post \cup Message)' = {}
    PROVE  Fits(e)'
BY DEF Fits

LEMMA SubscriptionsRefine ==
    ASSUME TypeInv, NoticedOnce, Strays, [Next]_vars, UNCHANGED unlocks
    PROVE  [UM!Next]_(UM!vars)
<1>1. CASE processed' = processed /\ acked' \cup processed' = acked \cup processed
  BY <1>1 DEF Mine, UM!vars, unlocks
<1>2. ASSUME NEW e \in EventId,
             sent[e] # None, e \notin processed, UNCHANGED sent,
             processed' \in {processed, processed \cup {e}},
             acked' \cup processed' = (acked \cup processed) \cup {e}
      PROVE  [UM!Next]_(UM!vars)
  <2>1. CASE usent[e] = None
    BY <1>2, <2>1 DEF Mine, UM!vars, unlocks
  <2>2. CASE usent[e] # None
    <3>1. /\ Mine(acked \cup processed)' = Mine(acked \cup processed) \cup {e}
          /\ Mine(processed)' \in {Mine(processed), Mine(processed) \cup {e}}
          /\ e \notin Mine(processed)
      BY <1>2, <2>2 DEF Mine, unlocks
    <3>2. usent[e].type # "refunded" /\ UM!ByRef(usent[e], UM!Item) = {}
      BY <1>2, <2>2 DEF Strays, Stray, Fits, UP!ByRef, UM!ByRef, UP!Present,
                        UM!Present, UP!Key, UM!Key, UP!Item, UM!Item
    <3>3. UM!DeliverElsewhere(e)
      BY <2>2, <3>1, <3>2 DEF UM!DeliverElsewhere, UM!Undelivered, unlocks
    <3>4. PICK w \in Worker : TRUE
      BY RoutingAssumption
    <3>5. UM!Deliver(w, e)
      BY <3>3 DEF UM!Deliver
    <3>6. QED
      BY <3>5 DEF UM!Next
  <2>3. QED
    BY <2>1, <2>2
<1>3. QED
  BY <1>1, <1>2, AckEffects

----------------------------------------------------------------------------
(* What both sides keep.                                                   *)

\* No row stores the reference of a single charge, which strays carry, and no
\* handler can put it there.
RefKinds ==
    /\ \A p \in Pair : row[p].ref # None => row[p].ref[1] # "charge"
    /\ \A e \in EventId :
          sent[e] # None /\ sent[e].session # None => sent[e].ref[1] # "charge"

\* A stray found a row by the payer's address only.
ByAddress(e, p) == sent[e].recurring /\ sent[e].payer = p[1]

JobsStray ==
    \A w \in Worker : job[w].op = "reconcile" /\ Stray(job[w].event) =>
        ByAddress(job[w].event, job[w].pair)

BooksStray ==
    \A e \in EventId, p \in Pair : Stray(e) /\ booked[<<e, p>>] > 0 =>
        ByAddress(e, p) /\ sent[e].type = "succeeded"

\* What Subscriptions keeps whichever events it is given.
SubscriptionsInv ==
    TypeInv /\ CancelsFound /\ NoticedOnce /\ NotifiedMarked /\ BooksMarked /\ BooksSent

StrayInv == Known /\ Strays /\ RefKinds /\ JobsStray /\ BooksStray

RInv == SubscriptionsInv /\ UP!Owned /\ StrayInv

LEMMA StepKinds ==
    ASSUME [RNext]_rvars
    PROVE  \/ UnlockStep /\ DistinctIds
           \/ [Next]_vars /\ UNCHANGED unlocks /\ DistinctIds
           \/ \E e \in EventId : FallThrough(e)
BY DEF RNext, rvars, vars, unlocks, DistinctIds

\* What a step of Unlocks does to the state the reconcilers share.
LEMMA UnlockMarks ==
    ASSUME UP!Owned, UnlockStep
    PROVE  \/ UNCHANGED <<processed, acked, ubooked>>
           \/ \E e \in EventId :
                 /\ usent[e] # None /\ UNCHANGED usent
                 /\ acked' = acked \cup {e}
                 /\ \/ UNCHANGED <<processed, ubooked>>
                    \/ /\ e \notin processed
                       /\ processed' = processed \cup {e}
                       /\ \/ UNCHANGED ubooked
                          \/ \E k \in U!Key :
                                ubooked' = [ubooked EXCEPT ![<<e, k>>] = 1]
<1> DEFINE Silent == UNCHANGED <<processed, acked, ubooked>>
<1> USE DEF U!db
<1>t. /\ ubooked \in [EventId \X U!Key -> Nat]
      /\ ujob \in [Worker -> UP!Job]
      /\ U!Key = UP!Key
  BY DEF UP!Owned, UP!TypeOK, U!Key, UP!Key, U!Item, UP!Item
<1>j. ASSUME NEW w \in Worker, ujob[w].op \in {"paid", "refund"}
      PROVE  /\ ujob[w].event \in EventId /\ ujob[w].key \in U!Key
             /\ usent[ujob[w].event] # None
  BY <1>t, <1>j, UP!JobFields, UnlocksAssumed DEF UP!Owned, UP!JobsOwned, UP!JobOwned
<1>1. ASSUME NEW w \in Worker,
             \/ \E k \in U!Key, g \in Gateway : U!BuyPost(w, k, g) \/ U!BuyMessage(w, k, g)
             \/ \E l \in Link : U!LinkCommit(w, l)
             \/ U!LinkConflict(w) \/ U!Abort(w)
      PROVE  Silent
  BY <1>1 DEF U!BuyPost, U!BuyMessage, U!LinkCommit, U!LinkConflict, U!Abort
<1>2. ASSUME NEW w \in Worker, NEW e \in EventId,
             U!DeliverPaidPost(w, e) \/ U!DeliverPaidMessage(w, e) \/ U!DeliverRefund(w, e)
      PROVE  Silent
  BY <1>2 DEF U!DeliverPaidPost, U!DeliverPaidMessage, U!DeliverRefund
<1>3. ASSUME NEW l \in Link, NEW e \in EventId,
             U!Pay(l, e) \/ U!Refuse(l, e) \/ U!Refund(l, e)
      PROVE  Silent
  BY <1>3 DEF U!Pay, U!Refuse, U!Refund
<1>4. ASSUME NEW p \in Post, U!DeletePost(p) PROVE Silent
  BY <1>4 DEF U!DeletePost
<1>5. ASSUME NEW e \in EventId, U!DeliverMarked(e)
      PROVE  /\ usent[e] # None /\ UNCHANGED <<usent, ubooked>>
             /\ acked' = acked \cup {e}
             /\ e \notin processed /\ processed' = processed \cup {e}
  BY <1>5 DEF U!DeliverMarked, U!Undelivered
<1>6. ASSUME NEW e \in EventId, U!DeliverRefundUnmatched(e)
      PROVE  /\ usent[e] # None /\ UNCHANGED <<usent, ubooked, processed>>
             /\ acked' = acked \cup {e}
  BY <1>6 DEF U!DeliverRefundUnmatched, U!Undelivered
<1>7. ASSUME NEW w \in Worker, U!RefundCommit(w)
      PROVE  \E e \in EventId :
                /\ usent[e] # None /\ UNCHANGED <<usent, ubooked>>
                /\ acked' = acked \cup {e}
                /\ e \notin processed /\ processed' = processed \cup {e}
  BY <1>7, <1>j DEF U!RefundCommit, U!Markable
<1>8. ASSUME NEW w \in Worker, U!CommitLost(w)
      PROVE  \E e \in EventId :
                /\ usent[e] # None /\ UNCHANGED <<usent, ubooked, processed>>
                /\ acked' = acked \cup {e}
  BY <1>8, <1>j DEF U!CommitLost
<1>9. ASSUME NEW w \in Worker, U!PaidCommit(w)
      PROVE  \E e \in EventId :
                /\ usent[e] # None /\ UNCHANGED usent
                /\ acked' = acked \cup {e}
                /\ e \notin processed /\ processed' = processed \cup {e}
                /\ \/ UNCHANGED ubooked
                   \/ \E k \in U!Key : ubooked' = [ubooked EXCEPT ![<<e, k>>] = 1]
  <2> DEFINE e == ujob[w].event
             k == ujob[w].key
  <2>1. e \in EventId /\ k \in U!Key /\ usent[e] # None
    BY <1>9, <1>j DEF U!PaidCommit
  <2>2. /\ UNCHANGED usent /\ acked' = acked \cup {e}
        /\ e \notin processed /\ processed' = processed \cup {e}
        /\ ubooked' = [ubooked EXCEPT ![<<e, k>>] =
                          IF U!Books(ujob[w].read) THEN @ + 1 ELSE @]
    BY <1>9 DEF U!PaidCommit, U!Markable
  <2>3. ubooked[<<e, k>>] = 0
    <3>1. e \notin Mine(processed)
      BY <2>2 DEF Mine
    <3>2. ubooked[<<e, k>>] \in Nat
      BY <1>t, <2>1
    <3>3. ~(ubooked[<<e, k>>] > 0)
      BY <1>t, <2>1, <3>1 DEF UP!Owned, UP!BooksOwned
    <3>4. QED
      BY <3>2, <3>3
  <2> HIDE DEF e, k
  <2>4. UNCHANGED ubooked \/ ubooked' = [ubooked EXCEPT ![<<e, k>>] = 1]
    <3> DEFINE x == <<e, k>>
    <3>1. x \in EventId \X U!Key /\ ubooked[x] = 0
      BY <2>1, <2>3
    <3>2. \/ ubooked' = [ubooked EXCEPT ![x] = ubooked[x] + 1]
          \/ ubooked' = [ubooked EXCEPT ![x] = ubooked[x]]
      BY <2>2
    <3> HIDE DEF x
    <3>3. UNCHANGED ubooked \/ ubooked' = [ubooked EXCEPT ![x] = 1]
      BY <1>t, <3>1, <3>2
    <3>4. QED
      BY <3>3 DEF x
  <2>5. QED
    BY <2>1, <2>2, <2>4
<1> HIDE DEF Silent
<1>10. \/ Silent
       \/ \E e \in EventId : U!DeliverMarked(e) \/ U!DeliverRefundUnmatched(e)
       \/ \E w \in Worker : U!PaidCommit(w) \/ U!RefundCommit(w) \/ U!CommitLost(w)
  BY <1>1, <1>2, <1>3, <1>4 DEF UnlockStep, U!Commit
<1>11. QED
  BY <1>5, <1>6, <1>7, <1>8, <1>9, <1>10 DEF Silent

\* An event that falls through is an event of Subscriptions.
LEMMA StrayType ==
    ASSUME UP!Owned, NEW e \in EventId, usent[e] # None, usent[e].type # "refunded",
           NEW payer \in Subscriber \cup {None}
    PROVE  AsSubscriptionEvent(usent[e], payer) \in Event
<1>1. usent[e] \in UP!Event /\ link[usent[e].link] # None
  BY DEF UP!Owned, UP!TypeOK, UP!EventsOwned
<1>2. link[usent[e].link] \in UP!Page
  BY <1>1 DEF UP!Owned, UP!TypeOK, UP!Event
<1>3. link[usent[e].link].key \in UP!Key
  BY <1>2 DEF UP!Page
<1>4. <<link[usent[e].link].key[1], Owner[link[usent[e].link].key[2]]>> \in Pair
  BY <1>3, RoutingAssumption DEF UP!Key, UP!Item, Pair
<1>5. usent[e].gateway \in GatewayName /\ usent[e].type \in EventType
  BY <1>1, RoutingAssumption DEF UP!Event, GatewayName, EventType
<1>6. <<"charge", CHOOSE c \in Checkout : TRUE>> \in Ref
  BY RoutingAssumption DEF Ref
<1>7. QED
  BY <1>4, <1>5, <1>6 DEF AsSubscriptionEvent, Event, Status, NonTerminal, Terminal

\* A step of Unlocks keeps them.
LEMMA UnlockKeeps ==
    ASSUME RInv, UnlockStep, DistinctIds
    PROVE  SubscriptionsInv' /\ StrayInv'
<1>i. SubscriptionsInv /\ UP!Owned /\ StrayInv
  BY DEF RInv
<1>t. TypeInv /\ Known /\ BooksMarked /\ BooksSent
  BY <1>i DEF SubscriptionsInv, StrayInv
<1>u. UNCHANGED <<row, blocked, booked, job, checkout, sent, notified, now>>
  BY DEF UnlockStep, gateways
<1>p. [UP!Next]_(UP!vars)
  BY <1>i, <1>t, UnlockRefines, SameStep
<1>m. \/ UNCHANGED <<processed, acked>>
      \/ \E e \in EventId :
            /\ usent[e] # None /\ UNCHANGED usent /\ acked' = acked \cup {e}
            /\ processed' \in {processed, processed \cup {e}}
  BY <1>i, UnlockMarks
<1>s. \A e \in EventId : usent[e] # None => usent'[e] = usent[e]
  BY <1>i, <1>p, UP!Stays, UnlocksAssumed DEF UP!Owned
<1>g. processed \subseteq processed'
  BY <1>m
<1>1. TypeInv'
  <2>1. processed' \subseteq EventId /\ acked' \subseteq EventId
    BY <1>t, <1>m DEF TypeInv, TypeOK
  <2>2. QED
    BY <1>t, <1>u, <2>1 DEF TypeInv, TypeOK, OpenedForPairs, JobsGrounded
<1>2. CancelsFound' /\ NoticedOnce' /\ NotifiedMarked'
  BY <1>i, <1>u, <1>g DEF SubscriptionsInv, CancelsFound, NoticedOnce, NotifiedMarked
<1>3. BooksMarked' /\ BooksSent'
  BY <1>t, <1>u, <1>g DEF BooksMarked, BooksSent
<1>4. Known'
  <2>1. \A e \in processed' \cup acked' :
           e \in processed \cup acked \/ (e \in EventId /\ usent[e] # None)
    BY <1>m
  <2>2. QED
    BY <1>t, <1>s, <1>u, <2>1 DEF Known
\* No event becomes a stray: the id of one that was sent is taken.
<1>5. \A e \in EventId : Stray(e)' => Stray(e)
  BY <1>u DEF Stray, DistinctIds
<1>6. Strays'
  <2>1. ASSUME NEW e \in EventId, Stray(e)
        PROVE  Fits(e)'
    <3>1. Fits(e)
      BY <1>i, <2>1 DEF StrayInv, Strays
    <3>2. UNCHANGED <<sent[e], usent[e]>>
      BY <1>s, <1>u, <2>1 DEF Stray
    <3>3. UP!ByRef(usent[e], Post \cup Message)' \subseteq
              UP!ByRef(usent[e], Post \cup Message)
      BY <1>i, <1>p, <2>1, UP!ByRefStays, UnlocksAssumed DEF Stray, UP!Item
    <3>4. UP!ByRef(usent[e], Post \cup Message)' = {}
      BY <3>1, <3>3 DEF Fits
    <3>5. QED
      BY <3>1, <3>2, <3>4, StrayFits
  <2>2. QED
    BY <1>5, <2>1 DEF Strays
<1>7. RefKinds' /\ JobsStray' /\ BooksStray'
  <2>1. \A w \in Worker : job[w].op = "reconcile" => job[w].event \in EventId
    BY <1>t, JobFields DEF TypeInv, TypeOK
  <2>2. QED
    BY <1>i, <1>u, <1>5, <2>1 DEF StrayInv, RefKinds, JobsStray, BooksStray, ByAddress
<1>8. QED
  BY <1>1, <1>2, <1>3, <1>4, <1>6, <1>7 DEF SubscriptionsInv, StrayInv

\* Strays find rows by the payer's address: no row stores their reference.
LEMMA StrayMatch ==
    ASSUME TypeInv, Strays, RefKinds, NEW e \in EventId, Stray(e),
           NEW p \in Match(sent[e])
    PROVE  ByAddress(e, p)
<1>1. sent[e] \in Event /\ sent[e].ref # None
  BY NoneNotUser DEF TypeInv, TypeOK, Stray, Event
<1>2. sent[e].ref[1] = "charge" /\ sent[e].session = None
  BY DEF Strays, Fits
<1>3. ByRef(sent[e], sent[e].ref) = {}
  BY <1>1, <1>2 DEF ByRef, RefKinds
<1>4. p \in ByPayer(sent[e])
  BY <1>2, <1>3 DEF Match
<1>5. QED
  BY <1>4 DEF ByPayer, ByAddress

\* Only the reconciler's commit books, for the event it holds.
LEMMA BookEffects ==
    ASSUME TypeInv, [Next]_vars, NEW e \in EventId, NEW p \in Pair,
           booked'[<<e, p>>] > 0
    PROVE  \/ booked[<<e, p>>] > 0
           \/ \E w \in Worker :
                 /\ job[w].op = "reconcile" /\ job[w].event = e /\ job[w].pair = p
                 /\ PaymentCompleted(sent[e], job[w].read)
<1>t. booked \in [EventId \X Pair -> Nat]
  BY DEF TypeInv, TypeOK
<1>1. CASE UNCHANGED booked
  BY <1>1
<1>2. ASSUME NEW w \in Worker, ReconcileCommit(w), booked[<<e, p>>] = 0
      PROVE  /\ job[w].op = "reconcile" /\ job[w].event = e /\ job[w].pair = p
             /\ PaymentCompleted(sent[e], job[w].read)
  <2> DEFINE f == job[w].event
             q == job[w].pair
             n == IF PaymentCompleted(sent[f], job[w].read) THEN 1 ELSE 0
  <2>1. booked' = [booked EXCEPT ![<<f, q>>] = @ + n]
    BY <1>2 DEF ReconcileCommit
  <2>2. n \in Nat
    OBVIOUS
  <2>3. <<f, q>> = <<e, p>>
    <3> DEFINE x == <<f, q>>
    <3> HIDE DEF x, n
    <3>1. booked' = [booked EXCEPT ![x] = @ + n]
      BY <2>1 DEF x
    <3>2. x = <<e, p>>
      BY <1>t, <1>2, <3>1
    <3>3. QED
      BY <3>2 DEF x
  <2>4. booked'[<<e, p>>] = booked[<<e, p>>] + n
    <3> HIDE DEF n
    <3>1. QED
      BY <1>t, <2>1, <2>3
  <2>5. n # 0
    BY <1>2, <2>4
  <2>6. QED
    BY <1>2, <2>3, <2>5 DEF ReconcileCommit
<1>3. QED
  BY <1>t, <1>1, <1>2, StepEffects

\* A step of Subscriptions keeps them.
LEMMA SubscriptionsKeep ==
    ASSUME RInv, [Next]_vars, UNCHANGED unlocks, DistinctIds
    PROVE  SubscriptionsInv' /\ StrayInv'
<1>i. SubscriptionsInv /\ UP!Owned /\ StrayInv
  BY DEF RInv
<1>t. TypeInv /\ CancelsFound /\ NoticedOnce /\ NotifiedMarked /\ BooksMarked /\ BooksSent
  BY <1>i DEF SubscriptionsInv
<1>r. Known /\ Strays /\ RefKinds /\ JobsStray /\ BooksStray
  BY <1>i DEF StrayInv
<1>h. \A e \in EventId : sent[e] # None => sent'[e] = sent[e]
  BY <1>t, History
<1>j. \A w \in Worker : job[w].op = "reconcile" =>
         job[w].event \in EventId /\ sent[job[w].event] # None
  BY <1>t, JobFields DEF TypeInv, TypeOK, JobsGrounded
<1>1. TypeInv' /\ CancelsFound' /\ BooksMarked'
  BY <1>t, TypeStep, FlagStep, LedgerStep
<1>2. NoticedOnce' /\ NotifiedMarked'
  BY <1>t, NoticeStep
<1>3. BooksSent'
  BY <1>t, <1>h, <1>j, BookEffects DEF BooksSent
<1>4. Known'
  <2>1. \A e \in acked' \cup processed' :
           e \in acked \cup processed \/ (e \in EventId /\ sent[e] # None)
    BY <1>t, AckEffects
  <2>2. QED
    BY <1>h, <1>r, <2>1 DEF Known, unlocks
<1>5. \A e \in EventId : Stray(e)' => Stray(e) /\ sent'[e] = sent[e]
  BY <1>h DEF Stray, DistinctIds, unlocks
<1>6. Strays'
  <2>1. ASSUME NEW e \in EventId, Stray(e), sent'[e] = sent[e]
        PROVE  Fits(e)'
    <3>1. Fits(e)
      BY <1>r, <2>1 DEF Strays
    <3>2. UNCHANGED <<sent[e], usent[e]>>
      BY <2>1 DEF unlocks
    <3>3. UP!ByRef(usent[e], Post \cup Message)' =
              UP!ByRef(usent[e], Post \cup Message)
      BY DEF unlocks, UP!ByRef, UP!Present
    <3>4. UP!ByRef(usent[e], Post \cup Message)' = {}
      BY <3>1, <3>3 DEF Fits
    <3>5. QED
      BY <3>1, <3>2, <3>4, StrayFits
  <2>2. QED
    BY <1>5, <2>1 DEF Strays
<1>7. RefKinds'
  <2>1. ASSUME NEW p \in Pair, row'[p].ref # None
        PROVE  row'[p].ref[1] # "charge"
    <3>1. ASSUME NEW w \in Worker, ReconcileCommit(w),
                 sent[job[w].event].session # None
          PROVE  sent[job[w].event].ref[1] # "charge"
      BY <1>j, <1>r, <3>1 DEF RefKinds, ReconcileCommit
    <3>2. \A g, c : OpenedRef(g, c)[1] # "charge"
      BY DEF OpenedRef
    <3>3. \/ row'[p].ref \in {row[p].ref, None}
          \/ \E g, c : row'[p].ref = OpenedRef(g, c)
          \/ \E w \in Worker : /\ ReconcileCommit(w)
                               /\ row'[p].ref = sent[job[w].event].ref
                               /\ sent[job[w].event].session # None
      BY <1>t, RefEffects
    <3>4. row[p].ref # None => row[p].ref[1] # "charge"
      BY <1>r DEF RefKinds
    <3>5. QED
      BY <2>1, <3>1, <3>2, <3>3, <3>4
  <2>2. ASSUME NEW e \in EventId, sent'[e] # None, sent'[e].session # None
        PROVE  sent'[e].ref[1] # "charge"
    <3>1. CASE sent'[e] = sent[e]
      BY <1>r, <2>2, <3>1 DEF RefKinds
    <3>2. CASE sent'[e] # sent[e]
      <4>1. PICK c \in Checkout, f \in EventId :
                    Charge(c, f) \/ Decline(c, f) \/ Announce(c, f) \/ End(c, f)
        BY <3>2, StepEffects
      <4>2. PICK ev \in Event : /\ sent' = [sent EXCEPT ![f] = ev]
                                /\ ev.session # None => ev.ref[1] = "resource"
        BY <1>t, <4>1, SentOwned
      <4>3. f = e /\ sent'[e] = ev
        BY <1>t, <3>2, <4>2 DEF TypeInv, TypeOK
      <4>4. QED
        BY <2>2, <4>2, <4>3
    <3>3. QED
      BY <3>1, <3>2
  <2>3. QED
    BY <2>1, <2>2 DEF RefKinds
<1>8. JobsStray'
  <2> SUFFICES ASSUME NEW w \in Worker, job'[w].op = "reconcile",
                      sent'[job'[w].event] # None, usent'[job'[w].event] # None
               PROVE  /\ sent'[job'[w].event].recurring
                      /\ sent'[job'[w].event].payer = job'[w].pair[1]
    BY DEF JobsStray, Stray, ByAddress
  <2>1. job'[w].event \in EventId
    BY <1>1, JobFields DEF TypeInv, TypeOK
  <2>2. Stray(job'[w].event) /\ sent'[job'[w].event] = sent[job'[w].event]
    BY <1>5, <2>1 DEF Stray
  <2>3. ByAddress(job'[w].event, job'[w].pair)
    BY <1>t, <1>r, <2>1, <2>2, ReconcileJobs, StrayMatch DEF JobsStray
  <2>4. QED
    BY <2>2, <2>3 DEF ByAddress
<1>9. BooksStray'
  <2> SUFFICES ASSUME NEW e \in EventId, NEW p \in Pair, Stray(e)', booked'[<<e, p>>] > 0
               PROVE  ByAddress(e, p)' /\ sent'[e].type = "succeeded"
    BY DEF BooksStray
  <2>1. Stray(e) /\ sent'[e] = sent[e]
    BY <1>5
  <2>2. ASSUME NEW r, PaymentCompleted(sent[e], r)
        PROVE  sent[e].type = "succeeded"
    BY <1>r, <2>1, <2>2 DEF PaymentCompleted, Strays, Fits
  <2>3. ByAddress(e, p) /\ sent[e].type = "succeeded"
    BY <1>t, <1>r, <2>1, <2>2, BookEffects DEF BooksStray, JobsStray
  <2>4. QED
    BY <2>1, <2>3 DEF ByAddress
<1>10. QED
  BY <1>1, <1>2, <1>3, <1>4, <1>6, <1>7, <1>8, <1>9 DEF SubscriptionsInv, StrayInv

\* Falling through keeps them.
LEMMA FallKeeps ==
    ASSUME RInv, NEW e \in EventId, FallThrough(e)
    PROVE  SubscriptionsInv' /\ StrayInv'
<1>i. SubscriptionsInv /\ UP!Owned /\ StrayInv
  BY DEF RInv
<1>t. TypeInv /\ CancelsFound /\ NoticedOnce /\ NotifiedMarked /\ BooksMarked /\ BooksSent
  BY <1>i DEF SubscriptionsInv
<1>r. Known /\ Strays /\ RefKinds /\ JobsStray /\ BooksStray
  BY <1>i DEF StrayInv
<1>u. UNCHANGED <<row, blocked, processed, booked, job, checkout, acked, notified, now>>
      /\ UNCHANGED unlocks
  BY DEF FallThrough, db, delivery
<1>e. sent[e] = None /\ usent[e] # None /\ usent[e].type # "refunded"
  BY DEF FallThrough
<1>p. PICK payer \in Subscriber \cup {None} :
              sent' = [sent EXCEPT ![e] = AsSubscriptionEvent(usent[e], payer)]
  BY DEF FallThrough
<1> DEFINE ev == AsSubscriptionEvent(usent[e], payer)
<1>v. ev \in Event
  BY <1>i, <1>e, StrayType
<1>f. /\ ev.type = usent[e].type /\ ev.ref[1] = "charge" /\ ev.session = None
      /\ ev.status = (IF ev.type = "succeeded" THEN "active" ELSE None)
      /\ ev.recurring = (usent[e].gateway = "wompi")
  BY DEF AsSubscriptionEvent
<1> HIDE DEF ev
<1>s. sent'[e] = ev /\ \A f \in EventId \ {e} : sent'[f] = sent[f]
  BY <1>t, <1>p DEF TypeInv, TypeOK, ev
<1>j. \A w \in Worker : job[w].op = "reconcile" => job[w].event \in EventId \ {e}
  BY <1>t, <1>e, JobFields DEF TypeInv, TypeOK, JobsGrounded
<1>1. TypeInv'
  <2>1. sent' \in [EventId -> Event \cup {None}]
    BY <1>t, <1>p, <1>v DEF TypeInv, TypeOK, ev
  <2>2. JobsGrounded'
    BY <1>t, <1>u, <1>s, <1>j DEF TypeInv, JobsGrounded
  <2>3. QED
    BY <1>t, <1>u, <2>1, <2>2 DEF TypeInv, TypeOK, OpenedForPairs
<1>2. CancelsFound' /\ NoticedOnce' /\ NotifiedMarked' /\ BooksMarked'
  BY <1>t, <1>u DEF CancelsFound, NoticedOnce, NotifiedMarked, BooksMarked
<1>3. BooksSent'
  BY <1>t, <1>u, <1>e, <1>s DEF BooksSent
<1>4. Known'
  BY <1>r, <1>u, <1>e, <1>s DEF Known, unlocks
<1>5. Strays'
  <2>1. UP!ByRef(usent[e], Post \cup Message) = {}
    BY DEF FallThrough, U!ByRef, UP!ByRef, U!Present, UP!Present, U!Key, UP!Key,
           U!Item, UP!Item
  <2>2. \A f \in EventId : UP!ByRef(usent[f], Post \cup Message)' =
                           UP!ByRef(usent[f], Post \cup Message)
    BY <1>u DEF unlocks, UP!ByRef, UP!Present
  <2>3. Fits(e)'
    <3>1. None # "active"
      BY StatusAssumption DEF Status, NonTerminal
    <3>2. UP!ByRef(usent[e], Post \cup Message)' = {}
      BY <2>1, <2>2
    <3>3. /\ usent'[e].type # "refunded" /\ sent'[e].type = usent'[e].type
          /\ sent'[e].ref[1] = "charge" /\ sent'[e].session = None
          /\ sent'[e].status \in {"active", None}
          /\ sent'[e].status = "active" => sent'[e].type = "succeeded"
          /\ sent'[e].recurring <=> usent'[e].gateway = "wompi"
      BY <1>e, <1>f, <1>s, <1>u, <3>1 DEF unlocks
    <3>4. QED
      BY <3>2, <3>3 DEF Fits
  <2>4. ASSUME NEW f \in EventId, f # e, Stray(f)'
        PROVE  Fits(f)'
    <3>1. Stray(f) /\ UNCHANGED <<sent[f], usent[f]>>
      BY <1>u, <1>s, <2>4 DEF Stray, unlocks
    <3>2. Fits(f)
      BY <1>r, <3>1 DEF Strays
    <3>3. UP!ByRef(usent[f], Post \cup Message)' = {}
      BY <2>2, <3>2 DEF Fits
    <3>4. QED
      BY <3>1, <3>2, <3>3, StrayFits
  <2>5. QED
    BY <2>3, <2>4 DEF Strays
<1>6. RefKinds'
  BY <1>r, <1>u, <1>f, <1>s DEF RefKinds
<1>7. \A f \in EventId \ {e} : Stray(f)' => Stray(f)
  BY <1>u, <1>s DEF Stray, unlocks
<1>8. JobsStray'
  BY <1>r, <1>u, <1>j, <1>s, <1>7 DEF JobsStray, ByAddress
<1>9. BooksStray'
  <2>1. \A p \in Pair : ~(booked[<<e, p>>] > 0)
    BY <1>t, <1>e DEF BooksSent
  <2>2. QED
    BY <1>r, <1>u, <1>s, <1>7, <2>1 DEF BooksStray, ByAddress
<1>10. QED
  BY <1>1, <1>2, <1>3, <1>4, <1>5, <1>6, <1>8, <1>9 DEF SubscriptionsInv, StrayInv

----------------------------------------------------------------------------
(* The theorems.                                                           *)

\* Every step of the endpoint is one that Unlocks could take alone, or none.
LEMMA RefineStep ==
    ASSUME RInv, [RNext]_rvars
    PROVE  [UM!Next]_(UM!vars)
<1>1. CASE UnlockStep /\ DistinctIds
  BY <1>1, UnlockRefines DEF RInv, StrayInv
<1>2. CASE [Next]_vars /\ UNCHANGED unlocks
  BY <1>2, SubscriptionsRefine DEF RInv, SubscriptionsInv, StrayInv
<1>3. CASE \E e \in EventId : FallThrough(e)
  BY <1>3 DEF FallThrough, db, delivery, unlocks, UM!vars, Mine
<1>4. QED
  BY <1>1, <1>2, <1>3, StepKinds

LEMMA RInvStep == RInv /\ [RNext]_rvars => RInv'
<1> SUFFICES ASSUME RInv, [RNext]_rvars
             PROVE  RInv'
  OBVIOUS
<1>1. UP!Owned'
  BY RefineStep, SameStep, UP!OwnedStep, UnlocksAssumed DEF RInv
<1>2. SubscriptionsInv' /\ StrayInv'
  BY StepKinds, UnlockKeeps, SubscriptionsKeep, FallKeeps
<1>3. QED
  BY <1>1, <1>2 DEF RInv

LEMMA UnlocksInit == RInit => UM!Init
BY DEF RInit, Init, U!Init, UM!Init, Mine, U!Key, UM!Key, U!Item, UM!Item,
       U!NoRow, UM!NoRow, U!Idle, UM!Idle

LEMMA RInvInit == RInit => RInv
<1> SUFFICES ASSUME RInit PROVE RInv
  OBVIOUS
<1>i. Init
  BY DEF RInit
<1>1. UP!Owned
  BY UnlocksInit, SameInit, UP!OwnedInit, UnlocksAssumed
<1>2. SubscriptionsInv
  BY <1>i, TypeInit
  DEF Init, SubscriptionsInv, CancelsFound, NoticedOnce, NotifiedMarked, BooksMarked,
      BooksSent, Idle, NoRow
<1>3. StrayInv
  BY <1>i DEF Init, StrayInv, Known, Strays, Stray, RefKinds, JobsStray, BooksStray,
              NoRow, Idle
<1>4. QED
  BY <1>1, <1>2, <1>3 DEF RInv

LEMMA RInvAlways == RSpec => []RInv
BY RInvInit, RInvStep, PTL DEF RSpec

\* Unlocks go on behind the endpoint as Unlocks alone describes them, whatever
\* Subscriptions does with its events and with those that fall through.
THEOREM UnlocksGoOn == RSpec => UnlocksUndisturbed
<1>1. RSpec => UM!Spec
  BY UnlocksInit, RInvAlways, RefineStep, PTL DEF RSpec, UM!Spec
<1>2. QED
  BY <1>1 DEF UnlocksUndisturbed

\* A monthly payment for an unlock's event was made through Wompi, under the
\* address of the subscriber it is booked to, for a link no unlock stores.
THEOREM OnlyWompiStrays == RSpec => []StraysAreWompi
<1>1. RInv => StraysAreWompi
  <2> SUFFICES ASSUME RInv, NEW e \in EventId, NEW p \in Pair, usent[e] # None,
                      booked[<<e, p>>] > 0
               PROVE  /\ usent[e].gateway = "wompi" /\ usent[e].type = "succeeded"
                      /\ sent[e].payer = p[1]
                      /\ U!ByRef(usent[e], Post \cup Message) = {}
    BY DEF StraysAreWompi
  <2>1. Stray(e)
    BY DEF RInv, SubscriptionsInv, BooksSent, Stray
  <2>2. ByAddress(e, p) /\ sent[e].type = "succeeded"
    BY <2>1 DEF RInv, StrayInv, BooksStray
  <2>3. /\ UP!ByRef(usent[e], Post \cup Message) = {}
        /\ sent[e].type = usent[e].type
        /\ sent[e].recurring <=> usent[e].gateway = "wompi"
    BY <2>1 DEF RInv, StrayInv, Strays, Fits
  <2>4. U!ByRef(usent[e], Post \cup Message) = {}
    BY <2>3 DEF U!ByRef, UP!ByRef, U!Present, UP!Present, U!Key, UP!Key, U!Item, UP!Item
  <2>5. QED
    BY <2>2, <2>3, <2>4 DEF ByAddress
<1>2. QED
  BY <1>1, RInvAlways, PTL

\* The endpoint keeps one ledger: a step books nothing new, or settles one
\* event that was not marked, in one of the two reconcilers.
LEMMA BooksOfBoth ==
    ASSUME RInv, [RNext]_rvars
    PROVE  [EL!Next]_(EL!vars)
<1>i. TypeInv /\ BooksMarked /\ UP!Owned
  BY DEF RInv, SubscriptionsInv
<1>t. /\ booked \in [EventId \X Pair -> Nat]
      /\ ubooked \in [EventId \X U!Key -> Nat]
  BY <1>i DEF TypeInv, TypeOK, UP!Owned, UP!TypeOK, U!Key, UP!Key, U!Item, UP!Item
<1>d. Pair \cap U!Key = {}
  BY RoutingAssumption DEF Pair, U!Key, U!Item
<1> USE DEF EL!vars, EL!Next, EL!Settle
<1>1. CASE UnlockStep
  <2>u. UNCHANGED booked
    BY <1>1 DEF UnlockStep
  <2>1. CASE UNCHANGED <<processed, ubooked>>
    BY <2>u, <2>1 DEF AllBooked
  <2>2. ASSUME NEW e \in EventId, e \notin processed, processed' = processed \cup {e},
               UNCHANGED ubooked
        PROVE  EL!Next
    BY <2>u, <2>2 DEF AllBooked
  <2>3. ASSUME NEW e \in EventId, e \notin processed, processed' = processed \cup {e},
               NEW k \in U!Key, ubooked' = [ubooked EXCEPT ![<<e, k>>] = 1]
        PROVE  EL!Next
    <3>1. AllBooked' = [AllBooked EXCEPT ![<<e, k>>] = 1]
      <4>1. <<e, k>> \in EventId \X U!Key /\ k \notin Pair
        BY <1>d
      <4>2. \A x \in EventId \X Account :
               AllBooked'[x] = IF x = <<e, k>> THEN 1 ELSE AllBooked[x]
        BY <1>t, <2>u, <2>3, <4>1 DEF AllBooked, Account
      <4>3. QED
        BY <4>2 DEF AllBooked
    <3>2. k \in Account
      BY DEF Account
    <3>3. QED
      BY <2>3, <3>1, <3>2
  <2>4. QED
    BY <1>i, <1>1, <2>1, <2>2, <2>3, UnlockMarks
<1>2. CASE [Next]_vars /\ UNCHANGED unlocks
  <2>u. UNCHANGED ubooked
    BY <1>2 DEF unlocks
  <2>1. [RL!Next]_(RL!vars)
    BY <1>i, <1>2, LedgerStep
  <2>2. CASE UNCHANGED <<processed, booked>>
    BY <2>u, <2>2 DEF AllBooked
  <2>3. ASSUME NEW e \in EventId, e \notin processed, processed' = processed \cup {e},
               UNCHANGED booked
        PROVE  EL!Next
    BY <2>u, <2>3 DEF AllBooked
  <2>4. ASSUME NEW e \in EventId, e \notin processed, processed' = processed \cup {e},
               NEW p \in Pair, booked' = [booked EXCEPT ![<<e, p>>] = 1]
        PROVE  EL!Next
    <3>1. AllBooked' = [AllBooked EXCEPT ![<<e, p>>] = 1]
      <4>1. <<e, p>> \in EventId \X Pair
        OBVIOUS
      <4>2. \A x \in EventId \X Account :
               AllBooked'[x] = IF x = <<e, p>> THEN 1 ELSE AllBooked[x]
        BY <1>t, <2>u, <2>4, <4>1 DEF AllBooked, Account
      <4>3. QED
        BY <4>2 DEF AllBooked
    <3>2. p \in Account
      BY DEF Account
    <3>3. QED
      BY <2>4, <3>1, <3>2
  <2>5. QED
    BY <2>1, <2>2, <2>3, <2>4 DEF RL!Next, RL!vars, RL!Settle
<1>3. CASE \E e \in EventId : FallThrough(e)
  BY <1>3 DEF FallThrough, db, unlocks, AllBooked
<1>4. QED
  BY <1>1, <1>2, <1>3, StepKinds

\* An event takes effect once, in one of the two reconcilers.
THEOREM EndpointSettlesOnce == RSpec => EndpointLedger
<1>1. RInit => EL!Init
  BY DEF RInit, Init, U!Init, EL!Init, AllBooked, Account
<1>2. RSpec => EL!Spec
  BY <1>1, RInvAlways, BooksOfBoth, PTL DEF RSpec, EL!Spec
<1>3. QED
  BY <1>2 DEF EndpointLedger

\* What Unlocks promises it promises here, of every event about an unlock that
\* either reconciler marked or answered: an open item was paid for, is covered
\* by a payment row, and a payment that was answered opened its item.
THEOREM UnlocksKept ==
    RSpec => [](UM!OpenIsPaid /\ UM!OpenIsCounted /\ UM!AckedIsOpened)
<1>1. UM!Spec => UP!Spec
  BY SameInit, SameStep, PTL DEF UM!Spec, UP!Spec
<1>2. UP!OpenIsPaid /\ UP!OpenIsCounted /\ UP!AckedIsOpened =>
         UM!OpenIsPaid /\ UM!OpenIsCounted /\ UM!AckedIsOpened
  BY DEF UP!OpenIsPaid, UM!OpenIsPaid, UP!OpenIsCounted, UM!OpenIsCounted,
         UP!AckedIsOpened, UM!AckedIsOpened, UP!Open, UM!Open, UP!Key, UM!Key,
         UP!Item, UM!Item, UP!Completed, UM!Completed, UP!RefundsOf, UM!RefundsOf,
         UP!Present, UM!Present
<1>3. UP!Spec => []UP!OpenIsPaid /\ []UP!OpenIsCounted /\ []UP!AckedIsOpened
  BY UP!OpenOnlyPaid, UP!OpenCounted, UP!AckedOpened, UnlocksAssumed
<1>4. RSpec => UM!Spec
  BY UnlocksGoOn DEF UnlocksUndisturbed
<1>5. QED
  BY <1>1, <1>2, <1>3, <1>4, PTL

\* Nor do the unlocks disturb what Subscriptions promises of a row's flag and
\* of the notices, strays included.
THEOREM SubscriptionsKept == RSpec => CancelIsKept /\ []NoticedOnce
<1>1. RInv /\ [RNext]_rvars =>
         [\A p \in Pair : row[p].flag /\ ~row'[p].flag => row'[p].status = "canceled"]_vars
  <2> SUFFICES ASSUME RInv, [RNext]_rvars, NEW p \in Pair, row[p].flag, ~row'[p].flag
               PROVE  row'[p].status = "canceled"
    OBVIOUS
  <2>1. [Next]_vars
    BY StepKinds DEF UnlockStep, FallThrough, db
  <2>2. QED
    BY <2>1, RowEffects DEF RInv, SubscriptionsInv
<1>2. RInv => NoticedOnce
  BY DEF RInv, SubscriptionsInv
<1>3. QED
  BY <1>1, <1>2, RInvAlways, PTL DEF RSpec, CancelIsKept

=============================================================================
