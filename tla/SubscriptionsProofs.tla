------------------------ MODULE SubscriptionsProofs ------------------------
(***************************************************************************)
(* Theorems about Subscriptions, for every set of users, gateways, workers *)
(* and events and every clock.                                             *)
(***************************************************************************)
EXTENDS Subscriptions, FiniteSetTheorems, TLAPS

TypeInv == TypeOK /\ OpenedForPairs /\ JobsGrounded

----------------------------------------------------------------------------
(* Rows.                                                                   *)

\* An UPDATE of the columns that changed leaves a row.
LEMMA FlushType ==
    ASSUME NEW now0 \in Row, NEW read \in Row, NEW new \in Row
    PROVE  Flush(now0, read, new) \in Row
BY DEF Flush, Column, Row

\* NULL is neither a user, a checkout nor a reference.
LEMMA NoneNotUser ==
    /\ \A s \in Subscriber : s # None
    /\ \A c \in Creator : c # None
    /\ \A c \in Checkout : c # None
    /\ \A r \in Ref : r # None
BY NoneAssumption DEF Ref

\* An event decides a status of the enumeration, or none, and then the row's
\* own stays.
LEMMA StatusType ==
    ASSUME NEW ev \in Event, NEW r \in Row
    PROVE  /\ StatusFromEvent(ev, r.status) \in Status \cup {None}
           /\ NextStatus(ev, r) \in Status \cup {"absent"}
<1>1. StatusFromEvent(ev, r.status) \in Status \cup {None}
  BY DEF StatusFromEvent, Event, EventType, Status, NonTerminal, Terminal
<1>2. QED
  BY <1>1 DEF NextStatus, Row

\* A period's end is a time or unknown.
LEMMA EndType ==
    ASSUME NEW ev \in Event, NEW r \in Row, NEW t \in Nat
    PROVE  NextEnd(ev, r, t) \in Nat \cup {None}
BY PeriodAssumption DEF NextEnd, RenewsInPlace, Later, Event, Row

\* Reconciliation turns a row into a row.
LEMMA ReconcileType ==
    ASSUME NEW ev \in Event, NEW r \in Row, NEW t \in Nat
    PROVE  Reconcile(ev, r, t) \in Row
<1>1. ev.ref \in Ref
  BY DEF Event
<1>2. QED
  BY <1>1, StatusType, EndType DEF Reconcile, Row

\* Blocking turns a row into a row.
LEMMA BlockedRowType ==
    ASSUME NEW r \in Row
    PROVE  BlockedRow(r) \in Row
BY DEF BlockedRow, Row, Status, Terminal

\* So does a subscribe, whichever row it read.
LEMMA PendingRowType ==
    ASSUME TypeOK, NEW r \in Row, NEW g \in GatewayName, NEW c \in Checkout
    PROVE  PendingRow(r, g, c) \in Row
<1>1. OpenedRef(g, c) \in Ref
  BY DEF OpenedRef, Ref
<1>2. OpenedEnd(g, now) \in Nat \cup {None}
  BY PeriodAssumption DEF OpenedEnd, TypeOK
<1>3. "incomplete" \in Status
  BY DEF Status, NonTerminal
<1>4. QED
  BY <1>1, <1>2, <1>3 DEF PendingRow, Row

\* Ids are numbers: there are finitely many pairs to count.
LEMMA NewIdType == NewId \in Nat
<1>1. IsFiniteSet({p \in Pair : row[p].status # "absent"})
  BY UsersAssumption, FS_Subset
<1>2. QED
  BY <1>1, FS_CardinalityType DEF NewId

----------------------------------------------------------------------------
(* Jobs and events.                                                        *)

\* What a job holds, by what it is doing.
LEMMA JobFields ==
    ASSUME NEW j \in Job
    PROVE  /\ j.op = "subscribe" => j.pair \in Pair /\ j.gateway \in GatewayName
           /\ j.op = "checkout" =>
                j.pair \in Pair /\ j.gateway \in GatewayName /\ j.read \in Row
           /\ j.op = "reconcile" =>
                j.pair \in Pair /\ j.event \in EventId /\ j.read \in Row
           /\ j.op = "notify" => j.event \in EventId
           /\ j.op \in {"cancel", "told", "block", "reblock"} => j.pair \in Pair /\ j.read \in Row
           /\ j.op = "sweep" => j.pairs \subseteq Pair
BY DEF Job

\* The jobs handlers start, go on with, or end in.
LEMMA JobMembers ==
    /\ Idle \in Job
    /\ \A p \in Pair, g \in GatewayName :
          [op |-> "subscribe", pair |-> p, gateway |-> g] \in Job
    /\ \A p \in Pair, g \in GatewayName, r \in Row :
          [op |-> "checkout", pair |-> p, gateway |-> g, read |-> r] \in Job
    /\ \A p \in Pair, e \in EventId, r \in Row :
          [op |-> "reconcile", pair |-> p, event |-> e, read |-> r] \in Job
    /\ \A e \in EventId : [op |-> "notify", event |-> e] \in Job
    /\ \A p \in Pair, r \in Row, o \in {"cancel", "told", "block", "reblock"} :
          [op |-> o, pair |-> p, read |-> r] \in Job
    /\ \A P \in SUBSET Pair : [op |-> "sweep", pairs |-> P] \in Job
BY DEF Job, Idle

\* The fields all events share make an event.
LEMMA NoticeType ==
    ASSUME NEW g \in GatewayName, NEW c \in Checkout, NEW p \in Pair,
           NEW type \in EventType
    PROVE  Notice(g, c, p, type) \in Event
<1>1. <<"resource", c>> \in Ref
  BY DEF Ref
<1>2. QED
  BY <1>1 DEF Notice, Event

\* Everything a gateway sends is an event.
LEMMA SentType ==
    ASSUME NEW g \in GatewayName, NEW c \in Checkout, NEW p \in Pair,
           NEW t \in Nat
    PROVE  /\ ChargeNotice(g, c, p, t) \in Event
           /\ DeclineNotice(g, c, p, t) \in Event
           /\ CompletedNotice(c, p) \in Event
           /\ EndNotice(g, c, p) \in Event
           /\ \A s \in AnnouncedStatus(g) : LifecycleNotice(g, c, p, s, t) \in Event
<1>1. t + TierPeriod \in Nat
  BY PeriodAssumption
<1>2. <<"session", c>> \in Ref
  BY DEF Ref
<1>3. {"active", "past_due", "expired", "canceled"} \subseteq Status
  BY DEF Status, NonTerminal, Terminal
<1>4. {"created", "updated", "canceled", "succeeded", "failed"} = EventType
  BY DEF EventType
<1>5. ChargeNotice(g, c, p, t) \in Event
  <2>1. Notice(g, c, p, "succeeded") \in Event
    BY <1>4, NoticeType
  <2>2. (IF g = "mock" THEN None ELSE "active") \in Status \cup {None}
    BY <1>3
  <2>3. (IF g \in {"stripe", "paypal"} THEN t + TierPeriod ELSE None)
          \in Nat \cup {None}
    BY <1>1
  <2>4. QED
    BY <2>1, <2>2, <2>3, ZenonT(40) DEF ChargeNotice, Event
<1>6. DeclineNotice(g, c, p, t) \in Event
  BY <1>1, <1>4, NoticeType DEF DeclineNotice, Event
<1>7. CompletedNotice(c, p) \in Event
  <2>1. Notice("stripe", c, p, "created") \in Event
    BY <1>4, NoticeType DEF GatewayName
  <2>2. QED
    BY <1>2, <1>3, <2>1 DEF CompletedNotice, Event
<1>8. EndNotice(g, c, p) \in Event
  BY <1>3, <1>4, NoticeType DEF EndNotice, Event
<1>9. ASSUME NEW s \in AnnouncedStatus(g)
      PROVE  LifecycleNotice(g, c, p, s, t) \in Event
  <2>1. s \in Status \cup {None}
    BY <1>3, <1>9 DEF AnnouncedStatus, GatewayName
  <2>2. Notice(g, c, p, "updated") \in Event
    BY <1>4, NoticeType
  <2>3. (IF g = "paypal" /\ s \in Follower THEN t + TierPeriod ELSE None)
          \in Nat \cup {None}
    BY <1>1
  <2>4. QED
    BY <2>1, <2>2, <2>3 DEF LifecycleNotice, Event
<1>10. QED
  BY <1>5, <1>6, <1>7, <1>8, <1>9

\* What a notification leaves open is on Wompi's page only: which of the
\* checkout's ids it names, the payer, and whether it pins the creator.
LEMMA AsPaidType ==
    ASSUME NEW n \in Event, NEW c \in Checkout, NEW ev \in AsPaid(n, c)
    PROVE  /\ ev \in Event
           /\ ev.ref = n.ref \/ ev.ref[2] = c
           /\ ev.charged = n.charged
           /\ ev.session = n.session
           /\ ev.gateway = n.gateway
           /\ ev.creator \in {n.creator, None, n.charged[2]}
           /\ ev.recurring => n.recurring \/ n.gateway = "wompi"
<1>1. CASE n.gateway # "wompi"
  BY <1>1 DEF AsPaid
<1>2. CASE n.gateway = "wompi"
  <2> DEFINE Pins == {<<n.charged[2], TRUE>>, <<None, TRUE>>, <<None, FALSE>>}
  <2>1. PICK x \in {"resource", "charge"} \X (Subscriber \cup {None}) \X Pins :
          ev = [n EXCEPT !.ref = <<x[1], c>>, !.payer = x[2],
                         !.creator = x[3][1], !.recurring = x[3][2]]
    BY <1>2 DEF AsPaid
  <2>2. <<x[1], c>> \in Ref /\ x[2] \in Subscriber \cup {None} /\ x[3] \in Pins
    BY DEF Ref
  <2>3. n.charged[2] \in Creator
    BY DEF Event, Pair
  <2>4. /\ x[3][1] \in {None, n.charged[2]} /\ x[3][2] \in BOOLEAN
        /\ x[3][1] \in Creator \cup {None}
    <3>1. CASE x[3] = <<n.charged[2], TRUE>>
      BY <2>3, <3>1
    <3>2. CASE x[3] = <<None, TRUE>>
      BY <3>2
    <3>3. CASE x[3] = <<None, FALSE>>
      BY <3>3
    <3>4. QED
      BY <2>2, <3>1, <3>2, <3>3
  <2>5. QED
    BY <1>2, <2>1, <2>2, <2>4 DEF Event
<1>3. QED
  BY <1>1, <1>2

----------------------------------------------------------------------------
(* Type correctness.                                                       *)

\* A step that only moves worker w to a job keeps the invariant.
LEMMA JobStep ==
    ASSUME TypeInv, NEW w \in Worker, NEW j \in Job,
           job' = [job EXCEPT ![w] = j],
           UNCHANGED sent,
           j.op = "reconcile" => sent[j.event] # None,
           j.op = "cancel" => j.read.ref # None
    PROVE  job' \in [Worker -> Job] /\ JobsGrounded'
BY DEF TypeInv, TypeOK, JobsGrounded

\* A commit to the row of one pair.
LEMMA RowStep ==
    ASSUME TypeInv, NEW p \in Pair, NEW r \in Row, row' = [row EXCEPT ![p] = r]
    PROVE  row' \in [Pair -> Row]
BY DEF TypeInv, TypeOK

\* Every step keeps the types, the records of the checkouts handed out, and
\* the grounds handlers in the middle of a request stand on.
THEOREM TypeStep == TypeInv /\ [Next]_vars => TypeInv'
<1> SUFFICES ASSUME TypeInv, [Next]_vars PROVE TypeInv'
  OBVIOUS
<1> USE DEF db, gateways, delivery
<1>a. TypeOK /\ OpenedForPairs /\ JobsGrounded
  BY DEF TypeInv
<1>1. ASSUME NEW w \in Worker, NEW p \in Pair, NEW g \in Gateway,
             SubscribeAdmit(w, p, g)
      PROVE  TypeInv'
  <2>1. [op |-> "subscribe", pair |-> p, gateway |-> g] \in Job
    BY JobMembers, GatewayAssumption
  <2>2. job' \in [Worker -> Job] /\ JobsGrounded'
    BY <1>1, <2>1, JobStep DEF SubscribeAdmit, Start
  <2>3. QED
    BY <1>a, <1>1, <2>2 DEF SubscribeAdmit, TypeInv, TypeOK, OpenedForPairs
<1>2. ASSUME NEW w \in Worker, SubscribeRead(w)
      PROVE  TypeInv'
  <2> DEFINE j == [op |-> "checkout", pair |-> job[w].pair,
                   gateway |-> job[w].gateway, read |-> row[job[w].pair]]
  <2>1. job[w].pair \in Pair /\ job[w].gateway \in GatewayName
    BY <1>a, <1>2, JobFields DEF SubscribeRead, TypeOK
  <2>2. j \in Job
    BY <1>a, <2>1, JobMembers DEF TypeOK
  <2>3. job' \in [Worker -> Job] /\ JobsGrounded'
    BY <1>2, <2>2, JobStep DEF SubscribeRead, Continue
  <2>4. QED
    BY <1>a, <1>2, <2>3 DEF SubscribeRead, TypeInv, TypeOK, OpenedForPairs
<1>3. ASSUME NEW w \in Worker, NEW c \in Checkout, SubscribeCommit(w, c)
      PROVE  TypeInv'
  <2> DEFINE p == job[w].pair
             g == job[w].gateway
             read == job[w].read
             new == PendingRow(read, g, c)
  <2>1. p \in Pair /\ g \in GatewayName /\ read \in Row
    BY <1>a, <1>3, JobFields DEF SubscribeCommit, TypeOK
  <2>2. new \in Row
    BY <1>a, <2>1, PendingRowType
  <2>3. [PendingRow(NoRow, g, c) EXCEPT !.id = NewId] \in Row
    <3>1. NoRow \in Row
      BY DEF NoRow, Row
    <3>2. PendingRow(NoRow, g, c) \in Row
      BY <1>a, <2>1, <3>1, PendingRowType
    <3>3. QED
      BY <3>2, NewIdType DEF Row
  <2>4. Flush(row[p], read, new) \in Row
    BY <1>a, <2>1, <2>2, FlushType DEF TypeOK
  <2>5. row' \in [Pair -> Row]
    BY <1>a, <1>3, <2>1, <2>3, <2>4, RowStep DEF SubscribeCommit, TypeOK
  <2>6. job' \in [Worker -> Job] /\ JobsGrounded'
    BY <1>3, JobMembers, JobStep DEF SubscribeCommit, Finish, Idle
  <2>7. [state |-> "open", gateway |-> g, pair |-> p, opened |-> now,
         until |-> now, renews |-> AutoRenews(g)] \in CheckoutRecord
    BY <1>a, <2>1 DEF CheckoutRecord, AutoRenews, TypeOK
  <2>8. checkout' \in [Checkout -> CheckoutRecord] /\ OpenedForPairs'
    BY <1>a, <1>3, <2>1, <2>7 DEF SubscribeCommit, TypeOK, OpenedForPairs
  <2>9. QED
    BY <1>a, <1>3, <2>5, <2>6, <2>8 DEF SubscribeCommit, TypeInv, TypeOK
<1>4. ASSUME NEW w \in Worker,
             \/ SubscribeExisting(w) \/ SubscribeConflict(w)
             \/ ReconcileLost(w) \/ NotifyFailure(w)
             \/ CancelRejected(w) \/ Abort(w)
      PROVE  TypeInv'
  <2>1. job' \in [Worker -> Job] /\ JobsGrounded'
    BY <1>4, JobMembers, JobStep
    DEF SubscribeExisting, SubscribeConflict, ReconcileLost, NotifyFailure,
        CancelRejected, Abort, Finish, Idle
  <2>2. job[w].op \in {"reconcile", "notify"} => job[w].event \in EventId
    BY <1>a, JobFields DEF TypeOK
  <2>3. acked' \subseteq EventId /\ notified' \subseteq EventId
    BY <1>a, <1>4, <2>2
    DEF SubscribeExisting, SubscribeConflict, ReconcileLost, NotifyFailure,
        CancelRejected, Abort, TypeOK
  <2>4. QED
    BY <1>a, <1>4, <2>1, <2>3
    DEF SubscribeExisting, SubscribeConflict, ReconcileLost, NotifyFailure,
        CancelRejected, Abort, TypeInv, TypeOK, OpenedForPairs
<1>5. ASSUME NEW e \in EventId, DeliverDuplicate(e) \/ DeliverUnmatched(e)
      PROVE  TypeInv'
  BY <1>a, <1>5 DEF DeliverDuplicate, DeliverUnmatched, TypeInv, TypeOK,
                    OpenedForPairs, JobsGrounded
<1>6. ASSUME NEW w \in Worker, NEW e \in EventId, DeliverMatched(w, e)
      PROVE  TypeInv'
  <2>1. PICK p \in Match(sent[e]) :
           Start(w, [op |-> "reconcile", pair |-> p, event |-> e, read |-> row[p]])
    BY <1>6 DEF DeliverMatched
  <2>2. p \in Pair
    <3>1. \A ref : ByRef(sent[e], ref) \subseteq Pair
      BY DEF ByRef
    <3>2. ByPayer(sent[e]) \subseteq Pair
      BY DEF ByPayer
    <3>3. QED
      BY <2>1, <3>1, <3>2 DEF Match
  <2>3. [op |-> "reconcile", pair |-> p, event |-> e, read |-> row[p]] \in Job
    BY <1>a, <2>2, JobMembers DEF TypeOK
  <2>4. job' \in [Worker -> Job] /\ JobsGrounded'
    BY <1>6, <2>1, <2>3, JobStep DEF DeliverMatched, Start
  <2>5. QED
    BY <1>a, <1>6, <2>4 DEF DeliverMatched, TypeInv, TypeOK, OpenedForPairs
<1>7. ASSUME NEW w \in Worker, ReconcileCommit(w)
      PROVE  TypeInv'
  <2> DEFINE e == job[w].event
             p == job[w].pair
             read == job[w].read
  <2>1. p \in Pair /\ e \in EventId /\ read \in Row
    BY <1>a, <1>7, JobFields DEF ReconcileCommit, TypeOK
  <2>2. sent[e] \in Event
    BY <1>a, <1>7, <2>1 DEF ReconcileCommit, TypeOK, JobsGrounded
  <2>3. Flush(row[p], read, Reconcile(sent[e], read, now)) \in Row
    BY <1>a, <2>1, <2>2, FlushType, ReconcileType DEF TypeOK
  <2>4. row' \in [Pair -> Row]
    BY <1>7, <2>1, <2>3, RowStep DEF ReconcileCommit
  <2>5. processed' \subseteq EventId /\ booked' \in [EventId \X Pair -> Nat]
    BY <1>a, <1>7, <2>1 DEF ReconcileCommit, TypeOK
  <2>6. acked' \subseteq EventId
    BY <1>a, <1>7, <2>1 DEF ReconcileCommit, TypeOK
  <2>7. job' \in [Worker -> Job] /\ JobsGrounded'
    <3>1. CASE NotifiesFailure(sent[e], read)
      BY <1>7, <2>1, <3>1, JobMembers, JobStep DEF ReconcileCommit, Continue
    <3>2. CASE ~NotifiesFailure(sent[e], read)
      BY <1>7, <3>2, JobMembers, JobStep DEF ReconcileCommit, Finish, Idle
    <3>3. QED
      BY <3>1, <3>2
  <2>8. QED
    BY <1>a, <1>7, <2>4, <2>5, <2>6, <2>7
    DEF ReconcileCommit, TypeInv, TypeOK, OpenedForPairs
<1>8. ASSUME NEW w \in Worker, NEW p \in Pair, CancelRead(w, p)
      PROVE  TypeInv'
  <2> DEFINE j == [op |-> IF CallsStripe(row[p]) THEN "cancel" ELSE "told",
                   pair |-> p, read |-> row[p]]
  <2>1. j \in Job
    BY <1>a, JobMembers DEF TypeOK
  <2>2. j.op = "cancel" => j.read.ref # None
    BY DEF CallsStripe
  <2>3. job' \in [Worker -> Job] /\ JobsGrounded'
    BY <1>8, <2>1, <2>2, JobStep DEF CancelRead, Start
  <2>4. QED
    BY <1>a, <1>8, <2>3 DEF CancelRead, TypeInv, TypeOK, OpenedForPairs
<1>9. ASSUME NEW w \in Worker, CancelTell(w)
      PROVE  TypeInv'
  <2> DEFINE c == job[w].read.ref[2]
  <2>1. job[w] \in Job /\ job[w].op = "cancel"
    BY <1>a, <1>9 DEF CancelTell, TypeOK
  <2>2. job[w].pair \in Pair /\ job[w].read \in Row
    BY <2>1, JobFields
  <2>3. c \in Checkout
    BY <1>a, <2>1, <2>2 DEF JobsGrounded, Row, Ref
  <2>4. checkout' \in [Checkout -> CheckoutRecord] /\ OpenedForPairs'
    <3>1. checkout[c] \in CheckoutRecord
      BY <1>a, <2>3 DEF TypeOK
    <3>2. [checkout[c] EXCEPT !.renews = FALSE] \in CheckoutRecord
      BY <3>1 DEF CheckoutRecord
    <3>3. checkout' = [checkout EXCEPT ![c] = [@ EXCEPT !.renews = FALSE]]
      BY <1>9 DEF CancelTell
    <3>4. \A d \in Checkout : /\ checkout'[d].state = checkout[d].state
                              /\ checkout'[d].pair = checkout[d].pair
                              /\ checkout'[d].gateway = checkout[d].gateway
      BY <1>a, <2>3, <3>1, <3>3 DEF TypeOK, CheckoutRecord
    <3>5. QED
      BY <1>a, <2>3, <3>2, <3>3, <3>4 DEF TypeOK, OpenedForPairs
  <2>5. [job[w] EXCEPT !.op = "told"] \in Job
    <3>1. job[w] \in [op : {"cancel", "told", "block", "reblock"}, pair : Pair, read : Row]
      BY <2>1 DEF Job
    <3>2. QED
      BY <3>1 DEF Job
  <2>6. [job[w] EXCEPT !.op = "told"].op = "told"
    BY <2>1, <2>2 DEF Job
  <2>7. job' \in [Worker -> Job] /\ JobsGrounded'
    BY <1>9, <2>5, <2>6, JobStep DEF CancelTell, Continue
  <2>8. QED
    BY <1>a, <1>9, <2>4, <2>7 DEF CancelTell, TypeInv, TypeOK
<1>10. ASSUME NEW w \in Worker, CancelCommit(w)
       PROVE  TypeInv'
  <2>1. job[w].pair \in Pair /\ job[w].read \in Row
    BY <1>a, <1>10, JobFields DEF CancelCommit, TypeOK
  <2>2. [job[w].read EXCEPT !.flag = TRUE] \in Row
    BY <2>1 DEF Row
  <2>3. row' \in [Pair -> Row]
    BY <1>a, <1>10, <2>1, <2>2, FlushType, RowStep DEF CancelCommit, TypeOK
  <2>4. job' \in [Worker -> Job] /\ JobsGrounded'
    BY <1>10, JobMembers, JobStep DEF CancelCommit, Finish, Idle
  <2>5. QED
    BY <1>a, <1>10, <2>3, <2>4 DEF CancelCommit, TypeInv, TypeOK, OpenedForPairs
<1>11. ASSUME NEW w \in Worker, NEW p \in Pair, BlockRead(w, p)
       PROVE  TypeInv'
  <2>1. \A o \in {"block", "reblock"} : [op |-> o, pair |-> p, read |-> row[p]] \in Job
    BY <1>a, JobMembers DEF TypeOK
  <2>2. job' \in [Worker -> Job] /\ JobsGrounded'
    BY <1>11, <2>1, JobStep DEF BlockRead, Start
  <2>3. QED
    BY <1>a, <1>11, <2>2 DEF BlockRead, TypeInv, TypeOK, OpenedForPairs
<1>12. ASSUME NEW w \in Worker, BlockCommit(w)
       PROVE  TypeInv'
  <2>1. job[w].pair \in Pair /\ job[w].read \in Row
    BY <1>a, <1>12, JobFields DEF BlockCommit, TypeOK
  <2>2. row' \in [Pair -> Row]
    BY <1>a, <1>12, <2>1, BlockedRowType, FlushType, RowStep
    DEF BlockCommit, TypeOK
  <2>3. job' \in [Worker -> Job] /\ JobsGrounded'
    BY <1>12, JobMembers, JobStep DEF BlockCommit, Finish, Idle
  <2>4. QED
    BY <1>a, <1>12, <2>1, <2>2, <2>3
    DEF BlockCommit, TypeInv, TypeOK, OpenedForPairs
<1>13. ASSUME NEW p \in Pair, Unblock(p)
       PROVE  TypeInv'
  BY <1>a, <1>13 DEF Unblock, TypeInv, TypeOK, OpenedForPairs, JobsGrounded
<1>14. ASSUME NEW w \in Worker, SweepRead(w)
       PROVE  TypeInv'
  <2>1. [op |-> "sweep", pairs |-> {p \in Pair : Lapsed(p)}] \in Job
    BY JobMembers
  <2>2. job' \in [Worker -> Job] /\ JobsGrounded'
    BY <1>14, <2>1, JobStep DEF SweepRead, Start
  <2>3. QED
    BY <1>a, <1>14, <2>2 DEF SweepRead, TypeInv, TypeOK, OpenedForPairs
<1>15. ASSUME NEW w \in Worker, SweepCommit(w)
       PROVE  TypeInv'
  <2>1. row' \in [Pair -> Row]
    <3>1. "canceled" \in Status
      BY DEF Status, Terminal
    <3>2. \A p \in Pair : row[p] \in Row
      BY <1>a DEF TypeOK
    <3>3. \A r \in Row : [r EXCEPT !.status = "canceled", !.flag = FALSE] \in Row
      BY <3>1 DEF Row
    <3>4. QED
      BY <1>15, <3>2, <3>3 DEF SweepCommit
  <2>2. job' \in [Worker -> Job] /\ JobsGrounded'
    BY <1>15, JobMembers, JobStep DEF SweepCommit, Finish, Idle
  <2>3. QED
    BY <1>a, <1>15, <2>1, <2>2 DEF SweepCommit, TypeInv, TypeOK, OpenedForPairs
<1>16. ASSUME NEW c \in Checkout, NEW e \in EventId,
              Charge(c, e) \/ Decline(c, e) \/ Announce(c, e) \/ End(c, e)
       PROVE  TypeInv'
  <2> DEFINE k == checkout[c]
  <2>1. k.gateway \in GatewayName /\ k.pair \in Pair
    BY <1>a, <1>16 DEF Charge, Decline, Announce, End, OpenedForPairs
  <2>2. k \in CheckoutRecord /\ now \in Nat /\ k.opened \in Nat
    BY <1>a DEF TypeOK, CheckoutRecord
  <2>3. PICK ev \in Event : Send(e, ev)
    BY <1>16, <2>1, <2>2, SentType, AsPaidType DEF Charge, Decline, Announce, End
  <2>4. /\ sent' \in [EventId -> Event \cup {None}]
        /\ \A f \in EventId : sent[f] # None => sent'[f] # None
    BY <1>a, <2>3 DEF Send, TypeOK
  <2>5. now + TierPeriod \in Nat
    BY <2>2, PeriodAssumption
  <2>6. checkout' \in [Checkout -> CheckoutRecord] /\ OpenedForPairs'
    BY <1>a, <1>16, <2>1, <2>5
    DEF Charge, Decline, Announce, End, TypeOK, OpenedForPairs, CheckoutRecord
  <2>7. JobsGrounded'
    <3>1. \A w \in Worker : job[w].op = "reconcile" => job[w].event \in EventId
      BY <1>a, JobFields DEF TypeOK
    <3>2. QED
      BY <1>a, <1>16, <2>4, <3>1 DEF Charge, Decline, Announce, End, JobsGrounded
  <2>8. QED
    BY <1>a, <1>16, <2>4, <2>6, <2>7
    DEF Charge, Decline, Announce, End, TypeInv, TypeOK
<1>17. CASE Tick
  BY <1>a, <1>17 DEF Tick, TypeInv, TypeOK, OpenedForPairs, JobsGrounded
<1>18. CASE UNCHANGED vars
  BY <1>a, <1>18 DEF vars, TypeInv, TypeOK, OpenedForPairs, JobsGrounded
<1>19. QED
  BY <1>1, <1>2, <1>3, <1>4, <1>5, <1>6, <1>7, <1>8, <1>9, <1>10, <1>11, <1>12,
     <1>13, <1>14, <1>15, <1>16, <1>17, <1>18
  DEF Next, Request, Commit, Deliver, GatewayStep

\* The empty database, and nothing sent, has the types.
LEMMA TypeInit == Init => TypeInv
BY DEF Init, TypeInv, TypeOK, OpenedForPairs, JobsGrounded, NoRow, Row, Unopened,
       CheckoutRecord, Job, Idle

\* So they always hold.
LEMMA TypeAlways == Spec => []TypeInv
<1>1. TypeInv /\ [Next]_vars => TypeInv'
  BY TypeStep
<1>2. QED
  BY TypeInit, <1>1, PTL DEF Spec

\* Every row, job, event and checkout keeps its shape: in particular a status
\* an event does not decide never reaches a row (_status_from_event).
THEOREM TypeCorrect == Spec => []TypeOK
<1>1. TypeInv => TypeOK
  BY DEF TypeInv
<1>2. QED
  BY TypeAlways, <1>1, PTL

----------------------------------------------------------------------------
(* What each kind of step writes.                                          *)

\* Most steps move only a job, the acknowledgements, the block list or the
\* clock; each of the others leaves most of the tables alone.
LEMMA StepEffects ==
    ASSUME [Next]_vars
    PROVE  \/ UNCHANGED <<row, processed, booked, checkout, sent, notified>>
           \/ \E w \in Worker, c \in Checkout :
                 SubscribeCommit(w, c) /\ UNCHANGED <<processed, booked, sent, notified>>
           \/ \E w \in Worker :
                 ReconcileCommit(w) /\ UNCHANGED <<checkout, sent, notified>>
           \/ \E w \in Worker :
                 NotifyFailure(w) /\ UNCHANGED <<row, processed, booked, checkout, sent>>
           \/ \E w \in Worker :
                 CancelTell(w) /\ UNCHANGED <<row, processed, booked, sent, notified>>
           \/ \E w \in Worker :
                 /\ CancelCommit(w) \/ BlockCommit(w) \/ SweepCommit(w)
                 /\ UNCHANGED <<processed, booked, checkout, sent, notified>>
           \/ \E c \in Checkout, e \in EventId :
                 /\ Charge(c, e) \/ Decline(c, e) \/ Announce(c, e) \/ End(c, e)
                 /\ UNCHANGED <<row, processed, booked, notified>>
<1> DEFINE Quiet == UNCHANGED <<row, processed, booked, checkout, sent, notified>>
<1> USE DEF db, gateways, delivery
<1>1. ASSUME NEW w \in Worker, Request(w) PROVE Quiet
  BY <1>1 DEF Request, SubscribeAdmit, CancelRead, BlockRead
<1>2. ASSUME NEW w \in Worker, SweepRead(w) \/ Abort(w) \/ SubscribeRead(w) PROVE Quiet
  BY <1>2 DEF SweepRead, Abort, SubscribeRead
<1>3. ASSUME NEW w \in Worker,
             \/ SubscribeExisting(w) \/ SubscribeConflict(w)
             \/ ReconcileLost(w) \/ CancelRejected(w)
      PROVE  Quiet
  BY <1>3 DEF SubscribeExisting, SubscribeConflict, ReconcileLost, CancelRejected
<1>4. ASSUME NEW e \in EventId, Deliver(e) PROVE Quiet
  BY <1>4 DEF Deliver, DeliverDuplicate, DeliverUnmatched, DeliverMatched
<1>5. ASSUME (\E p \in Pair : Unblock(p)) \/ Tick \/ UNCHANGED vars PROVE Quiet
  BY <1>5 DEF Unblock, Tick, vars
<1>6. \A w \in Worker, c \in Checkout :
         SubscribeCommit(w, c) => UNCHANGED <<processed, booked, sent, notified>>
  BY DEF SubscribeCommit
<1>7. \A w \in Worker : ReconcileCommit(w) => UNCHANGED <<checkout, sent, notified>>
  BY DEF ReconcileCommit
<1>8. \A w \in Worker :
         NotifyFailure(w) => UNCHANGED <<row, processed, booked, checkout, sent>>
  BY DEF NotifyFailure
<1>9. \A w \in Worker :
         CancelTell(w) => UNCHANGED <<row, processed, booked, sent, notified>>
  BY DEF CancelTell
<1>10. \A w \in Worker : CancelCommit(w) \/ BlockCommit(w) \/ SweepCommit(w) =>
          UNCHANGED <<processed, booked, checkout, sent, notified>>
  BY DEF CancelCommit, BlockCommit, SweepCommit
<1>11. \A c \in Checkout, e \in EventId :
          Charge(c, e) \/ Decline(c, e) \/ Announce(c, e) \/ End(c, e) =>
             UNCHANGED <<row, processed, booked, notified>>
  BY DEF Charge, Decline, Announce, End
<1> HIDE DEF Quiet
<1>12. \/ Quiet
       \/ \E w \in Worker, c \in Checkout : SubscribeCommit(w, c)
       \/ \E w \in Worker : ReconcileCommit(w)
       \/ \E w \in Worker : NotifyFailure(w)
       \/ \E w \in Worker : CancelTell(w)
       \/ \E w \in Worker : CancelCommit(w) \/ BlockCommit(w) \/ SweepCommit(w)
       \/ \E c \in Checkout, e \in EventId :
             Charge(c, e) \/ Decline(c, e) \/ Announce(c, e) \/ End(c, e)
  BY <1>1, <1>2, <1>3, <1>4, <1>5 DEF Next, Commit, GatewayStep
<1>13. QED
  BY <1>6, <1>7, <1>8, <1>9, <1>10, <1>11, <1>12 DEF Quiet

----------------------------------------------------------------------------
(* The ledger: what is booked is marked, and each event settles once.      *)

\* A step books nothing, or settles one unmarked event: only the reconciler's
\* commit touches the ledger, and the mark's unique constraint lets it in.
THEOREM LedgerStep ==
    TypeInv /\ BooksMarked /\ [Next]_vars => BooksMarked' /\ [RL!Next]_(RL!vars)
<1> SUFFICES ASSUME TypeInv, BooksMarked, [Next]_vars
             PROVE  BooksMarked' /\ [RL!Next]_(RL!vars)
  OBVIOUS
<1> USE DEF db, gateways, delivery
<1>a. booked \in [EventId \X Pair -> Nat]
  BY DEF TypeInv, TypeOK
<1>1. CASE UNCHANGED <<processed, booked>>
  BY <1>1 DEF BooksMarked, RL!vars
<1>2. ASSUME NEW w \in Worker, ReconcileCommit(w)
      PROVE  BooksMarked' /\ [RL!Next]_(RL!vars)
  <2> DEFINE e == job[w].event
             p == job[w].pair
             paid == PaymentCompleted(sent[e], job[w].read)
  <2>1. p \in Pair /\ e \in EventId
    BY <1>2, JobFields DEF ReconcileCommit, TypeInv, TypeOK
  <2>2. /\ e \notin processed
        /\ processed' = processed \cup {e}
        /\ booked' = [booked EXCEPT ![<<e, p>>] = @ + (IF paid THEN 1 ELSE 0)]
    BY <1>2 DEF ReconcileCommit, Markable
  <2>3. booked[<<e, p>>] = 0
    BY <1>a, <2>1, <2>2 DEF BooksMarked
  <2>4. \/ UNCHANGED booked
        \/ booked' = [booked EXCEPT ![<<e, p>>] = 1]
    <3>1. CASE paid
      BY <2>2, <2>3, <3>1
    <3>2. CASE ~paid
      <4>1. booked' = [booked EXCEPT ![<<e, p>>] = 0]
        BY <2>2, <2>3, <3>2
      <4>2. booked' = booked
        BY <1>a, <2>1, <2>3, <4>1
      <4>3. QED
        BY <4>2
    <3>3. QED
      BY <3>1, <3>2
  <2>5. RL!Settle(e)
    BY <2>1, <2>2, <2>4 DEF RL!Settle
  <2>6. BooksMarked'
    BY <1>a, <2>1, <2>2, <2>4 DEF BooksMarked
  <2>7. QED
    BY <2>1, <2>5, <2>6 DEF RL!Next
<1>3. UNCHANGED <<processed, booked>> \/ \E w \in Worker : ReconcileCommit(w)
  BY StepEffects
<1>4. QED
  BY <1>1, <1>2, <1>3

\* What is booked is always marked.
LEMMA LedgerAlways == Spec => []BooksMarked
<1>1. Init => BooksMarked
  BY DEF Init, BooksMarked
<1>2. TypeInv /\ BooksMarked /\ [Next]_vars => BooksMarked'
  BY LedgerStep
<1>3. QED
  BY TypeAlways, <1>1, <1>2, PTL DEF Spec

\* Whatever is redelivered, delivered twice at once, or dies half way, an event
\* is settled once: the ledger of handle_webhook implements RevenueLedger.
THEOREM LedgerImplemented == Spec => ImplementsLedger
<1>1. Init => RL!Init
  BY DEF Init, RL!Init
<1>2. TypeInv /\ BooksMarked /\ [Next]_vars => [RL!Next]_(RL!vars)
  BY LedgerStep
<1>3. QED
  BY TypeAlways, LedgerAlways, <1>1, <1>2, PTL DEF Spec, ImplementsLedger, RL!Spec

\* An event books at most one payment, and to one pair at most, whichever rows
\* its deliveries found (handle_webhook's mark against its Payment rows).
THEOREM BookedOnce == Spec => []RL!AtMostOnce
<1>1. Init => RL!AtMostOnce
  BY DEF Init, RL!AtMostOnce
<1>2. ASSUME TypeInv, BooksMarked, RL!AtMostOnce, [Next]_vars
      PROVE  RL!AtMostOnce'
  <2>1. booked \in [EventId \X Pair -> Nat]
    BY <1>2 DEF TypeInv, TypeOK
  <2>2. CASE UNCHANGED booked
    BY <1>2, <2>2 DEF RL!AtMostOnce
  <2>3. ASSUME NEW e \in EventId, NEW a \in Pair, e \notin processed,
               booked' = [booked EXCEPT ![<<e, a>>] = 1]
        PROVE  RL!AtMostOnce'
    <3>1. \A b \in Pair : booked[<<e, b>>] = 0
      BY <1>2, <2>1, <2>3 DEF BooksMarked
    <3>2. \A b \in Pair : booked'[<<e, b>>] = IF b = a THEN 1 ELSE 0
      BY <2>1, <2>3, <3>1
    <3>3. \A f \in EventId \ {e}, b \in Pair : booked'[<<f, b>>] = booked[<<f, b>>]
      BY <2>1, <2>3
    <3>4. SUFFICES ASSUME NEW f \in EventId, NEW b \in Pair, NEW d \in Pair
                   PROVE  /\ booked'[<<f, b>>] <= 1
                          /\ booked'[<<f, b>>] + booked'[<<f, d>>] > 1 => b = d
      BY DEF RL!AtMostOnce
    <3>5. CASE f = e
      BY <3>2, <3>5
    <3>6. CASE f # e
      BY <1>2, <3>3, <3>6 DEF RL!AtMostOnce
    <3>7. QED
      BY <3>5, <3>6
  <2>4. QED
    BY <1>2, <2>2, <2>3, LedgerStep DEF RL!Next, RL!Settle, RL!vars
<1>3. QED
  BY TypeAlways, LedgerAlways, <1>1, <1>2, PTL DEF Spec

----------------------------------------------------------------------------
(* The flag.                                                               *)

\* Rows are written by five commits.
LEMMA RowWriters ==
    ASSUME [Next]_vars
    PROVE  \/ UNCHANGED row
           \/ \E w \in Worker, c \in Checkout : SubscribeCommit(w, c)
           \/ \E w \in Worker : \/ ReconcileCommit(w) \/ CancelCommit(w)
                                \/ BlockCommit(w) \/ SweepCommit(w)
BY StepEffects

\* Events are marked by one, and stay marked.
LEMMA MarksGrow ==
    ASSUME [Next]_vars
    PROVE  /\ processed \subseteq processed'
           /\ \A e \in processed' \ processed :
                 \E w \in Worker : ReconcileCommit(w) /\ job[w].event = e
<1>1. ASSUME NEW w \in Worker, ReconcileCommit(w)
      PROVE  /\ processed \subseteq processed'
             /\ \A e \in processed' \ processed : job[w].event = e
  BY <1>1 DEF ReconcileCommit
<1>2. UNCHANGED processed \/ \E w \in Worker : ReconcileCommit(w)
  BY StepEffects
<1>3. QED
  BY <1>1, <1>2

\* What each commit does to the rows, as far as flag and status go.
LEMMA RowEffects ==
    ASSUME TypeInv, CancelsFound, [Next]_vars, NEW p \in Pair
    PROVE  /\ row[p].status # "absent" => row'[p].status # "absent"
           /\ row[p].flag /\ ~row'[p].flag => row'[p].status = "canceled"
           /\ row'[p].flag /\ ~row[p].flag => row[p].status # "absent"
<1> DEFINE Kept == /\ row[p].status # "absent" => row'[p].status # "absent"
                   /\ row[p].flag /\ ~row'[p].flag => row'[p].status = "canceled"
                   /\ row'[p].flag /\ ~row[p].flag => row[p].status # "absent"
<1> SUFFICES Kept
  OBVIOUS
<1> USE DEF db, gateways, delivery
<1>a. row \in [Pair -> Row] /\ now \in Nat /\ \A w \in Worker : job[w] \in Job
  BY DEF TypeInv, TypeOK
<1>1. CASE UNCHANGED row
  BY <1>1
<1>2. ASSUME NEW w \in Worker, NEW c \in Checkout, SubscribeCommit(w, c)
      PROVE  Kept
  <2> DEFINE read == job[w].read
             new == PendingRow(read, job[w].gateway, c)
  <2>1. read \in Row /\ job[w].pair \in Pair
    BY <1>a, <1>2, JobFields DEF SubscribeCommit
  <2>2. new.status = "incomplete" /\ new.flag = read.flag
    BY <2>1 DEF PendingRow, Row
  <2>3. CASE job[w].pair # p
    BY <1>a, <1>2, <2>1, <2>3 DEF SubscribeCommit
  <2>4. CASE job[w].pair = p /\ row' = [row EXCEPT ![p] = Flush(@, read, new)]
    BY <1>a, <2>1, <2>2, <2>4 DEF Flush, Column
  <2>5. CASE /\ job[w].pair = p
             /\ row[p].status = "absent"
             /\ row' = [row EXCEPT ![p] =
                           [PendingRow(NoRow, job[w].gateway, c) EXCEPT !.id = NewId]]
    <3>1. ~row'[p].flag /\ row'[p].status = "incomplete"
      BY <1>a, <2>1, <2>5 DEF PendingRow, NoRow
    <3>2. ~row[p].flag
      BY <2>5 DEF CancelsFound
    <3>3. QED
      BY <3>1, <3>2
  <2>6. QED
    BY <1>2, <2>3, <2>4, <2>5 DEF SubscribeCommit
<1>3. ASSUME NEW w \in Worker, ReconcileCommit(w)
      PROVE  Kept
  <2> DEFINE read == job[w].read
             ev == sent[job[w].event]
             new == Reconcile(ev, read, now)
  <2>1. job[w].pair \in Pair /\ read \in Row /\ ev \in Event
    BY <1>a, <1>3, JobFields DEF ReconcileCommit, TypeInv, TypeOK, JobsGrounded
  <2>2. new.status = NextStatus(ev, read) /\ new.flag = read.flag
    BY <2>1 DEF Reconcile, Row
  <2>3. new.status = read.status \/ new.status \in Status
    BY <2>1, <2>2, StatusType DEF NextStatus
  <2>4. "absent" \notin Status
    BY DEF Status, NonTerminal, Terminal
  <2>5. row' = [row EXCEPT ![job[w].pair] = Flush(@, read, new)]
    BY <1>3 DEF ReconcileCommit
  <2>6. CASE job[w].pair # p
    BY <1>a, <2>1, <2>5, <2>6
  <2>7. CASE job[w].pair = p
    BY <1>a, <2>1, <2>2, <2>3, <2>4, <2>5, <2>7 DEF Flush, Column
  <2>8. QED
    BY <2>6, <2>7
<1>4. ASSUME NEW w \in Worker, CancelCommit(w)
      PROVE  Kept
  <2> DEFINE read == job[w].read
             new == [read EXCEPT !.flag = TRUE]
  <2>1. job[w].pair \in Pair /\ read \in Row /\ row[job[w].pair].status # "absent"
    BY <1>a, <1>4, JobFields DEF CancelCommit, CancelsFound
  <2>2. new.status = read.status /\ new.flag = TRUE
    BY <2>1 DEF Row
  <2>3. row' = [row EXCEPT ![job[w].pair] = Flush(@, read, new)]
    BY <1>4 DEF CancelCommit
  <2>4. CASE job[w].pair # p
    BY <1>a, <2>1, <2>3, <2>4
  <2>5. CASE job[w].pair = p
    BY <1>a, <2>1, <2>2, <2>3, <2>5 DEF Flush, Column
  <2>6. QED
    BY <2>4, <2>5
<1>5. ASSUME NEW w \in Worker, BlockCommit(w)
      PROVE  Kept
  <2> DEFINE read == job[w].read
             new == BlockedRow(read)
  <2>1. job[w].pair \in Pair /\ read \in Row
    BY <1>a, <1>5, JobFields DEF BlockCommit
  <2>2. \/ new = read
        \/ /\ read.status # "canceled"
           /\ new.status = "canceled"
           /\ new.flag = FALSE
    BY <2>1 DEF BlockedRow, Row, NonTerminal
  <2>3. row' = [row EXCEPT ![job[w].pair] = Flush(@, read, new)]
    BY <1>5 DEF BlockCommit
  <2>4. CASE job[w].pair # p
    BY <1>a, <2>1, <2>3, <2>4
  <2>5. CASE job[w].pair = p
    <3>1. row'[p].status = Column(row[p].status, read.status, new.status)
      BY <1>a, <2>3, <2>5 DEF Flush
    <3>2. row'[p].flag = Column(row[p].flag, read.flag, new.flag)
      BY <1>a, <2>3, <2>5 DEF Flush
    <3>3. QED
      BY <2>2, <3>1, <3>2 DEF Column
  <2>6. QED
    BY <2>4, <2>5
<1>6. ASSUME NEW w \in Worker, SweepCommit(w)
      PROVE  Kept
  <2>1. row'[p] = [row[p] EXCEPT !.status = "canceled", !.flag = FALSE]
        \/ row'[p] = row[p]
    BY <1>6 DEF SweepCommit
  <2>2. QED
    BY <1>a, <2>1 DEF Row
<1>7. \/ UNCHANGED row
      \/ \E w \in Worker, c \in Checkout : SubscribeCommit(w, c)
      \/ \E w \in Worker : \/ ReconcileCommit(w) \/ CancelCommit(w)
                           \/ BlockCommit(w) \/ SweepCommit(w)
  BY RowWriters
<1>8. QED
  BY <1>1, <1>2, <1>3, <1>4, <1>5, <1>6, <1>7

\* A handler of /cancel has just found its row, or was one before the step.
LEMMA CancelJobs ==
    ASSUME TypeInv, [Next]_vars, NEW w \in Worker,
           job'[w].op \in {"cancel", "told"}
    PROVE  \/ /\ job'[w].pair \in Pair
              /\ row[job'[w].pair].status # "absent"
           \/ /\ job[w].op \in {"cancel", "told"}
              /\ job'[w].pair = job[w].pair
<1> DEFINE Found(v) ==
      job'[v].op \in {"cancel", "told"} =>
        \/ /\ job'[v].pair \in Pair
           /\ row[job'[v].pair].status # "absent"
        \/ /\ job[v].op \in {"cancel", "told"}
           /\ job'[v].pair = job[v].pair
<1> SUFFICES \A v \in Worker : Found(v)
  OBVIOUS
<1>a. job \in [Worker -> Job]
  BY DEF TypeInv, TypeOK
<1>1. CASE UNCHANGED job
  BY <1>1
<1>2. ASSUME NEW v \in Worker, NEW j, job' = [job EXCEPT ![v] = j],
             j.op \notin {"cancel", "told"}
      PROVE  \A u \in Worker : Found(u)
  BY <1>a, <1>2
<1>3. ASSUME NEW v \in Worker, NEW p \in Pair, CancelRead(v, p)
      PROVE  \A u \in Worker : Found(u)
  <2>1. row[p].status # "absent"
    BY <1>3 DEF CancelRead, NonTerminal
  <2>2. QED
    BY <1>a, <1>3, <2>1 DEF CancelRead, Start
<1>4. ASSUME NEW v \in Worker, CancelTell(v)
      PROVE  \A u \in Worker : Found(u)
  <2>1. job[v] \in [op : {"cancel", "told", "block", "reblock"}, pair : Pair, read : Row]
    BY <1>a, <1>4 DEF CancelTell, Job
  <2>2. QED
    BY <1>a, <1>4, <2>1 DEF CancelTell, Continue
<1>5. ASSUME NEW v \in Worker,
             \/ \E p \in Pair, g \in Gateway : SubscribeAdmit(v, p, g)
             \/ \E p \in Pair : BlockRead(v, p)
             \/ \E e \in EventId : DeliverMatched(v, e)
             \/ SubscribeRead(v) \/ SweepRead(v) \/ ReconcileCommit(v)
      PROVE  \E j : job' = [job EXCEPT ![v] = j] /\ j.op \notin {"cancel", "told"}
  BY <1>5 DEF SubscribeAdmit, BlockRead, DeliverMatched, SubscribeRead, SweepRead,
              ReconcileCommit, Start, Continue, Finish, Idle
<1>6. ASSUME NEW v \in Worker,
             \/ \E c \in Checkout : SubscribeCommit(v, c)
             \/ SubscribeExisting(v) \/ SubscribeConflict(v) \/ ReconcileLost(v)
             \/ NotifyFailure(v) \/ CancelRejected(v) \/ CancelCommit(v)
             \/ BlockCommit(v) \/ SweepCommit(v) \/ Abort(v)
      PROVE  job' = [job EXCEPT ![v] = Idle]
  BY <1>6 DEF SubscribeCommit, SubscribeExisting, SubscribeConflict, ReconcileLost,
              NotifyFailure, CancelRejected, CancelCommit, BlockCommit, SweepCommit,
              Abort, Finish
<1>7. Idle.op \notin {"cancel", "told"}
  BY DEF Idle
<1>8. CASE GatewayStep \/ Tick \/ (\E p \in Pair : Unblock(p))
           \/ (\E e \in EventId : DeliverDuplicate(e) \/ DeliverUnmatched(e))
           \/ UNCHANGED vars
  BY <1>1, <1>8 DEF GatewayStep, Charge, Decline, Announce, End, Tick, Unblock,
                    DeliverDuplicate, DeliverUnmatched, vars
<1>9. QED
  BY <1>2, <1>3, <1>4, <1>5, <1>6, <1>7, <1>8 DEF Next, Request, Commit, Deliver

\* Only a row there is gets canceled, and carries the flag.
THEOREM FlagStep ==
    TypeInv /\ CancelsFound /\ [Next]_vars => CancelsFound'
<1> SUFFICES ASSUME TypeInv, CancelsFound, [Next]_vars PROVE CancelsFound'
  OBVIOUS
<1>1. ASSUME NEW w \in Worker, job'[w].op \in {"cancel", "told"}
      PROVE  row'[job'[w].pair].status # "absent"
  <2>1. job[w].op \in {"cancel", "told"} =>
          job[w].pair \in Pair /\ row[job[w].pair].status # "absent"
    BY JobFields DEF TypeInv, TypeOK, CancelsFound
  <2>2. job'[w].pair \in Pair /\ row[job'[w].pair].status # "absent"
    BY <1>1, <2>1, CancelJobs
  <2>3. QED
    BY <2>2, RowEffects
<1>2. ASSUME NEW p \in Pair, row'[p].status = "absent"
      PROVE  ~row'[p].flag
  <2>1. row[p].status = "absent"
    BY <1>2, RowEffects
  <2>2. ~row[p].flag
    BY <2>1 DEF CancelsFound
  <2>3. QED
    BY <2>1, <2>2, RowEffects
<1>3. QED
  BY <1>1, <1>2 DEF CancelsFound

\* So it always is.
LEMMA FlagAlways == Spec => []CancelsFound
<1>1. Init => CancelsFound
  BY DEF Init, CancelsFound, NoRow, Idle
<1>2. QED
  BY TypeAlways, FlagStep, <1>1, PTL DEF Spec

\* A cancellation survives every concurrent commit: the flag goes only with the
\* row's status becoming canceled, because a commit writes only the columns its
\* request changed (cancel_at_period_end against handle_webhook, block_user,
\* create_subscription and the sweep).
THEOREM CancellationKept == Spec => CancelIsKept
<1>1. TypeInv /\ CancelsFound /\ [Next]_vars =>
        [\A p \in Pair :
            row[p].flag /\ ~row'[p].flag => row'[p].status = "canceled"]_vars
  BY RowEffects
<1>2. QED
  BY TypeAlways, FlagAlways, <1>1, PTL DEF Spec, CancelIsKept

----------------------------------------------------------------------------
(* Whose money is whose.                                                   *)

OwnInv == RowsOwned /\ EventsOwned /\ JobsOwned /\ BooksSent /\ BooksOwned

Opened(c) == checkout[c].state # "unopened"

\* A checkout keeps the gateway it was opened at.
LEMMA CheckoutGateways ==
    ASSUME TypeInv, [Next]_vars, NEW c \in Checkout, Opened(c)
    PROVE  checkout'[c].gateway = checkout[c].gateway
<1> USE DEF db, gateways, delivery
<1>a. checkout \in [Checkout -> CheckoutRecord]
  BY DEF TypeInv, TypeOK
<1>1. CASE UNCHANGED checkout
  BY <1>1
<1>2. ASSUME NEW w \in Worker, NEW d \in Checkout, SubscribeCommit(w, d)
      PROVE  checkout'[c].gateway = checkout[c].gateway
  BY <1>a, <1>2 DEF SubscribeCommit, Opened
<1>3. ASSUME NEW w \in Worker, CancelTell(w)
      PROVE  checkout'[c].gateway = checkout[c].gateway
  BY <1>a, <1>3 DEF CancelTell, CheckoutRecord
<1>4. ASSUME NEW d \in Checkout, NEW e \in EventId,
             Charge(d, e) \/ Decline(d, e) \/ Announce(d, e) \/ End(d, e)
      PROVE  checkout'[c].gateway = checkout[c].gateway
  BY <1>a, <1>4 DEF Charge, Decline, Announce, End, CheckoutRecord
<1>5. \/ UNCHANGED checkout
      \/ \E w \in Worker, d \in Checkout : SubscribeCommit(w, d)
      \/ \E w \in Worker : CancelTell(w)
      \/ GatewayStep
  BY StepEffects DEF GatewayStep
<1>6. QED
  BY <1>1, <1>2, <1>3, <1>4, <1>5 DEF GatewayStep

\* Checkouts keep their pair, events are not rewritten.
LEMMA History ==
    ASSUME TypeInv, [Next]_vars
    PROVE  /\ \A c \in Checkout, p \in Pair : Owns(c, p) => Owns(c, p)'
           /\ \A e \in EventId : sent[e] # None => sent'[e] = sent[e]
<1> USE DEF db, gateways, delivery
<1>a. /\ checkout \in [Checkout -> CheckoutRecord]
      /\ sent \in [EventId -> Event \cup {None}]
      /\ \A w \in Worker : job[w] \in Job
  BY DEF TypeInv, TypeOK
<1>1. CASE UNCHANGED gateways
  BY <1>1 DEF Owns
<1>2. ASSUME NEW w \in Worker, NEW c \in Checkout, SubscribeCommit(w, c)
      PROVE  /\ UNCHANGED sent
             /\ \A d \in Checkout, p \in Pair : Owns(d, p) => Owns(d, p)'
  BY <1>a, <1>2 DEF SubscribeCommit, Owns
<1>3. ASSUME NEW w \in Worker, CancelTell(w)
      PROVE  /\ UNCHANGED sent
             /\ \A d \in Checkout, p \in Pair : Owns(d, p) => Owns(d, p)'
  BY <1>a, <1>3 DEF CancelTell, Owns, CheckoutRecord
<1>4. ASSUME NEW c \in Checkout, NEW e \in EventId,
             Charge(c, e) \/ Decline(c, e) \/ Announce(c, e) \/ End(c, e)
      PROVE  /\ \A d \in Checkout, p \in Pair : Owns(d, p) => Owns(d, p)'
             /\ \A f \in EventId : sent[f] # None => sent'[f] = sent[f]
  <2>1. \E ev : sent[e] = None /\ sent' = [sent EXCEPT ![e] = ev]
    BY <1>4 DEF Charge, Decline, Announce, End, Send
  <2>2. \A d \in Checkout, p \in Pair : Owns(d, p) => Owns(d, p)'
    BY <1>a, <1>4 DEF Charge, Decline, Announce, End, Owns, CheckoutRecord
  <2>3. QED
    BY <1>a, <2>1, <2>2
<1>5. \/ UNCHANGED gateways
      \/ \E w \in Worker, c \in Checkout : SubscribeCommit(w, c)
      \/ \E w \in Worker : CancelTell(w)
      \/ GatewayStep
  BY StepEffects DEF gateways, GatewayStep
<1>6. QED
  BY <1>1, <1>2, <1>3, <1>4, <1>5 DEF GatewayStep

\* Whatever an event finds is the row of a pair it may count for: of the one
\* charged, where a row stores its reference or its session.
LEMMA MatchOwned ==
    ASSUME TypeInv, OwnInv, NEW e \in EventId, sent[e] # None,
           NEW p \in Match(sent[e])
    PROVE  /\ p \in Pair /\ Creditable(sent[e], p)
           /\ p # sent[e].charged => Unstored(e)
<1> DEFINE ev == sent[e]
<1>a. ev \in Event /\ ev.ref \in Ref /\ ev.session \in Ref \cup {None}
  BY DEF TypeInv, TypeOK, Event
<1>b. /\ Owns(ev.ref[2], ev.charged)
      /\ ev.session # None => ev.session[2] = ev.ref[2]
      /\ ev.creator \in {None, ev.charged[2]}
      /\ ev.recurring => ev.gateway = "wompi"
  BY DEF OwnInv, EventsOwned
<1>1. ASSUME NEW ref \in Ref, ref[2] = ev.ref[2], NEW q \in ByRef(ev, ref)
      PROVE  q \in Pair /\ q = ev.charged
  <2>1. q \in Pair /\ row[q].ref = ref
    BY <1>1 DEF ByRef
  <2>2. Owns(ref[2], q)
    BY <2>1, NoneNotUser DEF OwnInv, RowsOwned
  <2>3. QED
    BY <1>1, <1>b, <2>1, <2>2 DEF Owns
<1>2. ASSUME NEW q \in ByPayer(ev)
      PROVE  q \in Pair /\ Creditable(ev, q)
  <2>1. q \in Pair /\ ev.payer = q[1] /\ ev.creator \in {None, q[2]} /\ ev.recurring
    BY <1>2 DEF ByPayer
  <2>2. QED
    BY <1>b, <2>1 DEF Creditable
<1>3. \/ p \in ByRef(ev, ev.ref)
      \/ ev.session # None /\ p \in ByRef(ev, ev.session)
      \/ p \in ByPayer(ev) /\ ByRef(ev, ev.ref) = {}
  BY DEF Match
<1>4. \A q : q = ev.charged => Creditable(ev, q)
  BY DEF Creditable
<1>5. QED
  BY <1>1, <1>2, <1>3, <1>4, <1>a, <1>b DEF Unstored

\* What a gateway sends is about the checkout and the pair it was asked for.
LEMMA SentOwned ==
    ASSUME TypeInv, NEW c \in Checkout, NEW e \in EventId,
           Charge(c, e) \/ Decline(c, e) \/ Announce(c, e) \/ End(c, e)
    PROVE  \E ev \in Event :
              /\ sent[e] = None
              /\ sent' = [sent EXCEPT ![e] = ev]
              /\ ev.ref[2] = c
              /\ ev.charged = checkout[c].pair
              /\ ev.session \in {None, <<"session", c>>}
              /\ ev.session # None => /\ ev.type = "created" /\ ev.status = "active"
                                      /\ ev.ref[1] = "resource"
                                      /\ ev.gateway = "stripe"
              /\ ev.gateway = checkout[c].gateway
              /\ ev.creator \in {None, checkout[c].pair[2]}
              /\ ev.recurring => ev.gateway = "wompi"
<1> DEFINE g == checkout[c].gateway
           p == checkout[c].pair
           About(ev) == /\ ev.ref[2] = c
                        /\ ev.charged = p
                        /\ ev.session \in {None, <<"session", c>>}
                        /\ ev.session # None => /\ ev.type = "created" /\ ev.status = "active"
                                                /\ ev.ref[1] = "resource"
                                                /\ ev.gateway = "stripe"
                        /\ ev.gateway = g
                        /\ ev.creator \in {None, p[2]}
                        /\ ev.recurring => ev.gateway = "wompi"
           Payable(ev) == About(ev) /\ ev.session = None
<1>a. checkout[c] \in CheckoutRecord /\ now \in Nat
  BY DEF TypeInv, TypeOK
<1>b. g \in GatewayName /\ p \in Pair /\ checkout[c].opened \in Nat
  BY <1>a DEF Charge, Decline, Announce, End, TypeInv, OpenedForPairs,
              CheckoutRecord
<1>1. \A type \in EventType : Payable(Notice(g, c, p, type))
  BY DEF Notice
<1>2. {"created", "updated", "canceled", "succeeded", "failed"} = EventType
  BY DEF EventType
<1>3. Payable(ChargeNotice(g, c, p, now)) /\ Payable(DeclineNotice(g, c, p, now))
  <2>1. Notice(g, c, p, "succeeded") \in Event /\ Notice(g, c, p, "failed") \in Event
    BY <1>b, <1>2, NoticeType
  <2>2. Payable(Notice(g, c, p, "succeeded")) /\ Payable(Notice(g, c, p, "failed"))
    BY <1>b, <1>1, <1>2
  <2>3. Payable(ChargeNotice(g, c, p, now))
    BY <2>1, <2>2 DEF ChargeNotice, Event
  <2>4. Payable(DeclineNotice(g, c, p, now))
    BY <2>1, <2>2 DEF DeclineNotice, Event
  <2>5. QED
    BY <2>3, <2>4
<1>4. About(EndNotice(g, c, p))
  BY <1>b, <1>1, <1>2, NoticeType DEF EndNotice, Event
<1>5. g = "stripe" => About(CompletedNotice(c, p))
  <2>1. PICK n : n = Notice("stripe", c, p, "created")
    OBVIOUS
  <2>2. /\ n \in Event /\ n.type = "created" /\ n.ref = <<"resource", c>>
        /\ n.charged = p /\ n.gateway = "stripe"
        /\ n.creator = None /\ ~n.recurring
    BY <1>b, <1>2, <2>1, NoticeType DEF Notice, GatewayName
  <2>3. CompletedNotice(c, p) = [n EXCEPT !.session = <<"session", c>>, !.status = "active"]
    BY <2>1 DEF CompletedNotice
  <2> QED
    BY <2>2, <2>3 DEF Event
<1>6. \A s : About(LifecycleNotice(g, c, p, s, checkout[c].opened))
  BY <1>b, <1>1, <1>2, NoticeType DEF LifecycleNotice, Event
<1>7. ASSUME NEW n \in Event, Payable(n), NEW ev \in AsPaid(n, c)
      PROVE  ev \in Event /\ About(ev)
  BY <1>7, AsPaidType
<1>8. /\ ChargeNotice(g, c, p, now) \in Event /\ DeclineNotice(g, c, p, now) \in Event
      /\ CompletedNotice(c, p) \in Event /\ EndNotice(g, c, p) \in Event
      /\ \A s \in AnnouncedStatus(g) : LifecycleNotice(g, c, p, s, checkout[c].opened) \in Event
  BY <1>a, <1>b, SentType
<1> HIDE DEF About, Payable
<1>9. PICK ev \in Event : About(ev) /\ Send(e, ev)
  <2>1. CASE Charge(c, e)
    BY <1>3, <1>7, <1>8, <2>1 DEF Charge
  <2>2. CASE Decline(c, e)
    BY <1>3, <1>7, <1>8, <2>2 DEF Decline
  <2>3. CASE Announce(c, e)
    BY <1>5, <1>6, <1>8, <2>3 DEF Announce
  <2>4. CASE End(c, e)
    BY <1>4, <1>8, <2>4 DEF End
  <2>5. QED
    BY <2>1, <2>2, <2>3, <2>4
<1>10. QED
  BY <1>9 DEF Send, About

\* Where a row's reference comes from.
LEMMA RefEffects ==
    ASSUME TypeInv, [Next]_vars, NEW p \in Pair
    PROVE  \/ row'[p].ref \in {row[p].ref, None}
           \/ \E w \in Worker, c \in Checkout :
                 /\ SubscribeCommit(w, c)
                 /\ job[w].pair = p
                 /\ row'[p].ref = OpenedRef(job[w].gateway, c)
           \/ \E w \in Worker :
                 /\ ReconcileCommit(w)
                 /\ job[w].pair = p
                 /\ row'[p].ref = sent[job[w].event].ref
                 /\ sent[job[w].event].session # None
<1> DEFINE Kept == row'[p].ref \in {row[p].ref, None}
<1> USE DEF db, gateways, delivery
<1>a. row \in [Pair -> Row] /\ now \in Nat /\ \A w \in Worker : job[w] \in Job
  BY DEF TypeInv, TypeOK
<1>1. CASE UNCHANGED row
  BY <1>1
<1>2. ASSUME NEW w \in Worker, NEW c \in Checkout, SubscribeCommit(w, c)
      PROVE  Kept \/ (job[w].pair = p /\ row'[p].ref = OpenedRef(job[w].gateway, c))
  <2> DEFINE read == job[w].read
             g == job[w].gateway
             new == PendingRow(read, g, c)
  <2>1. read \in Row /\ job[w].pair \in Pair
    BY <1>a, <1>2, JobFields DEF SubscribeCommit
  <2>3. new.ref = OpenedRef(g, c)
    BY <2>1 DEF PendingRow, Row
  <2>4. CASE job[w].pair # p
    BY <1>a, <1>2, <2>1, <2>4 DEF SubscribeCommit
  <2>5. CASE job[w].pair = p /\ row' = [row EXCEPT ![p] = Flush(@, read, new)]
    BY <1>a, <2>3, <2>5 DEF Flush, Column
  <2>6. CASE /\ job[w].pair = p
             /\ row' = [row EXCEPT ![p] = [PendingRow(NoRow, g, c) EXCEPT !.id = NewId]]
    BY <1>a, <2>6 DEF PendingRow, NoRow
  <2>7. QED
    BY <1>2, <2>4, <2>5, <2>6 DEF SubscribeCommit
<1>3. ASSUME NEW w \in Worker, ReconcileCommit(w)
      PROVE  Kept \/ (/\ job[w].pair = p
                      /\ row'[p].ref = sent[job[w].event].ref
                      /\ sent[job[w].event].session # None)
  <2> DEFINE read == job[w].read
             ev == sent[job[w].event]
             new == Reconcile(ev, read, now)
  <2>1. job[w].pair \in Pair /\ read \in Row
    BY <1>a, <1>3, JobFields DEF ReconcileCommit
  <2>2. new.ref = read.ref \/ (new.ref = ev.ref /\ ev.session # None)
    BY <2>1 DEF Reconcile, Row
  <2>3. row' = [row EXCEPT ![job[w].pair] = Flush(@, read, new)]
    BY <1>3 DEF ReconcileCommit
  <2>4. CASE job[w].pair # p
    BY <1>a, <2>1, <2>3, <2>4
  <2>5. CASE job[w].pair = p
    BY <1>a, <2>2, <2>3, <2>5 DEF Flush, Column
  <2>6. QED
    BY <2>4, <2>5
<1>4. ASSUME NEW w \in Worker, CancelCommit(w)
      PROVE  Kept
  <2> DEFINE read == job[w].read
             new == [read EXCEPT !.flag = TRUE]
  <2>1. job[w].pair \in Pair /\ read \in Row
    BY <1>a, <1>4, JobFields DEF CancelCommit
  <2>2. new.ref = read.ref
    BY <2>1 DEF Row
  <2>3. row' = [row EXCEPT ![job[w].pair] = Flush(@, read, new)]
    BY <1>4 DEF CancelCommit
  <2>4. QED
    BY <1>a, <2>1, <2>2, <2>3 DEF Flush, Column
<1>5. ASSUME NEW w \in Worker, BlockCommit(w)
      PROVE  Kept
  <2> DEFINE read == job[w].read
             new == BlockedRow(read)
  <2>1. job[w].pair \in Pair /\ read \in Row
    BY <1>a, <1>5, JobFields DEF BlockCommit
  <2>2. new.ref \in {read.ref, None}
    BY <2>1 DEF BlockedRow, Row
  <2>3. row' = [row EXCEPT ![job[w].pair] = Flush(@, read, new)]
    BY <1>5 DEF BlockCommit
  <2>4. QED
    BY <1>a, <2>1, <2>2, <2>3 DEF Flush, Column
<1>6. ASSUME NEW w \in Worker, SweepCommit(w)
      PROVE  Kept
  <2>1. row'[p] = [row[p] EXCEPT !.status = "canceled", !.flag = FALSE]
        \/ row'[p] = row[p]
    BY <1>6 DEF SweepCommit
  <2>2. QED
    BY <1>a, <2>1 DEF Row
<1>7. \/ UNCHANGED row
      \/ \E w \in Worker, c \in Checkout : SubscribeCommit(w, c)
      \/ \E w \in Worker : \/ ReconcileCommit(w) \/ CancelCommit(w)
                           \/ BlockCommit(w) \/ SweepCommit(w)
  BY RowWriters
<1>8. QED
  BY <1>1, <1>2, <1>3, <1>4, <1>5, <1>6, <1>7

\* A reconciler has just looked its row up, or was one before the step.
LEMMA ReconcileJobs ==
    ASSUME TypeInv, [Next]_vars, NEW w \in Worker, job'[w].op = "reconcile"
    PROVE  \/ job'[w] = job[w]
           \/ /\ job'[w].event \in EventId
              /\ sent[job'[w].event] # None
              /\ job'[w].pair \in Match(sent[job'[w].event])
<1> DEFINE Found(v) ==
      job'[v].op = "reconcile" =>
        \/ job'[v] = job[v]
        \/ /\ job'[v].event \in EventId
           /\ sent[job'[v].event] # None
           /\ job'[v].pair \in Match(sent[job'[v].event])
<1> SUFFICES \A v \in Worker : Found(v)
  OBVIOUS
<1>a. job \in [Worker -> Job]
  BY DEF TypeInv, TypeOK
<1>1. CASE UNCHANGED job
  BY <1>1
<1>2. ASSUME NEW v \in Worker, NEW j, job' = [job EXCEPT ![v] = j],
             j.op # "reconcile"
      PROVE  \A u \in Worker : Found(u)
  BY <1>a, <1>2
<1>3. ASSUME NEW v \in Worker, NEW e \in EventId, DeliverMatched(v, e)
      PROVE  \A u \in Worker : Found(u)
  BY <1>a, <1>3 DEF DeliverMatched, Start
<1>4. ASSUME NEW v \in Worker, CancelTell(v)
      PROVE  \A u \in Worker : Found(u)
  <2>1. job[v] \in [op : {"cancel", "told", "block", "reblock"}, pair : Pair, read : Row]
    BY <1>a, <1>4 DEF CancelTell, Job
  <2>2. QED
    BY <1>a, <1>4, <2>1 DEF CancelTell, Continue
<1>5. ASSUME NEW v \in Worker,
             \/ \E p \in Pair, g \in Gateway : SubscribeAdmit(v, p, g)
             \/ \E p \in Pair : BlockRead(v, p) \/ CancelRead(v, p)
             \/ SubscribeRead(v) \/ SweepRead(v) \/ ReconcileCommit(v)
      PROVE  \E j : job' = [job EXCEPT ![v] = j] /\ j.op # "reconcile"
  BY <1>5 DEF SubscribeAdmit, BlockRead, CancelRead, SubscribeRead, SweepRead,
              ReconcileCommit, Start, Continue, Finish, Idle
<1>6. ASSUME NEW v \in Worker,
             \/ \E c \in Checkout : SubscribeCommit(v, c)
             \/ SubscribeExisting(v) \/ SubscribeConflict(v) \/ ReconcileLost(v)
             \/ NotifyFailure(v) \/ CancelRejected(v) \/ CancelCommit(v)
             \/ BlockCommit(v) \/ SweepCommit(v) \/ Abort(v)
      PROVE  job' = [job EXCEPT ![v] = Idle]
  BY <1>6 DEF SubscribeCommit, SubscribeExisting, SubscribeConflict, ReconcileLost,
              NotifyFailure, CancelRejected, CancelCommit, BlockCommit, SweepCommit,
              Abort, Finish
<1>7. Idle.op # "reconcile"
  BY DEF Idle
<1>8. CASE GatewayStep \/ Tick \/ (\E p \in Pair : Unblock(p))
           \/ (\E e \in EventId : DeliverDuplicate(e) \/ DeliverUnmatched(e))
           \/ UNCHANGED vars
  BY <1>1, <1>8 DEF GatewayStep, Charge, Decline, Announce, End, Tick, Unblock,
                    DeliverDuplicate, DeliverUnmatched, vars
<1>9. QED
  BY <1>2, <1>3, <1>4, <1>5, <1>6, <1>7, <1>8 DEF Next, Request, Commit, Deliver

\* A row's new reference is of the checkout just opened for the pair, or of the
\* event that found it.
LEMMA RowsOwnedStep ==
    ASSUME TypeInv, OwnInv, [Next]_vars
    PROVE  RowsOwned'
<1> SUFFICES ASSUME NEW p \in Pair, row'[p].ref # None
             PROVE  Owns(row[p].ref[2], p)'
  BY DEF RowsOwned
<1>a. row \in [Pair -> Row] /\ \A w \in Worker : job[w] \in Job
  BY DEF TypeInv, TypeOK
<1>1. CASE row'[p].ref \in {row[p].ref, None}
  <2>1. row'[p].ref = row[p].ref /\ row[p].ref \in Ref
    BY <1>a, <1>1 DEF Row
  <2>2. PICK c \in Checkout : row[p].ref[2] = c
    BY <2>1 DEF Ref
  <2>3. Owns(c, p)
    BY <2>1, <2>2 DEF OwnInv, RowsOwned
  <2>4. Owns(c, p)'
    BY <2>3, History
  <2>5. QED
    BY <2>1, <2>2, <2>4 DEF Owns
<1>2. ASSUME NEW w \in Worker, NEW c \in Checkout, SubscribeCommit(w, c),
             job[w].pair = p, row'[p].ref = OpenedRef(job[w].gateway, c)
      PROVE  Owns(row[p].ref[2], p)'
  <2>1. row'[p].ref[2] = c
    BY <1>2 DEF OpenedRef
  <2>2. QED
    BY <1>2, <2>1 DEF SubscribeCommit, Owns, TypeInv, TypeOK
<1>3. ASSUME NEW w \in Worker, ReconcileCommit(w), job[w].pair = p,
             row'[p].ref = sent[job[w].event].ref,
             sent[job[w].event].session # None
      PROVE  Owns(row[p].ref[2], p)'
  <2> DEFINE ev == sent[job[w].event]
  <2>1. job[w].event \in EventId /\ ev # None
    BY <1>a, <1>3, JobFields DEF ReconcileCommit, TypeInv, JobsGrounded
  <2>2. PICK c \in Checkout : ev.ref[2] = c
    BY <2>1 DEF TypeInv, TypeOK, Event, Ref
  <2>3. Creditable(ev, p) /\ Owns(c, ev.charged) /\ ev.gateway = "stripe"
    BY <1>3, <2>1, <2>2 DEF ReconcileCommit, OwnInv, EventsOwned, JobsOwned
  <2>4. p = ev.charged
    BY <2>3 DEF Creditable
  <2>5. Owns(c, p)'
    BY <2>3, <2>4, History
  <2>6. QED
    BY <1>3, <2>2, <2>5 DEF Owns
<1>4. QED
  BY <1>1, <1>2, <1>3, RefEffects

\* An event that was sent stays as it is, and its checkout its pair's; one just
\* sent is about the checkout it was sent for.
LEMMA EventsOwnedStep ==
    ASSUME TypeInv, OwnInv, [Next]_vars
    PROVE  EventsOwned'
<1> DEFINE Owned(ev) ==
      /\ Owns(ev.ref[2], ev.charged)
      /\ checkout[ev.ref[2]].gateway = ev.gateway
      /\ ev.session # None => /\ ev.session[2] = ev.ref[2]
                              /\ ev.type = "created" /\ ev.status = "active"
                              /\ ev.gateway = "stripe"
      /\ ev.creator \in {None, ev.charged[2]}
      /\ ev.recurring => ev.gateway = "wompi"
<1>a. sent \in [EventId -> Event \cup {None}]
  BY DEF TypeInv, TypeOK
<1>1. ASSUME NEW e \in EventId, sent[e] # None
      PROVE  Owned(sent[e])'
  <2>1. sent'[e] = sent[e]
    BY <1>1, History
  <2>2. sent[e].ref[2] \in Checkout /\ sent[e].charged \in Pair
    BY <1>a, <1>1 DEF Event, Ref
  <2>3. Owned(sent[e])
    BY <1>1 DEF OwnInv, EventsOwned
  <2>4. Owns(sent[e].ref[2], sent[e].charged)'
    BY <2>1, <2>2, <2>3, History DEF Owns
  <2>5. checkout'[sent[e].ref[2]].gateway = sent[e].gateway
    BY <2>2, <2>3, CheckoutGateways DEF Owns, Opened
  <2>6. QED
    BY <2>1, <2>3, <2>4, <2>5
<1>2. ASSUME NEW e \in EventId, sent[e] = None, sent'[e] # None
      PROVE  Owned(sent[e])'
  <2>1. PICK c \in Checkout, f \in EventId :
           Charge(c, f) \/ Decline(c, f) \/ Announce(c, f) \/ End(c, f)
    BY <1>2, StepEffects
  <2>2. PICK ev \in Event :
           /\ sent' = [sent EXCEPT ![f] = ev]
           /\ ev.ref[2] = c
           /\ ev.charged = checkout[c].pair
           /\ ev.session \in {None, <<"session", c>>}
           /\ ev.session # None => /\ ev.type = "created" /\ ev.status = "active"
                                   /\ ev.gateway = "stripe"
           /\ ev.gateway = checkout[c].gateway
           /\ ev.creator \in {None, checkout[c].pair[2]}
           /\ ev.recurring => ev.gateway = "wompi"
    BY <2>1, SentOwned
  <2>3. sent'[e] = ev
    BY <1>2, <1>a, <2>2
  <2>4. checkout[c].pair \in Pair /\ checkout[c].state # "unopened"
    BY <2>1 DEF Charge, Decline, Announce, End, TypeInv, OpenedForPairs
  <2>6. Owns(c, checkout[c].pair)
    BY <2>4 DEF Owns
  <2>7. Owns(c, checkout[c].pair) => \A p \in Pair : Owns(c, p) => Owns(c, p)'
    BY History
  <2>8. Owns(sent[e].ref[2], sent[e].charged)'
    BY <2>2, <2>3, <2>4, <2>6, <2>7 DEF Owns
  <2>9. checkout'[c].gateway = ev.gateway
    BY <2>2, <2>4, CheckoutGateways DEF Opened
  <2>10. QED
    BY <2>2, <2>3, <2>8, <2>9
<1>3. QED
  BY <1>1, <1>2 DEF EventsOwned

\* A reconciler that started earlier keeps the row it found, one that starts
\* finds the right one.
LEMMA JobsOwnedStep ==
    ASSUME TypeInv, OwnInv, [Next]_vars
    PROVE  JobsOwned'
<1> SUFFICES ASSUME NEW w \in Worker, job'[w].op = "reconcile"
             PROVE  Creditable(sent'[job'[w].event], job'[w].pair)
  BY DEF JobsOwned
<1>1. CASE job'[w] = job[w]
  <2>1. job[w].event \in EventId /\ sent[job[w].event] # None
    BY <1>1, JobFields DEF TypeInv, TypeOK, JobsGrounded
  <2>2. Creditable(sent[job[w].event], job[w].pair)
    BY <1>1 DEF OwnInv, JobsOwned
  <2>3. QED
    BY <1>1, <2>1, <2>2, History
<1>2. CASE /\ job'[w].event \in EventId
           /\ sent[job'[w].event] # None
           /\ job'[w].pair \in Match(sent[job'[w].event])
  BY <1>2, MatchOwned, History
<1>3. QED
  BY <1>1, <1>2, ReconcileJobs

\* Only a reconciler books, for the pair it found.
LEMMA BooksStep ==
    ASSUME TypeInv, OwnInv, [Next]_vars
    PROVE  BooksSent' /\ BooksOwned'
<1> SUFFICES ASSUME NEW e \in EventId, NEW p \in Pair, booked'[<<e, p>>] > 0
             PROVE  sent'[e] # None /\ Creditable(sent'[e], p)
  BY DEF BooksSent, BooksOwned
<1> USE DEF db, gateways, delivery
<1>a. booked \in [EventId \X Pair -> Nat] /\ \A w \in Worker : job[w] \in Job
  BY DEF TypeInv, TypeOK
<1>1. CASE booked'[<<e, p>>] = booked[<<e, p>>]
  <2>1. sent[e] # None /\ Creditable(sent[e], p)
    BY <1>1 DEF OwnInv, BooksSent, BooksOwned
  <2>2. QED
    BY <2>1, History
<1>2. ASSUME NEW w \in Worker, ReconcileCommit(w),
             booked'[<<e, p>>] # booked[<<e, p>>]
      PROVE  sent'[e] # None /\ Creditable(sent'[e], p)
  <2>1. job[w].event = e /\ job[w].pair = p
    BY <1>a, <1>2, JobFields DEF ReconcileCommit
  <2>2. sent[e] # None /\ Creditable(sent[e], p)
    BY <1>2, <2>1 DEF ReconcileCommit, TypeInv, JobsGrounded, OwnInv, JobsOwned
  <2>3. QED
    BY <2>2, History
<1>3. UNCHANGED booked \/ \E w \in Worker : ReconcileCommit(w)
  BY StepEffects
<1>4. QED
  BY <1>1, <1>2, <1>3

\* The inductive invariant about references, events and bookings.
LEMMA OwnAlways == Spec => []OwnInv
<1>1. Init => OwnInv
  BY DEF Init, OwnInv, RowsOwned, EventsOwned, JobsOwned, BooksSent, BooksOwned,
         NoRow, Idle
<1>2. TypeInv /\ OwnInv /\ [Next]_vars => OwnInv'
  BY RowsOwnedStep, EventsOwnedStep, JobsOwnedStep, BooksStep DEF OwnInv
<1>3. QED
  BY TypeAlways, <1>1, <1>2, PTL DEF Spec

----------------------------------------------------------------------------
(* Whose access is earned.                                                 *)

\* An event of p's has said that p is a follower.
Earned(p) ==
    \E e \in processed :
        /\ Creditable(sent[e], p)
        /\ sent[e].type = "succeeded" \/ sent[e].status \in Follower

FollowersEarned == \A p \in Pair : row[p].status \in Follower => Earned(p)
MarkedSent == \A e \in processed : sent[e] # None

\* A row becomes a follower's only by a commit of what an event said.
LEMMA StatusEffects ==
    ASSUME TypeInv, [Next]_vars, NEW p \in Pair, row'[p].status \in Follower
    PROVE  \/ row[p].status \in Follower
           \/ \E w \in Worker :
                 /\ ReconcileCommit(w)
                 /\ job[w].pair = p
                 /\ StatusFromEvent(sent[job[w].event], job[w].read.status) \in Follower
<1> DEFINE Kept == row[p].status \in Follower
<1> USE DEF db, gateways, delivery
<1>a. row \in [Pair -> Row] /\ now \in Nat /\ \A w \in Worker : job[w] \in Job
  BY DEF TypeInv, TypeOK
<1>1. CASE UNCHANGED row
  BY <1>1
<1>2. ASSUME NEW w \in Worker, NEW c \in Checkout, SubscribeCommit(w, c)
      PROVE  Kept
  <2> DEFINE read == job[w].read
             g == job[w].gateway
             new == PendingRow(read, g, c)
  <2>1. read \in Row /\ job[w].pair \in Pair
    BY <1>a, <1>2, JobFields DEF SubscribeCommit
  <2>2. new.status = "incomplete"
    BY <2>1 DEF PendingRow, Row
  <2>3. CASE job[w].pair # p
    BY <1>a, <1>2, <2>1, <2>3 DEF SubscribeCommit
  <2>4. CASE job[w].pair = p /\ row' = [row EXCEPT ![p] = Flush(@, read, new)]
    BY <1>a, <2>2, <2>4 DEF Flush, Column, Follower
  <2>5. CASE /\ job[w].pair = p
             /\ row' = [row EXCEPT ![p] = [PendingRow(NoRow, g, c) EXCEPT !.id = NewId]]
    <3>1. row'[p].status = "incomplete"
      BY <1>a, <2>5 DEF PendingRow, NoRow
    <3>2. QED
      BY <3>1 DEF Follower
  <2>6. QED
    BY <1>2, <2>3, <2>4, <2>5 DEF SubscribeCommit
<1>3. ASSUME NEW w \in Worker, ReconcileCommit(w)
      PROVE  Kept \/ (/\ job[w].pair = p
                      /\ StatusFromEvent(sent[job[w].event], job[w].read.status)
                            \in Follower)
  <2> DEFINE read == job[w].read
             ev == sent[job[w].event]
             new == Reconcile(ev, read, now)
  <2>1. job[w].pair \in Pair /\ read \in Row
    BY <1>a, <1>3, JobFields DEF ReconcileCommit
  <2>2. new.status = read.status \/ new.status = StatusFromEvent(ev, read.status)
    BY <2>1 DEF Reconcile, NextStatus, Row
  <2>3. row' = [row EXCEPT ![job[w].pair] = Flush(@, read, new)]
    BY <1>3 DEF ReconcileCommit
  <2>4. CASE job[w].pair # p
    BY <1>a, <2>1, <2>3, <2>4
  <2>5. CASE job[w].pair = p
    BY <1>a, <2>2, <2>3, <2>5 DEF Flush, Column
  <2>6. QED
    BY <2>4, <2>5
<1>4. ASSUME NEW w \in Worker, CancelCommit(w)
      PROVE  Kept
  <2> DEFINE read == job[w].read
             new == [read EXCEPT !.flag = TRUE]
  <2>1. job[w].pair \in Pair /\ read \in Row
    BY <1>a, <1>4, JobFields DEF CancelCommit
  <2>2. new.status = read.status
    BY <2>1 DEF Row
  <2>3. row' = [row EXCEPT ![job[w].pair] = Flush(@, read, new)]
    BY <1>4 DEF CancelCommit
  <2>4. QED
    BY <1>a, <2>1, <2>2, <2>3 DEF Flush, Column
<1>5. ASSUME NEW w \in Worker, BlockCommit(w)
      PROVE  Kept
  <2> DEFINE read == job[w].read
             new == BlockedRow(read)
  <2>1. job[w].pair \in Pair /\ read \in Row
    BY <1>a, <1>5, JobFields DEF BlockCommit
  <2>2. new.status \in {read.status, "canceled"}
    BY <2>1 DEF BlockedRow, Row
  <2>3. row' = [row EXCEPT ![job[w].pair] = Flush(@, read, new)]
    BY <1>5 DEF BlockCommit
  <2>4. QED
    BY <1>a, <2>1, <2>2, <2>3 DEF Flush, Column, Follower
<1>6. ASSUME NEW w \in Worker, SweepCommit(w)
      PROVE  Kept
  <2>1. row'[p] = [row[p] EXCEPT !.status = "canceled", !.flag = FALSE]
        \/ row'[p] = row[p]
    BY <1>6 DEF SweepCommit
  <2>2. QED
    BY <1>a, <2>1 DEF Row, Follower
<1>7. \/ UNCHANGED row
      \/ \E w \in Worker, c \in Checkout : SubscribeCommit(w, c)
      \/ \E w \in Worker : \/ ReconcileCommit(w) \/ CancelCommit(w)
                           \/ BlockCommit(w) \/ SweepCommit(w)
  BY RowWriters
<1>8. QED
  BY <1>1, <1>2, <1>3, <1>4, <1>5, <1>6, <1>7

\* What an event said stays said.
LEMMA EarnedStays ==
    ASSUME TypeInv, [Next]_vars, MarkedSent
    PROVE  /\ MarkedSent'
           /\ \A p \in Pair : Earned(p) => Earned(p)'
<1>1. \A e \in processed : e \in processed' /\ e \in EventId /\ sent'[e] = sent[e]
  <2>1. processed \subseteq processed' /\ processed \subseteq EventId
    BY MarksGrow DEF TypeInv, TypeOK
  <2>2. QED
    BY <2>1, History DEF MarkedSent
<1>2. \A e \in processed' : e \in processed \/ sent'[e] # None
  <2> SUFFICES ASSUME NEW e \in processed', e \notin processed
               PROVE  sent'[e] # None
    OBVIOUS
  <2>1. PICK w \in Worker : ReconcileCommit(w) /\ job[w].event = e
    BY MarksGrow
  <2>2. sent[e] # None /\ e \in EventId
    BY <2>1, JobFields DEF ReconcileCommit, TypeInv, TypeOK, JobsGrounded
  <2>3. QED
    BY <2>2, History
<1>3. MarkedSent'
  BY <1>1, <1>2 DEF MarkedSent
<1>4. \A p \in Pair : Earned(p) => Earned(p)'
  BY <1>1 DEF Earned, Creditable
<1>5. QED
  BY <1>3, <1>4

LEMMA EarnedStep ==
    ASSUME TypeInv, OwnInv, FollowersEarned, MarkedSent, [Next]_vars
    PROVE  FollowersEarned'
<1> SUFFICES ASSUME NEW p \in Pair, row'[p].status \in Follower
             PROVE  Earned(p)'
  BY DEF FollowersEarned
<1>1. CASE row[p].status \in Follower
  BY <1>1, EarnedStays DEF FollowersEarned
<1>2. ASSUME NEW w \in Worker, ReconcileCommit(w), job[w].pair = p,
             StatusFromEvent(sent[job[w].event], job[w].read.status) \in Follower
      PROVE  Earned(p)'
  <2> DEFINE e == job[w].event
  <2>1. e \in EventId /\ sent[e] # None /\ Creditable(sent[e], p)
    BY <1>2, JobFields
    DEF ReconcileCommit, TypeInv, TypeOK, JobsGrounded, OwnInv, JobsOwned
  <2>2. e \in processed'
    BY <1>2 DEF ReconcileCommit
  <2>3. sent[e].type = "succeeded" \/ sent[e].status \in Follower
    <3>1. None \notin Follower
      BY StatusAssumption DEF Follower, Status, NonTerminal
    <3>2. QED
      BY <1>2, <3>1 DEF StatusFromEvent, Follower
  <2>4. sent'[e] = sent[e]
    BY <2>1, History
  <2>5. QED
    BY <2>1, <2>2, <2>3, <2>4 DEF Earned, Creditable
<1>3. QED
  BY <1>1, <1>2, StatusEffects

\* Nobody is a follower without an event that said so, whatever the order of
\* checkouts, cancellations, blocks, sweeps and redeliveries.
THEOREM AccessIsEarned == Spec => []AccessEarned
<1>1. Init => FollowersEarned /\ MarkedSent
  BY DEF Init, FollowersEarned, MarkedSent, NoRow, Follower
<1>2. TypeInv /\ OwnInv /\ FollowersEarned /\ MarkedSent /\ [Next]_vars
         => FollowersEarned' /\ MarkedSent'
  BY EarnedStep, EarnedStays
<1>3. FollowersEarned => AccessEarned
  BY DEF FollowersEarned, Earned, AccessEarned, HasAccess, IsActiveFollower
<1>4. QED
  BY TypeAlways, OwnAlways, <1>1, <1>2, <1>3, PTL DEF Spec

----------------------------------------------------------------------------
(* Payment pages.                                                          *)

\* The page and the reference of r are of checkouts that were opened.
PageOpened(r) ==
    /\ r.url # None => Opened(r.url)
    /\ r.ref # None => Opened(r.ref[2])

\* So are those of every row, and of every row a subscribe has read: the
\* checkout it opens is another one.
PagesOpened ==
    /\ \A p \in Pair : PageOpened(row[p])
    /\ \A w \in Worker : job[w].op = "checkout" => PageOpened(job[w].read)

\* What each commit does to the page and the reference of a row.
LEMMA PageEffects ==
    ASSUME TypeInv, OwnInv, PagesOpened, [Next]_vars, NEW p \in Pair
    PROVE  \/ row'[p].ref \in {row[p].ref, None} /\ row'[p].url \in {row[p].url, None}
           \/ \E w \in Worker, c \in Checkout :
                 SubscribeCommit(w, c) /\ row'[p].url = c /\ row'[p].ref[2] = c
           \/ \E w \in Worker :
                 /\ ReconcileCommit(w) /\ job[w].pair = p
                 /\ sent[job[w].event].session # None
                 /\ row'[p].ref = sent[job[w].event].ref
                 /\ \/ row'[p].url = None
                    \/ row'[p].url = row[p].url /\ job[w].read.url = None
<1> DEFINE Kept == /\ row'[p].ref \in {row[p].ref, None}
                   /\ row'[p].url \in {row[p].url, None}
<1> USE DEF db, gateways, delivery
<1>a. row \in [Pair -> Row] /\ now \in Nat /\ \A w \in Worker : job[w] \in Job
  BY DEF TypeInv, TypeOK
<1>1. CASE UNCHANGED row
  BY <1>1
<1>2. ASSUME NEW w \in Worker, NEW c \in Checkout, SubscribeCommit(w, c)
      PROVE  Kept \/ (row'[p].url = c /\ row'[p].ref[2] = c)
  <2> DEFINE read == job[w].read
             g == job[w].gateway
             new == PendingRow(read, g, c)
  <2>1. read \in Row /\ job[w].pair \in Pair /\ PageOpened(read)
    BY <1>a, <1>2, JobFields DEF SubscribeCommit, PagesOpened
  <2>2. OpenedRef(g, c)[2] = c /\ OpenedRef(g, c) \in Ref /\ c # None
    BY NoneNotUser DEF OpenedRef, Ref
  <2>3. new.ref = OpenedRef(g, c) /\ new.url = c
    BY <2>1 DEF PendingRow, Row
  <2>4. read.ref # new.ref /\ read.url # new.url
    BY <1>2, <2>1, <2>2, <2>3, NoneNotUser DEF SubscribeCommit, PageOpened, Opened
  <2>5. CASE job[w].pair # p
    BY <1>a, <1>2, <2>1, <2>5 DEF SubscribeCommit
  <2>6. CASE job[w].pair = p /\ row' = [row EXCEPT ![p] = Flush(@, read, new)]
    BY <1>a, <2>2, <2>3, <2>4, <2>6 DEF Flush, Column
  <2>7. CASE /\ job[w].pair = p
             /\ row' = [row EXCEPT ![p] = [PendingRow(NoRow, g, c) EXCEPT !.id = NewId]]
    BY <1>a, <2>2, <2>7 DEF PendingRow, NoRow
  <2>8. QED
    BY <1>2, <2>5, <2>6, <2>7 DEF SubscribeCommit
<1>3. ASSUME NEW w \in Worker, ReconcileCommit(w)
      PROVE  \/ Kept
             \/ /\ job[w].pair = p
                /\ sent[job[w].event].session # None
                /\ row'[p].ref = sent[job[w].event].ref
                /\ \/ row'[p].url = None
                   \/ row'[p].url = row[p].url /\ job[w].read.url = None
  <2> DEFINE read == job[w].read
             ev == sent[job[w].event]
             new == Reconcile(ev, read, now)
  <2>1. job[w].pair \in Pair /\ read \in Row /\ job[w].event \in EventId
    BY <1>a, <1>3, JobFields DEF ReconcileCommit
  <2>2. ev # None
    BY <1>3, <2>1 DEF ReconcileCommit, TypeInv, JobsGrounded
  <2>3. new.url \in {read.url, None}
    BY <2>1 DEF Reconcile, Row
  <2>4. \/ new.ref = read.ref
        \/ new.ref = ev.ref /\ ev.session # None /\ new.url = None
    <3>1. new.ref = read.ref \/ (new.ref = ev.ref /\ ev.session # None)
      BY <2>1 DEF Reconcile, Row
    <3>2. ev.session # None => ev.type = "created" /\ ev.status = "active"
      BY <2>1, <2>2 DEF OwnInv, EventsOwned
    <3>3. ev.session # None => StatusFromEvent(ev, read.status) = "active"
      BY <3>2 DEF StatusFromEvent
    <3>4. ev.session # None => new.url = None
      BY <2>1, <3>3 DEF Reconcile, Row
    <3>5. QED
      BY <3>1, <3>4
  <2>5. row' = [row EXCEPT ![job[w].pair] = Flush(@, read, new)]
    BY <1>3 DEF ReconcileCommit
  <2>6. CASE job[w].pair # p
    BY <1>a, <2>1, <2>5, <2>6
  <2>7. CASE job[w].pair = p
    <3>1. /\ row'[p].ref = Column(row[p].ref, read.ref, new.ref)
          /\ row'[p].url = Column(row[p].url, read.url, new.url)
      BY <1>a, <2>5, <2>7 DEF Flush
    <3>2. QED
      BY <2>3, <2>4, <2>7, <3>1 DEF Column
  <2>8. QED
    BY <2>6, <2>7
<1>4. ASSUME NEW w \in Worker, CancelCommit(w)
      PROVE  Kept
  <2> DEFINE read == job[w].read
             new == [read EXCEPT !.flag = TRUE]
  <2>1. job[w].pair \in Pair /\ read \in Row
    BY <1>a, <1>4, JobFields DEF CancelCommit
  <2>2. new.ref = read.ref /\ new.url = read.url
    BY <2>1 DEF Row
  <2>3. row' = [row EXCEPT ![job[w].pair] = Flush(@, read, new)]
    BY <1>4 DEF CancelCommit
  <2>4. QED
    BY <1>a, <2>1, <2>2, <2>3 DEF Flush, Column
<1>5. ASSUME NEW w \in Worker, BlockCommit(w)
      PROVE  Kept
  <2> DEFINE read == job[w].read
             new == BlockedRow(read)
  <2>1. job[w].pair \in Pair /\ read \in Row
    BY <1>a, <1>5, JobFields DEF BlockCommit
  <2>2. new.ref \in {read.ref, None} /\ new.url \in {read.url, None}
    BY <2>1 DEF BlockedRow, Row
  <2>3. row' = [row EXCEPT ![job[w].pair] = Flush(@, read, new)]
    BY <1>5 DEF BlockCommit
  <2>4. QED
    BY <1>a, <2>1, <2>2, <2>3 DEF Flush, Column
<1>6. ASSUME NEW w \in Worker, SweepCommit(w)
      PROVE  Kept
  <2>1. row'[p] = [row[p] EXCEPT !.status = "canceled", !.flag = FALSE]
        \/ row'[p] = row[p]
    BY <1>6 DEF SweepCommit
  <2>2. QED
    BY <1>a, <2>1 DEF Row
<1>7. \/ UNCHANGED row
      \/ \E w \in Worker, c \in Checkout : SubscribeCommit(w, c)
      \/ \E w \in Worker : \/ ReconcileCommit(w) \/ CancelCommit(w)
                           \/ BlockCommit(w) \/ SweepCommit(w)
  BY RowWriters
<1>8. QED
  BY <1>1, <1>2, <1>3, <1>4, <1>5, <1>6, <1>7

\* A subscribe that is on its way to the gateway has just read its row, or was
\* on its way before the step.
LEMMA CheckoutJobs ==
    ASSUME TypeInv, [Next]_vars, NEW w \in Worker, job'[w].op = "checkout"
    PROVE  \/ job'[w] = job[w]
           \/ \E p \in Pair : job'[w].read = row[p]
<1> DEFINE Found(v) ==
      job'[v].op = "checkout" =>
        job'[v] = job[v] \/ \E p \in Pair : job'[v].read = row[p]
<1> SUFFICES \A v \in Worker : Found(v)
  OBVIOUS
<1>a. job \in [Worker -> Job]
  BY DEF TypeInv, TypeOK
<1>1. CASE UNCHANGED job
  BY <1>1
<1>2. ASSUME NEW v \in Worker, NEW j, job' = [job EXCEPT ![v] = j],
             j.op # "checkout"
      PROVE  \A u \in Worker : Found(u)
  BY <1>a, <1>2
<1>3. ASSUME NEW v \in Worker, SubscribeRead(v)
      PROVE  \A u \in Worker : Found(u)
  <2>1. job[v].pair \in Pair
    BY <1>a, <1>3, JobFields DEF SubscribeRead
  <2>2. \A u \in Worker : u # v => job'[u] = job[u]
    BY <1>a, <1>3 DEF SubscribeRead, Continue
  <2>3. job'[v].read = row[job[v].pair]
    BY <1>a, <1>3 DEF SubscribeRead, Continue
  <2>4. QED
    BY <2>1, <2>2, <2>3
<1>4. ASSUME NEW v \in Worker, CancelTell(v)
      PROVE  \A u \in Worker : Found(u)
  <2>1. job[v] \in [op : {"cancel", "told", "block", "reblock"}, pair : Pair, read : Row]
    BY <1>a, <1>4 DEF CancelTell, Job
  <2>2. QED
    BY <1>a, <1>4, <2>1 DEF CancelTell, Continue
<1>5. ASSUME NEW v \in Worker,
             \/ \E p \in Pair, g \in Gateway : SubscribeAdmit(v, p, g)
             \/ \E p \in Pair : BlockRead(v, p) \/ CancelRead(v, p)
             \/ \E e \in EventId : DeliverMatched(v, e)
             \/ SweepRead(v) \/ ReconcileCommit(v)
      PROVE  \E j : job' = [job EXCEPT ![v] = j] /\ j.op # "checkout"
  BY <1>5 DEF SubscribeAdmit, BlockRead, CancelRead, DeliverMatched, SweepRead,
              ReconcileCommit, Start, Continue, Finish, Idle
<1>6. ASSUME NEW v \in Worker,
             \/ \E c \in Checkout : SubscribeCommit(v, c)
             \/ SubscribeExisting(v) \/ SubscribeConflict(v) \/ ReconcileLost(v)
             \/ NotifyFailure(v) \/ CancelRejected(v) \/ CancelCommit(v)
             \/ BlockCommit(v) \/ SweepCommit(v) \/ Abort(v)
      PROVE  job' = [job EXCEPT ![v] = Idle]
  BY <1>6 DEF SubscribeCommit, SubscribeExisting, SubscribeConflict, ReconcileLost,
              NotifyFailure, CancelRejected, CancelCommit, BlockCommit, SweepCommit,
              Abort, Finish
<1>7. Idle.op # "checkout"
  BY DEF Idle
<1>8. CASE GatewayStep \/ Tick \/ (\E p \in Pair : Unblock(p))
           \/ (\E e \in EventId : DeliverDuplicate(e) \/ DeliverUnmatched(e))
           \/ UNCHANGED vars
  BY <1>1, <1>8 DEF GatewayStep, Charge, Decline, Announce, End, Tick, Unblock,
                    DeliverDuplicate, DeliverUnmatched, vars
<1>9. QED
  BY <1>2, <1>3, <1>4, <1>5, <1>6, <1>7, <1>8 DEF Next, Request, Commit, Deliver

\* Checkouts that were opened stay opened.
LEMMA PageOpenedStays ==
    ASSUME TypeInv, [Next]_vars, NEW r \in Row, PageOpened(r)
    PROVE  PageOpened(r)'
<1>1. \A c \in Checkout : Opened(c) => Opened(c)'
  <2> SUFFICES ASSUME NEW c \in Checkout, Opened(c) PROVE Opened(c)'
    OBVIOUS
  <2>1. checkout[c].pair \in Pair /\ Owns(c, checkout[c].pair)
    BY DEF Opened, Owns, TypeInv, OpenedForPairs
  <2>2. PICK p \in Pair : p = checkout[c].pair
    BY <2>1
  <2>3. Owns(c, p)'
    BY <2>1, <2>2, History
  <2>4. QED
    BY <2>3 DEF Owns, Opened
<1>2. r.url # None => r.url \in Checkout
  BY DEF Row
<1>3. r.ref # None => r.ref[2] \in Checkout
  BY DEF Row, Ref
<1>4. QED
  BY <1>1, <1>2, <1>3 DEF PageOpened, Opened

LEMMA PagesOpenedStep ==
    ASSUME TypeInv, OwnInv, PagesOpened, [Next]_vars
    PROVE  PagesOpened'
<1>a. row \in [Pair -> Row] /\ \A w \in Worker : job[w] \in Job
  BY DEF TypeInv, TypeOK
<1>1. ASSUME NEW p \in Pair
      PROVE  PageOpened(row[p])'
  <2>1. OwnInv'
    BY RowsOwnedStep, EventsOwnedStep, JobsOwnedStep, BooksStep DEF OwnInv
  <2>2. row'[p].ref # None => checkout'[row'[p].ref[2]].state # "unopened"
    BY <2>1 DEF OwnInv, RowsOwned, Owns
  <2>3. row'[p].url # None => checkout'[row'[p].url].state # "unopened"
    <3>1. CASE row'[p].url \in {row[p].url, None}
      <4>1. PICK r \in Row : r = row[p]
        BY <1>a
      <4>2. PageOpened(r)
        BY <4>1 DEF PagesOpened
      <4>3. PageOpened(r)'
        BY <4>2, PageOpenedStays
      <4>4. QED
        BY <3>1, <4>1, <4>3 DEF PageOpened, Opened
    <3>2. ASSUME NEW w \in Worker, NEW c \in Checkout, SubscribeCommit(w, c),
                 row'[p].url = c
          PROVE  checkout'[row'[p].url].state # "unopened"
      BY <3>2 DEF SubscribeCommit, TypeInv, TypeOK
    <3>3. QED
      BY <3>1, <3>2, PageEffects
  <2>4. QED
    BY <2>2, <2>3 DEF PageOpened, Opened
<1>2. ASSUME NEW w \in Worker, job'[w].op = "checkout"
      PROVE  PageOpened(job[w].read)'
  <2>1. ASSUME NEW r \in Row, PageOpened(r), job'[w].read = r
        PROVE  PageOpened(job[w].read)'
    BY <2>1, PageOpenedStays DEF PageOpened, Opened
  <2>2. CASE job'[w] = job[w]
    BY <1>a, <1>2, <2>1, <2>2, JobFields DEF PagesOpened
  <2>3. QED
    BY <1>a, <1>2, <2>1, <2>2, CheckoutJobs DEF PagesOpened
<1>3. QED
  BY <1>1, <1>2 DEF PagesOpened

\* Page and reference part only by the late adoption.
LEMMA PagesStep ==
    ASSUME TypeInv, OwnInv, PagesOpened, [Next]_vars, NEW p \in Pair,
           PageMatches(row[p]), ~PageMatches(row'[p])
    PROVE  \E w \in Worker : LateAdoption(w, p)
<1>1. ~(row'[p].ref \in {row[p].ref, None} /\ row'[p].url \in {row[p].url, None})
  BY DEF PageMatches
<1>2. PICK w \in Worker :
         /\ ReconcileCommit(w) /\ job[w].pair = p
         /\ sent[job[w].event].session # None
         /\ row'[p].ref = sent[job[w].event].ref
         /\ \/ row'[p].url = None
            \/ row'[p].url = row[p].url /\ job[w].read.url = None
  BY <1>1, PageEffects DEF PageMatches
<1>3. row'[p].url # None
  BY DEF PageMatches
<1>4. QED
  BY <1>2, <1>3 DEF LateAdoption, ReconcileCommit

\* The payment page a row shows is the one its reference names, until a
\* handler that read the row before its page was opened brings the reference
\* of an older Stripe checkout: no other overlap of subscribes, webhooks,
\* cancellations, blocks and sweeps parts them.
THEOREM PageKept == Spec => PageKeepsRef
<1>1. Init => PagesOpened
  BY DEF Init, PagesOpened, PageOpened, NoRow, Idle
<1>2. TypeInv /\ OwnInv /\ PagesOpened /\ [Next]_vars => PagesOpened'
  BY PagesOpenedStep
<1>3. TypeInv /\ OwnInv /\ PagesOpened /\ [Next]_vars =>
         [\A p \in Pair : PageMatches(row[p]) /\ ~PageMatches(row'[p]) =>
             \E w \in Worker : LateAdoption(w, p)]_vars
  BY PagesStep
<1>4. QED
  BY TypeAlways, OwnAlways, <1>1, <1>2, <1>3, PTL DEF Spec, PageKeepsRef
----------------------------------------------------------------------------
(* Which gateway a reference is of.                                        *)

\* A reconciler's row was of the event's gateway.
GatewayInv ==
    \A w \in Worker :
        job[w].op = "reconcile" => job[w].read.gateway = sent[job[w].event].gateway

\* What each commit does to the reference and the gateway of a row.
LEMMA GatewayEffects ==
    ASSUME TypeInv, OwnInv, PagesOpened, [Next]_vars, NEW p \in Pair
    PROVE  \/ row'[p].ref \in {row[p].ref, None} /\ row'[p].gateway = row[p].gateway
           \/ \E w \in Worker, c \in Checkout :
                 /\ SubscribeCommit(w, c) /\ job[w].pair = p
                 /\ row'[p].ref[2] = c
                 /\ \/ row'[p].gateway = job[w].gateway
                    \/ /\ row'[p].gateway = row[p].gateway
                       /\ job[w].gateway = job[w].read.gateway
           \/ \E w \in Worker :
                 /\ ReconcileCommit(w) /\ job[w].pair = p
                 /\ sent[job[w].event].session # None
                 /\ row'[p].ref = sent[job[w].event].ref
                 /\ row'[p].gateway = row[p].gateway
<1> DEFINE Kept == /\ row'[p].ref \in {row[p].ref, None}
                   /\ row'[p].gateway = row[p].gateway
<1> USE DEF db, gateways, delivery
<1>a. row \in [Pair -> Row] /\ now \in Nat /\ \A w \in Worker : job[w] \in Job
  BY DEF TypeInv, TypeOK
<1>1. CASE UNCHANGED row
  BY <1>1
<1>2. ASSUME NEW w \in Worker, NEW c \in Checkout, SubscribeCommit(w, c)
      PROVE  \/ Kept
             \/ /\ job[w].pair = p
                /\ row'[p].ref[2] = c
                /\ \/ row'[p].gateway = job[w].gateway
                   \/ /\ row'[p].gateway = row[p].gateway
                      /\ job[w].gateway = job[w].read.gateway
  <2> DEFINE read == job[w].read
             g == job[w].gateway
             new == PendingRow(read, g, c)
  <2>1. read \in Row /\ job[w].pair \in Pair /\ PageOpened(read)
    BY <1>a, <1>2, JobFields DEF SubscribeCommit, PagesOpened
  <2>2. OpenedRef(g, c)[2] = c /\ OpenedRef(g, c) \in Ref
    BY DEF OpenedRef, Ref
  <2>3. new.ref = OpenedRef(g, c) /\ new.gateway = g
    BY <2>1 DEF PendingRow, Row
  <2>4. read.ref # new.ref
    BY <1>2, <2>1, <2>2, <2>3, NoneNotUser DEF SubscribeCommit, PageOpened, Opened
  <2>5. CASE job[w].pair # p
    BY <1>a, <1>2, <2>1, <2>5 DEF SubscribeCommit
  <2>6. CASE job[w].pair = p /\ row' = [row EXCEPT ![p] = Flush(@, read, new)]
    BY <1>a, <2>2, <2>3, <2>4, <2>6 DEF Flush, Column
  <2>7. CASE /\ job[w].pair = p
             /\ row' = [row EXCEPT ![p] = [PendingRow(NoRow, g, c) EXCEPT !.id = NewId]]
    BY <1>a, <2>2, <2>7 DEF PendingRow, NoRow
  <2>8. QED
    BY <1>2, <2>5, <2>6, <2>7 DEF SubscribeCommit
<1>3. ASSUME NEW w \in Worker, ReconcileCommit(w)
      PROVE  \/ Kept
             \/ /\ job[w].pair = p
                /\ sent[job[w].event].session # None
                /\ row'[p].ref = sent[job[w].event].ref
                /\ row'[p].gateway = row[p].gateway
  <2> DEFINE read == job[w].read
             ev == sent[job[w].event]
             new == Reconcile(ev, read, now)
  <2>1. job[w].pair \in Pair /\ read \in Row
    BY <1>a, <1>3, JobFields DEF ReconcileCommit
  <2>2. /\ new.ref = read.ref \/ (new.ref = ev.ref /\ ev.session # None)
        /\ new.gateway = read.gateway
    BY <2>1 DEF Reconcile, Row
  <2>3. row' = [row EXCEPT ![job[w].pair] = Flush(@, read, new)]
    BY <1>3 DEF ReconcileCommit
  <2>4. CASE job[w].pair # p
    BY <1>a, <2>1, <2>3, <2>4
  <2>5. CASE job[w].pair = p
    BY <1>a, <2>2, <2>3, <2>5 DEF Flush, Column
  <2>6. QED
    BY <2>4, <2>5
<1>4. ASSUME NEW w \in Worker, CancelCommit(w)
      PROVE  Kept
  <2> DEFINE read == job[w].read
             new == [read EXCEPT !.flag = TRUE]
  <2>1. job[w].pair \in Pair /\ read \in Row
    BY <1>a, <1>4, JobFields DEF CancelCommit
  <2>2. new.ref = read.ref /\ new.gateway = read.gateway
    BY <2>1 DEF Row
  <2>3. row' = [row EXCEPT ![job[w].pair] = Flush(@, read, new)]
    BY <1>4 DEF CancelCommit
  <2>4. QED
    BY <1>a, <2>1, <2>2, <2>3 DEF Flush, Column
<1>5. ASSUME NEW w \in Worker, BlockCommit(w)
      PROVE  Kept
  <2> DEFINE read == job[w].read
             new == BlockedRow(read)
  <2>1. job[w].pair \in Pair /\ read \in Row
    BY <1>a, <1>5, JobFields DEF BlockCommit
  <2>2. new.ref \in {read.ref, None} /\ new.gateway = read.gateway
    BY <2>1 DEF BlockedRow, Row
  <2>3. row' = [row EXCEPT ![job[w].pair] = Flush(@, read, new)]
    BY <1>5 DEF BlockCommit
  <2>4. QED
    BY <1>a, <2>1, <2>2, <2>3 DEF Flush, Column
<1>6. ASSUME NEW w \in Worker, SweepCommit(w)
      PROVE  Kept
  <2>1. row'[p] = [row[p] EXCEPT !.status = "canceled", !.flag = FALSE]
        \/ row'[p] = row[p]
    BY <1>6 DEF SweepCommit
  <2>2. QED
    BY <1>a, <2>1 DEF Row
<1>7. \/ UNCHANGED row
      \/ \E w \in Worker, c \in Checkout : SubscribeCommit(w, c)
      \/ \E w \in Worker : \/ ReconcileCommit(w) \/ CancelCommit(w)
                           \/ BlockCommit(w) \/ SweepCommit(w)
  BY RowWriters
<1>8. QED
  BY <1>1, <1>2, <1>3, <1>4, <1>5, <1>6, <1>7

\* Handlers come to reconcile by a delivery, and to the notice by their commit.
LEMMA JobWriters ==
    ASSUME TypeInv, [Next]_vars
    PROVE  \/ UNCHANGED job
           \/ \E w \in Worker : \E j :
                 job' = [job EXCEPT ![w] = j] /\ j.op \notin {"reconcile", "notify"}
           \/ \E w \in Worker, e \in EventId : DeliverMatched(w, e)
           \/ \E w \in Worker : ReconcileCommit(w)
<1> DEFINE Moves(w) == \E j : /\ job' = [job EXCEPT ![w] = j]
                              /\ j.op \notin {"reconcile", "notify"}
<1>a. job \in [Worker -> Job]
  BY DEF TypeInv, TypeOK
<1>1. ASSUME NEW w \in Worker,
             \/ \E p \in Pair, g \in Gateway : SubscribeAdmit(w, p, g)
             \/ \E p \in Pair : BlockRead(w, p) \/ CancelRead(w, p)
             \/ SubscribeRead(w) \/ SweepRead(w)
      PROVE  Moves(w)
  <2>1. ASSUME NEW j, job' = [job EXCEPT ![w] = j], j.op \notin {"reconcile", "notify"}
        PROVE  Moves(w)
    BY <2>1
  <2> HIDE DEF Moves
  <2>2. ASSUME NEW p \in Pair, NEW g \in Gateway, SubscribeAdmit(w, p, g)
        PROVE  Moves(w)
    BY <2>1, <2>2 DEF SubscribeAdmit, Start
  <2>3. ASSUME NEW p \in Pair, BlockRead(w, p) PROVE Moves(w)
    <3>1. PICK o \in {"block", "reblock"} :
             job' = [job EXCEPT ![w] = [op |-> o, pair |-> p, read |-> row[p]]]
      BY <2>3 DEF BlockRead, Start
    <3>2. QED
      BY <2>1, <3>1
  <2>4. ASSUME NEW p \in Pair, CancelRead(w, p) PROVE Moves(w)
    <3>1. PICK o \in {"cancel", "told"} :
             job' = [job EXCEPT ![w] = [op |-> o, pair |-> p, read |-> row[p]]]
      BY <2>4 DEF CancelRead, Start
    <3>2. QED
      BY <2>1, <3>1
  <2>5. ASSUME SubscribeRead(w) PROVE Moves(w)
    BY <2>1, <2>5 DEF SubscribeRead, Continue
  <2>6. ASSUME SweepRead(w) PROVE Moves(w)
    BY <2>1, <2>6 DEF SweepRead, Start
  <2>7. QED
    BY <1>1, <2>2, <2>3, <2>4, <2>5, <2>6
<1>2. ASSUME NEW w \in Worker, CancelTell(w)
      PROVE  Moves(w)
  <2> DEFINE told == [job[w] EXCEPT !.op = "told"]
  <2>1. job[w] \in [op : {"cancel", "told", "block", "reblock"}, pair : Pair, read : Row]
    BY <1>a, <1>2 DEF CancelTell, Job
  <2>2. told.op = "told"
    BY <2>1
  <2>3. job' = [job EXCEPT ![w] = told]
    BY <1>2 DEF CancelTell, Continue
  <2>4. QED
    BY <2>2, <2>3
<1>3. ASSUME NEW w \in Worker,
             \/ \E c \in Checkout : SubscribeCommit(w, c)
             \/ SubscribeExisting(w) \/ SubscribeConflict(w) \/ ReconcileLost(w)
             \/ NotifyFailure(w) \/ CancelRejected(w) \/ CancelCommit(w)
             \/ BlockCommit(w) \/ SweepCommit(w) \/ Abort(w)
      PROVE  Moves(w)
  <2>1. job' = [job EXCEPT ![w] = Idle]
    BY <1>3 DEF SubscribeCommit, SubscribeExisting, SubscribeConflict, ReconcileLost,
                NotifyFailure, CancelRejected, CancelCommit, BlockCommit, SweepCommit,
                Abort, Finish
  <2>2. Idle.op = "idle"
    BY DEF Idle
  <2>3. QED
    BY <2>1, <2>2
<1>4. ASSUME \/ GatewayStep \/ Tick \/ (\E p \in Pair : Unblock(p))
             \/ (\E e \in EventId : DeliverDuplicate(e) \/ DeliverUnmatched(e))
             \/ UNCHANGED vars
      PROVE  UNCHANGED job
  BY <1>4 DEF GatewayStep, Charge, Decline, Announce, End, Tick, Unblock,
              DeliverDuplicate, DeliverUnmatched, vars
<1> HIDE DEF Moves
<1>5. \/ UNCHANGED job
      \/ \E w \in Worker : Moves(w)
      \/ \E w \in Worker, e \in EventId : DeliverMatched(w, e)
      \/ \E w \in Worker : ReconcileCommit(w)
  <2>1. ASSUME NEW w \in Worker, Request(w) \/ SweepRead(w) \/ SubscribeRead(w)
        PROVE  Moves(w)
    BY <1>1, <2>1 DEF Request
  <2>2. ASSUME NEW w \in Worker, Commit(w) \/ Abort(w)
        PROVE  Moves(w) \/ ReconcileCommit(w)
    BY <1>3, <2>2 DEF Commit
  <2>3. ASSUME NEW e \in EventId, Deliver(e)
        PROVE  UNCHANGED job \/ \E w \in Worker : DeliverMatched(w, e)
    BY <1>4, <2>3 DEF Deliver
  <2>4. QED
    BY <1>2, <1>4, <2>1, <2>2, <2>3 DEF Next
<1>6. QED
  BY <1>5 DEF Moves

\* A reconciler reads a row of the gateway that sent the event.
LEMMA ReconcileReads ==
    ASSUME TypeInv, [Next]_vars, NEW w \in Worker, job'[w].op = "reconcile",
           job'[w] # job[w]
    PROVE  /\ job'[w].event \in EventId
           /\ sent[job'[w].event] # None
           /\ job'[w].read.gateway = sent[job'[w].event].gateway
<1>a. job \in [Worker -> Job]
  BY DEF TypeInv, TypeOK
<1>1. \A v \in Worker : \A j : job' = [job EXCEPT ![v] = j] => v = w /\ j.op = "reconcile"
  BY <1>a
<1>2. \A v \in Worker : ~ReconcileCommit(v)
  <2>1. \A v \in Worker : ReconcileCommit(v) =>
           \/ job' = [job EXCEPT ![v] = [op |-> "notify", event |-> job[v].event]]
           \/ job' = [job EXCEPT ![v] = Idle]
    BY DEF ReconcileCommit, Continue, Finish
  <2>2. Idle.op # "reconcile"
    BY DEF Idle
  <2>3. \A v \in Worker : [op |-> "notify", event |-> job[v].event].op # "reconcile"
    OBVIOUS
  <2>4. QED
    BY <1>1, <2>1, <2>2, <2>3
<1>3. PICK e \in EventId : DeliverMatched(w, e)
  BY <1>1, <1>2, JobWriters DEF DeliverMatched, Start
<1>4. PICK p \in Match(sent[e]) :
         job' = [job EXCEPT ![w] = [op |-> "reconcile", pair |-> p,
                                    event |-> e, read |-> row[p]]]
  BY <1>3 DEF DeliverMatched, Start
<1>5. row[p].gateway = sent[e].gateway
  <2>1. \A ref : p \in ByRef(sent[e], ref) => row[p].gateway = sent[e].gateway
    BY DEF ByRef
  <2>2. p \in ByPayer(sent[e]) => row[p].gateway = sent[e].gateway
    BY DEF ByPayer
  <2>3. QED
    BY <2>1, <2>2 DEF Match
<1>6. QED
  BY <1>a, <1>3, <1>4, <1>5 DEF DeliverMatched

LEMMA GatewayInvStep ==
    ASSUME TypeInv, OwnInv, GatewayInv, [Next]_vars
    PROVE  GatewayInv'
<1>1. ASSUME NEW w \in Worker, job'[w].op = "reconcile"
      PROVE  job'[w].read.gateway = sent'[job'[w].event].gateway
  <2>1. CASE job'[w] = job[w]
    <3>1. job[w].event \in EventId /\ sent[job[w].event] # None
      BY <1>1, <2>1, JobFields DEF TypeInv, TypeOK, JobsGrounded
    <3>2. QED
      BY <1>1, <2>1, <3>1, History DEF GatewayInv
  <2>2. QED
    BY <1>1, <2>1, ReconcileReads, History
<1>2. QED
  BY <1>1 DEF GatewayInv

\* Gateway and reference part only in a request that was overtaken.
LEMMA GatewayMatchStep ==
    ASSUME TypeInv, OwnInv, PagesOpened, GatewayInv, [Next]_vars, NEW p \in Pair,
           GatewayMatches(p), ~GatewayMatches(p)'
    PROVE  \E w \in Worker : Overtaken(w, p)
<1>a. row \in [Pair -> Row] /\ \A w \in Worker : job[w] \in Job
  BY DEF TypeInv, TypeOK
<1>1. row'[p].ref # None /\ checkout'[row'[p].ref[2]].gateway # row'[p].gateway
  BY DEF GatewayMatches
<1>2. ~(row'[p].ref \in {row[p].ref, None} /\ row'[p].gateway = row[p].gateway)
  <2> SUFFICES ASSUME row'[p].ref = row[p].ref, row'[p].gateway = row[p].gateway
               PROVE  FALSE
    BY <1>1
  <2>1. PICK c \in Checkout : row[p].ref[2] = c
    BY <1>a, <1>1 DEF Row, Ref
  <2>2. Opened(c)
    BY <1>1, <2>1 DEF OwnInv, RowsOwned, Owns, Opened
  <2>3. QED
    BY <1>1, <2>1, <2>2, CheckoutGateways DEF GatewayMatches
<1>3. ASSUME NEW w \in Worker, NEW c \in Checkout, SubscribeCommit(w, c),
             job[w].pair = p, row'[p].ref[2] = c,
             \/ row'[p].gateway = job[w].gateway
             \/ /\ row'[p].gateway = row[p].gateway
                /\ job[w].gateway = job[w].read.gateway
      PROVE  Overtaken(w, p)
  <2>1. checkout'[c].gateway = job[w].gateway
    BY <1>3 DEF SubscribeCommit, TypeInv, TypeOK
  <2>2. QED
    BY <1>1, <1>3, <2>1 DEF Overtaken, SubscribeCommit
<1>4. ASSUME NEW w \in Worker, ReconcileCommit(w), job[w].pair = p,
             sent[job[w].event].session # None,
             row'[p].ref = sent[job[w].event].ref,
             row'[p].gateway = row[p].gateway
      PROVE  Overtaken(w, p)
  <2> DEFINE ev == sent[job[w].event]
  <2>1. job[w].event \in EventId /\ ev # None
    BY <1>a, <1>4, JobFields DEF ReconcileCommit, TypeInv, JobsGrounded
  <2>2. PICK c \in Checkout : ev.ref[2] = c
    BY <2>1 DEF TypeInv, TypeOK, Event, Ref
  <2>3. Opened(c)
    BY <2>1, <2>2 DEF OwnInv, EventsOwned, Owns, Opened
  <2>4. checkout'[c].gateway = ev.gateway
    BY <1>4, <2>1, <2>2, <2>3, CheckoutGateways DEF OwnInv, EventsOwned
  <2>5. job[w].read.gateway = ev.gateway
    BY <1>4 DEF ReconcileCommit, GatewayInv
  <2>6. QED
    BY <1>1, <1>4, <2>2, <2>4, <2>5 DEF Overtaken, ReconcileCommit
<1>5. QED
  BY <1>2, <1>3, <1>4, GatewayEffects

\* The gateway a row names and the reference it stores are of one checkout,
\* whichever subscribes, webhooks, blocks and sweeps overlap, until a purchase
\* through another gateway has overtaken a request that still writes
\* (create_subscription's reactivation in place against handle_webhook).
THEOREM GatewayKept == Spec => GatewayKeepsRef
<1>1. Init => PagesOpened /\ GatewayInv
  BY DEF Init, PagesOpened, PageOpened, NoRow, Idle, GatewayInv
<1>2. TypeInv /\ OwnInv /\ PagesOpened /\ GatewayInv /\ [Next]_vars
         => PagesOpened' /\ GatewayInv'
  BY PagesOpenedStep, GatewayInvStep
<1>3. TypeInv /\ OwnInv /\ PagesOpened /\ GatewayInv /\ [Next]_vars =>
         [\A p \in Pair : GatewayMatches(p) /\ ~GatewayMatches(p)' =>
             \E w \in Worker : Overtaken(w, p)]_vars
  BY GatewayMatchStep
<1>4. QED
  BY TypeAlways, OwnAlways, <1>1, <1>2, <1>3, PTL DEF Spec, GatewayKeepsRef

----------------------------------------------------------------------------
(* Payments that find another pair.                                        *)

ElsewhereInv ==
    /\ JobsElsewhere
    /\ \A e \in EventId, p \in Pair :
          booked[<<e, p>>] > 0 /\ p # sent[e].charged => Unstored(e)

\* The reference of a Wompi event that left its row does not come back:
\* purchases write references of checkouts just opened, and adoption Stripe's.
LEMMA UnstoredStays ==
    ASSUME TypeInv, OwnInv, PagesOpened, [Next]_vars,
           NEW e \in EventId, sent[e] # None, sent[e].gateway = "wompi", Unstored(e)
    PROVE  Unstored(e)'
<1> DEFINE ev == sent[e]
<1>a. sent'[e] = ev
  BY History
<1>b. PICK c \in Checkout : ev.ref[2] = c
  BY DEF TypeInv, TypeOK, Event, Ref
<1>c. Opened(c) /\ checkout[c].gateway = "wompi" /\ ev.ref # None
  BY <1>b, NoneNotUser DEF OwnInv, EventsOwned, Owns, Opened, TypeInv, TypeOK, Event
<1> SUFFICES ASSUME NEW p \in Pair, row'[p].ref = ev.ref, row'[p].gateway = ev.gateway
             PROVE  FALSE
  BY <1>a DEF Unstored, ByRef
<1>1. ~(row[p].ref = ev.ref /\ row[p].gateway = ev.gateway)
  BY DEF Unstored, ByRef
<1>2. ASSUME NEW w \in Worker, NEW d \in Checkout, SubscribeCommit(w, d),
             row'[p].ref[2] = d
      PROVE  FALSE
  BY <1>b, <1>c, <1>2 DEF SubscribeCommit, Opened
<1>3. ASSUME NEW w \in Worker, ReconcileCommit(w),
             sent[job[w].event].session # None,
             row'[p].ref = sent[job[w].event].ref
      PROVE  FALSE
  <2> DEFINE f == job[w].event
  <2>1. f \in EventId /\ sent[f] # None
    BY <1>3, JobFields DEF ReconcileCommit, TypeInv, TypeOK, JobsGrounded
  <2>2. checkout[sent[f].ref[2]].gateway = "stripe"
    BY <1>3, <2>1 DEF OwnInv, EventsOwned
  <2>3. QED
    BY <1>b, <1>c, <1>3, <2>2
<1>4. QED
  BY <1>1, <1>2, <1>3, <1>c, GatewayEffects

\* Events that may count for another pair than the one charged are Wompi's.
LEMMA StraysLeave ==
    ASSUME TypeInv, OwnInv, PagesOpened, [Next]_vars,
           NEW e \in EventId, sent[e] # None, NEW p, Creditable(sent[e], p),
           p # sent[e].charged, Unstored(e)
    PROVE  Unstored(e)'
<1>1. sent[e].gateway = "wompi"
  BY DEF Creditable
<1>2. QED
  BY <1>1, UnstoredStays

LEMMA ElsewhereStep ==
    ASSUME TypeInv, OwnInv, PagesOpened, ElsewhereInv, [Next]_vars
    PROVE  ElsewhereInv'
<1> USE DEF db, gateways, delivery
<1>a. booked \in [EventId \X Pair -> Nat] /\ \A w \in Worker : job[w] \in Job
  BY DEF TypeInv, TypeOK
<1>1. ASSUME NEW w \in Worker, job'[w].op = "reconcile",
             job'[w].pair # sent'[job'[w].event].charged
      PROVE  Unstored(job[w].event)'
  <2>e. PICK e : e = job'[w].event
    OBVIOUS
  <2>1. CASE job'[w] = job[w]
    <3>1. e \in EventId /\ sent[e] # None /\ Creditable(sent[e], job[w].pair)
      BY <1>a, <1>1, <2>e, <2>1, JobFields DEF TypeInv, JobsGrounded, OwnInv, JobsOwned
    <3>2. sent'[e] = sent[e]
      BY <3>1, History
    <3>3. Unstored(e)
      BY <1>1, <2>e, <2>1, <3>2 DEF ElsewhereInv, JobsElsewhere
    <3>4. QED
      BY <1>1, <2>e, <2>1, <3>1, <3>2, <3>3, StraysLeave
  <2>2. CASE e \in EventId /\ sent[e] # None /\ job'[w].pair \in Match(sent[e])
    <3>1. sent'[e] = sent[e]
      BY <2>2, History
    <3>2. Creditable(sent[e], job'[w].pair) /\ Unstored(e)
      BY <1>1, <2>e, <2>2, <3>1, MatchOwned
    <3>3. QED
      BY <1>1, <2>e, <2>2, <3>1, <3>2, StraysLeave
  <2>3. QED
    BY <1>1, <2>e, <2>1, <2>2, ReconcileJobs
<1>2. ASSUME NEW e \in EventId, NEW p \in Pair, booked'[<<e, p>>] > 0,
             p # sent'[e].charged
      PROVE  Unstored(e)'
  <2>1. CASE booked'[<<e, p>>] = booked[<<e, p>>]
    <3>1. sent[e] # None /\ Creditable(sent[e], p)
      BY <1>2, <2>1 DEF OwnInv, BooksSent, BooksOwned
    <3>2. sent'[e] = sent[e]
      BY <3>1, History
    <3>3. Unstored(e)
      BY <1>2, <2>1, <3>2 DEF ElsewhereInv
    <3>4. QED
      BY <1>2, <3>1, <3>2, <3>3, StraysLeave
  <2>2. ASSUME NEW w \in Worker, ReconcileCommit(w), booked'[<<e, p>>] # booked[<<e, p>>]
        PROVE  Unstored(e)'
    <3>1. job[w].event = e /\ job[w].pair = p /\ job[w].op = "reconcile"
      BY <1>a, <2>2, JobFields DEF ReconcileCommit
    <3>2. sent[e] # None /\ Creditable(sent[e], p)
      BY <3>1 DEF TypeInv, JobsGrounded, OwnInv, JobsOwned
    <3>3. sent'[e] = sent[e]
      BY <3>2, History
    <3>4. Unstored(e)
      BY <1>2, <3>1, <3>3 DEF ElsewhereInv, JobsElsewhere
    <3>5. QED
      BY <1>2, <3>2, <3>3, <3>4, StraysLeave
  <2>3. UNCHANGED booked \/ \E w \in Worker : ReconcileCommit(w)
    BY StepEffects
  <2>4. QED
    BY <2>1, <2>2, <2>3
<1>3. QED
  BY <1>1, <1>2 DEF ElsewhereInv, JobsElsewhere

\* A payment goes to the pair whose checkout was charged, or, through the address
\* given at Wompi, to a row of the payer's, of the creator the event pins if it
\* pins one, and then only when no row stores the event's reference and none
\* ever does again: however long the event was on its way and whatever became
\* of the rows (handle_webhook's three lookups).
THEOREM PaymentsOwned == Spec => []BookedToPayer
<1>1. Init => PagesOpened /\ ElsewhereInv
  BY DEF Init, PagesOpened, PageOpened, NoRow, Idle, ElsewhereInv, JobsElsewhere
<1>2. TypeInv /\ OwnInv /\ PagesOpened /\ ElsewhereInv /\ [Next]_vars
         => PagesOpened' /\ ElsewhereInv'
  BY PagesOpenedStep, ElsewhereStep
<1>3. OwnInv /\ ElsewhereInv => BookedToPayer
  BY DEF OwnInv, BooksOwned, ElsewhereInv, Unstored, BookedToPayer
<1>4. QED
  BY TypeAlways, OwnAlways, <1>1, <1>2, <1>3, PTL DEF Spec

----------------------------------------------------------------------------
(* Notices of failed charges.                                              *)

NotifiedMarked == notified \subseteq processed

\* A handler comes to the notice by its commit, and a notice is queued by the
\* handler that came to it.
LEMMA NoticeJobs ==
    ASSUME TypeInv, [Next]_vars
    PROVE  /\ \A w \in Worker : job'[w].op = "notify" =>
                \/ job'[w] = job[w]
                \/ /\ ReconcileCommit(w)
                   /\ job' = [job EXCEPT ![w] = [op |-> "notify", event |-> job[w].event]]
           /\ \/ UNCHANGED notified
              \/ \E w \in Worker : NotifyFailure(w)
<1> USE DEF db, gateways, delivery
<1>a. job \in [Worker -> Job]
  BY DEF TypeInv, TypeOK
<1>1. ASSUME NEW w \in Worker, job'[w].op = "notify", job'[w] # job[w]
      PROVE  /\ ReconcileCommit(w)
             /\ job' = [job EXCEPT ![w] = [op |-> "notify", event |-> job[w].event]]
  <2>1. \A v \in Worker : \A j : job' = [job EXCEPT ![v] = j] => v = w /\ j.op = "notify"
    BY <1>a, <1>1
  <2>2. ReconcileCommit(w)
    <3>1. \A v \in Worker, e \in EventId : ~DeliverMatched(v, e)
      <4> SUFFICES ASSUME NEW v \in Worker, NEW e \in EventId, DeliverMatched(v, e)
                   PROVE  FALSE
        OBVIOUS
      <4>1. PICK p : job' = [job EXCEPT ![v] = [op |-> "reconcile", pair |-> p,
                                                event |-> e, read |-> row[p]]]
        BY DEF DeliverMatched, Start
      <4> DEFINE j == [op |-> "reconcile", pair |-> p, event |-> e, read |-> row[p]]
      <4>2. j.op = "reconcile"
        OBVIOUS
      <4>3. job' = [job EXCEPT ![v] = j]
        BY <4>1
      <4> HIDE DEF j
      <4>4. QED
        BY <2>1, <4>2, <4>3
    <3>2. PICK v \in Worker : ReconcileCommit(v)
      BY <1>1, <2>1, <3>1, JobWriters
    <3>3. v = w
      BY <2>1, <3>2 DEF ReconcileCommit, Continue, Finish
    <3>4. QED
      BY <3>2, <3>3
  <2>3. \/ job' = [job EXCEPT ![w] = [op |-> "notify", event |-> job[w].event]]
        \/ job' = [job EXCEPT ![w] = Idle]
    BY <2>2 DEF ReconcileCommit, Continue, Finish
  <2>4. Idle.op # "notify"
    BY DEF Idle
  <2>5. QED
    BY <2>1, <2>2, <2>3, <2>4
<1>2. UNCHANGED notified \/ \E w \in Worker : NotifyFailure(w)
  BY StepEffects
<1>3. QED
  BY <1>1, <1>2

\* The mark lets one handler through, which has not queued its notice yet.
LEMMA NoticeStep ==
    ASSUME TypeInv, NoticedOnce, NotifiedMarked, [Next]_vars
    PROVE  NoticedOnce' /\ NotifiedMarked'
<1>a. job \in [Worker -> Job] /\ \A w \in Worker : job[w] \in Job
  BY DEF TypeInv, TypeOK
<1>b. processed \subseteq processed'
  BY MarksGrow
<1>1. \A e \in notified' : e \in notified \/ \E v \in Worker :
         job[v].op = "notify" /\ job[v].event = e /\ job'[v] = Idle
  BY <1>a, NoticeJobs DEF NotifyFailure, Finish
<1>2. NotifiedMarked'
  BY <1>b, <1>1 DEF NotifiedMarked, NoticedOnce
<1>3. ASSUME NEW w \in Worker, job'[w].op = "notify"
      PROVE  /\ job'[w].event \in processed' \ notified'
             /\ \A v \in Worker \ {w} :
                   job'[v].op = "notify" => job'[v].event # job'[w].event
  <2>0. Idle.op # "notify"
    BY DEF Idle
  <2>1. \A v \in Worker : job'[v].op = "notify" =>
           \/ job'[v] = job[v]
           \/ /\ job[v].event \notin processed
              /\ job[v].event \in processed'
              /\ job'[v].event = job[v].event
              /\ \A u \in Worker \ {v} : job'[u] = job[u]
    <3> SUFFICES ASSUME NEW v \in Worker, job'[v].op = "notify", job'[v] # job[v]
                 PROVE  /\ job[v].event \notin processed
                        /\ job[v].event \in processed'
                        /\ job'[v].event = job[v].event
                        /\ \A u \in Worker \ {v} : job'[u] = job[u]
      OBVIOUS
    <3>1. /\ ReconcileCommit(v)
          /\ job' = [job EXCEPT ![v] = [op |-> "notify", event |-> job[v].event]]
      BY NoticeJobs
    <3>2. job[v].event \notin processed /\ job[v].event \in processed'
      BY <3>1 DEF ReconcileCommit, Markable
    <3>3. QED
      BY <1>a, <3>1, <3>2
  <2>2. job'[w].event \in processed'
    BY <1>3, <1>b, <2>1 DEF NoticedOnce
  <2>3. job'[w].event \notin notified'
    <3>1. SUFFICES ASSUME job'[w].event \in notified' PROVE FALSE
      OBVIOUS
    <3>2. job'[w].event \in processed
      BY <1>1, <3>1 DEF NotifiedMarked, NoticedOnce
    <3>3. job'[w] = job[w]
      BY <1>3, <2>1, <3>2
    <3>4. job'[w].event \notin notified
      BY <1>3, <3>3 DEF NoticedOnce
    <3>5. PICK v \in Worker : /\ job[v].op = "notify"
                              /\ job[v].event = job[w].event
                              /\ job'[v] = Idle
      BY <1>1, <3>1, <3>3, <3>4
    <3>6. v # w
      BY <1>3, <2>0, <3>5
    <3>7. QED
      BY <1>3, <3>3, <3>5, <3>6 DEF NoticedOnce
  <2>4. ASSUME NEW v \in Worker \ {w}, job'[v].op = "notify"
        PROVE  job'[v].event # job'[w].event
    <3>1. CASE job'[w] = job[w] /\ job'[v] = job[v]
      BY <1>3, <2>4, <3>1 DEF NoticedOnce
    <3>2. CASE job'[w] # job[w]
      <4>1. job[w].event \notin processed /\ job'[w].event = job[w].event /\ job'[v] = job[v]
        BY <1>3, <2>1, <3>2
      <4>2. QED
        BY <2>4, <4>1 DEF NoticedOnce
    <3>3. CASE job'[v] # job[v]
      <4>1. job[v].event \notin processed /\ job'[v].event = job[v].event /\ job'[w] = job[w]
        BY <2>1, <2>4, <3>3
      <4>2. QED
        BY <1>3, <4>1 DEF NoticedOnce
    <3>4. QED
      BY <3>1, <3>2, <3>3
  <2>5. QED
    BY <2>2, <2>3, <2>4
<1>4. QED
  BY <1>2, <1>3 DEF NoticedOnce

\* One failed charge is never announced twice: of all its deliveries one
\* handler comes to the notice, after its commit, and queues it at most once
\* (handle_webhook's notice behind the mark of the ledger).
THEOREM NoticesOnce == Spec => []NoticedOnce
<1>1. Init => NoticedOnce /\ NotifiedMarked
  BY DEF Init, NoticedOnce, NotifiedMarked, Idle
<1>2. TypeInv /\ NoticedOnce /\ NotifiedMarked /\ [Next]_vars
         => NoticedOnce' /\ NotifiedMarked'
  BY NoticeStep
<1>3. QED
  BY TypeAlways, <1>1, <1>2, PTL DEF Spec
=============================================================================
