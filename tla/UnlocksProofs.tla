--------------------------- MODULE UnlocksProofs ---------------------------
(***************************************************************************)
(* Theorems about Unlocks, for every set of buyers, items, links, workers  *)
(* and events.                                                             *)
(***************************************************************************)
EXTENDS Unlocks, TLAPS

KeyOf(e) == link[sent[e].link].key

\* A row's reference is a link that was opened for that row.
RowsOwned ==
    \A k \in Key :
        /\ unlock[k].ref # None =>
               link[unlock[k].ref] # None /\ link[unlock[k].ref].key = k
        /\ unlock[k].paid \/ unlock[k].refunded => unlock[k].ref # None

\* An event is about a link that was opened, and names nobody else.
EventsOwned ==
    \A e \in EventId : sent[e] # None =>
        /\ link[sent[e].link] # None
        /\ sent[e].ref \in {None, sent[e].link}
        /\ sent[e].meta \in {None, KeyOf(e)}

\* A handler at work has found the row its event is about.
JobOwned(w) ==
    job[w].op \in {"paid", "refund"} =>
        /\ sent[job[w].event] # None
        /\ KeyOf(job[w].event) = job[w].key
        /\ sent[job[w].event].type =
               (IF job[w].op = "paid" THEN "succeeded" ELSE "refunded")

JobsOwned == \A w \in Worker : JobOwned(w)

\* A payment row belongs to an event that was marked, and to its link's key.
BooksOwned ==
    /\ \A e \in EventId, k \in Key : booked[<<e, k>>] > 0 =>
           /\ e \in processed
           /\ sent[e] # None /\ KeyOf(e) = k
    /\ \A x \in returned : booked[x] > 0

Owned == TypeOK /\ RowsOwned /\ EventsOwned /\ JobsOwned /\ BooksOwned

----------------------------------------------------------------------------
(* Types.                                                                  *)

\* What a job holds, by what it is doing.
LEMMA JobFields ==
    ASSUME NEW j \in Job
    PROVE  /\ j.op = "link" => j.key \in Key /\ j.gateway \in Gateway /\ j.read \in Row
           /\ j.op \in {"paid", "refund"} =>
                  j.key \in Key /\ j.event \in EventId /\ j.read \in Row
BY DEF Job

\* The jobs handlers start.
LEMMA JobMembers ==
    /\ Idle \in Job
    /\ \A k \in Key, g \in Gateway, r \in Row :
          [op |-> "link", key |-> k, gateway |-> g, read |-> r] \in Job
    /\ \A k \in Key, e \in EventId, r \in Row, o \in {"paid", "refund"} :
          [op |-> o, key |-> k, event |-> e, read |-> r] \in Job
BY DEF Job, Idle

\* A worker starts or ends a job and the others go on.
LEMMA StartStep ==
    ASSUME TypeOK, NEW w \in Worker, NEW j \in Job, Start(w, j)
    PROVE  job' \in [Worker -> Job] /\ job'[w] = j /\ job[w] = Idle
           /\ \A x \in Worker : x # w => job'[x] = job[x]
BY DEF TypeOK, Start

\* Ending a job leaves the types of the jobs alone.
LEMMA FinishStep ==
    ASSUME TypeOK, NEW w \in Worker, Finish(w)
    PROVE  job' \in [Worker -> Job] /\ job'[w] = Idle
           /\ \A x \in Worker : x # w => job'[x] = job[x]
BY JobMembers DEF TypeOK, Finish

\* A relinked row is a row.
LEMMA RelinkedType ==
    ASSUME NEW cur \in Row, NEW read \in Row, NEW g \in Gateway, NEW l \in Link
    PROVE  /\ Relinked(cur, read, g, l) \in Row
           /\ Relinked(cur, read, g, l).ref = l
           /\ Relinked(cur, read, g, l).paid = (cur.paid /\ ~read.paid)
           /\ Relinked(cur, read, g, l).refunded = (cur.refunded /\ ~read.refunded)
BY DEF Relinked, Row

\* What a gateway says of a link is an event.
LEMMA NoticeType ==
    ASSUME TypeOK, NEW l \in Link, link[l] # None,
           NEW t \in {"succeeded", "failed", "created", "refunded"}
    PROVE  /\ link[l] \in Page
           /\ Notice(l, t) \in Event
           /\ [Notice(l, t) EXCEPT !.ref = None] \in Event
           /\ \A m \in {None, link[l].key} :
                 /\ [Notice(l, t) EXCEPT !.meta = m] \in Event
                 /\ [Notice(l, t) EXCEPT !.ref = None, !.meta = m] \in Event
<1>1. link[l] \in Page
  BY DEF TypeOK
<1>2. link[l].gateway \in Gateway /\ link[l].key \in Key
  BY <1>1 DEF Page
<1>3. QED
  BY <1>1, <1>2 DEF Notice, Event

\* The payment rows a refund marks were booked, and are of its item.
LEMMA ReturnsType ==
    ASSUME NEW e \in EventId, NEW k \in Key, NEW x \in Returns(sent[e], k)
    PROVE  x \subseteq Completed
<1>1. RefundedPayment(sent[e], k) \subseteq Completed
  BY DEF RefundedPayment
<1>2. QED
  BY <1>1 DEF Returns

----------------------------------------------------------------------------
(* What the three commits do to their row.                                 *)

\* A payment's commit opens its row and no other.
LEMMA PaidEffects ==
    ASSUME TypeOK, NEW w \in Worker, PaidCommit(w),
           NEW k, k = job[w].key, NEW e, e = job[w].event
    PROVE  /\ k \in Key /\ e \in EventId /\ job[w].read \in Row
           /\ unlock' \in [Key -> Row]
           /\ \A x \in Key : x # k => unlock'[x] = unlock[x]
           /\ unlock'[k].ref = unlock[k].ref /\ unlock'[k].gateway = unlock[k].gateway
           /\ unlock'[k].refunded = unlock[k].refunded
           /\ unlock'[k].paid = (unlock[k].paid \/ ~job[w].read.paid)
<1> DEFINE read == job[w].read
           r == [unlock[k] EXCEPT !.paid = TRUE,
                                  !.url = IF read.url = None THEN @ ELSE None]
<1>1. k \in Key /\ e \in EventId /\ read \in Row /\ unlock \in [Key -> Row]
  BY JobFields DEF PaidCommit, TypeOK
<1>2. unlock[k] \in Row /\ read.paid \in BOOLEAN
  BY <1>1 DEF Row
<1>3. r \in Row /\ r.ref = unlock[k].ref /\ r.refunded = unlock[k].refunded
      /\ r.gateway = unlock[k].gateway /\ r.paid
  BY <1>2 DEF Row
<1>4. CASE read.paid
  <2>1. unlock' = unlock
    BY <1>4 DEF PaidCommit
  <2>2. QED
    BY <1>1, <1>2, <1>4, <2>1 DEF Row
<1>5. CASE ~read.paid
  <2>1. unlock' = [unlock EXCEPT ![k].paid = TRUE,
                                 ![k].url = IF read.url = None THEN @ ELSE None]
    BY <1>5 DEF PaidCommit
  <2>2. unlock' = [unlock EXCEPT ![k] = r]
    BY <1>1, <1>2, <2>1 DEF Row
  <2> HIDE DEF r
  <2>3. unlock'[k] = r /\ unlock' \in [Key -> Row]
        /\ \A x \in Key : x # k => unlock'[x] = unlock[x]
    BY <1>1, <1>3, <2>2
  <2>4. QED
    BY <1>1, <1>2, <1>3, <1>5, <2>3 DEF Row
<1>6. QED
  BY <1>2, <1>4, <1>5

\* A refund's commit closes its row and no other.
LEMMA RefundEffects ==
    ASSUME TypeOK, NEW w \in Worker, RefundCommit(w),
           NEW k, k = job[w].key, NEW e, e = job[w].event
    PROVE  /\ k \in Key /\ e \in EventId /\ job[w].read \in Row
           /\ unlock' \in [Key -> Row]
           /\ \A x \in Key : x # k => unlock'[x] = unlock[x]
           /\ unlock'[k].ref = unlock[k].ref /\ unlock'[k].gateway = unlock[k].gateway
           /\ unlock'[k].refunded
           /\ unlock'[k].paid = (unlock[k].paid /\ ~job[w].read.paid)
<1> DEFINE read == job[w].read
           r == [unlock[k] EXCEPT !.refunded = TRUE,
                                  !.paid = IF read.paid THEN FALSE ELSE @]
<1>1. k \in Key /\ e \in EventId /\ read \in Row /\ unlock \in [Key -> Row]
  BY JobFields DEF RefundCommit, TypeOK
<1>2. unlock[k] \in Row /\ read.paid \in BOOLEAN
  BY <1>1 DEF Row
<1>3. r \in Row /\ r.ref = unlock[k].ref /\ r.refunded
      /\ r.gateway = unlock[k].gateway
      /\ r.paid = (unlock[k].paid /\ ~read.paid)
  BY <1>2 DEF Row
<1>4. unlock' = [unlock EXCEPT ![k].refunded = TRUE,
                               ![k].paid = IF read.paid THEN FALSE ELSE @]
  BY DEF RefundCommit
<1>5. unlock' = [unlock EXCEPT ![k] = r]
  BY <1>1, <1>2, <1>4 DEF Row
<1> HIDE DEF r
<1>6. unlock'[k] = r /\ unlock' \in [Key -> Row]
      /\ \A x \in Key : x # k => unlock'[x] = unlock[x]
  BY <1>1, <1>3, <1>5
<1>7. QED
  BY <1>1, <1>3, <1>6

\* A new link's commit stores the link in its row, which it closes or leaves as it is.
LEMMA LinkEffects ==
    ASSUME TypeOK, NEW w \in Worker, NEW l \in Link, LinkCommit(w, l),
           NEW k, k = job[w].key
    PROVE  /\ k \in Key /\ job[w].read \in Row
           /\ unlock' \in [Key -> Row]
           /\ \A x \in Key : x # k => unlock'[x] = unlock[x]
           /\ unlock'[k].ref = l
           /\ unlock'[k].paid = (unlock[k].paid /\ ~job[w].read.paid)
           /\ unlock'[k].refunded = (unlock[k].refunded /\ ~job[w].read.refunded)
           /\ link' \in [Link -> Page \cup {None}]
           /\ link'[l] \in Page /\ link'[l].key = k
           /\ \A m \in Link : m # l => link'[m] = link[m]
<1> DEFINE r == Relinked(unlock[k], job[w].read, job[w].gateway, l)
           page == [gateway |-> job[w].gateway, key |-> k, charged |-> FALSE]
<1>1. k \in Key /\ job[w].gateway \in Gateway /\ job[w].read \in Row
      /\ unlock \in [Key -> Row] /\ link \in [Link -> Page \cup {None}]
  BY JobFields DEF LinkCommit, TypeOK
<1>2. /\ r \in Row /\ r.ref = l
      /\ r.paid = (unlock[k].paid /\ ~job[w].read.paid)
      /\ r.refunded = (unlock[k].refunded /\ ~job[w].read.refunded)
  <2>1. unlock[k] \in Row
    BY <1>1
  <2> DEFINE cur == unlock[k]
             read == job[w].read
             g == job[w].gateway
  <2>2. cur \in Row /\ read \in Row /\ g \in Gateway
    BY <1>1, <2>1
  <2> HIDE DEF cur, read, g
  <2>3. Relinked(cur, read, g, l) \in Row
    BY <2>2, RelinkedType
  <2>4. Relinked(cur, read, g, l).ref = l
    BY <2>2, RelinkedType
  <2>5. Relinked(cur, read, g, l).paid = (cur.paid /\ ~read.paid)
    BY <2>2, RelinkedType
  <2>6. Relinked(cur, read, g, l).refunded = (cur.refunded /\ ~read.refunded)
    BY <2>2, RelinkedType
  <2>7. QED
    BY <2>3, <2>4, <2>5, <2>6 DEF cur, read, g
<1>3. page \in Page /\ page.key = k
  BY <1>1 DEF Page
<1>4. unlock' = [unlock EXCEPT ![k] = r] /\ link' = [link EXCEPT ![l] = page]
  BY DEF LinkCommit
<1> HIDE DEF r, page
<1>5. QED
  BY <1>1, <1>2, <1>3, <1>4

\* Every step keeps the types.
LEMMA TypeStep ==
    ASSUME TypeOK, [Next]_vars
    PROVE  TypeOK'
<1>t. /\ unlock \in [Key -> Row] /\ deleted \subseteq Post
      /\ processed \subseteq EventId /\ booked \in [EventId \X Key -> Nat]
      /\ returned \subseteq EventId \X Key /\ job \in [Worker -> Job]
      /\ link \in [Link -> Page \cup {None}] /\ sent \in [EventId -> Event \cup {None}]
      /\ acked \subseteq EventId
  BY DEF TypeOK
<1>1. CASE UNCHANGED vars
  BY <1>1, <1>t DEF vars, TypeOK
<1>2. ASSUME NEW w \in Worker, NEW k \in Key, NEW g \in Gateway,
             BuyPost(w, k, g) \/ BuyMessage(w, k, g)
      PROVE  TypeOK'
  <2>1. job' \in [Worker -> Job]
    BY <1>t, <1>2, StartStep, JobMembers DEF BuyPost, BuyMessage
  <2>2. QED
    BY <1>t, <1>2, <2>1 DEF BuyPost, BuyMessage, db, TypeOK
<1>3. ASSUME NEW w \in Worker, NEW l \in Link, LinkCommit(w, l)
      PROVE  TypeOK'
  <2>1. unlock' \in [Key -> Row] /\ link' \in [Link -> Page \cup {None}]
    BY <1>3, LinkEffects
  <2>2. job' \in [Worker -> Job]
    BY <1>3, FinishStep DEF LinkCommit
  <2>3. QED
    BY <1>t, <1>3, <2>1, <2>2 DEF LinkCommit, TypeOK
<1>4. ASSUME NEW w \in Worker, LinkConflict(w) \/ Abort(w) \/ CommitLost(w)
      PROVE  TypeOK'
  <2>1. job' \in [Worker -> Job]
    BY <1>4, FinishStep DEF LinkConflict, Abort, CommitLost
  <2>2. acked' \subseteq EventId
    BY <1>t, <1>4, JobFields DEF LinkConflict, Abort, CommitLost
  <2>3. QED
    BY <1>t, <1>4, <2>1, <2>2 DEF LinkConflict, Abort, CommitLost, db, TypeOK
<1>5. ASSUME NEW w \in Worker, PaidCommit(w)
      PROVE  TypeOK'
  <2> DEFINE k == job[w].key
             e == job[w].event
  <2>1. k \in Key /\ e \in EventId
    BY <1>5, PaidEffects
  <2>2. unlock' \in [Key -> Row]
    BY <1>5, PaidEffects
  <2>3. booked' \in [EventId \X Key -> Nat]
    BY <1>t, <1>5, <2>1 DEF PaidCommit
  <2>4. job' \in [Worker -> Job]
    BY <1>5, FinishStep DEF PaidCommit
  <2>5. processed' \subseteq EventId /\ acked' \subseteq EventId
    BY <1>t, <1>5, <2>1 DEF PaidCommit
  <2>6. QED
    BY <1>t, <1>5, <2>2, <2>3, <2>4, <2>5 DEF PaidCommit, TypeOK
<1>6. ASSUME NEW w \in Worker, RefundCommit(w)
      PROVE  TypeOK'
  <2> DEFINE k == job[w].key
             e == job[w].event
  <2>1. k \in Key /\ e \in EventId
    BY <1>6, RefundEffects
  <2>2. unlock' \in [Key -> Row]
    BY <1>6, RefundEffects
  <2>3. returned' \subseteq EventId \X Key
    BY <1>t, <1>6, <2>1, ReturnsType DEF RefundCommit, Completed
  <2>4. job' \in [Worker -> Job]
    BY <1>6, FinishStep DEF RefundCommit
  <2>5. processed' \subseteq EventId /\ acked' \subseteq EventId
    BY <1>t, <1>6, <2>1 DEF RefundCommit
  <2>6. QED
    BY <1>t, <1>6, <2>2, <2>3, <2>4, <2>5 DEF RefundCommit, TypeOK
<1>7. ASSUME NEW p \in Post, DeletePost(p)
      PROVE  TypeOK'
  <2>1. NoRow \in Row
    BY DEF NoRow, Row
  <2>2. QED
    BY <1>t, <1>7, <2>1 DEF DeletePost, TypeOK
<1>8. ASSUME NEW e \in EventId,
             DeliverMarked(e) \/ DeliverElsewhere(e) \/ DeliverDuplicate(e)
                \/ DeliverRefundUnmatched(e)
      PROVE  TypeOK'
  BY <1>t, <1>8 DEF DeliverMarked, DeliverElsewhere, DeliverDuplicate,
                    DeliverRefundUnmatched, db, TypeOK
<1>9. ASSUME NEW w \in Worker, NEW e \in EventId,
             DeliverPaidPost(w, e) \/ DeliverPaidMessage(w, e) \/ DeliverRefund(w, e)
      PROVE  TypeOK'
  <2>1. PICK k \in Key, o \in {"paid", "refund"} :
            Start(w, [op |-> o, key |-> k, event |-> e, read |-> unlock[k]])
    BY <1>9 DEF DeliverPaidPost, DeliverPaidMessage, DeliverRefund, ByRef, Refunded,
                RefundedPost, Charged
  <2>2. job' \in [Worker -> Job]
    BY <1>t, <2>1, StartStep, JobMembers
  <2>3. QED
    BY <1>t, <1>9, <2>2 DEF DeliverPaidPost, DeliverPaidMessage, DeliverRefund, db, TypeOK
<1>10. ASSUME NEW l \in Link, NEW e \in EventId,
              Pay(l, e) \/ Refuse(l, e) \/ Refund(l, e)
       PROVE  TypeOK'
  <2>1. link[l] \in Page
    BY <1>10, <1>t DEF Pay, Refuse, Refund
  <2>2. sent' \in [EventId -> Event \cup {None}]
    <3>1. CASE Pay(l, e)
      BY <1>t, <3>1, NoticeType DEF Pay, Send
    <3>2. CASE Refuse(l, e)
      BY <1>t, <3>2, NoticeType DEF Refuse, Send
    <3>3. CASE Refund(l, e)
      <4>1. link[l] # None
        BY <3>3 DEF Refund
      <4>2. PICK ev \in Event : Send(e, ev)
        BY <3>3, <4>1, NoticeType DEF Refund
      <4>3. QED
        BY <1>t, <4>2 DEF Send
    <3>4. QED
      BY <1>10, <3>1, <3>2, <3>3
  <2>3. link' \in [Link -> Page \cup {None}]
    BY <1>t, <1>10, <2>1, ZenonT(40) DEF Pay, Refuse, Refund, Page
  <2>4. QED
    BY <1>t, <1>10, <2>2, <2>3 DEF Pay, Refuse, Refund, db, TypeOK
<1>11. QED
  BY <1>1, <1>2, <1>3, <1>4, <1>5, <1>6, <1>7, <1>8, <1>9, <1>10
  DEF Next, Buy, Deliver, Commit

\* Rows, ledgers, requests, links and events keep their types (TypeOK).
THEOREM UnlockTypes == Spec => []TypeOK
<1>1. Init => TypeOK
  BY JobMembers DEF Init, TypeOK, NoRow, Row
<1>2. TypeOK /\ [Next]_vars => TypeOK'
  BY TypeStep
<1>3. QED
  BY <1>1, <1>2, PTL DEF Spec

----------------------------------------------------------------------------
(* Ownership.                                                              *)

\* NULL is none of the things it stands in for.
LEMMA NoneIsNobody ==
    /\ \A l \in Link : l # None
    /\ \A k \in Key : k # None
    /\ \A p \in Page : p # None
    /\ \A ev \in Event : ev # None
BY NoneAssumption

\* Steps that touch neither the database nor the gateways' side.
Aside == UNCHANGED <<db, link, sent>>

\* A gateway sends something about a link that was opened.
GatewayStep ==
    \E l \in Link, e \in EventId : Pay(l, e) \/ Refuse(l, e) \/ Refund(l, e)

MarkStep == \E e \in EventId : DeliverMarked(e) \/ DeliverElsewhere(e)

\* The steps of the module, sorted by what they can change.
LEMMA Split ==
    ASSUME [Next]_vars
    PROVE  \/ Aside
           \/ \E w \in Worker, l \in Link : LinkCommit(w, l)
           \/ \E w \in Worker : PaidCommit(w) \/ RefundCommit(w)
           \/ \E p \in Post : DeletePost(p)
           \/ MarkStep
           \/ GatewayStep
<1>1. ASSUME NEW w \in Worker, Buy(w)
      PROVE  Aside \/ \E l \in Link : LinkCommit(w, l)
  BY <1>1 DEF Buy, BuyPost, BuyMessage, LinkConflict, Abort, Aside
<1>2. ASSUME NEW w \in Worker, Commit(w)
      PROVE  Aside \/ PaidCommit(w) \/ RefundCommit(w)
  BY <1>2 DEF Commit, CommitLost, Aside
<1>3. ASSUME NEW w \in Worker, NEW e \in EventId, Deliver(w, e)
      PROVE  Aside \/ MarkStep
  BY <1>3 DEF Deliver, MarkStep, Aside, DeliverPaidPost, DeliverPaidMessage,
              DeliverDuplicate, DeliverRefund, DeliverRefundUnmatched
<1>4. CASE UNCHANGED vars
  BY <1>4 DEF vars, db, Aside
<1>5. CASE \E l \in Link, e \in EventId : Pay(l, e) \/ Refuse(l, e) \/ Refund(l, e)
  BY <1>5 DEF GatewayStep
<1>6. CASE \E w \in Worker : Buy(w) \/ Commit(w) \/ \E e \in EventId : Deliver(w, e)
  BY <1>1, <1>2, <1>3, <1>6
<1>7. QED
  BY <1>4, <1>5, <1>6 DEF Next

\* What a gateway sends about a link is about that link.
LEMMA GatewayEffects ==
    ASSUME TypeOK, GatewayStep
    PROVE  /\ UNCHANGED <<db, job>>
           /\ \A l \in Link : link[l] # None =>
                  link'[l] \in Page /\ link'[l].key = link[l].key
           /\ \A l \in Link : link[l] = None => link'[l] = None
           /\ \E e \in EventId, ev \in Event :
                 /\ sent[e] = None /\ sent' = [sent EXCEPT ![e] = ev]
                 /\ link[ev.link] # None /\ ev.ref \in {None, ev.link}
                 /\ ev.meta \in {None, link[ev.link].key}
<1>t. link \in [Link -> Page \cup {None}]
  BY DEF TypeOK
<1>1. PICK l \in Link, e \in EventId : Pay(l, e) \/ Refuse(l, e) \/ Refund(l, e)
  BY DEF GatewayStep
<1>2. link[l] \in Page
  BY <1>t, <1>1 DEF Pay, Refuse, Refund
<1>3. /\ \A m \in Link : link[m] # None =>
             link'[m] \in Page /\ link'[m].key = link[m].key
      /\ \A m \in Link : link[m] = None => link'[m] = None
  <2>1. CASE Pay(l, e)
    BY <1>t, <1>2, <2>1 DEF Pay, Page
  <2>2. CASE UNCHANGED link
    BY <1>t, <2>2
  <2>3. QED
    BY <1>1, <2>1, <2>2 DEF Refuse, Refund
<1>4. \E ev \in Event : Send(e, ev) /\ ev.link = l /\ ev.ref \in {None, l}
                                      /\ ev.meta \in {None, link[l].key}
  <2>1. \A t \in {"succeeded", "failed", "created", "refunded"}, m \in {None, link[l].key} :
           \A ev \in {Notice(l, t), [Notice(l, t) EXCEPT !.ref = None],
                       [Notice(l, t) EXCEPT !.meta = m],
                       [Notice(l, t) EXCEPT !.ref = None, !.meta = m]} :
              ev \in Event /\ ev.link = l /\ ev.ref \in {None, l}
                           /\ ev.meta \in {None, link[l].key}
    <3> SUFFICES ASSUME NEW t \in {"succeeded", "failed", "created", "refunded"},
                        NEW m \in {None, link[l].key},
                        NEW ev \in {Notice(l, t), [Notice(l, t) EXCEPT !.ref = None],
                                    [Notice(l, t) EXCEPT !.meta = m],
                                    [Notice(l, t) EXCEPT !.ref = None, !.meta = m]}
                 PROVE  ev \in Event /\ ev.link = l /\ ev.ref \in {None, l}
                                      /\ ev.meta \in {None, link[l].key}
      OBVIOUS
    <3>1. link[l] # None
      BY <1>1 DEF Pay, Refuse, Refund
    <3>2. PICK r \in {None, l}, x \in {None, link[l].key} :
              ev = [gateway |-> link[l].gateway, type |-> t,
                    ref |-> r, meta |-> x, link |-> l]
      <4>1. CASE ev = Notice(l, t)
        BY <4>1 DEF Notice
      <4>2. CASE ev = [Notice(l, t) EXCEPT !.ref = None]
        BY <4>2 DEF Notice
      <4>3. CASE ev = [Notice(l, t) EXCEPT !.meta = m]
        BY <4>3 DEF Notice
      <4>4. CASE ev = [Notice(l, t) EXCEPT !.ref = None, !.meta = m]
        BY <4>4 DEF Notice
      <4>5. QED
        BY <4>1, <4>2, <4>3, <4>4
    <3>3. link[l].gateway \in Gateway /\ link[l].key \in Key
      BY <1>2 DEF Page
    <3>4. QED
      BY <3>2, <3>3 DEF Event
  <2>2. CASE Pay(l, e)
    BY <2>1, <2>2 DEF Pay
  <2>3. CASE Refuse(l, e)
    BY <2>1, <2>3 DEF Refuse
  <2>4. CASE Refund(l, e)
    BY <2>1, <2>4 DEF Refund
  <2>5. QED
    BY <1>1, <2>2, <2>3, <2>4
<1>5. UNCHANGED <<db, job>>
  BY <1>1 DEF Pay, Refuse, Refund
<1>6. link[l] # None
  BY <1>1 DEF Pay, Refuse, Refund
<1>7. UNCHANGED job
  BY <1>1 DEF Pay, Refuse, Refund, Send
<1>8. \E f \in EventId, ev \in Event :
          /\ sent[f] = None /\ sent' = [sent EXCEPT ![f] = ev]
          /\ link[ev.link] # None /\ ev.ref \in {None, ev.link}
          /\ ev.meta \in {None, link[ev.link].key}
  <2>1. PICK ev \in Event : /\ Send(e, ev) /\ ev.link = l /\ ev.ref \in {None, l}
                            /\ ev.meta \in {None, link[l].key}
    BY <1>4
  <2>2. sent[e] = None /\ sent' = [sent EXCEPT ![e] = ev]
    BY <2>1 DEF Send
  <2>3. /\ link[ev.link] # None /\ ev.ref \in {None, ev.link}
        /\ ev.meta \in {None, link[ev.link].key}
    BY <1>6, <2>1
  <2>4. QED
    BY <2>2, <2>3
<1>9. QED
  BY <1>3, <1>5, <1>7, <1>8

\* Events stay as they were sent, links open for whom they were opened.
LEMMA Stays ==
    ASSUME TypeOK, [Next]_vars
    PROVE  /\ \A e \in EventId : sent[e] # None => sent'[e] = sent[e]
           /\ \A l \in Link : link[l] # None =>
                  link'[l] # None /\ link'[l].key = link[l].key
           /\ processed \subseteq processed'
<1>t. link \in [Link -> Page \cup {None}] /\ sent \in [EventId -> Event \cup {None}]
  BY DEF TypeOK
<1>1. CASE UNCHANGED <<link, sent>>
  <2>1. processed \subseteq processed'
    BY <1>1, Split DEF Aside, LinkCommit, PaidCommit, RefundCommit, DeletePost,
                     MarkStep, DeliverMarked, DeliverElsewhere, GatewayStep, Pay,
                     Refuse, Refund, db
  <2>2. QED
    BY <1>1, <2>1
<1>2. ASSUME NEW w \in Worker, NEW l \in Link, LinkCommit(w, l)
      PROVE  /\ UNCHANGED <<sent, processed>>
             /\ \A m \in Link : link[m] # None => link'[m] = link[m]
  BY <1>t, <1>2 DEF LinkCommit
<1>3. CASE GatewayStep
  BY <1>t, <1>3, GatewayEffects, NoneIsNobody DEF db
<1>4. QED
  BY <1>1, <1>2, <1>3, Split DEF Aside, PaidCommit, RefundCommit, DeletePost, MarkStep,
                                 DeliverMarked, DeliverElsewhere

\* Both lookups find the row the event's link was opened for.
LEMMA FoundIsOwned ==
    ASSUME Owned, NEW e \in EventId, sent[e] # None, NEW k \in Key
    PROVE  /\ \A S \in SUBSET Item : k \in ByRef(sent[e], S) => KeyOf(e) = k
           /\ k \in Refunded(sent[e]) => KeyOf(e) = k
<1>1. sent[e].ref \in {None, sent[e].link} /\ sent[e].meta \in {None, KeyOf(e)}
  BY DEF Owned, EventsOwned
<1>2. ASSUME unlock[k].ref # None, unlock[k].ref = sent[e].ref
      PROVE  KeyOf(e) = k
  BY <1>1, <1>2 DEF Owned, RowsOwned, KeyOf
<1>3. \A S \in SUBSET Item : k \in ByRef(sent[e], S) => KeyOf(e) = k
  BY <1>2 DEF ByRef, Present
<1>4. k \in Charged(sent[e]) => KeyOf(e) = k
  BY <1>2 DEF Charged, Owned, RowsOwned
<1>5. k = sent[e].meta => KeyOf(e) = k
  BY <1>1, NoneIsNobody
<1>6. k \in Refunded(sent[e]) => KeyOf(e) = k
  BY <1>4, <1>5 DEF Refunded, RefundedPost
<1>7. QED
  BY <1>3, <1>6

\* Every row that stores a link stores one of its own.
LEMMA RowsOwnedStep ==
    ASSUME Owned, [Next]_vars
    PROVE  RowsOwned'
<1>t. TypeOK /\ RowsOwned /\ unlock \in [Key -> Row]
  BY DEF Owned, TypeOK
<1>s. \A l \in Link : link[l] # None => link'[l] # None /\ link'[l].key = link[l].key
  BY <1>t, Stays
<1>r. \A k \in Key : unlock[k].ref \in Link \cup {None}
  BY <1>t DEF Row
<1>k. ASSUME NEW k \in Key, unlock'[k].ref = unlock[k].ref,
             unlock'[k].paid \/ unlock'[k].refunded => unlock[k].ref # None
      PROVE  /\ unlock'[k].ref # None =>
                    link'[unlock'[k].ref] # None /\ link'[unlock'[k].ref].key = k
             /\ unlock'[k].paid \/ unlock'[k].refunded => unlock'[k].ref # None
  BY <1>t, <1>s, <1>r, <1>k DEF RowsOwned
<1>1. CASE UNCHANGED unlock
  BY <1>t, <1>k, <1>1 DEF RowsOwned
<1>2. ASSUME NEW w \in Worker, NEW l \in Link, LinkCommit(w, l)
      PROVE  RowsOwned'
  <2> DEFINE k == job[w].key
  <2>1. /\ k \in Key /\ unlock'[k].ref = l /\ link'[l] \in Page /\ link'[l].key = k
        /\ \A x \in Key : x # k => unlock'[x] = unlock[x]
    BY <1>t, <1>2, LinkEffects
  <2>2. l # None /\ link'[l] # None
    BY <2>1, NoneIsNobody
  <2>3. QED
    BY <1>t, <1>k, <2>1, <2>2 DEF RowsOwned
<1>3. ASSUME NEW w \in Worker, PaidCommit(w)
      PROVE  RowsOwned'
  <2> DEFINE k == job[w].key
  <2>1. /\ k \in Key /\ unlock'[k].ref = unlock[k].ref
        /\ \A x \in Key : x # k => unlock'[x] = unlock[x]
        /\ unlock'[k].refunded = unlock[k].refunded
        /\ unlock'[k].paid = (unlock[k].paid \/ ~job[w].read.paid)
    BY <1>t, <1>3, PaidEffects
  <2>2. job[w].read.paid \/ unlock[k].ref # None
    BY <1>3 DEF PaidCommit, Present
  <2>3. unlock'[k].paid \/ unlock'[k].refunded => unlock[k].ref # None
    BY <1>t, <2>1, <2>2 DEF RowsOwned
  <2>4. QED
    BY <1>t, <1>k, <2>1, <2>3 DEF RowsOwned
<1>4. ASSUME NEW w \in Worker, RefundCommit(w)
      PROVE  RowsOwned'
  <2> DEFINE k == job[w].key
  <2>1. /\ k \in Key /\ unlock'[k].ref = unlock[k].ref
        /\ \A x \in Key : x # k => unlock'[x] = unlock[x]
    BY <1>t, <1>4, RefundEffects
  <2>2. unlock[k].ref # None
    BY <1>4 DEF RefundCommit, Present
  <2>3. QED
    BY <1>t, <1>k, <2>1, <2>2 DEF RowsOwned
<1>5. ASSUME NEW p \in Post, DeletePost(p)
      PROVE  RowsOwned'
  BY <1>t, <1>5 DEF DeletePost, RowsOwned, NoRow
<1>6. QED
  BY <1>1, <1>2, <1>3, <1>4, <1>5, <1>t, Split, GatewayEffects
  DEF Aside, db, MarkStep, DeliverMarked, DeliverElsewhere

\* Every event names the unlock and the buyer its link was opened for.
LEMMA EventsOwnedStep ==
    ASSUME Owned, [Next]_vars
    PROVE  EventsOwned'
<1>t. TypeOK /\ EventsOwned /\ sent \in [EventId -> Event \cup {None}]
  BY DEF Owned, TypeOK
<1>s. /\ \A l \in Link : link[l] # None => link'[l] # None /\ link'[l].key = link[l].key
      /\ \A e \in EventId : sent[e] # None => sent'[e] = sent[e]
  BY <1>t, Stays
<1>k. ASSUME NEW e \in EventId, sent[e] # None
      PROVE  /\ link'[sent'[e].link] # None
             /\ sent'[e].ref \in {None, sent'[e].link}
             /\ sent'[e].meta \in {None, link'[sent'[e].link].key}
  <2>1. sent[e].link \in Link
    BY <1>t, <1>k DEF Event
  <2>2. QED
    BY <1>t, <1>s, <1>k, <2>1 DEF EventsOwned, KeyOf
<1>1. CASE UNCHANGED sent
  BY <1>t, <1>k, <1>1 DEF EventsOwned, KeyOf
<1>2. CASE GatewayStep
  <2>1. PICK e \in EventId, ev \in Event :
            /\ sent[e] = None /\ sent' = [sent EXCEPT ![e] = ev]
            /\ link[ev.link] # None /\ ev.ref \in {None, ev.link}
            /\ ev.meta \in {None, link[ev.link].key}
    BY <1>t, <1>2, GatewayEffects
  <2>2. ev.link \in Link
    BY DEF Event
  <2>3. sent'[e] = ev /\ \A f \in EventId : f # e => sent'[f] = sent[f]
    BY <1>t, <2>1
  <2>4. link'[ev.link] # None /\ link'[ev.link].key = link[ev.link].key
    BY <1>s, <2>1, <2>2
  <2>5. QED
    BY <1>k, <2>1, <2>3, <2>4 DEF EventsOwned, KeyOf
<1>3. QED
  BY <1>1, <1>2, Split DEF Aside, LinkCommit, PaidCommit, RefundCommit, DeletePost,
                           MarkStep, DeliverMarked, DeliverElsewhere

\* Every handler works on the row its event is about.
LEMMA JobsOwnedStep ==
    ASSUME Owned, [Next]_vars
    PROVE  JobsOwned'
<1>t. TypeOK /\ JobsOwned /\ EventsOwned
  BY DEF Owned
<1>s. /\ \A l \in Link : link[l] # None => link'[l] # None /\ link'[l].key = link[l].key
      /\ \A e \in EventId : sent[e] # None => sent'[e] = sent[e]
  BY <1>t, Stays
<1>e. \A e \in EventId : sent[e] # None =>
          sent'[e] # None /\ sent'[e] = sent[e] /\ KeyOf(e)' = KeyOf(e)
  <2> SUFFICES ASSUME NEW e \in EventId, sent[e] # None
               PROVE  sent'[e] # None /\ sent'[e] = sent[e] /\ KeyOf(e)' = KeyOf(e)
    OBVIOUS
  <2>1. sent[e].link \in Link /\ link[sent[e].link] # None
    BY <1>t DEF TypeOK, Event, EventsOwned
  <2>2. QED
    BY <1>s, <2>1 DEF KeyOf
<1>k. ASSUME NEW w \in Worker, job'[w] = job[w] \/ job'[w].op \notin {"paid", "refund"}
      PROVE  JobOwned(w)'
  <2>1. CASE job'[w].op \notin {"paid", "refund"}
    BY <2>1 DEF JobOwned
  <2>2. CASE job'[w] = job[w] /\ job[w].op \in {"paid", "refund"}
    <3>1. job[w].event \in EventId
      BY <1>t, <2>2, JobFields DEF TypeOK
    <3>2. sent[job[w].event] # None /\ KeyOf(job[w].event) = job[w].key
          /\ sent[job[w].event].type =
                 (IF job[w].op = "paid" THEN "succeeded" ELSE "refunded")
      BY <1>t, <2>2 DEF JobsOwned, JobOwned
    <3>3. QED
      BY <1>e, <2>2, <3>1, <3>2 DEF JobOwned, KeyOf
  <2>3. QED
    BY <1>k, <2>1, <2>2
<1>1. CASE \A w \in Worker : job'[w] = job[w] \/ job'[w].op \notin {"paid", "refund"}
  BY <1>k, <1>1 DEF JobsOwned
<1>2. ASSUME NEW w \in Worker, NEW e \in EventId,
             DeliverPaidPost(w, e) \/ DeliverPaidMessage(w, e) \/ DeliverRefund(w, e)
      PROVE  JobsOwned'
  <2>1. PICK k \in Key, o \in {"paid", "refund"} :
            /\ Start(w, [op |-> o, key |-> k, event |-> e, read |-> unlock[k]])
            /\ sent[e] # None /\ KeyOf(e) = k
            /\ sent[e].type = (IF o = "paid" THEN "succeeded" ELSE "refunded")
    <3>1. CASE DeliverPaidPost(w, e)
      <4>1. PICK k \in ByRef(sent[e], Post) :
                Start(w, [op |-> "paid", key |-> k, event |-> e, read |-> unlock[k]])
        BY <3>1 DEF DeliverPaidPost
      <4>2. sent[e] # None /\ sent[e].type = "succeeded" /\ k \in Key
        BY <3>1 DEF DeliverPaidPost, Undelivered, OpensUnlock, ByRef
      <4>3. KeyOf(e) = k
        BY <4>1, <4>2, FoundIsOwned DEF Item
      <4>4. QED
        BY <4>1, <4>2, <4>3
    <3>2. CASE DeliverPaidMessage(w, e)
      <4>1. PICK k \in ByRef(sent[e], Message) :
                Start(w, [op |-> "paid", key |-> k, event |-> e, read |-> unlock[k]])
        BY <3>2 DEF DeliverPaidMessage
      <4>2. sent[e] # None /\ sent[e].type = "succeeded" /\ k \in Key
        BY <3>2 DEF DeliverPaidMessage, Undelivered, OpensUnlock, ByRef
      <4>3. KeyOf(e) = k
        BY <4>1, <4>2, FoundIsOwned DEF Item
      <4>4. QED
        BY <4>1, <4>2, <4>3
    <3>3. CASE DeliverRefund(w, e)
      <4>1. PICK k \in Refunded(sent[e]) :
                Start(w, [op |-> "refund", key |-> k, event |-> e, read |-> unlock[k]])
        BY <3>3 DEF DeliverRefund
      <4>2. sent[e] # None /\ sent[e].type = "refunded" /\ k \in Key
        BY <3>3 DEF DeliverRefund, Undelivered, Refunded, RefundedPost, Charged
      <4>3. KeyOf(e) = k
        BY <4>1, <4>2, FoundIsOwned
      <4>4. QED
        BY <4>1, <4>2, <4>3
    <3>4. QED
      BY <1>2, <3>1, <3>2, <3>3
  <2> DEFINE j == [op |-> o, key |-> k, event |-> e, read |-> unlock[k]]
  <2>2. job'[w] = j /\ \A x \in Worker : x # w => job'[x] = job[x]
    BY <1>t, <2>1 DEF Start, TypeOK
  <2>3. job'[w].event = e /\ job'[w].key = k /\ job'[w].op = o
    BY <2>2
  <2>4. sent'[e] # None /\ sent'[e] = sent[e] /\ KeyOf(e)' = KeyOf(e)
    BY <1>e, <2>1
  <2>5. JobOwned(w)'
    BY <2>1, <2>3, <2>4 DEF JobOwned, KeyOf
  <2>6. QED
    BY <1>k, <2>2, <2>5 DEF JobsOwned
<1>3. \/ \A w \in Worker : job'[w] = job[w] \/ job'[w].op \notin {"paid", "refund"}
      \/ \E w \in Worker, e \in EventId :
            DeliverPaidPost(w, e) \/ DeliverPaidMessage(w, e) \/ DeliverRefund(w, e)
  <2>1. \A w \in Worker : Finish(w) =>
            \A x \in Worker : job'[x] = job[x] \/ job'[x].op \notin {"paid", "refund"}
    BY <1>t DEF Finish, Idle, TypeOK
  <2>2. \A w \in Worker, k \in Key, g \in Gateway : BuyPost(w, k, g) \/ BuyMessage(w, k, g) =>
            \A x \in Worker : job'[x] = job[x] \/ job'[x].op \notin {"paid", "refund"}
    BY <1>t DEF BuyPost, BuyMessage, Start, TypeOK
  <2>3. QED
    BY <2>1, <2>2 DEF Next, Buy, Deliver, Commit, vars, LinkCommit, LinkConflict, Abort,
       CommitLost, PaidCommit, RefundCommit, DeletePost, DeliverDuplicate, DeliverMarked,
       DeliverElsewhere, DeliverRefundUnmatched, Pay, Refuse, Refund
<1>4. QED
  BY <1>1, <1>2, <1>3

\* A refund marks payment rows of the item it is about, and no others.
LEMMA ReturnsOwned ==
    ASSUME Owned, NEW e \in EventId, sent[e] # None, NEW k \in Key, KeyOf(e) = k,
           NEW x \in Returns(sent[e], k)
    PROVE  x \subseteq Completed /\ \A y \in x : y[2] = k
<1>1. sent[e].ref \in {None, sent[e].link} /\ sent[e].meta \in {None, k}
  BY DEF Owned, EventsOwned
<1>2. \A y \in Completed : y \in EventId \X Key /\ sent[y[1]] # None /\ KeyOf(y[1]) = y[2]
  BY DEF Owned, BooksOwned, Completed
<1>3. ASSUME NEW y \in RefundedPayment(sent[e], k)
      PROVE  y \in Completed /\ y[2] = k
  <2>1. y \in Completed
    BY <1>3 DEF RefundedPayment
  <2>2. CASE sent[y[1]].ref = sent[e].ref /\ sent[e].ref # None
    <3>1. y[1] \in EventId /\ sent[y[1]] # None
      BY <1>2, <2>1
    <3>2. sent[y[1]].link = sent[e].link
      BY <1>1, <2>2, <3>1 DEF Owned, EventsOwned
    <3>3. QED
      BY <1>2, <2>1, <3>2 DEF KeyOf
  <2>3. CASE y[2] = sent[e].meta
    BY <1>1, <1>2, <2>1, <2>3, NoneIsNobody
  <2>4. QED
    BY <1>3, <2>1, <2>2, <2>3 DEF RefundedPayment
<1>4. QED
  BY <1>3 DEF Returns

\* The keys of events that were sent do not change.
LEMMA KeysStay ==
    ASSUME Owned, [Next]_vars
    PROVE  \A e \in EventId : sent[e] # None =>
               sent'[e] # None /\ sent'[e] = sent[e] /\ KeyOf(e)' = KeyOf(e)
<1> SUFFICES ASSUME NEW e \in EventId, sent[e] # None
             PROVE  sent'[e] # None /\ sent'[e] = sent[e] /\ KeyOf(e)' = KeyOf(e)
  OBVIOUS
<1>1. sent[e].link \in Link /\ link[sent[e].link] # None
  BY DEF Owned, TypeOK, Event, EventsOwned
<1>2. QED
  BY <1>1, Stays DEF KeyOf, Owned

\* Every ledger row was booked for the event it names.
LEMMA BooksOwnedStep ==
    ASSUME Owned, [Next]_vars
    PROVE  BooksOwned'
<1>t. TypeOK /\ BooksOwned /\ booked \in [EventId \X Key -> Nat]
      /\ returned \subseteq EventId \X Key
  BY DEF Owned, TypeOK
<1>k. processed \subseteq processed'
      /\ \A e \in EventId : sent[e] # None =>
             sent'[e] # None /\ KeyOf(e)' = KeyOf(e)
  BY <1>t, Stays, KeysStay
<1>1. CASE UNCHANGED <<booked, returned>>
  BY <1>t, <1>k, <1>1 DEF BooksOwned
<1>2. ASSUME NEW w \in Worker, PaidCommit(w)
      PROVE  BooksOwned'
  <2> DEFINE k == job[w].key
             e == job[w].event
  <2>1. k \in Key /\ e \in EventId
    BY <1>t, <1>2, PaidEffects
  <2>2. sent[e] # None /\ KeyOf(e) = k
    BY <1>2 DEF Owned, JobsOwned, JobOwned, PaidCommit
  <2>3. /\ \A x \in EventId \X Key : x # <<e, k>> => booked'[x] = booked[x]
        /\ booked'[<<e, k>>] >= booked[<<e, k>>]
        /\ e \in processed' /\ returned' = returned
    BY <1>t, <1>2, <2>1 DEF PaidCommit
  <2> HIDE DEF k, e
  <2>4. \A x \in returned' : booked'[x] > 0
    <3> SUFFICES ASSUME NEW x \in returned
                 PROVE  booked'[x] > 0
      BY <2>3
    <3>1. booked[x] > 0 /\ x \in EventId \X Key
      BY <1>t DEF BooksOwned
    <3>2. CASE x = <<e, k>>
      <4>1. booked[x] \in Nat /\ booked'[x] >= booked[x]
        BY <1>t, <2>3, <3>1, <3>2
      <4>2. booked' \in [EventId \X Key -> Nat]
        BY <1>t, TypeStep DEF TypeOK
      <4>3. QED
        BY <3>1, <4>1, <4>2
    <3>3. CASE x # <<e, k>>
      BY <2>3, <3>1, <3>3
    <3>4. QED
      BY <3>2, <3>3
  <2>5. ASSUME NEW f \in EventId, NEW j \in Key, booked'[<<f, j>>] > 0
        PROVE  f \in processed' /\ sent'[f] # None /\ KeyOf(f)' = j
    <3>1. CASE <<f, j>> = <<e, k>>
      BY <1>k, <2>1, <2>2, <2>3, <3>1
    <3>2. CASE <<f, j>> # <<e, k>>
      <4>1. booked[<<f, j>>] > 0
        BY <2>3, <2>5, <3>2
      <4>2. QED
        BY <1>t, <1>k, <4>1 DEF BooksOwned
    <3>3. QED
      BY <3>1, <3>2
  <2>6. QED
    BY <2>4, <2>5 DEF BooksOwned
<1>3. ASSUME NEW w \in Worker, RefundCommit(w)
      PROVE  BooksOwned'
  <2> DEFINE k == job[w].key
             e == job[w].event
  <2>1. k \in Key /\ e \in EventId
    BY <1>t, <1>3, RefundEffects
  <2>2. PICK x \in Returns(sent[e], k) : returned' = returned \cup x
    BY <1>3 DEF RefundCommit
  <2>3. x \subseteq Completed
    BY <2>1, <2>2, ReturnsType
  <2>4. booked' = booked
    BY <1>3 DEF RefundCommit
  <2>5. \A y \in returned' : booked'[y] > 0
    BY <1>t, <2>2, <2>3, <2>4 DEF BooksOwned, Completed
  <2>6. QED
    BY <1>t, <1>k, <2>4, <2>5 DEF BooksOwned
<1>4. QED
  BY <1>1, <1>2, <1>3, <1>t, Split, GatewayEffects
  DEF Aside, db, LinkCommit, DeletePost, MarkStep, DeliverMarked, DeliverElsewhere

\* Nothing was sold yet.
LEMMA OwnedInit == Init => Owned
<1>1. Init => TypeOK
  BY JobMembers DEF Init, TypeOK, NoRow, Row
<1>2. Init => RowsOwned /\ EventsOwned /\ JobsOwned
  BY DEF Init, NoRow, Idle, RowsOwned, EventsOwned, JobsOwned, JobOwned
<1>3. Init => BooksOwned
  BY DEF Init, BooksOwned
<1>4. QED
  BY <1>1, <1>2, <1>3 DEF Owned

\* Every step keeps links, events, handlers and payments with their owner.
LEMMA OwnedStep == Owned /\ [Next]_vars => Owned'
BY TypeStep, RowsOwnedStep, EventsOwnedStep, JobsOwnedStep, BooksOwnedStep DEF Owned

\* Ownership of links is an invariant.
LEMMA OwnedAlways == Spec => []Owned
BY OwnedInit, OwnedStep, PTL DEF Spec

----------------------------------------------------------------------------
(* The ledger.                                                             *)

\* A step settles, books or returns as RevenueLedger allows, or stutters.
LEMMA LedgerStep ==
    ASSUME Owned, [Next]_vars
    PROVE  [Ledger!Next]_(Ledger!vars)
<1>t. TypeOK /\ BooksOwned /\ booked \in [EventId \X Key -> Nat]
  BY DEF Owned, TypeOK
<1>1. CASE UNCHANGED <<processed, booked>>
  BY <1>1 DEF Ledger!vars
<1>2. ASSUME NEW w \in Worker, PaidCommit(w)
      PROVE  Ledger!Next
  <2> DEFINE k == job[w].key
             e == job[w].event
  <2>1. k \in Key /\ e \in EventId
    BY <1>t, <1>2, PaidEffects
  <2>2. e \notin processed /\ processed' = processed \cup {e}
    BY <1>2 DEF PaidCommit, Markable
  <2>3. booked[<<e, k>>] = 0
    BY <1>t, <2>1, <2>2 DEF BooksOwned
  <2>4. booked' = [booked EXCEPT ![<<e, k>>] =
                      IF Books(job[w].read) THEN @ + 1 ELSE @]
    BY <1>2 DEF PaidCommit
  <2> HIDE DEF k, e
  <2>5. UNCHANGED booked \/ booked' = [booked EXCEPT ![<<e, k>>] = 1]
    <3> DEFINE x == <<e, k>>
    <3>1. x \in EventId \X Key /\ booked[x] = 0
      BY <2>1, <2>3
    <3>2. booked' = [booked EXCEPT ![x] = IF Books(job[w].read) THEN @ + 1 ELSE @]
      BY <2>4
    <3> HIDE DEF x
    <3>3. CASE Books(job[w].read)
      <4>1. booked' = [booked EXCEPT ![x] = booked[x] + 1]
        BY <3>2, <3>3
      <4>2. booked' = [booked EXCEPT ![x] = 1]
        BY <3>1, <4>1
      <4>3. QED
        BY <4>2 DEF x
    <3>4. CASE ~Books(job[w].read)
      BY <1>t, <3>1, <3>2, <3>4
    <3>5. QED
      BY <3>3, <3>4
  <2>6. QED
    BY <2>1, <2>2, <2>5 DEF Ledger!Next, Ledger!Settle
<1>3. ASSUME NEW w \in Worker, RefundCommit(w)
      PROVE  Ledger!Next
  <2>1. job[w].event \in EventId
    BY <1>t, <1>3, RefundEffects
  <2>2. QED
    BY <1>3, <2>1 DEF RefundCommit, Markable, Ledger!Next, Ledger!Settle
<1>4. CASE MarkStep
  BY <1>4 DEF MarkStep, DeliverMarked, DeliverElsewhere, Undelivered,
              Ledger!Next, Ledger!Settle, Ledger!vars
<1>5. QED
  BY <1>1, <1>2, <1>3, <1>4, <1>t, Split, GatewayEffects
  DEF Aside, db, LinkCommit, DeletePost

\* However its deliveries overlap with each other and with new purchases, an
\* event of an unlock is settled once: handle_paid and handle_refunded
\* implement RevenueLedger.
THEOREM UnlockLedger == Spec => ImplementsLedger
<1>1. Init => Ledger!Init
  BY DEF Init, Ledger!Init
<1>2. Owned /\ [Next]_vars => [Ledger!Next]_(Ledger!vars)
  BY LedgerStep
<1>3. QED
  BY OwnedAlways, <1>1, <1>2, PTL DEF Spec, ImplementsLedger, Ledger!Spec

----------------------------------------------------------------------------
(* Access is paid for.                                                     *)

PaidFor(k) ==
    \E e \in processed : /\ e \in EventId /\ sent[e] # None
                          /\ sent[e].type = "succeeded" /\ KeyOf(e) = k

PaidRows == \A k \in Key : unlock[k].paid => PaidFor(k)

\* A reported payment stays reported.
LEMMA PaidForStays ==
    ASSUME Owned, [Next]_vars, NEW k \in Key, PaidFor(k)
    PROVE  PaidFor(k)'
<1>1. PICK e \in processed : /\ e \in EventId /\ sent[e] # None
                              /\ sent[e].type = "succeeded" /\ KeyOf(e) = k
  BY DEF PaidFor
<1>2. e \in processed'
  BY Stays, <1>1 DEF Owned
<1>3. sent'[e] # None /\ sent'[e] = sent[e] /\ KeyOf(e)' = k
  BY KeysStay, <1>1
<1>4. QED
  BY <1>1, <1>2, <1>3 DEF PaidFor

\* Open rows stay paid for.
LEMMA PaidRowsStep ==
    ASSUME Owned, PaidRows, [Next]_vars
    PROVE  PaidRows'
<1>t. TypeOK /\ \A k \in Key : PaidFor(k) => PaidFor(k)'
  BY PaidForStays DEF Owned
<1>1. CASE \A k \in Key : unlock'[k].paid => unlock[k].paid
  BY <1>t, <1>1 DEF PaidRows
<1>2. ASSUME NEW w \in Worker, NEW l \in Link, LinkCommit(w, l)
      PROVE  \A k \in Key : unlock'[k].paid => unlock[k].paid
  BY <1>t, <1>2, LinkEffects
<1>3. ASSUME NEW w \in Worker, PaidCommit(w)
      PROVE  PaidRows'
  <2>1. PICK k \in Key, e \in EventId : k = job[w].key /\ e = job[w].event
    BY <1>t, <1>3, PaidEffects
  <2>2. \A x \in Key : x # k => unlock'[x] = unlock[x]
    BY <1>t, <1>3, <2>1, PaidEffects
  <2>3. sent[e] # None /\ KeyOf(e) = k /\ sent[e].type = "succeeded"
    BY <1>3, <2>1 DEF Owned, JobsOwned, JobOwned, PaidCommit
  <2>4. e \in processed'
    BY <1>3, <2>1 DEF PaidCommit
  <2>5. sent'[e] # None /\ sent'[e] = sent[e] /\ KeyOf(e)' = k
    BY <2>3, KeysStay
  <2>6. PaidFor(k)'
    BY <2>3, <2>4, <2>5 DEF PaidFor
  <2>7. QED
    BY <1>t, <2>2, <2>6 DEF PaidRows
<1>4. ASSUME NEW w \in Worker, RefundCommit(w)
      PROVE  \A k \in Key : unlock'[k].paid => unlock[k].paid
  BY <1>t, <1>4, RefundEffects
<1>5. ASSUME NEW p \in Post, DeletePost(p)
      PROVE  \A k \in Key : unlock'[k].paid => unlock[k].paid
  BY <1>t, <1>5 DEF DeletePost, NoRow, TypeOK
<1>6. QED
  BY <1>1, <1>2, <1>3, <1>4, <1>5, <1>t, Split, GatewayEffects
  DEF Aside, db, MarkStep, DeliverMarked, DeliverElsewhere

\* However purchases, payments, refunds and redeliveries overlap, an item is
\* open only to somebody for whose link of that item a payment was reported
\* (handle_paid is the only way to open it).
THEOREM OpenOnlyPaid == Spec => []OpenIsPaid
<1>1. Init => PaidRows
  BY DEF Init, PaidRows, NoRow
<1>2. Owned /\ PaidRows /\ [Next]_vars => PaidRows'
  BY PaidRowsStep
<1>3. PaidRows => OpenIsPaid
  BY DEF PaidRows, PaidFor, KeyOf, OpenIsPaid, Open
<1>4. QED
  BY OwnedAlways, <1>1, <1>2, <1>3, PTL DEF Spec

----------------------------------------------------------------------------
(* Access and revenue.                                                     *)

\* Refunds of k that took effect, and what an open row is covered by.
Refunders(k) ==
    {e \in processed : /\ e \in EventId /\ sent[e] # None
                       /\ sent[e].type = "refunded" /\ KeyOf(e) = k}

Covered(k) ==
    \/ \E x \in Completed : x[2] = k
    \/ \E e, f \in Refunders(k) : e # f

\* A purchase under way that found the row refunded and unpaid: since then, a
\* late payment has booked a row of its own, and a refund of that payment is
\* the second one.
BuyerCovered(w) ==
    job[w].op = "link" /\ job[w].read.refunded =>
        /\ Refunders(job[w].key) # {}
        /\ unlock[job[w].key].paid /\ ~job[w].read.paid => Covered(job[w].key)

CountedInv ==
    /\ \A k \in Key : unlock[k].refunded => Refunders(k) # {}
    /\ \A k \in Key : Open(k) => Covered(k)
    /\ \A w \in Worker : BuyerCovered(w)

\* Refunds that took effect stay in effect.
LEMMA RefundersStay ==
    ASSUME Owned, [Next]_vars, NEW k \in Key
    PROVE  Refunders(k) \subseteq Refunders(k)'
<1> SUFFICES ASSUME NEW e \in Refunders(k)
             PROVE  e \in Refunders(k)'
  OBVIOUS
<1>1. e \in processed /\ e \in EventId /\ sent[e] # None
      /\ sent[e].type = "refunded" /\ KeyOf(e) = k
  BY DEF Refunders
<1>2. e \in processed' /\ sent'[e] # None /\ sent'[e] = sent[e] /\ KeyOf(e)' = k
  BY Stays, KeysStay, <1>1 DEF Owned
<1>3. QED
  BY <1>1, <1>2 DEF Refunders

\* A refund is its row's refunder, and a new one.
LEMMA RefundCounts ==
    ASSUME Owned, [Next]_vars, NEW w \in Worker, RefundCommit(w),
           NEW k \in Key, k = job[w].key, NEW e \in EventId, e = job[w].event
    PROVE  e \in Refunders(k)' /\ e \notin Refunders(k)
<1>1. sent[e] # None /\ KeyOf(e) = k /\ sent[e].type = "refunded"
  BY DEF Owned, JobsOwned, JobOwned, RefundCommit
<1>2. e \notin processed /\ e \in processed'
  BY DEF RefundCommit, Markable
<1>3. sent'[e] # None /\ sent'[e] = sent[e] /\ KeyOf(e)' = k
  BY <1>1, KeysStay
<1>4. QED
  BY <1>1, <1>2, <1>3 DEF Refunders

\* What covers a row goes on doing so, but for a refund of that row.
LEMMA CoveredStays ==
    ASSUME Owned, [Next]_vars, NEW k \in Key, Covered(k),
           \A w \in Worker : RefundCommit(w) => job[w].key # k
    PROVE  Covered(k)'
<1>t. TypeOK /\ booked \in [EventId \X Key -> Nat] /\ returned \subseteq EventId \X Key
  BY DEF Owned, TypeOK
<1>1. CASE \E e, f \in Refunders(k) : e # f
  BY <1>1, RefundersStay DEF Covered
<1>2. CASE \E x \in Completed : x[2] = k
  <2>1. PICK x \in Completed : x[2] = k
    BY <1>2
  <2>2. x \in EventId \X Key /\ booked[x] > 0 /\ x \notin returned
    BY <2>1 DEF Completed
  <2>3. booked'[x] > 0
    <3>1. CASE UNCHANGED booked
      BY <2>2, <3>1
    <3>2. ASSUME NEW w \in Worker, PaidCommit(w)
          PROVE  booked'[x] > 0
      <4>1. PICK j \in Key, e \in EventId : j = job[w].key /\ e = job[w].event
        BY <1>t, <3>2, PaidEffects
      <4>2. booked' = [booked EXCEPT ![<<e, j>>] =
                          IF Books(job[w].read) THEN @ + 1 ELSE @]
        BY <3>2, <4>1 DEF PaidCommit
      <4>3. QED
        BY <1>t, <2>2, <4>1, <4>2
    <3>3. QED
      BY <3>1, <3>2, <1>t, Split, GatewayEffects
      DEF Aside, db, LinkCommit, RefundCommit, DeletePost, MarkStep,
          DeliverMarked, DeliverElsewhere
  <2>4. x \notin returned'
    <3>1. CASE UNCHANGED returned
      BY <2>2, <3>1
    <3>2. ASSUME NEW w \in Worker, RefundCommit(w)
          PROVE  x \notin returned'
      <4>1. PICK j \in Key, e \in EventId : j = job[w].key /\ e = job[w].event
        BY <1>t, <3>2, RefundEffects
      <4>2. PICK y \in Returns(sent[e], j) : returned' = returned \cup y
        BY <3>2, <4>1 DEF RefundCommit
      <4>3. sent[e] # None /\ KeyOf(e) = j /\ j # k
        BY <3>2, <4>1 DEF Owned, JobsOwned, JobOwned, RefundCommit
      <4>4. \A z \in y : z[2] = j
        BY <4>2, <4>3, ReturnsOwned
      <4>5. QED
        BY <2>1, <2>2, <4>2, <4>3, <4>4
    <3>3. QED
      BY <3>1, <3>2, <1>t, Split, GatewayEffects
      DEF Aside, db, LinkCommit, PaidCommit, DeletePost, MarkStep,
          DeliverMarked, DeliverElsewhere
  <2>5. QED
    BY <2>1, <2>2, <2>3, <2>4 DEF Covered, Completed
<1>3. QED
  BY <1>1, <1>2 DEF Covered

\* A payment that opens a row covers it.
LEMMA PaymentCovers ==
    ASSUME Owned, [Next]_vars, NEW w \in Worker, PaidCommit(w), ~job[w].read.paid,
           NEW k \in Key, k = job[w].key
    PROVE  Covered(k)'
<1>t. TypeOK /\ booked \in [EventId \X Key -> Nat] /\ BooksOwned
  BY DEF Owned, TypeOK
<1>1. PICK e \in EventId : e = job[w].event
  BY <1>t, PaidEffects
<1>2. booked[<<e, k>>] = 0 /\ <<e, k>> \notin returned
  BY <1>t, <1>1 DEF BooksOwned, PaidCommit, Markable
<1>3. booked' = [booked EXCEPT ![<<e, k>>] = @ + 1] /\ returned' = returned
  BY <1>1 DEF PaidCommit, Books
<1>4. booked'[<<e, k>>] = 1
  BY <1>t, <1>1, <1>2, <1>3
<1>5. <<e, k>> \in Completed'
  BY <1>1, <1>2, <1>3, <1>4 DEF Completed
<1>6. QED
  BY <1>5 DEF Covered

\* Jobs that are not touched, while rows only close and covers only grow.
LEMMA BuyerStays ==
    ASSUME Owned, [Next]_vars, NEW w \in Worker, BuyerCovered(w),
           job'[w] = job[w] \/ job'[w] = Idle,
           NEW k \in Key, k = job[w].key,
           \/ unlock'[k].paid => unlock[k].paid /\ (Covered(k) => Covered(k)')
           \/ Covered(k)'
           \/ Refunders(k) # {} => Covered(k)'
    PROVE  BuyerCovered(w)'
<1>1. CASE job'[w] = Idle
  BY <1>1 DEF BuyerCovered, Idle
<1>2. CASE job'[w] = job[w]
  <2> SUFFICES ASSUME job[w].op = "link", job[w].read.refunded
               PROVE  /\ Refunders(k)' # {}
                      /\ unlock'[k].paid /\ ~job[w].read.paid => Covered(k)'
    BY <1>2 DEF BuyerCovered
  <2>1. Refunders(k) # {} /\ (unlock[k].paid /\ ~job[w].read.paid => Covered(k))
    BY DEF BuyerCovered
  <2>2. Refunders(k)' # {}
    BY <2>1, RefundersStay
  <2>3. QED
    BY <2>1, <2>2
<1>3. QED
  BY <1>1, <1>2

\* Where no row changes, whoever begins to buy has the row before him.
LEMMA BuyersRead ==
    ASSUME Owned, [Next]_vars, UNCHANGED unlock, NEW w \in Worker,
           \A x \in Worker, l \in Link : ~LinkCommit(x, l)
    PROVE  \/ job'[w] = job[w]
           \/ job'[w].op # "link"
           \/ \E k \in Key : job'[w].key = k /\ job'[w].read = unlock[k]
<1>t. job \in [Worker -> Job]
  BY DEF Owned, TypeOK
<1>1. ASSUME NEW x \in Worker, Finish(x)
      PROVE  job'[w] = job[w] \/ job'[w].op # "link"
  BY <1>t, <1>1 DEF Finish, Idle
<1>2. ASSUME NEW x \in Worker, NEW k \in Key, NEW g \in Gateway,
             BuyPost(x, k, g) \/ BuyMessage(x, k, g)
      PROVE  job'[w] = job[w] \/ (job'[w].key = k /\ job'[w].read = unlock[k])
  BY <1>t, <1>2 DEF BuyPost, BuyMessage, Start
<1>3. ASSUME NEW x \in Worker, NEW e \in EventId,
             DeliverPaidPost(x, e) \/ DeliverPaidMessage(x, e) \/ DeliverRefund(x, e)
      PROVE  job'[w] = job[w] \/ job'[w].op # "link"
  BY <1>t, <1>3 DEF DeliverPaidPost, DeliverPaidMessage, DeliverRefund, Start
<1>4. QED
  BY <1>1, <1>2, <1>3 DEF Next, Buy, Deliver, Commit, vars, LinkConflict, Abort,
     CommitLost, PaidCommit, RefundCommit, DeletePost, DeliverDuplicate, DeliverMarked,
     DeliverElsewhere, DeliverRefundUnmatched, Pay, Refuse, Refund

\* The strengthened counting invariant is kept by every step.
LEMMA CountedStep ==
    ASSUME Owned, CountedInv, [Next]_vars
    PROVE  CountedInv'
<1>t. TypeOK /\ unlock \in [Key -> Row] /\ job \in [Worker -> Job]
  BY DEF Owned, TypeOK
<1>i. /\ \A k \in Key : unlock[k].refunded => Refunders(k) # {}
      /\ \A k \in Key : Open(k) => Covered(k)
      /\ \A w \in Worker : BuyerCovered(w)
  BY DEF CountedInv
<1>r. \A k \in Key : Refunders(k) # {} => Refunders(k)' # {}
  BY RefundersStay
<1>j. \A w \in Worker : job[w].op = "link" => job[w].key \in Key
  BY <1>t, JobFields
<1>b. ASSUME NEW w \in Worker, job'[w] = job[w] \/ job'[w] = Idle,
             \A k \in Key : k = job[w].key =>
                 \/ unlock'[k].paid => unlock[k].paid /\ (Covered(k) => Covered(k)')
                 \/ Covered(k)'
                 \/ Refunders(k) # {} => Covered(k)'
      PROVE  BuyerCovered(w)'
  <2>1. CASE job[w].op = "link"
    BY <1>i, <1>j, <1>b, <2>1, BuyerStays
  <2>2. CASE job[w].op # "link"
    BY <1>b, <2>2 DEF BuyerCovered, Idle
  <2>3. QED
    BY <2>1, <2>2
<1>1. ASSUME NEW w \in Worker, RefundCommit(w)
      PROVE  CountedInv'
  <2>1. PICK k \in Key, e \in EventId : k = job[w].key /\ e = job[w].event
    BY <1>t, <1>1, RefundEffects
  <2>2. /\ \A x \in Key : x # k => unlock'[x] = unlock[x]
        /\ unlock'[k].refunded
    BY <1>t, <1>1, <2>1, RefundEffects
  <2>3. e \in Refunders(k)' /\ e \notin Refunders(k)
    BY <1>1, <2>1, RefundCounts
  <2>4. \A v \in Worker : v # w => job'[v] = job[v]
    BY <1>t, <1>1 DEF RefundCommit, Finish
  <2>5. job'[w] = Idle
    BY <1>t, <1>1 DEF RefundCommit, Finish
  <2>6. \A v \in Worker : RefundCommit(v) => v = w
    <3> SUFFICES ASSUME NEW v \in Worker, RefundCommit(v), v # w
                 PROVE  FALSE
      OBVIOUS
    <3>1. job'[v] = Idle /\ job[v].op = "refund"
      BY <1>t DEF RefundCommit, Finish
    <3>2. QED
      BY <2>4, <3>1 DEF Idle
  <2>7. \A x \in Key : x # k => (Covered(x) => Covered(x)')
    BY <2>1, <2>6, CoveredStays
  <2>8. \A x \in Key : unlock'[x].refunded => Refunders(x)' # {}
    BY <1>i, <1>r, <2>2, <2>3
  <2>9. \A x \in Key : Open(x)' => Covered(x)'
    BY <1>i, <2>2, <2>7 DEF Open
  <2>10. Refunders(k) # {} => Covered(k)'
    BY <2>3, RefundersStay DEF Covered
  <2>11. ASSUME NEW v \in Worker
         PROVE  BuyerCovered(v)'
    <3>1. \A x \in Key :
              \/ unlock'[x].paid => unlock[x].paid /\ (Covered(x) => Covered(x)')
              \/ Refunders(x) # {} => Covered(x)'
      BY <2>2, <2>7, <2>10
    <3>2. job'[v] = job[v] \/ job'[v] = Idle
      BY <2>4, <2>5
    <3>3. QED
      BY <1>b, <3>1, <3>2
  <2>12. QED
    BY <2>8, <2>9, <2>11 DEF CountedInv
<1>2. CASE \A w \in Worker : ~RefundCommit(w)
  <2>c. \A k \in Key : Covered(k) => Covered(k)'
    BY <1>2, CoveredStays
  <2>1. ASSUME NEW w \in Worker, PaidCommit(w)
        PROVE  CountedInv'
    <3>1. PICK k \in Key : k = job[w].key
      BY <1>t, <2>1, PaidEffects
    <3>2. /\ \A x \in Key : x # k => unlock'[x] = unlock[x]
          /\ unlock'[k].refunded = unlock[k].refunded
          /\ unlock'[k].paid = (unlock[k].paid \/ ~job[w].read.paid)
      BY <1>t, <2>1, <3>1, PaidEffects
    <3>3. ~job[w].read.paid => Covered(k)'
      BY <2>1, <3>1, PaymentCovers
    <3>4. \A x \in Key : unlock'[x].refunded => Refunders(x)' # {}
      BY <1>i, <1>r, <3>2
    <3>5. \A x \in Key : Open(x)' => Covered(x)'
      BY <1>i, <2>c, <3>2, <3>3 DEF Open
    <3>6. ASSUME NEW v \in Worker
          PROVE  BuyerCovered(v)'
      <4>1. \A x \in Key :
                \/ unlock'[x].paid => unlock[x].paid /\ (Covered(x) => Covered(x)')
                \/ Covered(x)'
        BY <2>c, <3>2, <3>3
      <4>2. job'[v] = job[v] \/ job'[v] = Idle
        BY <1>t, <2>1 DEF PaidCommit, Finish
      <4>3. QED
        BY <1>b, <4>1, <4>2
    <3>7. QED
      BY <3>4, <3>5, <3>6 DEF CountedInv
  <2>2. ASSUME NEW w \in Worker, NEW l \in Link, LinkCommit(w, l)
        PROVE  CountedInv'
    <3>1. PICK k \in Key : k = job[w].key
      BY <1>t, <2>2, LinkEffects
    <3>2. /\ \A x \in Key : x # k => unlock'[x] = unlock[x]
          /\ unlock'[k].refunded = (unlock[k].refunded /\ ~job[w].read.refunded)
          /\ unlock'[k].paid = (unlock[k].paid /\ ~job[w].read.paid)
      BY <1>t, <2>2, <3>1, LinkEffects
    <3>3. job[w].op = "link" /\ BuyerCovered(w)
      BY <1>i, <2>2 DEF LinkCommit
    <3>4. \A x \in Key : unlock'[x].refunded => Refunders(x)' # {}
      BY <1>i, <1>r, <3>2
    <3>5. Open(k)' => Covered(k)
      BY <1>i, <3>1, <3>2, <3>3 DEF Open, BuyerCovered
    <3>6. \A x \in Key : Open(x)' => Covered(x)'
      BY <1>i, <2>c, <3>2, <3>5 DEF Open
    <3>7. ASSUME NEW v \in Worker
          PROVE  BuyerCovered(v)'
      <4>1. \A x \in Key : unlock'[x].paid => unlock[x].paid /\ (Covered(x) => Covered(x)')
        BY <2>c, <3>2
      <4>2. job'[v] = job[v] \/ job'[v] = Idle
        BY <1>t, <2>2 DEF LinkCommit, Finish
      <4>3. QED
        BY <1>b, <4>1, <4>2
    <3>8. QED
      BY <3>4, <3>6, <3>7 DEF CountedInv
  <2>3. ASSUME NEW p \in Post, DeletePost(p)
        PROVE  CountedInv'
    <3>1. \A x \in Key :
              \/ unlock'[x] = unlock[x]
              \/ ~unlock'[x].paid /\ ~unlock'[x].refunded
      BY <1>t, <2>3 DEF DeletePost, NoRow
    <3>2. \A x \in Key : unlock'[x].refunded => Refunders(x)' # {}
      BY <1>i, <1>r, <3>1
    <3>3. \A x \in Key : Open(x)' => Covered(x)'
      BY <1>i, <2>c, <3>1 DEF Open
    <3>4. \A v \in Worker : BuyerCovered(v)'
      BY <1>b, <2>3, <2>c, <3>1 DEF DeletePost
    <3>5. QED
      BY <3>2, <3>3, <3>4 DEF CountedInv
  <2>4. CASE UNCHANGED unlock /\ \A x \in Worker, l \in Link : ~LinkCommit(x, l)
    <3>1. \A x \in Key : unlock'[x].refunded => Refunders(x)' # {}
      BY <1>i, <1>r, <2>4
    <3>2. \A x \in Key : Open(x)' => Covered(x)'
      BY <1>i, <2>c, <2>4 DEF Open
    <3>3. ASSUME NEW v \in Worker
          PROVE  BuyerCovered(v)'
      <4>1. CASE job'[v] = job[v]
        BY <1>b, <2>4, <2>c, <4>1
      <4>2. CASE job'[v].op # "link"
        BY <4>2 DEF BuyerCovered
      <4>3. ASSUME NEW k \in Key, job'[v].key = k, job'[v].read = unlock[k]
            PROVE  BuyerCovered(v)'
        <5>1. unlock[k].refunded => Refunders(k)' # {}
          BY <1>i, <1>r
        <5>2. QED
          BY <2>4, <4>3, <5>1 DEF BuyerCovered
      <4>4. QED
        BY <2>4, <4>1, <4>2, <4>3, BuyersRead
    <3>4. QED
      BY <3>1, <3>2, <3>3 DEF CountedInv
  <2>5. QED
    BY <1>t, <1>2, <2>1, <2>2, <2>3, <2>4, Split, GatewayEffects
    DEF Aside, db, MarkStep, DeliverMarked, DeliverElsewhere
<1>3. QED
  BY <1>1, <1>2

\* An open item has a payment row that was not refunded, or two refunds of it
\* took effect (handle_paid and handle_refunded book in the transaction that
\* opens and closes).
THEOREM OpenCounted == Spec => []OpenIsCounted
<1>1. Init => CountedInv
  BY DEF Init, CountedInv, NoRow, Open, Idle, BuyerCovered
<1>2. Owned /\ CountedInv /\ [Next]_vars => CountedInv'
  BY CountedStep
<1>3. CountedInv => OpenIsCounted
  <2>1. \A k \in Key : Refunders(k) \subseteq RefundsOf(k)
    BY DEF Refunders, RefundsOf, KeyOf
  <2>2. QED
    BY <2>1 DEF CountedInv, Covered, OpenIsCounted
<1>4. QED
  BY OwnedAlways, <1>1, <1>2, <1>3, PTL DEF Spec

----------------------------------------------------------------------------
(* Acknowledged payments.                                                  *)

Settled == processed \cup acked

Matches(e, k) ==
    /\ sent[e].type = "succeeded"
    /\ Present(k) /\ unlock[k].ref = sent[e].ref /\ unlock[k].gateway = sent[e].gateway

\* A payment's handler that found its row paid already: the row still is, or
\* was refunded or given a new link since.
PayerSettled(w) ==
    job[w].op = "paid" /\ job[w].read.paid =>
        (Matches(job[w].event, job[w].key) =>
            unlock[job[w].key].paid \/ unlock[job[w].key].refunded)

AckedInv ==
    /\ \A e \in Settled : e \in EventId /\ sent[e] # None
    /\ \A e \in Settled, k \in Key :
          Matches(e, k) => unlock[k].paid \/ unlock[k].refunded
    /\ \A w \in Worker : PayerSettled(w)

\* A row matches only events of its own link.
LEMMA MatchesOwned ==
    ASSUME Owned, NEW e \in EventId, sent[e] # None, NEW k \in Key, Matches(e, k)
    PROVE  KeyOf(e) = k
<1>1. sent[e].ref # None /\ sent[e].ref = sent[e].link /\ unlock[k].ref = sent[e].link
  BY DEF Matches, Present, Owned, EventsOwned
<1>2. QED
  BY <1>1 DEF Owned, RowsOwned, KeyOf

\* Where a row keeps its link, what matches it does not change; a new link
\* matches nothing that was sent.
LEMMA MatchesStay ==
    ASSUME Owned, [Next]_vars, NEW e \in EventId, sent[e] # None, NEW k \in Key,
           Matches(e, k)'
    PROVE  /\ Matches(e, k)
           /\ unlock'[k].ref = unlock[k].ref /\ unlock'[k].gateway = unlock[k].gateway
           /\ unlock[k].paid \/ unlock[k].refunded => unlock'[k].paid \/ unlock'[k].refunded
<1>t. TypeOK /\ unlock \in [Key -> Row]
  BY DEF Owned, TypeOK
<1>s. sent'[e] = sent[e]
  BY KeysStay
<1>p. sent[e].type = "succeeded" /\ unlock'[k].ref # None
      /\ unlock'[k].ref = sent[e].ref /\ unlock'[k].gateway = sent[e].gateway
  BY <1>s DEF Matches, Present
<1>k. ASSUME unlock'[k].ref = unlock[k].ref, unlock'[k].gateway = unlock[k].gateway,
             unlock[k].paid \/ unlock[k].refunded => unlock'[k].paid \/ unlock'[k].refunded
      PROVE  Matches(e, k)
  BY <1>p, <1>k DEF Matches, Present
<1>1. CASE unlock'[k] = unlock[k]
  BY <1>k, <1>1
<1>2. ASSUME NEW w \in Worker, NEW l \in Link, LinkCommit(w, l), job[w].key = k
      PROVE  FALSE
  <2>a. link[l] = None
    BY <1>2 DEF LinkCommit
  <2>b. unlock'[k].ref = l
    BY <1>t, <1>2, LinkEffects
  <2>1. unlock'[k].ref = l /\ link[l] = None
    BY <2>a, <2>b
  <2>2. sent[e].link = l
    BY <1>p, <2>1 DEF Owned, EventsOwned
  <2>3. QED
    BY <2>1, <2>2 DEF Owned, EventsOwned
<1>3. ASSUME NEW w \in Worker, PaidCommit(w), job[w].key = k
      PROVE  /\ unlock'[k].ref = unlock[k].ref /\ unlock'[k].gateway = unlock[k].gateway
             /\ unlock[k].paid \/ unlock[k].refunded =>
                    unlock'[k].paid \/ unlock'[k].refunded
  BY <1>t, <1>3, PaidEffects
<1>4. ASSUME NEW w \in Worker, RefundCommit(w), job[w].key = k
      PROVE  /\ unlock'[k].ref = unlock[k].ref /\ unlock'[k].gateway = unlock[k].gateway
             /\ unlock[k].paid \/ unlock[k].refunded =>
                    unlock'[k].paid \/ unlock'[k].refunded
  BY <1>t, <1>4, RefundEffects
<1>5. ASSUME NEW p \in Post, DeletePost(p)
      PROVE  unlock'[k] = unlock[k]
  BY <1>t, <1>p, <1>5 DEF DeletePost, NoRow
<1>6. \/ unlock'[k] = unlock[k]
      \/ \E w \in Worker, l \in Link : LinkCommit(w, l) /\ job[w].key = k
      \/ \E w \in Worker : (PaidCommit(w) \/ RefundCommit(w)) /\ job[w].key = k
  BY <1>t, <1>5, Split, LinkEffects, PaidEffects, RefundEffects, GatewayEffects
  DEF Aside, db, MarkStep, DeliverMarked, DeliverElsewhere
<1>7. CASE \E w \in Worker : PaidCommit(w) /\ job[w].key = k
  BY <1>3, <1>k, <1>7
<1>8. CASE \E w \in Worker : RefundCommit(w) /\ job[w].key = k
  BY <1>4, <1>k, <1>8
<1>9. CASE unlock'[k] = unlock[k]
  BY <1>1, <1>9
<1>10. QED
  BY <1>2, <1>6, <1>7, <1>8, <1>9

\* An event finds no row it did not find before: links are used once, and a
\* refunded row takes a new one.
LEMMA ByRefStays ==
    ASSUME Owned, [Next]_vars, NEW e \in EventId, sent[e] # None,
           NEW items \in SUBSET Item
    PROVE  ByRef(sent[e], items)' \subseteq ByRef(sent[e], items)
<1>t. TypeOK /\ unlock \in [Key -> Row]
  BY DEF Owned, TypeOK
<1>s. sent'[e] = sent[e]
  BY KeysStay
<1> SUFFICES ASSUME NEW k \in Key, k[2] \in items, unlock'[k].ref # None,
                    unlock'[k].ref = sent[e].ref,
                    unlock'[k].gateway = sent[e].gateway, ~unlock'[k].refunded
             PROVE  /\ unlock[k].ref = unlock'[k].ref
                    /\ unlock[k].gateway = unlock'[k].gateway
                    /\ ~unlock[k].refunded
  BY <1>s DEF ByRef, Present
<1>1. CASE unlock'[k] = unlock[k]
  BY <1>1
<1>2. ASSUME NEW w \in Worker, NEW l \in Link, LinkCommit(w, l), job[w].key = k
      PROVE  FALSE
  <2>1. link[l] = None
    BY <1>2 DEF LinkCommit
  <2>2. unlock'[k].ref = l
    BY <1>t, <1>2, LinkEffects
  <2>3. sent[e].link = l
    BY <2>2 DEF Owned, EventsOwned
  <2>4. QED
    BY <2>1, <2>3 DEF Owned, EventsOwned
<1>3. ASSUME NEW w \in Worker, PaidCommit(w), job[w].key = k
      PROVE  /\ unlock'[k].ref = unlock[k].ref /\ unlock'[k].gateway = unlock[k].gateway
             /\ unlock'[k].refunded = unlock[k].refunded
  BY <1>t, <1>3, PaidEffects
<1>4. ASSUME NEW w \in Worker, RefundCommit(w), job[w].key = k
      PROVE  FALSE
  BY <1>t, <1>4, RefundEffects
<1>5. ASSUME NEW p \in Post, DeletePost(p)
      PROVE  unlock'[k] = unlock[k]
  BY <1>t, <1>5 DEF DeletePost, NoRow
<1>6. \/ unlock'[k] = unlock[k]
      \/ \E w \in Worker, l \in Link : LinkCommit(w, l) /\ job[w].key = k
      \/ \E w \in Worker : (PaidCommit(w) \/ RefundCommit(w)) /\ job[w].key = k
  BY <1>t, <1>5, Split, LinkEffects, PaidEffects, RefundEffects, GatewayEffects
  DEF Aside, db, MarkStep, DeliverMarked, DeliverElsewhere
<1>7. QED
  BY <1>1, <1>2, <1>3, <1>4, <1>6

\* Whoever handles a payment began with the row as it was.
LEMMA PayersRead ==
    ASSUME Owned, [Next]_vars, NEW w \in Worker
    PROVE  \/ job'[w] = job[w]
           \/ job'[w].op # "paid"
           \/ /\ UNCHANGED unlock
              /\ \E k \in Key : job'[w].key = k /\ job'[w].read = unlock[k]
<1>t. job \in [Worker -> Job]
  BY DEF Owned, TypeOK
<1>1. ASSUME NEW x \in Worker, Finish(x)
      PROVE  job'[w] = job[w] \/ job'[w].op # "paid"
  BY <1>t, <1>1 DEF Finish, Idle
<1>2. ASSUME NEW x \in Worker, NEW k \in Key, NEW g \in Gateway,
             BuyPost(x, k, g) \/ BuyMessage(x, k, g)
      PROVE  job'[w] = job[w] \/ job'[w].op # "paid"
  BY <1>t, <1>2 DEF BuyPost, BuyMessage, Start
<1>3. ASSUME NEW x \in Worker, NEW e \in EventId,
             DeliverPaidPost(x, e) \/ DeliverPaidMessage(x, e) \/ DeliverRefund(x, e)
      PROVE  \/ job'[w] = job[w]
             \/ job'[w].op # "paid"
             \/ /\ UNCHANGED unlock
                /\ \E k \in Key : job'[w].key = k /\ job'[w].read = unlock[k]
  <2>1. PICK k \in Key, o \in {"paid", "refund"} :
            Start(x, [op |-> o, key |-> k, event |-> e, read |-> unlock[k]])
    BY <1>3 DEF DeliverPaidPost, DeliverPaidMessage, DeliverRefund, ByRef, Refunded,
                RefundedPost, Charged
  <2>2. UNCHANGED unlock
    BY <1>3 DEF DeliverPaidPost, DeliverPaidMessage, DeliverRefund, db
  <2>3. QED
    BY <1>t, <2>1, <2>2 DEF Start
<1>4. QED
  BY <1>1, <1>2, <1>3 DEF Next, Buy, Deliver, Commit, vars, LinkCommit, LinkConflict, Abort,
     CommitLost, PaidCommit, RefundCommit, DeletePost, DeliverDuplicate, DeliverMarked,
     DeliverElsewhere, DeliverRefundUnmatched, Pay, Refuse, Refund

\* An event that is settled by this step and was a payment has a row that is
\* paid or refunded, if any row stores its link.
LEMMA SettledNow ==
    ASSUME Owned, AckedInv, [Next]_vars, NEW e \in Settled', e \notin Settled
    PROVE  /\ e \in EventId /\ sent[e] # None
           /\ \A k \in Key : Matches(e, k)' => unlock'[k].paid \/ unlock'[k].refunded
<1>t. TypeOK
  BY DEF Owned
<1>1. ASSUME NEW w \in Worker, PaidCommit(w), e = job[w].event
      PROVE  /\ e \in EventId /\ sent[e] # None
             /\ \A k \in Key : Matches(e, k)' => unlock'[k].paid \/ unlock'[k].refunded
  <2>1. PICK j \in Key : j = job[w].key
    BY <1>t, <1>1, PaidEffects
  <2>2. e \in EventId
    BY <1>t, <1>1, PaidEffects
  <2>3. sent[e] # None /\ KeyOf(e) = j
    BY <1>1, <2>1 DEF Owned, JobsOwned, JobOwned, PaidCommit
  <2>4. ASSUME NEW k \in Key, Matches(e, k)'
        PROVE  unlock'[k].paid \/ unlock'[k].refunded
    <3>1. /\ Matches(e, k)
          /\ unlock[k].paid \/ unlock[k].refunded => unlock'[k].paid \/ unlock'[k].refunded
      BY <2>2, <2>3, <2>4, MatchesStay
    <3>2. k = j
      BY <2>2, <2>3, <3>1, MatchesOwned
    <3>3. CASE job[w].read.paid
      BY <1>1, <2>1, <3>1, <3>2, <3>3 DEF AckedInv, PayerSettled, PaidCommit
    <3>4. CASE ~job[w].read.paid
      BY <1>t, <1>1, <2>1, <3>2, <3>4, PaidEffects
    <3>5. QED
      BY <3>3, <3>4
  <2>5. QED
    BY <2>2, <2>3, <2>4
<1>2. ASSUME NEW w \in Worker, RefundCommit(w), e = job[w].event
      PROVE  e \in EventId /\ sent[e] # None /\ sent[e].type = "refunded"
  <2>1. e \in EventId
    BY <1>t, <1>2, RefundEffects
  <2>2. QED
    BY <1>2, <2>1 DEF Owned, JobsOwned, JobOwned, RefundCommit
<1>3. ASSUME e \in EventId, sent[e] # None, sent[e].type # "succeeded"
      PROVE  \A k \in Key : Matches(e, k)' => unlock'[k].paid \/ unlock'[k].refunded
  BY <1>3, KeysStay DEF Matches
<1>4. ASSUME e \in EventId, DeliverElsewhere(e)
      PROVE  \A k \in Key : Matches(e, k)' => unlock'[k].paid \/ unlock'[k].refunded
  <2>1. UNCHANGED unlock /\ sent[e] # None /\ ByRef(sent[e], Item) = {}
    BY <1>4 DEF DeliverElsewhere, Undelivered
  <2>2. ASSUME NEW k \in Key, Matches(e, k)'
        PROVE  unlock[k].refunded
    <3>1. Matches(e, k)
      BY <1>4, <2>1, <2>2, MatchesStay
    <3>2. k[2] \in Item
      BY DEF Key
    <3>3. QED
      BY <2>1, <3>1, <3>2 DEF Matches, ByRef
  <2>3. QED
    BY <2>1, <2>2
<1>5. \/ \E w \in Worker : (PaidCommit(w) \/ RefundCommit(w)) /\ e = job[w].event
      \/ /\ e \in EventId /\ sent[e] # None
         /\ sent[e].type # "succeeded" \/ DeliverElsewhere(e)
  <2>1. ASSUME NEW w \in Worker, Commit(w)
        PROVE  \E v \in Worker : (PaidCommit(v) \/ RefundCommit(v)) /\ e = job[v].event
    BY <2>1 DEF Commit, PaidCommit, RefundCommit, CommitLost, Markable, Settled, db
  <2>2. ASSUME NEW w \in Worker, NEW f \in EventId, Deliver(w, f)
        PROVE  /\ e \in EventId /\ sent[e] # None
               /\ sent[e].type # "succeeded" \/ DeliverElsewhere(e)
    <3>1. CASE DeliverElsewhere(f)
      <4>1. e = f /\ sent[f] # None
        BY <3>1 DEF DeliverElsewhere, Undelivered, Settled
      <4>2. QED
        BY <3>1, <4>1
    <3>2. CASE DeliverMarked(f)
      BY <3>2 DEF DeliverMarked, Undelivered, OpensUnlock, Settled
    <3>3. CASE DeliverRefundUnmatched(f)
      BY <3>3 DEF DeliverRefundUnmatched, Undelivered, Settled, db
    <3>4. QED
      BY <2>2, <3>1, <3>2, <3>3 DEF Deliver, DeliverPaidPost, DeliverPaidMessage,
         DeliverRefund, DeliverDuplicate, Settled, db
  <2>3. QED
    BY <2>1, <2>2 DEF Next, Buy, BuyPost, BuyMessage, LinkCommit, LinkConflict, Abort,
       DeletePost, Pay, Refuse, Refund, Settled, db, vars
<1>6. QED
  BY <1>1, <1>2, <1>3, <1>4, <1>5

\* The strengthened invariant of answered payments is kept by every step.
LEMMA AckedStep ==
    ASSUME Owned, AckedInv, [Next]_vars
    PROVE  AckedInv'
<1>t. TypeOK /\ unlock \in [Key -> Row] /\ job \in [Worker -> Job]
  BY DEF Owned, TypeOK
<1>s. \A e \in EventId : sent[e] # None => sent'[e] # None
  BY KeysStay
<1>1. \A e \in Settled' : e \in EventId /\ sent'[e] # None
  BY <1>s, SettledNow DEF AckedInv
<1>2. ASSUME NEW e \in Settled', NEW k \in Key, Matches(e, k)'
      PROVE  unlock'[k].paid \/ unlock'[k].refunded
  <2>1. CASE e \in Settled
    <3>1. e \in EventId /\ sent[e] # None
      BY <2>1 DEF AckedInv
    <3>2. /\ Matches(e, k)
          /\ unlock[k].paid \/ unlock[k].refunded => unlock'[k].paid \/ unlock'[k].refunded
      BY <1>2, <3>1, MatchesStay
    <3>3. QED
      BY <2>1, <3>2 DEF AckedInv
  <2>2. CASE e \notin Settled
    BY <1>2, <2>2, SettledNow
  <2>3. QED
    BY <2>1, <2>2
<1>3. ASSUME NEW w \in Worker
      PROVE  PayerSettled(w)'
  <2>1. CASE job'[w] = job[w] /\ job[w].op = "paid"
    <3>1. PICK e \in EventId, k \in Key : e = job[w].event /\ k = job[w].key
      BY <1>t, <2>1, JobFields
    <3>2. sent[e] # None
      BY <2>1, <3>1 DEF Owned, JobsOwned, JobOwned
    <3>3. Matches(e, k)' =>
             /\ Matches(e, k)
             /\ unlock[k].paid \/ unlock[k].refunded =>
                    unlock'[k].paid \/ unlock'[k].refunded
      BY <3>2, MatchesStay
    <3>4. job[w].read.paid => (Matches(e, k) => unlock[k].paid \/ unlock[k].refunded)
      BY <2>1, <3>1 DEF AckedInv, PayerSettled
    <3>5. job[w].read.paid =>
              (Matches(e, k)' => unlock'[k].paid \/ unlock'[k].refunded)
      BY <3>3, <3>4
    <3>6. job'[w].event = e /\ job'[w].key = k /\ job'[w].read = job[w].read
      BY <2>1, <3>1
    <3>7. QED
      BY <3>5, <3>6 DEF PayerSettled, Matches, Present
  <2>2. CASE job'[w].op # "paid"
    BY <2>2 DEF PayerSettled
  <2>3. ASSUME UNCHANGED unlock, NEW k \in Key, job'[w].key = k, job'[w].read = unlock[k]
        PROVE  PayerSettled(w)'
    BY <2>3 DEF PayerSettled
  <2>4. QED
    BY <2>1, <2>2, <2>3, PayersRead
<1>4. QED
  BY <1>1, <1>2, <1>3 DEF AckedInv

\* A payment that was answered with a 200 has opened the row that stores its
\* link, or the row was refunded: the gateway has no reason to send it again.
THEOREM AckedOpened == Spec => []AckedIsOpened
<1>1. Init => AckedInv
  BY DEF Init, AckedInv, Settled, Idle, PayerSettled
<1>2. Owned /\ AckedInv /\ [Next]_vars => AckedInv'
  BY AckedStep
<1>3. AckedInv => AckedIsOpened
  BY DEF AckedInv, Settled, Matches, AckedIsOpened
<1>4. QED
  BY OwnedAlways, <1>1, <1>2, <1>3, PTL DEF Spec
=============================================================================
