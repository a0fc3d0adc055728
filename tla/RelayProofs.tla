---------------------------- MODULE RelayProofs -----------------------------
(***************************************************************************)
(* Theorems about Relay: for every set of users, desks, processes and      *)
(* sockets, and every size of the cache.  Sending, and the ids and rows it *)
(* leaves, are MessagesProofs' part: what is used of it is StoreInv.       *)
(***************************************************************************)
EXTENDS MessagesProofs, FiniteSetTheorems

SocketTypes == sockets \in [Socket -> Connection \cup {Off}]

ProcTypes ==
    /\ procs \in [Process -> Proc]
    /\ \A p \in Process : /\ Len(procs[p].delivered) <= CacheSize
                          /\ Relaying(p, "sending") => procs[p].pass \in Pass

PushTypes == pushes \in [Desk -> Push \cup {NoPush}]

RelayTypes == SocketTypes /\ ProcTypes /\ PushTypes

\* What a process believes to hear it hears, and it knows whom it has to ask for.
Books ==
    \A p \in Process :
        /\ procs[p].subscribed \subseteq procs[p].channels
        /\ \A u \in User : Connected(p, u) => u \in procs[p].pending

-----------------------------------------------------------------------------
(* Where a frame can be.                                                   *)

Got(s, i) == Live(s) /\ \E k \in DOMAIN sockets[s].got : sockets[s].got[k] = i
Waits(p, i) == \E k \in DOMAIN procs[p].inbox : procs[p].inbox[k][1] = i
Relays(p, i) == Relaying(p, "sending") /\ procs[p].pass.id = i
Pushes(d, i) == Pushing(d) /\ pushes[d].pass.id = i
Known(p, i) == \/ \E k \in DOMAIN procs[p].delivered : procs[p].delivered[k] = i
               \/ i \in procs[p].evicted

Frame(i, u) == i \in DOMAIN messages /\ Recipient(messages[i]) = u

\* A pass of process p carries a committed message to its recipient's sockets there.
Addressed(pass, p) ==
    /\ Frame(pass.id, pass.to)
    /\ \A s \in pass.todo : Live(s) => sockets[s].proc = p /\ sockets[s].user = pass.to

FramesInv ==
    /\ \A s \in Socket : Live(s) => \A k \in DOMAIN sockets[s].got :
          Frame(sockets[s].got[k], sockets[s].user)
    /\ \A p \in Process : \A k \in DOMAIN procs[p].inbox :
          Frame(procs[p].inbox[k][1], procs[p].inbox[k][2])
    /\ \A p \in Process : \A pass \in {procs[p].pass} :
          Relaying(p, "sending") => Addressed(pass, p)
    /\ \A d \in Desk : \A pass \in {pushes[d].pass} :
          Pushing(d) => Addressed(pass, Home[d])

\* Before its push a message is nowhere, and during it only where it was pushed.
UnsentInv ==
    \A d \in Desk : At(d, "sent") =>
        /\ \A s \in Socket : ~Got(s, jobs[d].id)
        /\ \A p \in Process : ~Waits(p, jobs[d].id) /\ ~Relays(p, jobs[d].id)
        /\ \A e \in Desk : ~Pushes(e, jobs[d].id)

PushedInv ==
    \A d \in Desk : Pushing(d) =>
        /\ \A s \in Socket : Got(s, pushes[d].pass.id) =>
              /\ sockets[s].proc = Home[d]
              /\ s \in (pushes[d].pass.fine \cup pushes[d].pass.dead) \ pushes[d].pass.todo
        /\ \A p \in Process : ~Waits(p, pushes[d].pass.id) /\ ~Relays(p, pushes[d].pass.id)
        /\ \A e \in Desk : Pushes(e, pushes[d].pass.id) => e = d

\* A process hears a message once.
HeardInv ==
    \A p \in Process :
        /\ \A k, l \in DOMAIN procs[p].inbox :
              procs[p].inbox[k][1] = procs[p].inbox[l][1] => k = l
        /\ Relaying(p, "sending") => ~Waits(p, procs[p].pass.id)

\* A registered socket that has a message its process has still to hear was sent
\* it by the process, which remembers it or has forgotten it since.
OnceInv ==
    /\ \A s \in Socket : Live(s) =>
          /\ \A k, l \in DOMAIN sockets[s].got :
                sockets[s].got[k] = sockets[s].got[l] =>
                    k = l \/ sockets[s].got[k] \in procs[sockets[s].proc].evicted
          /\ sockets[s].at = "open" => \A i \in Id :
                Got(s, i) /\ Waits(sockets[s].proc, i) => Known(sockets[s].proc, i)
    /\ \A p \in Process : Relaying(p, "sending") => \A s \in procs[p].pass.todo :
          Got(s, procs[p].pass.id) => procs[p].pass.id \in procs[p].evicted

DeliveryInv == FramesInv /\ UnsentInv /\ PushedInv /\ HeardInv /\ OnceInv

RelayInv == MessagesInv /\ RelayTypes /\ Books /\ DeliveryInv

-----------------------------------------------------------------------------
(* Steps that bring no frame anywhere.                                     *)

\* Sockets close, leave the registry, or open anew, unknown to every pass.
QuietSockets ==
    \A s \in Socket : Live(s)' =>
        \/ /\ Live(s) /\ (sockets'[s].at = "open" => sockets[s].at = "open")
           /\ sockets'[s].proc = sockets[s].proc /\ sockets'[s].user = sockets[s].user
           /\ sockets'[s].got = sockets[s].got
        \/ sockets'[s].got = <<>> /\ ~InUse(s)

\* Passes end, links break, and a process that forgets has lost its sockets.
QuietProcs ==
    \A p \in Process :
        /\ \/ /\ procs'[p].delivered = procs[p].delivered
              /\ procs'[p].evicted = procs[p].evicted
           \/ \A s \in Socket : Live(s)' => sockets'[s].proc # p
        /\ procs'[p].inbox = procs[p].inbox \/ procs'[p].inbox = <<>>
        /\ Relaying(p, "sending")' =>
              Relaying(p, "sending") /\ procs'[p].pass = procs[p].pass

QuietPushes == \A d \in Desk : Pushing(d)' => Pushing(d) /\ pushes'[d] = pushes[d]

\* Rows are added, and what is to be pushed next is new.
QuietRows ==
    /\ DOMAIN messages \subseteq DOMAIN messages'
    /\ \A i \in DOMAIN messages : messages'[i] = messages[i]
    /\ \A d \in Desk : At(d, "sent")' =>
          \/ At(d, "sent") /\ jobs'[d].id = jobs[d].id
          \/ jobs'[d].id \notin DOMAIN messages

Quiet == QuietSockets /\ QuietProcs /\ QuietPushes /\ QuietRows

-----------------------------------------------------------------------------
(* Frames.                                                                 *)

\* What is anywhere on its way has a row.
LEMMA UnderwayIsFramed ==
    ASSUME FramesInv, NEW i
    PROVE  /\ \A s \in Socket : Got(s, i) => Frame(i, sockets[s].user)
           /\ \A p \in Process : Waits(p, i) => i \in DOMAIN messages
           /\ \A p \in Process : Relays(p, i) => i \in DOMAIN messages
           /\ \A d \in Desk : Pushes(d, i) => i \in DOMAIN messages
<1>1. \A s \in Socket : Got(s, i) => Frame(i, sockets[s].user)
  BY DEF FramesInv, Got
<1>2. \A p \in Process : Waits(p, i) => i \in DOMAIN messages
  BY DEF FramesInv, Waits, Frame
<1>3. \A p \in Process : Relays(p, i) => i \in DOMAIN messages
  BY DEF FramesInv, Relays, Addressed, Frame
<1>4. \A d \in Desk : Pushes(d, i) => i \in DOMAIN messages
  BY DEF FramesInv, Pushes, Addressed, Frame
<1>5. QED
  BY <1>1, <1>2, <1>3, <1>4

\* A row keeps its recipient.
LEMMA FramesStay ==
    ASSUME QuietRows, NEW i, NEW u, Frame(i, u)
    PROVE  i \in DOMAIN messages' /\ Recipient(messages'[i]) = u
BY DEF QuietRows, Frame, Recipient

\* What a quiet step leaves where it was before.
LEMMA QuietPlaces ==
    ASSUME Quiet, NEW i
    PROVE  /\ \A s \in Socket : Got(s, i)' =>
                 Got(s, i) /\ sockets'[s].proc = sockets[s].proc
                           /\ (sockets'[s].at = "open" => sockets[s].at = "open")
           /\ \A p \in Process : Waits(p, i)' => Waits(p, i)
           /\ \A p \in Process : Relays(p, i)' => Relays(p, i)
           /\ \A d \in Desk : Pushes(d, i)' => Pushes(d, i)
<1>1. \A s \in Socket : Got(s, i)' =>
          Got(s, i) /\ sockets'[s].proc = sockets[s].proc
                    /\ (sockets'[s].at = "open" => sockets[s].at = "open")
  BY DEF Quiet, QuietSockets, Got
<1>2. \A p \in Process : Waits(p, i)' => Waits(p, i)
  BY DEF Quiet, QuietProcs, Waits
<1>3. \A p \in Process : Relays(p, i)' => Relays(p, i)
  BY DEF Quiet, QuietProcs, Relays
<1>4. \A d \in Desk : Pushes(d, i)' => Pushes(d, i)
  BY DEF Quiet, QuietPushes, Pushes
<1>5. QED
  BY <1>1, <1>2, <1>3, <1>4

\* Rows are added only: whatever carried a frame before carries it still.
LEMMA FramesGrow ==
    ASSUME FramesInv, QuietRows,
           \A s \in Socket : Live(s)' =>
               \/ Live(s) /\ sockets'[s].user = sockets[s].user
                  /\ sockets'[s].got = sockets[s].got
               \/ sockets'[s].got = <<>>
    PROVE  \A s \in Socket : Live(s)' => \A k \in DOMAIN sockets'[s].got :
               /\ sockets'[s].got[k] \in DOMAIN messages'
               /\ Recipient(messages'[sockets'[s].got[k]]) = sockets'[s].user
<1> SUFFICES ASSUME NEW s \in Socket, Live(s)', NEW k \in DOMAIN sockets'[s].got
             PROVE  /\ sockets'[s].got[k] \in DOMAIN messages'
                    /\ Recipient(messages'[sockets'[s].got[k]]) = sockets'[s].user
  OBVIOUS
<1>1. /\ Live(s) /\ sockets'[s].user = sockets[s].user
      /\ sockets'[s].got = sockets[s].got
  OBVIOUS
<1>2. Frame(sockets[s].got[k], sockets[s].user)
  BY <1>1 DEF FramesInv
<1>3. QED
  BY <1>1, <1>2, FramesStay

\* Sockets that open anew are not among those a pass has still to try.
LEMMA AddressedStays ==
    ASSUME QuietRows, QuietSockets, NEW pass, NEW p, Addressed(pass, p),
           pass.todo \subseteq Socket, \A s \in pass.todo : InUse(s)
    PROVE  Addressed(pass, p)'
<1>1. Frame(pass.id, pass.to)'
  BY FramesStay DEF Addressed, Frame
<1>2. \A s \in pass.todo : Live(s)' => sockets'[s].proc = p /\ sockets'[s].user = pass.to
  BY DEF Addressed, QuietSockets
<1>3. QED
  BY <1>1, <1>2 DEF Addressed

\* Frames keep their addresses in a quiet step.
LEMMA QuietFrames ==
    ASSUME FramesInv, Quiet, RelayTypes
    PROVE  FramesInv'
<1>1. \A s \in Socket : Live(s)' => \A k \in DOMAIN sockets'[s].got :
          /\ sockets'[s].got[k] \in DOMAIN messages'
          /\ Recipient(messages'[sockets'[s].got[k]]) = sockets'[s].user
  BY FramesGrow DEF Quiet, QuietSockets
<1>2. ASSUME NEW p \in Process, NEW k \in DOMAIN procs'[p].inbox
      PROVE  /\ procs'[p].inbox[k][1] \in DOMAIN messages'
             /\ Recipient(messages'[procs'[p].inbox[k][1]]) = procs'[p].inbox[k][2]
  <2>1. procs'[p].inbox = procs[p].inbox
    BY <1>2 DEF Quiet, QuietProcs
  <2>2. Frame(procs[p].inbox[k][1], procs[p].inbox[k][2])
    BY <1>2, <2>1 DEF FramesInv
  <2>3. QED
    BY <2>1, <2>2, FramesStay DEF Quiet
<1>3. ASSUME NEW p \in Process, Relaying(p, "sending")', NEW pass, pass = procs'[p].pass
      PROVE  Addressed(pass, p)'
  <2>1. Relaying(p, "sending") /\ pass = procs[p].pass
    BY <1>3 DEF Quiet, QuietProcs
  <2>2. Addressed(pass, p) /\ pass \in Pass
    BY <2>1 DEF FramesInv, RelayTypes, ProcTypes
  <2>3. pass.todo \subseteq Socket
    BY <2>2 DEF Pass
  <2>4. \A s \in pass.todo : InUse(s)
    BY <2>1 DEF InUse, Relaying
  <2>5. QED
    BY <2>2, <2>3, <2>4, AddressedStays DEF Quiet
<1>4. ASSUME NEW d \in Desk, Pushing(d)', NEW pass, pass = pushes'[d].pass
      PROVE  Addressed(pass, Home[d])'
  <2>1. Pushing(d) /\ pass = pushes[d].pass
    BY <1>4 DEF Quiet, QuietPushes
  <2>2. Addressed(pass, Home[d]) /\ pushes[d] \in Push
    BY <2>1 DEF FramesInv, RelayTypes, PushTypes, Pushing
  <2>3. pass.todo \subseteq Socket
    BY <2>1, <2>2 DEF Push, Pass
  <2>4. \A s \in pass.todo : InUse(s)
    BY <2>1 DEF InUse
  <2>5. QED
    BY <2>2, <2>3, <2>4, AddressedStays DEF Quiet
<1>5. QED
  BY <1>1, <1>2, <1>3, <1>4 DEF FramesInv, Frame

\* What is anywhere on its way is not what is to be pushed next.
LEMMA QuietKeeps ==
    ASSUME DeliveryInv, Quiet, RelayTypes, SocketTypes'
    PROVE  DeliveryInv'
<1>1. FramesInv'
  BY QuietFrames DEF DeliveryInv
<1>2. UnsentInv'
  <2> SUFFICES ASSUME NEW d \in Desk, At(d, "sent")', NEW i, i = jobs'[d].id
               PROVE  /\ \A s \in Socket : ~Got(s, i)'
                      /\ \A p \in Process : ~Waits(p, i)' /\ ~Relays(p, i)'
                      /\ \A e \in Desk : ~Pushes(e, i)'
    BY DEF UnsentInv, Got, Waits, Relays, Pushes
  <2>1. CASE At(d, "sent") /\ i = jobs[d].id
    BY <2>1, QuietPlaces DEF DeliveryInv, UnsentInv
  <2>2. CASE i \notin DOMAIN messages
    BY <2>2, QuietPlaces, UnderwayIsFramed DEF DeliveryInv, Frame
  <2>3. QED
    BY <2>1, <2>2 DEF Quiet, QuietRows
<1>3. PushedInv'
  <2> SUFFICES ASSUME NEW d \in Desk, Pushing(d)', NEW pass, pass = pushes'[d].pass,
                      NEW i, i = pass.id
               PROVE  /\ \A s \in Socket : Got(s, i)' =>
                            /\ sockets'[s].proc = Home[d]
                            /\ s \in (pass.fine \cup pass.dead) \ pass.todo
                      /\ \A p \in Process : ~Waits(p, i)' /\ ~Relays(p, i)'
                      /\ \A e \in Desk : Pushes(e, i)' => e = d
    BY DEF PushedInv, Got, Waits, Relays, Pushes
  <2>1. Pushing(d) /\ pass = pushes[d].pass
    BY DEF Quiet, QuietPushes
  <2>2. QED
    BY <2>1, QuietPlaces DEF DeliveryInv, PushedInv
<1>4. HeardInv'
  <2> SUFFICES ASSUME NEW p \in Process
               PROVE  /\ \A k, l \in DOMAIN procs'[p].inbox :
                            procs'[p].inbox[k][1] = procs'[p].inbox[l][1] => k = l
                      /\ \A i : Relays(p, i)' => ~Waits(p, i)'
    BY DEF HeardInv, Relays, Waits
  <2>1. \A k, l \in DOMAIN procs'[p].inbox :
            procs'[p].inbox[k][1] = procs'[p].inbox[l][1] => k = l
    BY DEF DeliveryInv, HeardInv, Quiet, QuietProcs
  <2>2. ASSUME NEW i, Relays(p, i)' PROVE ~Waits(p, i)'
    BY <2>2, QuietPlaces DEF DeliveryInv, HeardInv, Relays
  <2>3. QED
    BY <2>1, <2>2
<1>5. OnceInv'
  <2>1. ASSUME NEW s \in Socket, Live(s)', NEW p, p = sockets'[s].proc, p \in Process,
               NEW k \in DOMAIN sockets'[s].got, NEW l \in DOMAIN sockets'[s].got,
               sockets'[s].got[k] = sockets'[s].got[l], k # l
        PROVE  sockets'[s].got[k] \in procs'[p].evicted
    <3>1. Live(s) /\ sockets[s].proc = p /\ sockets'[s].got = sockets[s].got
      BY <2>1 DEF Quiet, QuietSockets
    <3>2. sockets[s].got[k] \in procs[p].evicted
      BY <2>1, <3>1 DEF DeliveryInv, OnceInv
    <3>3. procs'[p].evicted = procs[p].evicted
      BY <2>1 DEF Quiet, QuietProcs
    <3>4. QED
      BY <3>1, <3>2, <3>3
  <2>2. ASSUME NEW s \in Socket, Live(s)', NEW p, p = sockets'[s].proc, p \in Process,
               sockets'[s].at = "open", NEW i \in Id, Got(s, i)', Waits(p, i)'
        PROVE  Known(p, i)'
    <3>1. Got(s, i) /\ sockets[s].proc = p /\ sockets[s].at = "open" /\ Waits(p, i)
      BY <2>2, QuietPlaces
    <3>2. Known(p, i)
      BY <3>1 DEF DeliveryInv, OnceInv, Got
    <3>3. /\ procs'[p].evicted = procs[p].evicted
          /\ procs'[p].delivered = procs[p].delivered
      BY <2>2 DEF Quiet, QuietProcs
    <3>4. QED
      BY <3>2, <3>3 DEF Known
  <2>3. ASSUME NEW p \in Process, Relaying(p, "sending")', NEW pass, pass = procs'[p].pass,
               NEW s \in pass.todo, NEW i, i = pass.id, Got(s, i)'
        PROVE  i \in procs'[p].evicted
    <3>1. Relaying(p, "sending") /\ pass = procs[p].pass
      BY <2>3 DEF Quiet, QuietProcs
    <3>2. s \in Socket
      BY <2>3, <3>1 DEF RelayTypes, ProcTypes, Pass
    <3>3. Got(s, i) /\ sockets'[s].proc = sockets[s].proc /\ Live(s) /\ Live(s)'
      BY <2>3, <3>2, QuietPlaces DEF Got
    <3>4. i \in procs[p].evicted
      BY <2>3, <3>1, <3>3 DEF DeliveryInv, OnceInv
    <3>5. sockets'[s].proc = p
      BY <2>3, <3>1, <3>3 DEF DeliveryInv, FramesInv, Addressed
    <3>6. procs'[p].evicted = procs[p].evicted
      BY <3>2, <3>3, <3>5 DEF Quiet, QuietProcs
    <3>7. QED
      BY <3>4, <3>6
  <2>4. \A s \in Socket : Live(s)' => sockets'[s].proc \in Process
    BY DEF SocketTypes, Connection, Live
  <2>5. QED
    BY <2>1, <2>2, <2>3, <2>4 DEF OnceInv, Got, Waits, Known
<1>6. QED
  BY <1>1, <1>2, <1>3, <1>4, <1>5 DEF DeliveryInv

-----------------------------------------------------------------------------
(* Sequences.                                                              *)

\* Appending adds an element at the end.
LEMMA AppendIs ==
    ASSUME NEW S, NEW seq \in Seq(S), NEW e \in S
    PROVE  /\ Append(seq, e) \in Seq(S) /\ Len(Append(seq, e)) = Len(seq) + 1
           /\ DOMAIN seq = 1 .. Len(seq) /\ Len(seq) \in Nat
           /\ DOMAIN Append(seq, e) = 1 .. Len(seq) + 1
           /\ \A k \in DOMAIN seq : Append(seq, e)[k] = seq[k]
           /\ Append(seq, e)[Len(seq) + 1] = e
BY AppendProperties, LenProperties

\* An appended sequence has what it had, and the element.
LEMMA AppendHas ==
    ASSUME NEW S, NEW seq \in Seq(S), NEW e \in S
    PROVE  \A x : (\E k \in DOMAIN Append(seq, e) : Append(seq, e)[k] = x)
                      <=> (\E k \in DOMAIN seq : seq[k] = x) \/ x = e
<1>1. /\ DOMAIN seq = 1 .. Len(seq) /\ Len(seq) \in Nat
      /\ DOMAIN Append(seq, e) = 1 .. Len(seq) + 1
      /\ \A k \in DOMAIN seq : Append(seq, e)[k] = seq[k]
      /\ Append(seq, e)[Len(seq) + 1] = e
  BY AppendIs
<1>2. Len(seq) + 1 \in 1 .. Len(seq) + 1
  BY <1>1
<1>3. \A k \in 1 .. Len(seq) + 1 : k \in 1 .. Len(seq) \/ k = Len(seq) + 1
  BY <1>1
<1>4. \A k \in 1 .. Len(seq) : k \in 1 .. Len(seq) + 1
  BY <1>1
<1>5. QED
  BY <1>1, <1>2, <1>3, <1>4

\* The tail has all but the head.
LEMMA TailIs ==
    ASSUME NEW S, NEW seq \in Seq(S), seq # <<>>
    PROVE  /\ Head(seq) \in S /\ Head(seq) = seq[1] /\ 1 \in DOMAIN seq
           /\ Tail(seq) \in Seq(S) /\ Len(Tail(seq)) = Len(seq) - 1
           /\ \A k \in DOMAIN Tail(seq) : k + 1 \in DOMAIN seq /\ Tail(seq)[k] = seq[k + 1]
           /\ \A k \in DOMAIN seq : k = 1 \/ (k - 1 \in DOMAIN Tail(seq)
                                              /\ Tail(seq)[k - 1] = seq[k])
<1>1. /\ DOMAIN seq = 1 .. Len(seq) /\ Len(seq) \in Nat \ {0}
  BY LenProperties, EmptySeq
<1>2. /\ Head(seq) \in S /\ Tail(seq) \in Seq(S) /\ Len(Tail(seq)) = Len(seq) - 1
      /\ \A k \in 1 .. Len(Tail(seq)) : Tail(seq)[k] = seq[k + 1]
  BY HeadTailProperties
<1>3. DOMAIN Tail(seq) = 1 .. Len(seq) - 1
  BY <1>2, LenProperties
<1>4. Head(seq) = seq[1]
  BY <1>1
<1>5. \A k \in 1 .. Len(seq) - 1 : k + 1 \in 1 .. Len(seq)
  BY <1>1
<1>6. \A k \in 1 .. Len(seq) : k = 1 \/ (k - 1 \in 1 .. Len(seq) - 1 /\ (k - 1) + 1 = k)
  BY <1>1
<1>7. QED
  BY <1>1, <1>2, <1>3, <1>4, <1>5, <1>6

\* Removing one element keeps the others.
LEMMA RemoveAtIs ==
    ASSUME NEW seq \in Seq(Id), NEW k \in DOMAIN seq
    PROVE  /\ RemoveAt(seq, k) \in Seq(Id) /\ Len(RemoveAt(seq, k)) = Len(seq) - 1
           /\ \A x : x # seq[k] /\ (\E l \in DOMAIN seq : seq[l] = x) =>
                  \E l \in DOMAIN RemoveAt(seq, k) : RemoveAt(seq, k)[l] = x
<1> DEFINE n == Len(seq)
           a == SubSeq(seq, 1, k - 1)
           b == SubSeq(seq, k + 1, n)
<1>1. DOMAIN seq = 1 .. n /\ n \in Nat /\ k \in 1 .. n /\ k \in Int
  BY LenProperties
<1>2. \A l \in 1 .. n : seq[l] \in Id
  BY ElementOfSeq
<1>3. /\ a \in Seq(Id) /\ Len(a) = k - 1 /\ \A l \in 1 .. k - 1 : a[l] = seq[l]
  <2>1. k - 1 \in Int /\ \A l \in 1 .. k - 1 : l \in 1 .. n /\ 1 + l - 1 = l
    BY <1>1
  <2>2. /\ a \in Seq(Id) /\ Len(a) = (IF 1 <= k - 1 THEN (k - 1) - 1 + 1 ELSE 0)
        /\ \A l \in 1 .. (k - 1) - 1 + 1 : a[l] = seq[1 + l - 1]
    BY <1>2, <2>1, SubSeqProperties
  <2>3. QED
    BY <1>1, <2>1, <2>2
<1>4. /\ b \in Seq(Id) /\ Len(b) = n - k /\ \A l \in 1 .. n - k : b[l] = seq[k + l]
  <2>1. k + 1 \in Int /\ n \in Int /\ \A l \in k + 1 .. n : l \in 1 .. n
    BY <1>1
  <2>2. /\ b \in Seq(Id) /\ Len(b) = (IF k + 1 <= n THEN n - (k + 1) + 1 ELSE 0)
        /\ \A l \in 1 .. n - (k + 1) + 1 : b[l] = seq[(k + 1) + l - 1]
    BY <1>2, <2>1, SubSeqProperties
  <2>3. \A l \in 1 .. n - k : l \in 1 .. n - (k + 1) + 1 /\ (k + 1) + l - 1 = k + l
    BY <1>1
  <2>4. QED
    BY <1>1, <2>2, <2>3
<1>5. RemoveAt(seq, k) = a \o b
  BY DEF RemoveAt
<1> HIDE DEF a, b, n
<1>6. /\ a \o b \in Seq(Id) /\ Len(a \o b) = (k - 1) + (n - k)
      /\ DOMAIN (a \o b) = 1 .. (k - 1) + (n - k)
      /\ \A l \in 1 .. (k - 1) + (n - k) : (a \o b)[l] =
             IF l <= k - 1 THEN a[l] ELSE b[l - (k - 1)]
  <2>1. /\ a \o b \in Seq(Id) /\ Len(a \o b) = Len(a) + Len(b)
        /\ \A l \in 1 .. Len(a) + Len(b) : (a \o b)[l] =
             IF l <= Len(a) THEN a[l] ELSE b[l - Len(a)]
    BY <1>3, <1>4, ConcatProperties
  <2>2. DOMAIN (a \o b) = 1 .. Len(a \o b)
    BY <2>1, LenProperties
  <2>3. QED
    BY <1>3, <1>4, <2>1, <2>2
<1>7. ASSUME NEW l \in DOMAIN seq, l # k
      PROVE  \E m \in DOMAIN (a \o b) : (a \o b)[m] = seq[l]
  <2>1. l \in Int /\ 1 <= l /\ l <= n
    BY <1>1
  <2>2. CASE l < k
    <3>1. l \in 1 .. (k - 1) + (n - k) /\ l <= k - 1 /\ l \in 1 .. k - 1
      BY <1>1, <2>1, <2>2
    <3>2. (a \o b)[l] = seq[l]
      BY <1>3, <1>6, <3>1
    <3>3. QED
      BY <1>6, <3>1, <3>2
  <2>3. CASE l > k
    <3> DEFINE m == l - 1
    <3>1. m \in 1 .. (k - 1) + (n - k) /\ ~(m <= k - 1) /\ m - (k - 1) = l - k
          /\ l - k \in 1 .. n - k /\ k + (l - k) = l
      BY <1>1, <2>1, <2>3
    <3>2. (a \o b)[m] = b[l - k]
      BY <1>6, <3>1
    <3>3. b[l - k] = seq[l]
      BY <1>4, <3>1
    <3>4. QED
      BY <1>6, <3>1, <3>2, <3>3
  <2>4. QED
    BY <1>1, <1>7, <2>1, <2>2, <2>3
<1>8. (k - 1) + (n - k) = n - 1
  BY <1>1
<1>9. QED
  BY <1>5, <1>6, <1>7, <1>8 DEF n

-----------------------------------------------------------------------------
(* Types.                                                                  *)

\* A socket, a process and a push are told from none.
LEMMA KindsDiffer ==
    /\ Off \notin Connection /\ NoPush \notin Push
    /\ Fresh \in Proc /\ Len(Fresh.delivered) <= CacheSize
    /\ Fresh.at = "top" /\ Fresh.inbox = <<>> /\ Fresh.subscribed = {} /\ Fresh.pending = {}
    /\ Fresh.channels = {}
BY CacheAssumption DEF Off, Connection, NoPush, Push, Fresh, Proc

\* What a live socket is made of.
LEMMA ConnectionFields ==
    ASSUME SocketTypes, NEW s \in Socket, Live(s)
    PROVE  /\ sockets[s] \in Connection
           /\ sockets[s].at \in {"open", "stale"} /\ sockets[s].proc \in Process
           /\ sockets[s].user \in User /\ sockets[s].got \in Seq(Id)
BY DEF SocketTypes, Connection, Live

\* What a process is made of.
LEMMA ProcFields ==
    ASSUME NEW r \in Proc
    PROVE  /\ r.at \in {"top", "asking", "get", "sending"} /\ r.link \in {"none", "live", "broken"}
           /\ r.pending \subseteq User /\ r.subscribed \subseteq User /\ r.channels \subseteq User
           /\ r.asked \subseteq User /\ r.inbox \in Seq(Id \X User) /\ r.delivered \in Seq(Id)
           /\ r.evicted \subseteq Id /\ r.pass \in Pass \cup {<<>>}
BY DEF Proc

\* What a pass is made of.
LEMMA PassFields ==
    ASSUME NEW pass \in Pass
    PROVE  /\ pass.id \in Id /\ pass.to \in User /\ pass.todo \subseteq Socket
           /\ pass.fine \subseteq Socket /\ pass.dead \subseteq Socket
BY DEF Pass

\* Trying a socket moves it out of those to be tried.
LEMMA TriedIs ==
    ASSUME NEW pass \in Pass, NEW s \in Socket, NEW returns \in BOOLEAN
    PROVE  LET o == Tried(pass, s, returns) IN
           /\ o \in Pass /\ o.id = pass.id /\ o.to = pass.to /\ o.todo = pass.todo \ {s}
           /\ o.fine \cup o.dead = pass.fine \cup pass.dead \cup {s}
           /\ pass.fine \subseteq o.fine /\ pass.dead \subseteq o.dead
BY DEF Tried, Pass

\* A new pass has every registered socket still to try.
LEMMA PassForIs ==
    ASSUME NEW p, NEW i \in Id, NEW u \in User
    PROVE  LET o == PassFor(p, i, u) IN
           /\ o \in Pass /\ o.id = i /\ o.to = u /\ o.todo = Registry(p, u)
           /\ o.fine = {} /\ o.dead = {}
BY DEF PassFor, Pass, Registry

\* Remembering an id makes room for it, if it must, and forgets nothing unseen.
LEMMA RememberIs ==
    ASSUME NEW r \in Proc, Len(r.delivered) <= CacheSize, NEW i \in Id
    PROVE  LET o == Remember(r, i) IN
           /\ o \in Proc /\ Len(o.delivered) <= CacheSize
           /\ o.at = r.at /\ o.pass = r.pass /\ o.inbox = r.inbox /\ o.link = r.link
           /\ o.pending = r.pending /\ o.subscribed = r.subscribed /\ o.channels = r.channels
           /\ r.evicted \subseteq o.evicted
           /\ \A x : (\E k \in DOMAIN r.delivered : r.delivered[k] = x) \/ x = i =>
                  (\E k \in DOMAIN o.delivered : o.delivered[k] = x) \/ x \in o.evicted
<1>1. r.delivered \in Seq(Id) /\ Len(r.delivered) \in Nat /\ r.evicted \subseteq Id
  BY ProcFields, LenProperties
<1>2. CASE Len(r.delivered) < CacheSize
  <2> DEFINE d == Append(r.delivered, i)
             o == [r EXCEPT !.delivered = d]
  <2>1. Remember(r, i) = o
    BY <1>2 DEF Remember
  <2>2. d \in Seq(Id) /\ Len(d) <= CacheSize
    BY <1>1, <1>2, AppendIs, CacheAssumption
  <2>3. \A x : (\E k \in DOMAIN d : d[k] = x)
                   <=> (\E k \in DOMAIN r.delivered : r.delivered[k] = x) \/ x = i
    <3> HIDE DEF d
    <3>1. PICK q : q = r.delivered
      OBVIOUS
    <3>2. q \in Seq(Id) /\ d = Append(q, i)
      BY <1>1, <3>1 DEF d
    <3>3. \A x : (\E k \in DOMAIN Append(q, i) : Append(q, i)[k] = x)
                      <=> (\E k \in DOMAIN q : q[k] = x) \/ x = i
      BY <3>2, AppendHas
    <3>4. QED
      BY <3>1, <3>2, <3>3
  <2> HIDE DEF d
  <2>4. o \in Proc
    BY <2>2 DEF Proc
  <2>5. /\ o.at = r.at /\ o.pass = r.pass /\ o.inbox = r.inbox /\ o.link = r.link
        /\ o.pending = r.pending /\ o.subscribed = r.subscribed /\ o.channels = r.channels
        /\ o.evicted = r.evicted /\ o.delivered = d
    BY DEF Proc
  <2> HIDE DEF o
  <2>6. QED
    BY <2>1, <2>2, <2>3, <2>4, <2>5
<1>3. CASE ~(Len(r.delivered) < CacheSize)
  <2>1. r.delivered # <<>>
    BY <1>1, <1>3, CacheAssumption, EmptySeq
  <2> DEFINE t == Tail(r.delivered)
             h == Head(r.delivered)
             d == Append(t, i)
             o == [r EXCEPT !.delivered = d, !.evicted = @ \cup {h}]
  <2>2. Remember(r, i) = o
    BY <1>3 DEF Remember
  <2>3. /\ h \in Id /\ t \in Seq(Id) /\ Len(t) = Len(r.delivered) - 1
        /\ h = r.delivered[1]
        /\ \A k \in DOMAIN r.delivered :
              k = 1 \/ (k - 1 \in DOMAIN t /\ t[k - 1] = r.delivered[k])
    BY <1>1, <2>1, TailIs
  <2>4. \A x : (\E k \in DOMAIN r.delivered : r.delivered[k] = x) =>
            x = h \/ \E k \in DOMAIN t : t[k] = x
    BY <2>3
  <2> HIDE DEF h, t
  <2>5. d \in Seq(Id) /\ Len(d) <= CacheSize
    BY <1>1, <2>3, AppendIs, CacheAssumption
  <2>6. \A x : (\E k \in DOMAIN d : d[k] = x) <=> (\E k \in DOMAIN t : t[k] = x) \/ x = i
    BY <2>3, AppendHas
  <2> HIDE DEF d
  <2>7. o \in Proc
    BY <1>1, <2>3, <2>5 DEF Proc
  <2>8. /\ o.at = r.at /\ o.pass = r.pass /\ o.inbox = r.inbox /\ o.link = r.link
        /\ o.pending = r.pending /\ o.subscribed = r.subscribed /\ o.channels = r.channels
        /\ o.evicted = r.evicted \cup {h} /\ o.delivered = d
    BY DEF Proc
  <2> HIDE DEF o
  <2>9. QED
    BY <2>2, <2>4, <2>5, <2>6, <2>7, <2>8
<1>4. QED
  BY <1>2, <1>3

\* Publishing puts a frame at the end of some inboxes, and does nothing else.
LEMMA PublishedIs ==
    ASSUME NEW ps \in [Process -> Proc], NEW i \in Id, NEW u \in User
    PROVE  LET qs == Published(ps, i, u) IN
           /\ qs \in [Process -> Proc]
           /\ \A p \in Process :
                 /\ qs[p].at = ps[p].at /\ qs[p].pass = ps[p].pass
                 /\ qs[p].delivered = ps[p].delivered /\ qs[p].evicted = ps[p].evicted
                 /\ qs[p].pending = ps[p].pending /\ qs[p].subscribed = ps[p].subscribed
                 /\ qs[p].channels = ps[p].channels
                 /\ \/ qs[p].inbox = ps[p].inbox
                    \/ qs[p].inbox = Append(ps[p].inbox, <<i, u>>)
<1> DEFINE qs == Published(ps, i, u)
<1>1. ASSUME NEW p \in Process
      PROVE  /\ qs[p] \in Proc
             /\ qs[p].at = ps[p].at /\ qs[p].pass = ps[p].pass
             /\ qs[p].delivered = ps[p].delivered /\ qs[p].evicted = ps[p].evicted
             /\ qs[p].pending = ps[p].pending /\ qs[p].subscribed = ps[p].subscribed
             /\ qs[p].channels = ps[p].channels
             /\ \/ qs[p].inbox = ps[p].inbox
                \/ qs[p].inbox = Append(ps[p].inbox, <<i, u>>)
  <2>1. PICK r : r = ps[p] /\ r \in Proc
    OBVIOUS
  <2> DEFINE box == Append(r.inbox, <<i, u>>)
             o == [r EXCEPT !.inbox = box]
  <2>2. box \in Seq(Id \X User)
    BY <2>1, ProcFields, AppendIs
  <2> HIDE DEF box
  <2>3. o \in Proc
    BY <2>1, <2>2 DEF Proc
  <2>4. /\ o.at = r.at /\ o.pass = r.pass /\ o.delivered = r.delivered /\ o.evicted = r.evicted
        /\ o.pending = r.pending /\ o.subscribed = r.subscribed /\ o.channels = r.channels
        /\ o.inbox = box
    BY <2>1 DEF Proc
  <2>5. qs[p] = r \/ qs[p] = o
    BY <2>1 DEF Published, box
  <2> HIDE DEF o, qs
  <2>6. QED
    BY <2>1, <2>3, <2>4, <2>5 DEF box
<1>2. qs = [p \in Process |-> qs[p]]
  BY DEF Published
<1> HIDE DEF qs
<1>3. QED
  BY <1>1, <1>2 DEF qs

-----------------------------------------------------------------------------
(* Steps of requests and readers, as the sockets see them.                 *)

\* Only a commit brings a request to where its push is next, with a new row.
LEMMA SendIsQuiet ==
    ASSUME StoreInv, NEW d \in Desk, SendStep(d) \/ SendFails(d)
    PROVE  QuietRows
<1>1. /\ DOMAIN messages \subseteq DOMAIN messages'
      /\ \A i \in DOMAIN messages : messages'[i] = messages[i]
  BY MessagesGrow
<1>2. jobs \in [Desk -> Jobs]
  BY DEF StoreInv, StoreTypes
<1>3. CASE Commit(d)
  <2>1. \A e \in Desk : At(e, "sent")' =>
           \/ At(e, "sent") /\ jobs'[e].id = jobs[e].id
           \/ jobs'[e].id \notin DOMAIN messages
    BY <1>3, CommitIs DEF At
  <2>2. QED
    BY <1>1, <2>1 DEF QuietRows
<1>4. CASE Gate(d) \/ LookUp(d) \/ Follower(d) \/ Policy(d) \/ Open(d) \/ Insert(d) \/ Write(d)
  <2>1. \A e \in Desk : e # d => jobs'[e] = jobs[e]
    BY <1>2, <1>4 DEF Gate, LookUp, Follower, Policy, Open, Insert, Write, Read, Goto
  <2>2. ~At(d, "sent")'
    <3>1. jobs[d] \in Job
      BY <1>4, BusyJob DEF Gate, LookUp, Follower, Policy, Open, Insert, Write, Read, At
    <3>2. ASSUME NEW s \in Stage \ {"sent"}, jobs' = [jobs EXCEPT ![d].at = s]
          PROVE  ~At(d, "sent")'
      BY <1>2, <3>1, <3>2 DEF At, Job
    <3>3. ASSUME NEW s \in Stage \ {"sent"}, NEW fr,
                 jobs' = [jobs EXCEPT ![d].at = s, ![d].fresh = fr]
          PROVE  ~At(d, "sent")'
      BY <1>2, <3>1, <3>3 DEF At, Job
    <3>4. ASSUME NEW s \in Stage \ {"sent"}, NEW i,
                 jobs' = [jobs EXCEPT ![d].at = s, ![d].id = i]
          PROVE  ~At(d, "sent")'
      BY <1>2, <3>1, <3>4 DEF At, Job
    <3>5. {"thread", "refused", "open", "follower", "policy", "write", "insert", "commit"}
              \subseteq Stage \ {"sent"}
      BY DEF Stage, Asking, Admitted
    <3>6. CASE Gate(d) \/ LookUp(d) \/ Follower(d) \/ Policy(d) \/ Open(d)
      BY <3>2, <3>5, <3>6 DEF Gate, LookUp, Follower, Policy, Open, Read, Goto
    <3>7. CASE Insert(d)
      BY <3>3, <3>5, <3>7 DEF Insert
    <3>8. CASE Write(d)
      BY <3>4, <3>5, <3>8 DEF Write
    <3>9. QED
      BY <1>4, <3>6, <3>7, <3>8
  <2>3. QED
    BY <1>1, <2>1, <2>2 DEF QuietRows, At, Busy
<1>5. CASE Reject(d) \/ CommitFails(d) \/ RefreshFails(d)
  <2>1. jobs' = [jobs EXCEPT ![d] = Idle]
    BY <1>5 DEF Reject, CommitFails, RefreshFails, Drop
  <2>2. QED
    BY <1>1, <1>2, <2>1 DEF QuietRows, At, Busy
<1>6. QED
  BY <1>3, <1>4, <1>5 DEF SendStep, SendFails

\* So does every step of requests and readers.
LEMMA MessagesAreQuiet ==
    ASSUME StoreInv, MessagesNext
    PROVE  QuietRows
<1>1. jobs \in [Desk -> Jobs]
  BY DEF StoreInv, StoreTypes
<1>2. CASE Change
  <2>1. jobs' = Observed(blocked', follows', closed', threads', jobs) /\ messages' = messages
    BY <1>2 DEF Change, store
  <2>2. PICK b, f, c, t : b = blocked' /\ f = follows' /\ c = closed' /\ t = threads'
    OBVIOUS
  <2>3. \A d \in Desk : /\ jobs[d] = Idle => jobs'[d] = Idle
                        /\ jobs[d] # Idle => SameClaim(jobs[d], jobs'[d])
    BY <1>1, <2>1, <2>2, ObservedIs
  <2>4. QED
    BY <2>1, <2>3 DEF QuietRows, At, Busy, SameClaim
<1>3. CASE Reads
  BY <1>3 DEF Reads, StartReading, ReadPage, ReadMore, StopReading, store, QuietRows, At, Busy
<1>4. ASSUME NEW d \in Desk, SendStep(d) \/ SendFails(d) PROVE QuietRows
  BY <1>4, SendIsQuiet
<1>5. ASSUME NEW d \in Desk, NEW from \in User, NEW to \in User, NEW key,
             Begin(d, from, to, key)
      PROVE  QuietRows
  <2> DEFINE p == IF from \in Creator THEN <<from, to>> ELSE <<to, from>>
             j == [at |-> IF from \in Creator THEN "open" ELSE "gate",
                   pair |-> p, from |-> from, key |-> key, id |-> 0, fresh |-> FALSE,
                   said |-> CanMessage(from, to), steady |-> TRUE, held |-> Now(p)]
  <2>1. jobs' = [jobs EXCEPT ![d] = j] /\ messages' = messages
    BY <1>5 DEF Begin, store
  <2>2. j.at # "sent"
    OBVIOUS
  <2> HIDE DEF j
  <2>3. QED
    BY <1>1, <2>1, <2>2 DEF QuietRows, At, Busy
<1>6. ASSUME NEW d \in Desk, NEW key, StorageFails(d, key) PROVE QuietRows
  BY <1>6 DEF StorageFails, store, QuietRows, At, Busy
<1>7. QED
  BY <1>2, <1>3, <1>4, <1>5, <1>6 DEF MessagesNext

\* Where messages stay as they are, rows do.
LEMMA RowsAtRest ==
    ASSUME UNCHANGED <<messages, jobs>>
    PROVE  QuietRows
BY DEF QuietRows, At, Busy

-----------------------------------------------------------------------------
(* Quiet steps.                                                            *)

\* Sockets and passes at rest.
LEMMA RelayAtRest ==
    ASSUME RelayTypes, Books, QuietRows, UNCHANGED relayVars
    PROVE  RelayTypes' /\ Books' /\ Quiet
<1>1. sockets' = sockets /\ procs' = procs /\ pushes' = pushes
  BY DEF relayVars
<1>2. Quiet
  BY <1>1 DEF Quiet, QuietSockets, QuietProcs, QuietPushes, Live, Relaying, Pushing
<1>3. RelayTypes' /\ Books'
  BY <1>1 DEF RelayTypes, SocketTypes, ProcTypes, PushTypes, Books, Connected, Registry, Live,
     Relaying
<1>4. QED
  BY <1>2, <1>3

\* One process changes.
LEMMA OneProc ==
    ASSUME ProcTypes, NEW p \in Process, NEW o \in Proc, procs' = [procs EXCEPT ![p] = o],
           Len(o.delivered) <= CacheSize, o.at = "sending" => o.pass \in Pass
    PROVE  /\ ProcTypes' /\ procs'[p] = o
           /\ \A q \in Process : q # p => procs'[q] = procs[q]
BY DEF ProcTypes, Relaying

\* A process changes its books, or loses what waits, between frames.
LEMMA BookStep ==
    ASSUME RelayTypes, Books, NEW p \in Process, NEW o \in Proc,
           procs' = [procs EXCEPT ![p] = o],
           o.delivered = procs[p].delivered, o.evicted = procs[p].evicted,
           o.inbox = procs[p].inbox \/ o.inbox = <<>>,
           o.at = "sending" => Relaying(p, "sending") /\ o.pass = procs[p].pass,
           o.subscribed \subseteq o.channels, o.pending = procs[p].pending,
           UNCHANGED <<messageVars, sockets, pushes>>
    PROVE  RelayTypes' /\ Books' /\ Quiet
<1>1. ProcTypes' /\ procs'[p] = o /\ \A q \in Process : q # p => procs'[q] = procs[q]
  BY OneProc DEF RelayTypes, ProcTypes
<1>2. sockets' = sockets /\ pushes' = pushes /\ messages' = messages /\ jobs' = jobs
  BY DEF messageVars, store
<1>3. RelayTypes'
  BY <1>1, <1>2 DEF RelayTypes, SocketTypes, PushTypes
<1>4. Books'
  BY <1>1, <1>2 DEF Books, Connected, Registry, Live
<1>5. Quiet
  BY <1>1, <1>2, RowsAtRest
     DEF Quiet, QuietSockets, QuietProcs, QuietPushes, Live, Relaying, Pushing
<1>6. QED
  BY <1>3, <1>4, <1>5

\* The relay's steps between frames, and its link.
LEMMA BookStepsAreQuiet ==
    ASSUME RelayTypes, Books, NEW p \in Process,
           \/ Ask(p) \/ Subscribe(p) \/ HearNothing(p) \/ RelayFails(p)
           \/ LinkBreaks(p) \/ Reconnects(p)
    PROVE  RelayTypes' /\ Books' /\ Quiet
<1>1. PICK r : r = procs[p]
  OBVIOUS
<1>2. /\ procs \in [Process -> Proc] /\ r \in Proc
      /\ r.subscribed \subseteq r.channels
  BY <1>1 DEF RelayTypes, ProcTypes, Books
<1>3. /\ r.pending \subseteq User /\ r.subscribed \subseteq User /\ r.channels \subseteq User
      /\ r.asked \subseteq User /\ <<>> \in Seq(Id \X User)
  BY <1>2, ProcFields, EmptySeq
<1>4. CASE Ask(p)
  <2> DEFINE o == [r EXCEPT !.at = "asking", !.asked = r.pending \ r.subscribed]
  <2>1. procs' = [procs EXCEPT ![p] = o] /\ UNCHANGED <<messageVars, sockets, pushes>>
    BY <1>1, <1>2, <1>4 DEF Ask, Unheard
  <2>2. o \in Proc
    BY <1>2, <1>3 DEF Proc
  <2>3. /\ o.at = "asking" /\ o.delivered = r.delivered /\ o.evicted = r.evicted
        /\ o.inbox = r.inbox /\ o.subscribed = r.subscribed /\ o.channels = r.channels
        /\ o.pending = r.pending
    BY <1>2 DEF Proc
  <2> HIDE DEF o
  <2>4. QED
    BY <1>1, <1>2, <2>1, <2>2, <2>3, BookStep
<1>5. CASE Subscribe(p)
  <2> DEFINE o == [r EXCEPT !.at = "get", !.link = "live",
                            !.channels = @ \cup r.asked, !.subscribed = @ \cup r.asked,
                            !.asked = {}]
  <2>1. procs' = [procs EXCEPT ![p] = o] /\ UNCHANGED <<messageVars, sockets, pushes>>
    BY <1>1, <1>2, <1>5 DEF Subscribe
  <2>2. o \in Proc
    BY <1>2, <1>3 DEF Proc
  <2>3. /\ o.at = "get" /\ o.delivered = r.delivered /\ o.evicted = r.evicted
        /\ o.inbox = r.inbox /\ o.subscribed = r.subscribed \cup r.asked
        /\ o.channels = r.channels \cup r.asked /\ o.pending = r.pending
    BY <1>2 DEF Proc
  <2> HIDE DEF o
  <2>4. QED
    BY <1>1, <1>2, <2>1, <2>2, <2>3, BookStep
<1>6. CASE HearNothing(p)
  <2> DEFINE o == [r EXCEPT !.at = "top"]
  <2>1. procs' = [procs EXCEPT ![p] = o] /\ UNCHANGED <<messageVars, sockets, pushes>>
    BY <1>1, <1>2, <1>6 DEF HearNothing
  <2>2. o \in Proc
    BY <1>2, <1>3 DEF Proc
  <2>3. /\ o.at = "top" /\ o.delivered = r.delivered /\ o.evicted = r.evicted
        /\ o.inbox = r.inbox /\ o.subscribed = r.subscribed /\ o.channels = r.channels
        /\ o.pending = r.pending
    BY <1>2 DEF Proc
  <2> HIDE DEF o
  <2>4. QED
    BY <1>1, <1>2, <2>1, <2>2, <2>3, BookStep
<1>7. CASE RelayFails(p)
  <2> DEFINE o == [r EXCEPT !.at = "top", !.link = "none", !.subscribed = {},
                            !.channels = {}, !.asked = {}, !.inbox = <<>>]
  <2>1. procs' = [procs EXCEPT ![p] = o] /\ UNCHANGED <<messageVars, sockets, pushes>>
    BY <1>1, <1>2, <1>7 DEF RelayFails
  <2>2. o \in Proc
    BY <1>2, <1>3 DEF Proc
  <2>3. /\ o.at = "top" /\ o.delivered = r.delivered /\ o.evicted = r.evicted
        /\ o.inbox = <<>> /\ o.subscribed = {} /\ o.channels = {}
        /\ o.pending = r.pending
    BY <1>2 DEF Proc
  <2> HIDE DEF o
  <2>4. QED
    BY <1>1, <1>2, <2>1, <2>2, <2>3, BookStep
<1>8. CASE LinkBreaks(p)
  <2> DEFINE o == [r EXCEPT !.link = "broken", !.inbox = <<>>]
  <2>1. procs' = [procs EXCEPT ![p] = o] /\ UNCHANGED <<messageVars, sockets, pushes>>
    BY <1>1, <1>2, <1>8 DEF LinkBreaks, Cut
  <2>2. o \in Proc
    BY <1>2, <1>3 DEF Proc
  <2>3. /\ o.at = r.at /\ o.pass = r.pass /\ o.delivered = r.delivered /\ o.evicted = r.evicted
        /\ o.inbox = <<>> /\ o.subscribed = r.subscribed /\ o.channels = r.channels
        /\ o.pending = r.pending
    BY <1>2 DEF Proc
  <2> HIDE DEF o
  <2>4. QED
    BY <1>1, <1>2, <2>1, <2>2, <2>3, BookStep DEF Relaying
<1>9. CASE Reconnects(p)
  <2> DEFINE o == [r EXCEPT !.link = "live"]
  <2>1. procs' = [procs EXCEPT ![p] = o] /\ UNCHANGED <<messageVars, sockets, pushes>>
    BY <1>1, <1>2, <1>9 DEF Reconnects
  <2>2. o \in Proc
    BY <1>2, <1>3 DEF Proc
  <2>3. /\ o.at = r.at /\ o.pass = r.pass /\ o.delivered = r.delivered /\ o.evicted = r.evicted
        /\ o.inbox = r.inbox /\ o.subscribed = r.subscribed /\ o.channels = r.channels
        /\ o.pending = r.pending
    BY <1>2 DEF Proc
  <2> HIDE DEF o
  <2>4. QED
    BY <1>1, <1>2, <2>1, <2>2, <2>3, BookStep DEF Relaying
<1>10. QED
  BY <1>4, <1>5, <1>6, <1>7, <1>8, <1>9

\* What a process books when its user comes, and when the last socket goes.
LEMMA ConnectIsQuiet ==
    ASSUME RelayTypes, Books, NEW s \in Socket, NEW p \in Process, NEW u \in User,
           Connect(s, p, u)
    PROVE  RelayTypes' /\ Books' /\ Quiet
<1> DEFINE c == [at |-> "open", proc |-> p, user |-> u, got |-> <<>>]
<1>1. PICK r : r = procs[p]
  OBVIOUS
<1> DEFINE o == [r EXCEPT !.pending = @ \cup {u}]
<1>2. /\ procs \in [Process -> Proc] /\ r \in Proc /\ Len(r.delivered) <= CacheSize
      /\ r.at = "sending" => r.pass \in Pass
      /\ r.subscribed \subseteq r.channels
      /\ \A v \in User : Connected(p, v) => v \in r.pending
  BY <1>1 DEF RelayTypes, ProcTypes, Books, Relaying
<1>3. /\ ~Live(s) /\ ~InUse(s) /\ sockets' = [sockets EXCEPT ![s] = c]
      /\ procs' = [procs EXCEPT ![p] = o]
      /\ pushes' = pushes /\ messages' = messages /\ jobs' = jobs
  BY <1>1, <1>2 DEF Connect, messageVars, store
<1>4. o \in Proc
  <2>1. r.pending \cup {u} \subseteq User
    BY <1>2, ProcFields
  <2>2. QED
    BY <1>2, <2>1 DEF Proc
<1>5. /\ o.at = r.at /\ o.pass = r.pass /\ o.delivered = r.delivered /\ o.evicted = r.evicted
      /\ o.inbox = r.inbox /\ o.subscribed = r.subscribed /\ o.channels = r.channels
      /\ o.pending = r.pending \cup {u}
  BY <1>2 DEF Proc
<1> HIDE DEF o
<1>6. c \in Connection /\ c.got = <<>> /\ c.proc = p /\ c.user = u
  BY EmptySeq DEF Connection
<1> HIDE DEF c
<1>7. /\ SocketTypes' /\ sockets'[s] = c
      /\ \A t \in Socket : t # s => sockets'[t] = sockets[t]
  BY <1>3, <1>6 DEF RelayTypes, SocketTypes
<1>8. ProcTypes' /\ procs'[p] = o /\ \A q \in Process : q # p => procs'[q] = procs[q]
  BY <1>2, <1>3, <1>4, <1>5, OneProc DEF RelayTypes
<1>9. RelayTypes'
  BY <1>3, <1>7, <1>8 DEF RelayTypes, PushTypes
<1>10. Books'
  <2>1. ASSUME NEW q \in Process, NEW v \in User, Connected(q, v)'
        PROVE  v \in procs'[q].pending
    <3>1. PICK t \in Socket : /\ Live(t)' /\ sockets'[t].at = "open"
                              /\ sockets'[t].proc = q /\ sockets'[t].user = v
      BY <2>1 DEF Connected, Registry
    <3>2. CASE t = s
      BY <1>5, <1>6, <1>7, <1>8, <3>1, <3>2
    <3>3. CASE t # s
      <4>1. Connected(q, v)
        BY <1>7, <3>1, <3>3 DEF Connected, Registry, Live
      <4>2. v \in procs[q].pending
        BY <4>1 DEF Books
      <4>3. QED
        BY <1>1, <1>5, <1>8, <4>2
    <3>4. QED
      BY <3>2, <3>3
  <2>2. \A q \in Process : procs'[q].subscribed \subseteq procs'[q].channels
    BY <1>2, <1>5, <1>8 DEF Books
  <2>3. QED
    BY <2>1, <2>2 DEF Books
<1>11. QuietSockets
  BY <1>3, <1>6, <1>7 DEF QuietSockets, Live
<1>12. QuietProcs
  BY <1>1, <1>5, <1>8 DEF QuietProcs, Relaying
<1>13. Quiet
  BY <1>3, <1>11, <1>12, RowsAtRest DEF Quiet, QuietPushes, Pushing
<1>14. QED
  BY <1>9, <1>10, <1>13

\* A socket closes; the channel goes off the books with the last one.
LEMMA DisconnectIsQuiet ==
    ASSUME RelayTypes, Books, NEW s \in Socket, Disconnect(s)
    PROVE  RelayTypes' /\ Books' /\ Quiet
<1>1. PICK p, u : p = sockets[s].proc /\ u = sockets[s].user
  OBVIOUS
<1>2. Live(s) /\ p \in Process /\ u \in User
  BY <1>1, ConnectionFields DEF Disconnect, RelayTypes
<1>3. PICK r : r = procs[p]
  OBVIOUS
<1> DEFINE o == [r EXCEPT !.pending = @ \ {u}, !.subscribed = @ \ {u}]
<1>4. /\ procs \in [Process -> Proc] /\ r \in Proc /\ Len(r.delivered) <= CacheSize
      /\ r.at = "sending" => r.pass \in Pass
      /\ r.subscribed \subseteq r.channels
  BY <1>2, <1>3 DEF RelayTypes, ProcTypes, Books, Relaying
<1>5. /\ sockets' = [sockets EXCEPT ![s] = Off]
      /\ \/ Registry(p, u) = {s} /\ procs' = [procs EXCEPT ![p] = o]
         \/ procs' = procs
      /\ pushes' = pushes /\ messages' = messages /\ jobs' = jobs
  BY <1>1, <1>2, <1>3, <1>4 DEF Disconnect, messageVars, store
<1>6. o \in Proc
  <2>1. r.pending \ {u} \subseteq User /\ r.subscribed \ {u} \subseteq User
    BY <1>4, ProcFields
  <2>2. QED
    BY <1>4, <2>1 DEF Proc
<1>7. /\ o.at = r.at /\ o.pass = r.pass /\ o.delivered = r.delivered /\ o.evicted = r.evicted
      /\ o.inbox = r.inbox /\ o.subscribed = r.subscribed \ {u} /\ o.channels = r.channels
      /\ o.pending = r.pending \ {u}
  BY <1>4 DEF Proc
<1> HIDE DEF o
<1>8. /\ SocketTypes' /\ ~Live(s)'
      /\ \A t \in Socket : t # s => sockets'[t] = sockets[t]
  BY <1>5 DEF RelayTypes, SocketTypes, Live
<1>9. /\ ProcTypes' /\ \A q \in Process : q # p => procs'[q] = procs[q]
      /\ \/ Registry(p, u) = {s} /\ procs'[p] = o
         \/ procs'[p] = r
  <2>1. CASE Registry(p, u) = {s} /\ procs' = [procs EXCEPT ![p] = o]
    <3>1. ProcTypes' /\ procs'[p] = o /\ \A q \in Process : q # p => procs'[q] = procs[q]
      BY <1>2, <1>4, <1>6, <1>7, <2>1, OneProc DEF RelayTypes
    <3>2. QED
      BY <2>1, <3>1
  <2>2. CASE procs' = procs
    BY <1>3, <2>2 DEF RelayTypes, ProcTypes, Relaying
  <2>3. QED
    BY <1>5, <2>1, <2>2
<1>10. RelayTypes'
  BY <1>5, <1>8, <1>9 DEF RelayTypes, PushTypes
<1>11. Books'
  <2>1. ASSUME NEW q \in Process, NEW v \in User, Connected(q, v)'
        PROVE  v \in procs'[q].pending
    <3>1. PICK t \in Socket : /\ Live(t)' /\ sockets'[t].at = "open"
                              /\ sockets'[t].proc = q /\ sockets'[t].user = v
      BY <2>1 DEF Connected, Registry
    <3>2. t # s /\ t \in Registry(q, v)
      BY <1>8, <3>1 DEF Registry, Live
    <3>3. v \in procs[q].pending
      BY <3>2 DEF Books, Connected
    <3>4. CASE q = p /\ v = u
      BY <1>3, <1>9, <3>2, <3>3, <3>4
    <3>5. CASE ~(q = p /\ v = u)
      BY <1>3, <1>7, <1>9, <3>3, <3>5
    <3>6. QED
      BY <3>4, <3>5
  <2>2. \A q \in Process : procs'[q].subscribed \subseteq procs'[q].channels
    BY <1>4, <1>7, <1>9 DEF Books
  <2>3. QED
    BY <2>1, <2>2 DEF Books
<1>12. QuietSockets
  BY <1>8 DEF QuietSockets, Live
<1>13. QuietProcs
  BY <1>3, <1>7, <1>9 DEF QuietProcs, Relaying
<1>14. Quiet
  BY <1>5, <1>12, <1>13, RowsAtRest DEF Quiet, QuietPushes, Pushing
<1>15. QED
  BY <1>10, <1>11, <1>14

\* Dropping sockets from the registry touches neither what they got nor whose they are.
LEMMA DroppedIs ==
    ASSUME SocketTypes, NEW dead, sockets' = Dropped(dead)
    PROVE  /\ SocketTypes' /\ QuietSockets
           /\ \A s \in Socket : /\ Live(s)' <=> Live(s)
                                /\ sockets'[s].got = sockets[s].got
                                /\ sockets'[s].proc = sockets[s].proc
                                /\ sockets'[s].user = sockets[s].user
                                /\ s \notin dead => sockets'[s] = sockets[s]
                                /\ s \in dead /\ Live(s) => sockets'[s].at = "stale"
           /\ \A p, u : Connected(p, u)' => Connected(p, u)
<1>1. ASSUME NEW s \in Socket
      PROVE  /\ sockets'[s] \in Connection \cup {Off}
             /\ Live(s)' <=> Live(s)
             /\ sockets'[s].got = sockets[s].got
             /\ sockets'[s].proc = sockets[s].proc
             /\ sockets'[s].user = sockets[s].user
             /\ s \notin dead => sockets'[s] = sockets[s]
             /\ s \in dead /\ Live(s) => sockets'[s].at = "stale"
  <2>1. PICK c : c = sockets[s] /\ c \in Connection \cup {Off}
    BY DEF SocketTypes
  <2>2. CASE s \in dead /\ Live(s)
    <3> DEFINE o == [c EXCEPT !.at = "stale"]
    <3>1. c \in Connection /\ sockets'[s] = o
      BY <2>1, <2>2 DEF Live, Dropped
    <3>2. /\ o \in Connection /\ o.at = "stale" /\ o.got = c.got /\ o.proc = c.proc
          /\ o.user = c.user
      BY <3>1 DEF Connection
    <3> HIDE DEF o
    <3>3. QED
      BY <2>1, <2>2, <3>1, <3>2, KindsDiffer DEF Live
  <2>3. CASE ~(s \in dead /\ Live(s))
    BY <2>1, <2>3 DEF Dropped, Live
  <2>4. QED
    BY <2>2, <2>3
<1>2. sockets' = [s \in Socket |-> sockets'[s]]
  BY DEF Dropped
<1>3. SocketTypes'
  BY <1>1, <1>2 DEF SocketTypes
<1>4. \A s \in Socket : Live(s) /\ sockets'[s].at = "open" => sockets[s].at = "open"
  BY <1>1
<1>5. QuietSockets
  BY <1>1, <1>4 DEF QuietSockets
<1>6. \A p, u : Connected(p, u)' => Connected(p, u)
  BY <1>1, <1>4 DEF Connected, Registry
<1>7. QED
  BY <1>1, <1>3, <1>5, <1>6

\* The relay's pass ends: those who failed leave the registry.
LEMMA EndRelayIsQuiet ==
    ASSUME RelayTypes, Books, NEW p \in Process, EndRelay(p)
    PROVE  RelayTypes' /\ Books' /\ Quiet
<1>1. PICK r : r = procs[p]
  OBVIOUS
<1> DEFINE o == [r EXCEPT !.at = "top", !.pass = <<>>]
<1>2. /\ procs \in [Process -> Proc] /\ r \in Proc /\ Len(r.delivered) <= CacheSize
      /\ r.subscribed \subseteq r.channels
  BY <1>1 DEF RelayTypes, ProcTypes, Books
<1>3. /\ sockets' = Dropped(r.pass.dead) /\ procs' = [procs EXCEPT ![p] = o]
      /\ pushes' = pushes /\ messages' = messages /\ jobs' = jobs
  BY <1>1, <1>2 DEF EndRelay, messageVars, store
<1>4. o \in Proc
  BY <1>2 DEF Proc
<1>5. /\ o.at = "top" /\ o.delivered = r.delivered /\ o.evicted = r.evicted
      /\ o.inbox = r.inbox /\ o.subscribed = r.subscribed /\ o.channels = r.channels
      /\ o.pending = r.pending
  BY <1>2 DEF Proc
<1> HIDE DEF o
<1>6. PICK dead : dead = r.pass.dead
  OBVIOUS
<1>7. SocketTypes' /\ QuietSockets /\ \A q, u : Connected(q, u)' => Connected(q, u)
  BY <1>3, <1>6, DroppedIs DEF RelayTypes
<1>8. ProcTypes' /\ procs'[p] = o /\ \A q \in Process : q # p => procs'[q] = procs[q]
  BY <1>2, <1>3, <1>4, <1>5, OneProc DEF RelayTypes
<1>9. RelayTypes'
  BY <1>3, <1>7, <1>8 DEF RelayTypes, PushTypes
<1>10. Books'
  BY <1>1, <1>2, <1>5, <1>7, <1>8 DEF Books
<1>11. QuietProcs
  BY <1>1, <1>5, <1>8 DEF QuietProcs, Relaying
<1>12. Quiet
  BY <1>3, <1>7, <1>11, RowsAtRest DEF Quiet, QuietPushes, Pushing
<1>13. QED
  BY <1>9, <1>10, <1>12

\* A request is over without a push.
LEMMA AckFailsIsQuiet ==
    ASSUME StoreInv, RelayTypes, Books, NEW d \in Desk, AckFails(d)
    PROVE  RelayTypes' /\ Books' /\ Quiet
<1>1. jobs \in [Desk -> Jobs]
  BY DEF StoreInv, StoreTypes
<1>2. jobs' = [jobs EXCEPT ![d] = Idle] /\ messages' = messages /\ UNCHANGED relayVars
  BY DEF AckFails, store
<1>3. QuietRows
  BY <1>1, <1>2 DEF QuietRows, At, Busy
<1>4. QED
  BY <1>2, <1>3, RelayAtRest

\* A process dies with everything it had, and remembers nothing.
LEMMA CrashIsQuiet ==
    ASSUME StoreInv, RelayTypes, Books, NEW p \in Process, Crash(p)
    PROVE  RelayTypes' /\ Books' /\ Quiet
<1>1. /\ procs' = [procs EXCEPT ![p] = Fresh] /\ messages' = messages
      /\ jobs' = [d \in Desk |-> IF Home[d] = p THEN Idle ELSE jobs[d]]
      /\ pushes' = [d \in Desk |-> IF Home[d] = p THEN NoPush ELSE pushes[d]]
      /\ sockets' = [s \in Socket |->
             IF Live(s) /\ sockets[s].proc = p THEN Off ELSE sockets[s]]
  BY DEF Crash, store
<1>2. \A s \in Socket : Live(s)' =>
          Live(s) /\ sockets'[s] = sockets[s] /\ sockets[s].proc # p
  BY <1>1 DEF Live
<1>3. SocketTypes'
  BY <1>1 DEF RelayTypes, SocketTypes
<1>4. ProcTypes' /\ procs'[p] = Fresh /\ \A q \in Process : q # p => procs'[q] = procs[q]
  BY <1>1, KindsDiffer, OneProc DEF RelayTypes
<1>5. PushTypes' /\ QuietPushes
  BY <1>1 DEF RelayTypes, PushTypes, QuietPushes, Pushing
<1>6. Books'
  <2>1. \A q \in Process, u \in User : Connected(q, u)' => Connected(q, u) /\ q # p
    BY <1>2 DEF Connected, Registry
  <2>2. QED
    BY <1>4, <2>1, KindsDiffer DEF Books
<1>7. QuietSockets
  BY <1>2 DEF QuietSockets
<1>8. QuietProcs
  BY <1>2, <1>4, KindsDiffer DEF QuietProcs, Relaying
<1>9. QuietRows
  BY <1>1 DEF QuietRows, At, Busy
<1>10. QED
  BY <1>3, <1>4, <1>5, <1>6, <1>7, <1>8, <1>9 DEF RelayTypes, Quiet

-----------------------------------------------------------------------------
(* Publishing.                                                             *)

\* An inbox holds what it held, and perhaps the published frame behind it.
LEMMA InboxesAre ==
    ASSUME NEW ps \in [Process -> Proc], NEW i \in Id, NEW u \in User,
           NEW qs \in {ps, Published(ps, i, u)}
    PROVE  /\ qs \in [Process -> Proc]
           /\ \A p \in Process :
                 /\ qs[p].at = ps[p].at /\ qs[p].pass = ps[p].pass
                 /\ qs[p].delivered = ps[p].delivered /\ qs[p].evicted = ps[p].evicted
                 /\ qs[p].pending = ps[p].pending /\ qs[p].subscribed = ps[p].subscribed
                 /\ qs[p].channels = ps[p].channels
                 /\ \A k \in DOMAIN qs[p].inbox :
                       \/ k \in DOMAIN ps[p].inbox /\ qs[p].inbox[k] = ps[p].inbox[k]
                       \/ k = Len(ps[p].inbox) + 1 /\ qs[p].inbox[k] = <<i, u>>
<1>1. CASE qs = ps
  BY <1>1
<1>2. CASE qs = Published(ps, i, u)
  <2>1. /\ qs \in [Process -> Proc]
        /\ \A p \in Process :
              /\ qs[p].at = ps[p].at /\ qs[p].pass = ps[p].pass
              /\ qs[p].delivered = ps[p].delivered /\ qs[p].evicted = ps[p].evicted
              /\ qs[p].pending = ps[p].pending /\ qs[p].subscribed = ps[p].subscribed
              /\ qs[p].channels = ps[p].channels
              /\ \/ qs[p].inbox = ps[p].inbox
                 \/ qs[p].inbox = Append(ps[p].inbox, <<i, u>>)
    BY <1>2, PublishedIs
  <2>2. ASSUME NEW p \in Process, NEW k \in DOMAIN qs[p].inbox
        PROVE  \/ k \in DOMAIN ps[p].inbox /\ qs[p].inbox[k] = ps[p].inbox[k]
               \/ k = Len(ps[p].inbox) + 1 /\ qs[p].inbox[k] = <<i, u>>
    <3>1. PICK box : box = ps[p].inbox /\ box \in Seq(Id \X User)
      BY ProcFields
    <3>2. PICK e : e = <<i, u>>
      OBVIOUS
    <3>3. e \in Id \X User
      BY <3>2
    <3>4. /\ DOMAIN box = 1 .. Len(box) /\ Len(box) \in Nat
          /\ DOMAIN Append(box, e) = 1 .. Len(box) + 1
          /\ \A l \in DOMAIN box : Append(box, e)[l] = box[l]
          /\ Append(box, e)[Len(box) + 1] = e
      BY <3>1, <3>3, AppendIs
    <3>5. \A l \in 1 .. Len(box) + 1 : l \in 1 .. Len(box) \/ l = Len(box) + 1
      BY <3>4
    <3>6. qs[p].inbox = box \/ qs[p].inbox = Append(box, e)
      BY <2>1, <3>1, <3>2
    <3>7. QED
      BY <2>2, <3>1, <3>2, <3>4, <3>5, <3>6
  <2>3. QED
    BY <2>1, <2>2
<1>3. QED
  BY <1>1, <1>2

\* A frame is published, or is not, once its own process remembers it as far as
\* it is going to: nowhere else is it on its way.
LEMMA PublishKeeps ==
    ASSUME RelayTypes, Books, DeliveryInv,
           NEW i \in Id, NEW u \in User, Frame(i, u),
           \A p \in Process : ~Waits(p, i) /\ ~Relays(p, i),
           NEW ps \in [Process -> Proc],
           \A p \in Process :
              /\ Len(ps[p].delivered) <= CacheSize
              /\ ps[p].at = procs[p].at /\ ps[p].pass = procs[p].pass
              /\ ps[p].inbox = procs[p].inbox /\ ps[p].pending = procs[p].pending
              /\ ps[p].subscribed = procs[p].subscribed /\ ps[p].channels = procs[p].channels
              /\ procs[p].evicted \subseteq ps[p].evicted
              /\ \A x : Known(p, x) => \/ \E k \in DOMAIN ps[p].delivered : ps[p].delivered[k] = x
                                       \/ x \in ps[p].evicted,
           procs' \in {ps, Published(ps, i, u)}, messages' = messages,
           \A d \in Desk : At(d, "sent")' =>
              At(d, "sent") /\ jobs'[d] = jobs[d] /\ jobs[d].id # i,
           PushTypes',
           \A d \in Desk : Pushing(d)' =>
              Pushing(d) /\ pushes'[d] = pushes[d] /\ pushes[d].pass.id # i,
           SocketTypes',
           \A s \in Socket : Live(s)' =>
              /\ Live(s) /\ sockets'[s].got = sockets[s].got
              /\ sockets'[s].proc = sockets[s].proc /\ sockets'[s].user = sockets[s].user
              /\ sockets'[s].at = "open" => sockets[s].at = "open",
           \A p, v : Connected(p, v)' => Connected(p, v),
           \A s \in Socket : Got(s, i) /\ sockets'[s].at = "open" =>
              \A p \in {sockets[s].proc} :
                 \/ \E k \in DOMAIN ps[p].delivered : ps[p].delivered[k] = i
                 \/ i \in ps[p].evicted
    PROVE  RelayTypes' /\ Books' /\ DeliveryInv'
<1>1. /\ procs' \in [Process -> Proc]
      /\ \A p \in Process :
            /\ procs'[p].at = ps[p].at /\ procs'[p].pass = ps[p].pass
            /\ procs'[p].delivered = ps[p].delivered /\ procs'[p].evicted = ps[p].evicted
            /\ procs'[p].pending = ps[p].pending /\ procs'[p].subscribed = ps[p].subscribed
            /\ procs'[p].channels = ps[p].channels
            /\ \A k \in DOMAIN procs'[p].inbox :
                  \/ k \in DOMAIN ps[p].inbox /\ procs'[p].inbox[k] = ps[p].inbox[k]
                  \/ k = Len(ps[p].inbox) + 1 /\ procs'[p].inbox[k] = <<i, u>>
  <2>1. PICK qs : qs = procs'
    OBVIOUS
  <2>2. qs \in {ps, Published(ps, i, u)}
    BY <2>1
  <2>3. QED
    BY <2>1, <2>2, InboxesAre
<1>2. \A p \in Process : /\ Relaying(p, "sending")' <=> Relaying(p, "sending")
                         /\ procs'[p].pass = procs[p].pass
                         /\ \A x : Known(p, x) => Known(p, x)'
                         /\ \A x : Relays(p, x)' <=> Relays(p, x)
                         /\ \A x : Waits(p, x)' => Waits(p, x) \/ x = i
                         /\ procs[p].evicted \subseteq procs'[p].evicted
  BY <1>1 DEF Relaying, Known, Relays, Waits
<1>3. /\ \A s \in Socket : \A x : Got(s, x)' => Got(s, x)
      /\ \A d \in Desk : \A x : Pushes(d, x)' => Pushes(d, x) /\ x # i
  BY DEF Got, Pushes
<1>4. RelayTypes'
  BY <1>1, <1>2 DEF RelayTypes, ProcTypes
<1>5. Books'
  BY <1>1 DEF Books
<1>6. FramesInv'
  <2>1. ASSUME NEW s \in Socket, Live(s)', NEW k \in DOMAIN sockets'[s].got
        PROVE  Frame(sockets[s].got[k], sockets[s].user)
    BY <2>1 DEF DeliveryInv, FramesInv
  <2>2. ASSUME NEW p \in Process, NEW k \in DOMAIN procs'[p].inbox,
               NEW e, e = procs'[p].inbox[k]
        PROVE  Frame(e[1], e[2])
    <3>1. CASE k \in DOMAIN procs[p].inbox /\ e = procs[p].inbox[k]
      BY <3>1 DEF DeliveryInv, FramesInv
    <3>2. CASE e = <<i, u>>
      BY <3>2
    <3>3. QED
      BY <1>1, <2>2, <3>1, <3>2
  <2>3. \A p, pass : Addressed(pass, p) /\ pass.todo \subseteq Socket => Addressed(pass, p)'
    BY DEF Addressed, Frame
  <2>4. ASSUME NEW p \in Process, Relaying(p, "sending")', NEW pass, pass = procs'[p].pass
        PROVE  Addressed(pass, p)'
    <3>1. Relaying(p, "sending") /\ pass = procs[p].pass
      BY <1>2, <2>4
    <3>2. pass \in Pass /\ Addressed(pass, p)
      BY <3>1 DEF RelayTypes, ProcTypes, DeliveryInv, FramesInv
    <3>3. QED
      BY <2>3, <3>2, PassFields
  <2>5. ASSUME NEW d \in Desk, Pushing(d)', NEW pass, pass = pushes'[d].pass
        PROVE  Addressed(pass, Home[d])'
    <3>1. Pushing(d) /\ pass = pushes[d].pass
      BY <2>5
    <3>2. pass \in Pass /\ Addressed(pass, Home[d])
      BY <3>1 DEF RelayTypes, PushTypes, Push, Pushing, DeliveryInv, FramesInv
    <3>3. QED
      BY <2>3, <3>2, PassFields
  <2>6. QED
    BY <2>1, <2>2, <2>4, <2>5 DEF FramesInv, Frame
<1>7. UnsentInv'
  <2> SUFFICES ASSUME NEW d \in Desk, At(d, "sent")', NEW x, x = jobs'[d].id
               PROVE  /\ \A s \in Socket : ~Got(s, x)'
                      /\ \A p \in Process : ~Waits(p, x)' /\ ~Relays(p, x)'
                      /\ \A e \in Desk : ~Pushes(e, x)'
    BY DEF UnsentInv, Got, Waits, Relays, Pushes
  <2>1. At(d, "sent") /\ x = jobs[d].id /\ x # i
    OBVIOUS
  <2>2. QED
    BY <1>2, <1>3, <2>1 DEF DeliveryInv, UnsentInv
<1>8. PushedInv'
  <2> SUFFICES ASSUME NEW d \in Desk, Pushing(d)', NEW pass, pass = pushes'[d].pass,
                      NEW x, x = pass.id
               PROVE  /\ \A s \in Socket : Got(s, x)' =>
                            /\ sockets'[s].proc = Home[d]
                            /\ s \in (pass.fine \cup pass.dead) \ pass.todo
                      /\ \A p \in Process : ~Waits(p, x)' /\ ~Relays(p, x)'
                      /\ \A e \in Desk : Pushes(e, x)' => e = d
    BY DEF PushedInv, Got, Waits, Relays, Pushes
  <2>1. Pushing(d) /\ pass = pushes[d].pass /\ x # i
    OBVIOUS
  <2>2. \A s \in Socket : Got(s, x)' => Got(s, x) /\ sockets'[s].proc = sockets[s].proc
    BY DEF Got
  <2>3. QED
    BY <1>2, <1>3, <2>1, <2>2 DEF DeliveryInv, PushedInv
<1>9. HeardInv'
  <2> SUFFICES ASSUME NEW p \in Process
               PROVE  /\ \A k, l \in DOMAIN procs'[p].inbox :
                            procs'[p].inbox[k][1] = procs'[p].inbox[l][1] => k = l
                      /\ \A x : Relays(p, x)' => ~Waits(p, x)'
    BY DEF HeardInv, Relays, Waits
  <2>1. ASSUME NEW k \in DOMAIN procs'[p].inbox, NEW l \in DOMAIN procs'[p].inbox,
               procs'[p].inbox[k][1] = procs'[p].inbox[l][1]
        PROVE  k = l
    <3>1. \A m \in DOMAIN procs[p].inbox : procs[p].inbox[m][1] # i
      BY DEF Waits
    <3>2. QED
      BY <1>1, <2>1, <3>1 DEF DeliveryInv, HeardInv
  <2>2. ASSUME NEW x, Relays(p, x)' PROVE ~Waits(p, x)'
    BY <1>2, <2>2 DEF DeliveryInv, HeardInv, Relays
  <2>3. QED
    BY <2>1, <2>2
<1>10. OnceInv'
  <2>1. ASSUME NEW s \in Socket, Live(s)', NEW p, p = sockets'[s].proc, p \in Process,
               NEW k \in DOMAIN sockets'[s].got, NEW l \in DOMAIN sockets'[s].got,
               sockets'[s].got[k] = sockets'[s].got[l], k # l
        PROVE  sockets'[s].got[k] \in procs'[p].evicted
    <3>1. sockets[s].got[k] \in procs[p].evicted
      BY <2>1 DEF DeliveryInv, OnceInv
    <3>2. QED
      BY <1>2, <2>1, <3>1
  <2>2. ASSUME NEW s \in Socket, Live(s)', NEW p, p = sockets'[s].proc, p \in Process,
               sockets'[s].at = "open", NEW x \in Id, Got(s, x)', Waits(p, x)'
        PROVE  Known(p, x)'
    <3>1. CASE x = i
      BY <1>1, <1>3, <2>2, <3>1 DEF Known
    <3>2. CASE Waits(p, x)
      BY <1>2, <1>3, <2>2, <3>2 DEF DeliveryInv, OnceInv
    <3>3. QED
      BY <1>2, <2>2, <3>1, <3>2
  <2>3. ASSUME NEW p \in Process, Relaying(p, "sending")', NEW pass, pass = procs'[p].pass,
               NEW s \in pass.todo, NEW x, x = pass.id, Got(s, x)'
        PROVE  x \in procs'[p].evicted
    <3>1. Relaying(p, "sending") /\ pass = procs[p].pass
      BY <1>2, <2>3
    <3>2. s \in Socket
      BY <2>3, <3>1 DEF RelayTypes, ProcTypes, Pass
    <3>3. QED
      BY <1>2, <1>3, <2>3, <3>1, <3>2 DEF DeliveryInv, OnceInv
  <2>4. \A s \in Socket : Live(s)' => sockets'[s].proc \in Process
    BY DEF SocketTypes, Connection, Live
  <2>5. QED
    BY <2>1, <2>2, <2>3, <2>4, ZenonT(40) DEF OnceInv, Got, Waits, Known
<1>11. QED
  BY <1>4, <1>5, <1>6, <1>7, <1>8, <1>9, <1>10 DEF DeliveryInv

-----------------------------------------------------------------------------
(* Pushing.                                                                *)

\* A row's recipient is a user.
LEMMA RecipientIsUser ==
    ASSUME NEW m \in Message
    PROVE  Recipient(m) \in User
BY DEF Recipient, Message, Pair, User

\* A push begins: the message is committed, its id is no other's, and it is
\* nowhere yet.
LEMMA StartPushKeeps ==
    ASSUME StoreInv, RelayTypes, Books, DeliveryInv, NEW d \in Desk, StartPush(d)
    PROVE  RelayTypes' /\ Books' /\ DeliveryInv'
<1>1. PICK i, u : i = jobs[d].id /\ u = Recipient(Row(jobs[d]))
  OBVIOUS
<1>2. /\ At(d, "sent") /\ ~Pushing(d) /\ jobs' = [jobs EXCEPT ![d] = Idle]
      /\ messages' = messages /\ sockets' = sockets
      /\ \/ /\ procs' = procs
            /\ pushes' = [pushes EXCEPT ![d] =
                             [at |-> "sending", pass |-> PassFor(Home[d], i, u)]]
         \/ procs' \in {procs, Published(procs, i, u)} /\ pushes' = pushes
  BY <1>1 DEF StartPush, store
<1>3. jobs \in [Desk -> Jobs] /\ messages \in [DOMAIN messages -> Message]
      /\ DOMAIN messages \subseteq Id
  BY DEF StoreInv, StoreTypes
<1>4. i \in DOMAIN messages /\ messages[i] = Row(jobs[d])
  BY <1>1, <1>2 DEF StoreInv, OwnIds
<1>5. i \in Id /\ u \in User /\ Frame(i, u)
  BY <1>1, <1>3, <1>4, RecipientIsUser DEF Frame
<1>6. \A e \in Desk : At(e, "sent")' =>
          At(e, "sent") /\ jobs'[e] = jobs[e] /\ jobs[e].id # i
  <2> SUFFICES ASSUME NEW e \in Desk, At(e, "sent")'
               PROVE  At(e, "sent") /\ jobs'[e] = jobs[e] /\ jobs[e].id # i
    OBVIOUS
  <2>1. e # d /\ jobs'[e] = jobs[e]
    BY <1>2, <1>3 DEF At, Busy
  <2>2. At(e, "sent")
    BY <2>1 DEF At, Busy
  <2>3. QED
    BY <1>1, <1>2, <2>1, <2>2 DEF StoreInv, OwnIds
<1>7. /\ \A s \in Socket : ~Got(s, i)
      /\ \A p \in Process : ~Waits(p, i) /\ ~Relays(p, i)
      /\ \A e \in Desk : ~Pushes(e, i)
  BY <1>1, <1>2 DEF DeliveryInv, UnsentInv
<1>8. CASE procs' \in {procs, Published(procs, i, u)} /\ pushes' = pushes
  <2>1. PICK ps : ps = procs
    OBVIOUS
  <2>2. /\ ps \in [Process -> Proc]
        /\ \A p \in Process :
              /\ Len(ps[p].delivered) <= CacheSize
              /\ ps[p].at = procs[p].at /\ ps[p].pass = procs[p].pass
              /\ ps[p].inbox = procs[p].inbox /\ ps[p].pending = procs[p].pending
              /\ ps[p].subscribed = procs[p].subscribed /\ ps[p].channels = procs[p].channels
              /\ procs[p].evicted \subseteq ps[p].evicted
              /\ \A x : Known(p, x) => \/ \E k \in DOMAIN ps[p].delivered : ps[p].delivered[k] = x
                                       \/ x \in ps[p].evicted
    BY <2>1 DEF RelayTypes, ProcTypes, Known
  <2>3. procs' \in {ps, Published(ps, i, u)}
    BY <1>8, <2>1
  <2>4. PushTypes' /\ SocketTypes'
    BY <1>2, <1>8 DEF RelayTypes, PushTypes, SocketTypes
  <2>5. \A e \in Desk : Pushing(e)' =>
            Pushing(e) /\ pushes'[e] = pushes[e] /\ pushes[e].pass.id # i
    BY <1>7, <1>8 DEF Pushing, Pushes
  <2>6. /\ \A s \in Socket : Live(s)' =>
              /\ Live(s) /\ sockets'[s].got = sockets[s].got
              /\ sockets'[s].proc = sockets[s].proc /\ sockets'[s].user = sockets[s].user
              /\ sockets'[s].at = "open" => sockets[s].at = "open"
        /\ \A p, v : Connected(p, v)' => Connected(p, v)
    BY <1>2 DEF Live, Connected, Registry
  <2>7. QED
    BY <1>2, <1>5, <1>6, <1>7, <2>2, <2>3, <2>4, <2>5, <2>6, PublishKeeps
<1>9. CASE /\ procs' = procs
           /\ pushes' = [pushes EXCEPT ![d] =
                            [at |-> "sending", pass |-> PassFor(Home[d], i, u)]]
  <2>1. PICK pass : pass = PassFor(Home[d], i, u)
    OBVIOUS
  <2>2. /\ pass \in Pass /\ pass.id = i /\ pass.to = u /\ pass.todo = Registry(Home[d], u)
    BY <1>5, <2>1, PassForIs
  <2> DEFINE push == [at |-> "sending", pass |-> pass]
  <2>3. pushes' = [pushes EXCEPT ![d] = push] /\ push \in Push /\ push.pass = pass
    BY <1>9, <2>1, <2>2 DEF Push
  <2> HIDE DEF push
  <2>4. /\ PushTypes' /\ pushes'[d] = push /\ Pushing(d)'
        /\ \A e \in Desk : e # d => pushes'[e] = pushes[e]
    BY <2>3, KindsDiffer DEF RelayTypes, PushTypes, Pushing
  <2>5. /\ \A s : (Live(s)' <=> Live(s)) /\ \A x : Got(s, x)' <=> Got(s, x)
        /\ \A p : Relaying(p, "sending")' <=> Relaying(p, "sending")
        /\ \A p, x : /\ Waits(p, x)' <=> Waits(p, x)
                     /\ Relays(p, x)' <=> Relays(p, x)
                     /\ Known(p, x)' <=> Known(p, x)
        /\ \A p, v : Connected(p, v)' <=> Connected(p, v)
    BY <1>2, <1>9 DEF Live, Got, Waits, Relays, Known, Relaying, Connected, Registry
  <2>6. \A e \in Desk : \A x : Pushes(e, x)' => Pushes(e, x) \/ (e = d /\ x = i)
    BY <2>2, <2>3, <2>4 DEF Pushes, Pushing
  <2>7. RelayTypes' /\ Books'
    BY <1>2, <1>9, <2>4, <2>5 DEF RelayTypes, SocketTypes, ProcTypes, Books
  <2>8. FramesInv'
    <3>1. \A x, v : Frame(x, v) => Frame(x, v)'
      BY <1>2 DEF Frame
    <3>2. \A p, o : Addressed(o, p) => Addressed(o, p)'
      BY <1>2, <2>5 DEF Addressed, Frame
    <3>3. Addressed(pass, Home[d])
      BY <1>5, <2>2 DEF Addressed, Registry
    <3>4. ASSUME NEW e \in Desk, Pushing(e)', NEW o, o = pushes'[e].pass
          PROVE  Addressed(o, Home[e])'
      <4>1. CASE e = d
        BY <2>3, <2>4, <3>2, <3>3, <3>4, <4>1
      <4>2. CASE e # d
        BY <2>4, <3>2, <3>4, <4>2 DEF Pushing, DeliveryInv, FramesInv
      <4>3. QED
        BY <4>1, <4>2
    <3>5. ASSUME NEW p \in Process, Relaying(p, "sending")', NEW o, o = procs'[p].pass
          PROVE  Addressed(o, p)'
      BY <1>9, <2>5, <3>2, <3>5 DEF DeliveryInv, FramesInv
    <3>6. /\ \A s \in Socket : Live(s)' => \A k \in DOMAIN sockets'[s].got :
                Frame(sockets[s].got[k], sockets[s].user)
          /\ \A p \in Process : \A k \in DOMAIN procs'[p].inbox :
                Frame(procs[p].inbox[k][1], procs[p].inbox[k][2])
      BY <1>2, <1>9, <2>5 DEF DeliveryInv, FramesInv
    <3>7. QED
      BY <1>2, <1>9, <3>4, <3>5, <3>6 DEF FramesInv, Frame
  <2>9. UnsentInv'
    <3> SUFFICES ASSUME NEW e \in Desk, At(e, "sent")', NEW x, x = jobs'[e].id
                 PROVE  /\ \A s \in Socket : ~Got(s, x)'
                        /\ \A p \in Process : ~Waits(p, x)' /\ ~Relays(p, x)'
                        /\ \A f \in Desk : ~Pushes(f, x)'
      BY DEF UnsentInv, Got, Waits, Relays, Pushes
    <3>1. At(e, "sent") /\ x = jobs[e].id /\ x # i
      BY <1>6
    <3>2. QED
      BY <2>5, <2>6, <3>1 DEF DeliveryInv, UnsentInv
  <2>10. PushedInv'
    <3> SUFFICES ASSUME NEW e \in Desk, Pushing(e)', NEW o, o = pushes'[e].pass,
                        NEW x, x = o.id
                 PROVE  /\ \A s \in Socket : Got(s, x)' =>
                              /\ sockets'[s].proc = Home[e]
                              /\ s \in (o.fine \cup o.dead) \ o.todo
                        /\ \A p \in Process : ~Waits(p, x)' /\ ~Relays(p, x)'
                        /\ \A f \in Desk : Pushes(f, x)' => f = e
      BY DEF PushedInv, Got, Waits, Relays, Pushes
    <3>1. CASE e = d
      BY <1>7, <2>2, <2>3, <2>4, <2>5, <2>6, <3>1
    <3>2. CASE e # d
      <4>1. Pushing(e) /\ o = pushes[e].pass /\ x # i
        BY <1>7, <2>4, <3>2 DEF Pushing, Pushes
      <4>2. QED
        BY <1>2, <2>5, <2>6, <4>1 DEF DeliveryInv, PushedInv
    <3>3. QED
      BY <3>1, <3>2
  <2>11. HeardInv' /\ OnceInv'
    BY <1>2, <1>9, <2>5 DEF DeliveryInv, HeardInv, OnceInv
  <2>12. QED
    BY <2>7, <2>8, <2>9, <2>10, <2>11 DEF DeliveryInv
<1>10. QED
  BY <1>2, <1>8, <1>9

\* A push ends: whoever took the frame and stays registered makes the process
\* remember it before it is published.
LEMMA EndPushKeeps ==
    ASSUME RelayTypes, Books, DeliveryInv, NEW d \in Desk, EndPush(d)
    PROVE  RelayTypes' /\ Books' /\ DeliveryInv'
<1>1. PICK pass, p : pass = pushes[d].pass /\ p = Home[d]
  OBVIOUS
<1>2. PICK i, u, dead : i = pass.id /\ u = pass.to /\ dead = pass.dead
  OBVIOUS
<1>3. PICK r : r = procs[p]
  OBVIOUS
<1> DEFINE o == IF pass.fine = {} THEN r ELSE Remember(r, i)
           ps == [procs EXCEPT ![p] = o]
<1>4. /\ procs \in [Process -> Proc] /\ p \in Process /\ r \in Proc
      /\ Len(r.delivered) <= CacheSize
  BY <1>1, <1>3, HomeAssumption DEF RelayTypes, ProcTypes
<1>5. Pushing(d) /\ pass \in Pass /\ Addressed(pass, p)
  BY <1>1 DEF EndPush, RelayTypes, PushTypes, Push, Pushing, DeliveryInv, FramesInv
<1>6. i \in Id /\ u \in User /\ Frame(i, u)
  BY <1>2, <1>5, PassFields DEF Addressed
<1>7. /\ o \in Proc /\ Len(o.delivered) <= CacheSize
      /\ o.at = r.at /\ o.pass = r.pass /\ o.inbox = r.inbox
      /\ o.pending = r.pending /\ o.subscribed = r.subscribed /\ o.channels = r.channels
      /\ r.evicted \subseteq o.evicted
      /\ \A x : (\E k \in DOMAIN r.delivered : r.delivered[k] = x) \/ (x = i /\ pass.fine # {}) =>
             (\E k \in DOMAIN o.delivered : o.delivered[k] = x) \/ x \in o.evicted
  <2>1. CASE pass.fine = {}
    BY <1>4, <2>1
  <2>2. CASE pass.fine # {}
    <3>1. o = Remember(r, i)
      BY <2>2
    <3>2. QED
      BY <1>4, <1>6, <3>1, RememberIs
  <2>3. QED
    BY <2>1, <2>2
<1>8. /\ procs' \in {ps, Published(ps, i, u)} /\ sockets' = Dropped(dead)
      /\ pushes' = [pushes EXCEPT ![d] = NoPush] /\ pass.todo = {}
      /\ messages' = messages /\ jobs' = jobs
  <2>1. ps = IF pass.fine = {} THEN procs ELSE [procs EXCEPT ![p] = Remember(@, i)]
    BY <1>3, <1>4
  <2>2. QED
    BY <1>1, <1>2, <2>1 DEF EndPush, messageVars, store
<1> HIDE DEF o
<1>9. /\ ps \in [Process -> Proc] /\ ps[p] = o
      /\ \A q \in Process : q # p => ps[q] = procs[q]
  BY <1>4, <1>7
<1> HIDE DEF ps
<1>10. \A q \in Process :
          /\ Len(ps[q].delivered) <= CacheSize
          /\ ps[q].at = procs[q].at /\ ps[q].pass = procs[q].pass
          /\ ps[q].inbox = procs[q].inbox /\ ps[q].pending = procs[q].pending
          /\ ps[q].subscribed = procs[q].subscribed /\ ps[q].channels = procs[q].channels
          /\ procs[q].evicted \subseteq ps[q].evicted
          /\ \A x : Known(q, x) => \/ \E k \in DOMAIN ps[q].delivered : ps[q].delivered[k] = x
                                   \/ x \in ps[q].evicted
  <2> SUFFICES ASSUME NEW q \in Process
               PROVE  /\ Len(ps[q].delivered) <= CacheSize
                      /\ ps[q].at = procs[q].at /\ ps[q].pass = procs[q].pass
                      /\ ps[q].inbox = procs[q].inbox /\ ps[q].pending = procs[q].pending
                      /\ ps[q].subscribed = procs[q].subscribed
                      /\ ps[q].channels = procs[q].channels
                      /\ procs[q].evicted \subseteq ps[q].evicted
                      /\ \A x : Known(q, x) =>
                            \/ \E k \in DOMAIN ps[q].delivered : ps[q].delivered[k] = x
                            \/ x \in ps[q].evicted
    OBVIOUS
  <2>1. CASE q = p
    BY <1>3, <1>7, <1>9, <2>1 DEF Known
  <2>2. CASE q # p
    BY <1>9, <2>2 DEF Known, RelayTypes, ProcTypes
  <2>3. QED
    BY <2>1, <2>2
<1>11. /\ \A s \in Socket : Got(s, i) =>
             sockets[s].proc = p /\ s \in pass.fine \cup pass.dead
       /\ \A q \in Process : ~Waits(q, i) /\ ~Relays(q, i)
       /\ \A e \in Desk : Pushes(e, i) => e = d
  BY <1>1, <1>2, <1>5 DEF DeliveryInv, PushedInv
<1>12. /\ SocketTypes' /\ QuietSockets
       /\ \A s \in Socket : /\ Live(s)' <=> Live(s)
                            /\ sockets'[s].got = sockets[s].got
                            /\ sockets'[s].proc = sockets[s].proc
                            /\ sockets'[s].user = sockets[s].user
                            /\ s \notin dead => sockets'[s] = sockets[s]
                            /\ s \in dead /\ Live(s) => sockets'[s].at = "stale"
       /\ \A q, v : Connected(q, v)' => Connected(q, v)
  BY <1>8, DroppedIs DEF RelayTypes
<1>13. \A s \in Socket : Live(s)' =>
           /\ Live(s) /\ sockets'[s].got = sockets[s].got
           /\ sockets'[s].proc = sockets[s].proc /\ sockets'[s].user = sockets[s].user
           /\ sockets'[s].at = "open" => sockets[s].at = "open"
  BY <1>12
<1>14. /\ PushTypes'
       /\ \A e \in Desk : Pushing(e)' =>
             Pushing(e) /\ pushes'[e] = pushes[e] /\ pushes[e].pass.id # i
  <2>1. \A e \in Desk : Pushing(e)' => e # d /\ Pushing(e) /\ pushes'[e] = pushes[e]
    BY <1>8 DEF RelayTypes, PushTypes, Pushing
  <2>2. PushTypes'
    BY <1>8 DEF RelayTypes, PushTypes
  <2>3. QED
    BY <1>11, <2>1, <2>2 DEF Pushes
<1>15. \A e \in Desk : At(e, "sent")' =>
           At(e, "sent") /\ jobs'[e] = jobs[e] /\ jobs[e].id # i
  <2>1. Pushes(d, i)
    BY <1>1, <1>2, <1>5 DEF Pushes
  <2>2. QED
    BY <1>8, <2>1 DEF At, Busy, DeliveryInv, UnsentInv
<1>16. \A s \in Socket : Got(s, i) /\ sockets'[s].at = "open" =>
           \A q \in {sockets[s].proc} :
              \/ \E k \in DOMAIN ps[q].delivered : ps[q].delivered[k] = i
              \/ i \in ps[q].evicted
  <2> SUFFICES ASSUME NEW s \in Socket, Got(s, i), sockets'[s].at = "open"
               PROVE  \/ \E k \in DOMAIN ps[p].delivered : ps[p].delivered[k] = i
                      \/ i \in ps[p].evicted
    BY <1>11
  <2>1. s \notin dead
    BY <1>12 DEF Got
  <2>2. pass.fine # {}
    BY <1>2, <1>11, <2>1
  <2>3. QED
    BY <1>7, <1>9, <2>2
<1>17. QED
  BY <1>6, <1>8, <1>9, <1>10, <1>11, <1>12, <1>13, <1>14, <1>15, <1>16, PublishKeeps, ZenonT(40)

-----------------------------------------------------------------------------
(* Sending to a socket.                                                    *)

\* A frame arrives at one socket, behind what it got, or nowhere.
LEMMA SendingIs ==
    ASSUME SocketTypes, NEW s \in Socket, NEW i \in Id, NEW arrives \in BOOLEAN,
           arrives => Live(s), Sending(s, i, arrives)
    PROVE  /\ SocketTypes'
           /\ \A t \in Socket :
                 /\ Live(t)' <=> Live(t)
                 /\ sockets'[t].at = sockets[t].at /\ sockets'[t].proc = sockets[t].proc
                 /\ sockets'[t].user = sockets[t].user
                 /\ \A x : Got(t, x)' => Got(t, x) \/ (t = s /\ x = i /\ Live(s))
                 /\ t # s => sockets'[t].got = sockets[t].got
           /\ Live(s) => \A k \in DOMAIN sockets'[s].got :
                 \/ k \in DOMAIN sockets[s].got /\ sockets'[s].got[k] = sockets[s].got[k]
                 \/ k = Len(sockets[s].got) + 1 /\ sockets'[s].got[k] = i
           /\ \A p, v : Connected(p, v)' <=> Connected(p, v)
<1>1. CASE ~arrives
  <2>1. sockets' = sockets
    BY <1>1 DEF Sending
  <2>2. QED
    BY <2>1 DEF SocketTypes, Live, Got, Connected, Registry
<1>2. CASE arrives
  <2>1. PICK c : c = sockets[s]
    OBVIOUS
  <2>2. Live(s) /\ c \in Connection /\ c.got \in Seq(Id)
    BY <1>2, <2>1, ConnectionFields
  <2> DEFINE q == Append(c.got, i)
             o == [c EXCEPT !.got = q]
  <2>3. sockets' = [sockets EXCEPT ![s] = o]
    BY <1>2, <2>1 DEF Sending, SocketTypes
  <2>4. /\ q \in Seq(Id)
        /\ \A k \in DOMAIN q : \/ k \in DOMAIN c.got /\ q[k] = c.got[k]
                               \/ k = Len(c.got) + 1 /\ q[k] = i
    <3> HIDE DEF q
    <3>1. PICK g : g = c.got /\ g \in Seq(Id)
      BY <2>2
    <3>2. q = Append(g, i)
      BY <3>1 DEF q
    <3>3. /\ q \in Seq(Id) /\ DOMAIN g = 1 .. Len(g) /\ Len(g) \in Nat
          /\ DOMAIN q = 1 .. Len(g) + 1
          /\ \A k \in DOMAIN g : q[k] = g[k]
          /\ q[Len(g) + 1] = i
      BY <3>1, <3>2, AppendIs
    <3>4. \A k \in 1 .. Len(g) + 1 : k \in 1 .. Len(g) \/ k = Len(g) + 1
      BY <3>3
    <3>5. QED
      BY <3>1, <3>3, <3>4
  <2> HIDE DEF q
  <2>5. /\ o \in Connection /\ o.at = c.at /\ o.proc = c.proc /\ o.user = c.user /\ o.got = q
    BY <2>2, <2>4 DEF Connection
  <2> HIDE DEF o
  <2>6. /\ SocketTypes' /\ sockets'[s] = o /\ Live(s)'
        /\ \A t \in Socket : t # s => sockets'[t] = sockets[t]
    BY <2>3, <2>5, KindsDiffer DEF SocketTypes, Live
  <2>7. ASSUME NEW t \in Socket
        PROVE  /\ Live(t)' <=> Live(t)
               /\ sockets'[t].at = sockets[t].at /\ sockets'[t].proc = sockets[t].proc
               /\ sockets'[t].user = sockets[t].user
    <3>1. CASE t = s
      BY <2>1, <2>2, <2>5, <2>6, <3>1
    <3>2. CASE t # s
      BY <2>6, <3>2 DEF Live
    <3>3. QED
      BY <3>1, <3>2
  <2>8. ASSUME NEW t \in Socket, NEW x, Got(t, x)'
        PROVE  Got(t, x) \/ (t = s /\ x = i /\ Live(s))
    <3>1. CASE t = s
      BY <2>1, <2>2, <2>4, <2>5, <2>6, <2>8, <3>1 DEF Got
    <3>2. CASE t # s
      BY <2>6, <2>8, <3>2 DEF Got, Live
    <3>3. QED
      BY <3>1, <3>2
  <2>9. \A p, v : Connected(p, v)' <=> Connected(p, v)
    BY <2>7 DEF Connected, Registry
  <2>10. QED
    BY <2>1, <2>4, <2>5, <2>6, <2>7, <2>8, <2>9
<1>3. QED
  BY <1>1, <1>2

\* One socket of a pass is sent the frame: what the two passes share.
LEMMA SendKeepsFrames ==
    ASSUME FramesInv, SocketTypes, NEW s \in Socket, NEW i \in Id, NEW arrives \in BOOLEAN,
           arrives => Live(s), Sending(s, i, arrives), messages' = messages,
           Live(s) => Frame(i, sockets[s].user)
    PROVE  /\ \A t \in Socket : Live(t)' => \A k \in DOMAIN sockets'[t].got :
                 /\ sockets'[t].got[k] \in DOMAIN messages'
                 /\ Recipient(messages'[sockets'[t].got[k]]) = sockets'[t].user
           /\ \A pass, p : Addressed(pass, p) /\ pass.todo \subseteq Socket => Addressed(pass, p)'
<1>1. /\ \A t \in Socket :
            /\ Live(t)' <=> Live(t)
            /\ sockets'[t].proc = sockets[t].proc
            /\ sockets'[t].user = sockets[t].user
            /\ t # s => sockets'[t].got = sockets[t].got
      /\ Live(s) => \A k \in DOMAIN sockets'[s].got :
            \/ k \in DOMAIN sockets[s].got /\ sockets'[s].got[k] = sockets[s].got[k]
            \/ k = Len(sockets[s].got) + 1 /\ sockets'[s].got[k] = i
  BY SendingIs
<1>2. ASSUME NEW t \in Socket, Live(t)', NEW k \in DOMAIN sockets'[t].got
      PROVE  Frame(sockets'[t].got[k], sockets'[t].user)
  <2>1. CASE t = s
    BY <1>1, <1>2, <2>1 DEF FramesInv
  <2>2. CASE t # s
    BY <1>1, <1>2, <2>2 DEF FramesInv
  <2>3. QED
    BY <2>1, <2>2
<1>3. \A pass, p : Addressed(pass, p) /\ pass.todo \subseteq Socket => Addressed(pass, p)'
  BY <1>1 DEF Addressed, Frame
<1>4. QED
  BY <1>2, <1>3 DEF Frame

\* The push tries a socket: the message was nowhere but where the push took it.
LEMMA PushOneKeeps ==
    ASSUME RelayTypes, Books, DeliveryInv, NEW d \in Desk, NEW s \in Socket, PushOne(d, s)
    PROVE  RelayTypes' /\ Books' /\ DeliveryInv'
<1>1. PICK pass : pass = pushes[d].pass
  OBVIOUS
<1>2. PICK i : i = pass.id
  OBVIOUS
<1>3. /\ Pushing(d) /\ s \in pass.todo /\ pass \in Pass /\ pushes[d] \in Push
      /\ Addressed(pass, Home[d])
  BY <1>1 DEF PushOne, RelayTypes, PushTypes, Push, Pushing, DeliveryInv, FramesInv
<1>4. i \in Id /\ pass.todo \subseteq Socket
  BY <1>2, <1>3, PassFields
<1>5. PICK returns \in BOOLEAN, arrives \in BOOLEAN :
          /\ arrives => Live(s)
          /\ Sending(s, i, arrives)
          /\ pushes' = [pushes EXCEPT ![d].pass = Tried(@, s, returns)]
  BY <1>1, <1>2 DEF PushOne
<1>6. procs' = procs /\ messages' = messages /\ jobs' = jobs
  BY DEF PushOne, messageVars, store
<1>7. PICK o : o = Tried(pass, s, returns)
  OBVIOUS
<1>8. /\ o \in Pass /\ o.id = i /\ o.to = pass.to /\ o.todo = pass.todo \ {s}
      /\ o.fine \cup o.dead = pass.fine \cup pass.dead \cup {s}
  BY <1>2, <1>3, <1>7, TriedIs
<1>9. /\ PushTypes' /\ pushes'[d].pass = o
      /\ \A e \in Desk : /\ Pushing(e)' <=> Pushing(e)
                         /\ e # d => pushes'[e] = pushes[e]
  <2> DEFINE push == [pushes[d] EXCEPT !.pass = o]
  <2>1. pushes' = [pushes EXCEPT ![d] = push]
    BY <1>1, <1>5, <1>7
  <2>2. push \in Push /\ push.pass = o
    BY <1>3, <1>8 DEF Push
  <2> HIDE DEF push
  <2>3. /\ PushTypes' /\ pushes'[d] = push /\ \A e \in Desk : e # d => pushes'[e] = pushes[e]
    BY <2>1, <2>2 DEF RelayTypes, PushTypes
  <2>4. \A e \in Desk : Pushing(e)' <=> Pushing(e)
    BY <1>3, <2>2, <2>3, KindsDiffer DEF Pushing
  <2>5. QED
    BY <2>2, <2>3, <2>4
<1>10. /\ SocketTypes'
       /\ \A t \in Socket :
             /\ Live(t)' <=> Live(t)
             /\ sockets'[t].at = sockets[t].at /\ sockets'[t].proc = sockets[t].proc
             /\ sockets'[t].user = sockets[t].user
             /\ \A x : Got(t, x)' => Got(t, x) \/ (t = s /\ x = i /\ Live(s))
             /\ t # s => sockets'[t].got = sockets[t].got
       /\ Live(s) => \A k \in DOMAIN sockets'[s].got :
             \/ k \in DOMAIN sockets[s].got /\ sockets'[s].got[k] = sockets[s].got[k]
             \/ k = Len(sockets[s].got) + 1 /\ sockets'[s].got[k] = i
       /\ \A p, v : Connected(p, v)' <=> Connected(p, v)
  BY <1>4, <1>5, SendingIs DEF RelayTypes
<1>11. /\ \A t \in Socket : Got(t, i) =>
             sockets[t].proc = Home[d] /\ t \in (pass.fine \cup pass.dead) \ pass.todo
       /\ \A p \in Process : ~Waits(p, i) /\ ~Relays(p, i)
       /\ \A e \in Desk : Pushes(e, i) => e = d
  BY <1>1, <1>2, <1>3 DEF DeliveryInv, PushedInv
<1>12. Live(s) => Frame(i, sockets[s].user) /\ sockets[s].proc = Home[d]
  BY <1>2, <1>3 DEF Addressed
<1>13. /\ \A p : Relaying(p, "sending")' <=> Relaying(p, "sending")
       /\ \A p, x : /\ Waits(p, x)' <=> Waits(p, x)
                    /\ Relays(p, x)' <=> Relays(p, x)
                    /\ Known(p, x)' <=> Known(p, x)
       /\ \A e \in Desk : \A x : Pushes(e, x)' <=> Pushes(e, x)
  <2>1. /\ \A p : Relaying(p, "sending")' <=> Relaying(p, "sending")
        /\ \A p, x : /\ Waits(p, x)' <=> Waits(p, x)
                     /\ Relays(p, x)' <=> Relays(p, x)
                     /\ Known(p, x)' <=> Known(p, x)
    BY <1>6 DEF Relaying, Waits, Relays, Known
  <2>2. ASSUME NEW e \in Desk, NEW x PROVE Pushes(e, x)' <=> Pushes(e, x)
    <3>1. CASE e = d
      BY <1>1, <1>2, <1>8, <1>9, <3>1 DEF Pushes
    <3>2. CASE e # d
      BY <1>9, <3>2 DEF Pushes
    <3>3. QED
      BY <3>1, <3>2
  <2>3. QED
    BY <2>1, <2>2
<1>14. RelayTypes' /\ Books'
  BY <1>6, <1>9, <1>10, <1>13 DEF RelayTypes, ProcTypes, Books
<1>15. FramesInv'
  <2>1. /\ \A t \in Socket : Live(t)' => \A k \in DOMAIN sockets'[t].got :
              /\ sockets'[t].got[k] \in DOMAIN messages'
              /\ Recipient(messages'[sockets'[t].got[k]]) = sockets'[t].user
        /\ \A q, p : Addressed(q, p) /\ q.todo \subseteq Socket => Addressed(q, p)'
    BY <1>4, <1>5, <1>6, <1>12, SendKeepsFrames DEF DeliveryInv, RelayTypes
  <2>2. ASSUME NEW p \in Process, Relaying(p, "sending")', NEW q, q = procs'[p].pass
        PROVE  Addressed(q, p)'
    <3>1. q \in Pass /\ Addressed(q, p)
      BY <1>6, <1>13, <2>2 DEF RelayTypes, ProcTypes, DeliveryInv, FramesInv
    <3>2. QED
      BY <2>1, <3>1, PassFields
  <2>3. ASSUME NEW e \in Desk, Pushing(e)', NEW q, q = pushes'[e].pass
        PROVE  Addressed(q, Home[e])'
    <3>1. CASE e = d
      <4>1. Addressed(o, Home[d]) /\ o.todo \subseteq Socket
        BY <1>2, <1>3, <1>4, <1>8 DEF Addressed
      <4>2. QED
        BY <1>9, <2>1, <2>3, <3>1, <4>1
    <3>2. CASE e # d
      <4>1. q \in Pass /\ Addressed(q, Home[e])
        BY <1>9, <2>3, <3>2 DEF RelayTypes, PushTypes, Push, Pushing, DeliveryInv, FramesInv
      <4>2. QED
        BY <2>1, <4>1, PassFields
    <3>3. QED
      BY <3>1, <3>2
  <2>4. \A p \in Process : \A k \in DOMAIN procs'[p].inbox :
            /\ procs'[p].inbox[k][1] \in DOMAIN messages'
            /\ Recipient(messages'[procs'[p].inbox[k][1]]) = procs'[p].inbox[k][2]
    BY <1>6 DEF DeliveryInv, FramesInv, Frame
  <2>5. QED
    BY <2>1, <2>2, <2>3, <2>4 DEF FramesInv, Frame
<1>16. UnsentInv'
  <2> SUFFICES ASSUME NEW e \in Desk, At(e, "sent")', NEW x, x = jobs'[e].id
               PROVE  /\ \A t \in Socket : ~Got(t, x)'
                      /\ \A p \in Process : ~Waits(p, x)' /\ ~Relays(p, x)'
                      /\ \A f \in Desk : ~Pushes(f, x)'
    BY DEF UnsentInv, Got, Waits, Relays, Pushes
  <2>1. At(e, "sent") /\ x = jobs[e].id
    BY <1>6 DEF At, Busy
  <2>2. Pushes(d, i)
    BY <1>1, <1>2, <1>3 DEF Pushes
  <2>3. QED
    BY <1>10, <1>13, <2>1, <2>2 DEF DeliveryInv, UnsentInv
<1>17. PushedInv'
  <2> SUFFICES ASSUME NEW e \in Desk, Pushing(e)', NEW q, q = pushes'[e].pass,
                      NEW x, x = q.id
               PROVE  /\ \A t \in Socket : Got(t, x)' =>
                            /\ sockets'[t].proc = Home[e]
                            /\ t \in (q.fine \cup q.dead) \ q.todo
                      /\ \A p \in Process : ~Waits(p, x)' /\ ~Relays(p, x)'
                      /\ \A f \in Desk : Pushes(f, x)' => f = e
    BY DEF PushedInv, Got, Waits, Relays, Pushes
  <2>1. CASE e = d
    <3>1. q = o /\ x = i
      BY <1>8, <1>9, <2>1
    <3>2. ASSUME NEW t \in Socket, Got(t, i)'
          PROVE  sockets'[t].proc = Home[d] /\ t \in (o.fine \cup o.dead) \ o.todo
      BY <1>8, <1>10, <1>11, <1>12, <3>2
    <3>3. QED
      BY <1>11, <1>13, <2>1, <3>1, <3>2
  <2>2. CASE e # d
    <3>1. Pushing(e) /\ q = pushes[e].pass
      BY <1>9, <2>2
    <3>2. x # i
      BY <1>11, <2>2, <3>1 DEF Pushes
    <3>3. QED
      BY <1>10, <1>13, <3>1, <3>2 DEF DeliveryInv, PushedInv
  <2>3. QED
    BY <2>1, <2>2
<1>18. HeardInv'
  BY <1>6, <1>13 DEF DeliveryInv, HeardInv
<1>19. OnceInv'
  <2>1. ASSUME NEW t \in Socket, Live(t)', NEW p, p = sockets'[t].proc, p \in Process,
               NEW k \in DOMAIN sockets'[t].got, NEW l \in DOMAIN sockets'[t].got,
               sockets'[t].got[k] = sockets'[t].got[l], k # l
        PROVE  sockets'[t].got[k] \in procs[p].evicted
    <3>1. CASE t # s
      BY <1>10, <2>1, <3>1 DEF DeliveryInv, OnceInv
    <3>2. CASE t = s
      <4>1. \A m \in DOMAIN sockets[s].got : sockets[s].got[m] # i
        BY <1>3, <1>10, <1>11, <2>1, <3>2 DEF Got
      <4>2. QED
        BY <1>10, <2>1, <3>2, <4>1 DEF DeliveryInv, OnceInv
    <3>3. QED
      BY <3>1, <3>2
  <2>2. ASSUME NEW t \in Socket, Live(t)', NEW p, p = sockets'[t].proc, p \in Process,
               sockets'[t].at = "open", NEW x \in Id, Got(t, x)', Waits(p, x)'
        PROVE  Known(p, x)'
    <3>1. Waits(p, x) /\ x # i
      BY <1>11, <1>13, <2>2
    <3>2. QED
      BY <1>10, <1>13, <2>2, <3>1 DEF DeliveryInv, OnceInv
  <2>3. ASSUME NEW p \in Process, Relaying(p, "sending")', NEW q, q = procs'[p].pass,
               NEW t \in q.todo, NEW x, x = q.id, Got(t, x)'
        PROVE  x \in procs[p].evicted
    <3>1. Relaying(p, "sending") /\ q = procs[p].pass /\ Relays(p, x)
      BY <1>6, <1>13, <2>3 DEF Relays
    <3>2. x # i
      BY <1>11, <3>1
    <3>3. t \in Socket
      BY <2>3, <3>1 DEF RelayTypes, ProcTypes, Pass
    <3>4. QED
      BY <1>10, <2>3, <3>1, <3>2, <3>3 DEF DeliveryInv, OnceInv
  <2>4. \A t \in Socket : Live(t)' => sockets'[t].proc \in Process
    BY <1>10 DEF SocketTypes, Connection, Live
  <2>5. QED
    BY <1>6, <2>1, <2>2, <2>3, <2>4 DEF OnceInv, Got, Waits, Known
<1>20. QED
  BY <1>14, <1>15, <1>16, <1>17, <1>18, <1>19 DEF DeliveryInv

\* The relay tries a socket: only one the process pushed to, and forgot, has the
\* message already, and the process hears it no more.
LEMMA RelayOneKeeps ==
    ASSUME RelayTypes, Books, DeliveryInv, NEW p \in Process, NEW s \in Socket, RelayOne(p, s)
    PROVE  RelayTypes' /\ Books' /\ DeliveryInv'
<1>1. PICK r : r = procs[p]
  OBVIOUS
<1>2. PICK pass : pass = r.pass
  OBVIOUS
<1>3. PICK i : i = pass.id
  OBVIOUS
<1>4. /\ procs \in [Process -> Proc] /\ r \in Proc /\ Len(r.delivered) <= CacheSize
      /\ r.at = "sending" /\ s \in pass.todo /\ pass \in Pass /\ Addressed(pass, p)
  BY <1>1, <1>2 DEF RelayOne, RelayTypes, ProcTypes, Relaying, DeliveryInv, FramesInv
<1>5. i \in Id /\ pass.todo \subseteq Socket
  BY <1>3, <1>4, PassFields
<1>6. PICK returns \in BOOLEAN, arrives \in BOOLEAN :
          /\ arrives => Live(s)
          /\ Sending(s, i, arrives)
          /\ procs' = [procs EXCEPT ![p].pass = Tried(@, s, returns)]
  BY <1>1, <1>2, <1>3 DEF RelayOne
<1>7. pushes' = pushes /\ messages' = messages /\ jobs' = jobs
  BY DEF RelayOne, messageVars, store
<1>8. PICK o : o = Tried(pass, s, returns)
  OBVIOUS
<1>9. /\ o \in Pass /\ o.id = i /\ o.to = pass.to /\ o.todo = pass.todo \ {s}
  BY <1>3, <1>4, <1>8, TriedIs
<1> DEFINE n == [r EXCEPT !.pass = o]
<1>10. procs' = [procs EXCEPT ![p] = n]
  BY <1>1, <1>2, <1>6, <1>8
<1>11. /\ n \in Proc /\ n.at = r.at /\ n.pass = o /\ n.delivered = r.delivered
       /\ n.evicted = r.evicted /\ n.inbox = r.inbox /\ n.pending = r.pending
       /\ n.subscribed = r.subscribed /\ n.channels = r.channels
  BY <1>4, <1>9 DEF Proc
<1> HIDE DEF n
<1>12. ProcTypes' /\ procs'[p] = n /\ \A q \in Process : q # p => procs'[q] = procs[q]
  BY <1>4, <1>9, <1>10, <1>11, OneProc DEF RelayTypes
<1>13. /\ SocketTypes'
       /\ \A t \in Socket :
             /\ Live(t)' <=> Live(t)
             /\ sockets'[t].at = sockets[t].at /\ sockets'[t].proc = sockets[t].proc
             /\ sockets'[t].user = sockets[t].user
             /\ \A x : Got(t, x)' => Got(t, x) \/ (t = s /\ x = i /\ Live(s))
             /\ t # s => sockets'[t].got = sockets[t].got
       /\ Live(s) => \A k \in DOMAIN sockets'[s].got :
             \/ k \in DOMAIN sockets[s].got /\ sockets'[s].got[k] = sockets[s].got[k]
             \/ k = Len(sockets[s].got) + 1 /\ sockets'[s].got[k] = i
       /\ \A q, v : Connected(q, v)' <=> Connected(q, v)
  BY <1>5, <1>6, SendingIs DEF RelayTypes
<1>14. Relays(p, i) /\ ~Waits(p, i) /\ (Got(s, i) => i \in r.evicted)
  BY <1>1, <1>2, <1>3, <1>4 DEF Relays, Relaying, DeliveryInv, HeardInv, OnceInv
<1>15. Live(s) => Frame(i, sockets[s].user) /\ sockets[s].proc = p
  BY <1>3, <1>4 DEF Addressed
<1>16. ASSUME NEW q \in Process
       PROVE  /\ Relaying(q, "sending")' <=> Relaying(q, "sending")
              /\ procs'[q].inbox = procs[q].inbox /\ procs'[q].evicted = procs[q].evicted
              /\ procs'[q].pending = procs[q].pending
              /\ procs'[q].subscribed = procs[q].subscribed
              /\ procs'[q].channels = procs[q].channels
              /\ \A x : /\ Waits(q, x)' <=> Waits(q, x)
                        /\ Relays(q, x)' <=> Relays(q, x)
                        /\ Known(q, x)' <=> Known(q, x)
  <2>1. CASE q = p
    BY <1>1, <1>2, <1>3, <1>9, <1>11, <1>12, <2>1 DEF Relaying, Waits, Relays, Known
  <2>2. CASE q # p
    BY <1>12, <2>2 DEF Relaying, Waits, Relays, Known
  <2>3. QED
    BY <2>1, <2>2
<1>17. \A d, x : Pushes(d, x)' <=> Pushes(d, x)
  BY <1>7 DEF Pushes, Pushing
<1>18. RelayTypes' /\ Books'
  BY <1>7, <1>12, <1>13, <1>16 DEF RelayTypes, PushTypes, Books
<1>19. FramesInv'
  <2>1. /\ \A t \in Socket : Live(t)' => \A k \in DOMAIN sockets'[t].got :
              /\ sockets'[t].got[k] \in DOMAIN messages'
              /\ Recipient(messages'[sockets'[t].got[k]]) = sockets'[t].user
        /\ \A q, x : Addressed(q, x) /\ q.todo \subseteq Socket => Addressed(q, x)'
    BY <1>5, <1>6, <1>7, <1>15, SendKeepsFrames DEF DeliveryInv, RelayTypes
  <2>2. ASSUME NEW q \in Process, Relaying(q, "sending")', NEW a, a = procs'[q].pass
        PROVE  Addressed(a, q)'
    <3>1. CASE q = p
      <4>1. Addressed(o, p) /\ o.todo \subseteq Socket
        BY <1>3, <1>4, <1>5, <1>9 DEF Addressed
      <4>2. QED
        BY <1>11, <1>12, <2>1, <2>2, <3>1, <4>1
    <3>2. CASE q # p
      <4>1. a \in Pass /\ Addressed(a, q)
        BY <1>12, <1>16, <2>2, <3>2 DEF RelayTypes, ProcTypes, DeliveryInv, FramesInv
      <4>2. QED
        BY <2>1, <4>1, PassFields
    <3>3. QED
      BY <3>1, <3>2
  <2>3. ASSUME NEW e \in Desk, Pushing(e)', NEW a, a = pushes'[e].pass
        PROVE  Addressed(a, Home[e])'
    <3>1. a \in Pass /\ Addressed(a, Home[e])
      BY <1>7, <2>3 DEF RelayTypes, PushTypes, Push, Pushing, DeliveryInv, FramesInv
    <3>2. QED
      BY <2>1, <3>1, PassFields
  <2>4. \A q \in Process : \A k \in DOMAIN procs'[q].inbox :
            /\ procs'[q].inbox[k][1] \in DOMAIN messages'
            /\ Recipient(messages'[procs'[q].inbox[k][1]]) = procs'[q].inbox[k][2]
    BY <1>7, <1>16 DEF DeliveryInv, FramesInv, Frame
  <2>5. QED
    BY <2>1, <2>2, <2>3, <2>4 DEF FramesInv, Frame
<1>20. UnsentInv'
  <2> SUFFICES ASSUME NEW e \in Desk, At(e, "sent")', NEW x, x = jobs'[e].id
               PROVE  /\ \A t \in Socket : ~Got(t, x)'
                      /\ \A q \in Process : ~Waits(q, x)' /\ ~Relays(q, x)'
                      /\ \A f \in Desk : ~Pushes(f, x)'
    BY DEF UnsentInv, Got, Waits, Relays, Pushes
  <2>1. At(e, "sent") /\ x = jobs[e].id
    BY <1>7 DEF At, Busy
  <2>2. QED
    BY <1>13, <1>14, <1>16, <1>17, <2>1 DEF DeliveryInv, UnsentInv
<1>21. PushedInv'
  <2> SUFFICES ASSUME NEW e \in Desk, Pushing(e)', NEW a, a = pushes'[e].pass,
                      NEW x, x = a.id
               PROVE  /\ \A t \in Socket : Got(t, x)' =>
                            /\ sockets'[t].proc = Home[e]
                            /\ t \in (a.fine \cup a.dead) \ a.todo
                      /\ \A q \in Process : ~Waits(q, x)' /\ ~Relays(q, x)'
                      /\ \A f \in Desk : Pushes(f, x)' => f = e
    BY DEF PushedInv, Got, Waits, Relays, Pushes
  <2>1. Pushing(e) /\ a = pushes[e].pass
    BY <1>7 DEF Pushing
  <2>2. x # i
    BY <1>14, <2>1 DEF DeliveryInv, PushedInv
  <2>3. QED
    BY <1>13, <1>16, <1>17, <2>1, <2>2 DEF DeliveryInv, PushedInv
<1>22. HeardInv'
  <2> SUFFICES ASSUME NEW q \in Process
               PROVE  /\ \A k, l \in DOMAIN procs'[q].inbox :
                            procs'[q].inbox[k][1] = procs'[q].inbox[l][1] => k = l
                      /\ \A x : Relays(q, x)' => ~Waits(q, x)'
    BY DEF HeardInv, Relays, Waits
  <2>1. QED
    BY <1>16 DEF DeliveryInv, HeardInv, Relays
<1>23. OnceInv'
  <2>1. ASSUME NEW t \in Socket, Live(t)', NEW q, q = sockets'[t].proc, q \in Process,
               NEW k \in DOMAIN sockets'[t].got, NEW l \in DOMAIN sockets'[t].got,
               sockets'[t].got[k] = sockets'[t].got[l], k # l
        PROVE  sockets'[t].got[k] \in procs[q].evicted
    <3>1. CASE t # s
      BY <1>13, <2>1, <3>1 DEF DeliveryInv, OnceInv
    <3>2. CASE t = s
      <4>1. q = p /\ Live(s)
        BY <1>13, <1>15, <2>1, <3>2
      <4>2. CASE sockets'[t].got[k] = i
        <5>1. Got(s, i)
          BY <1>13, <2>1, <3>2, <4>1, <4>2 DEF Got
        <5>2. QED
          BY <1>1, <1>14, <4>1, <4>2, <5>1
      <4>3. CASE sockets'[t].got[k] # i
        BY <1>13, <2>1, <3>2, <4>1, <4>3 DEF DeliveryInv, OnceInv
      <4>4. QED
        BY <4>2, <4>3
    <3>3. QED
      BY <3>1, <3>2
  <2>2. ASSUME NEW t \in Socket, Live(t)', NEW q, q = sockets'[t].proc, q \in Process,
               sockets'[t].at = "open", NEW x \in Id, Got(t, x)', Waits(q, x)'
        PROVE  Known(q, x)'
    <3>1. Waits(q, x)
      BY <1>16, <2>2
    <3>2. Got(t, x)
      BY <1>13, <1>14, <1>15, <2>2, <3>1
    <3>3. QED
      BY <1>13, <1>16, <2>2, <3>1, <3>2 DEF DeliveryInv, OnceInv
  <2>3. ASSUME NEW q \in Process, Relaying(q, "sending")', NEW a, a = procs'[q].pass,
               NEW t \in a.todo, NEW x, x = a.id, Got(t, x)'
        PROVE  x \in procs[q].evicted
    <3>1. CASE q = p
      <4>1. a = o /\ x = i /\ t # s /\ t \in pass.todo
        BY <1>9, <1>11, <1>12, <2>3, <3>1
      <4>2. Got(t, i)
        BY <1>5, <1>13, <2>3, <4>1
      <4>3. QED
        BY <1>1, <1>2, <1>3, <1>14, <3>1, <4>1, <4>2 DEF DeliveryInv, OnceInv, Relays
    <3>2. CASE q # p
      <4>1. Relaying(q, "sending") /\ a = procs[q].pass
        BY <1>12, <1>16, <2>3, <3>2
      <4>2. a \in Pass /\ Addressed(a, q) /\ t \in Socket
        BY <2>3, <4>1, PassFields DEF RelayTypes, ProcTypes, DeliveryInv, FramesInv
      <4>3. ~(t = s /\ Live(s))
        BY <1>15, <2>3, <3>2, <4>2 DEF Addressed
      <4>4. Got(t, x)
        BY <1>13, <2>3, <4>2, <4>3
      <4>5. QED
        BY <2>3, <4>1, <4>4 DEF DeliveryInv, OnceInv
    <3>3. QED
      BY <3>1, <3>2
  <2>4. \A t \in Socket : Live(t)' => sockets'[t].proc \in Process
    BY <1>13 DEF SocketTypes, Connection, Live
  <2>5. QED
    BY <1>16, <2>1, <2>2, <2>3, <2>4, ZenonT(40) DEF OnceInv, Got, Waits, Known
<1>24. QED
  BY <1>18, <1>19, <1>20, <1>21, <1>22, <1>23 DEF DeliveryInv

-----------------------------------------------------------------------------
(* Hearing.                                                                *)

\* What a process is after it took a frame from its inbox.
HeardBy(p, r, n, i, u) ==
    /\ n \in Proc /\ Len(n.delivered) <= CacheSize
    /\ n.inbox = Tail(r.inbox) /\ n.evicted = r.evicted
    /\ n.pending = r.pending /\ n.subscribed = r.subscribed /\ n.channels = r.channels
    /\ \A x : x # i /\ (\E k \in DOMAIN r.delivered : r.delivered[k] = x) =>
           \E k \in DOMAIN n.delivered : n.delivered[k] = x
    /\ \/ n.at = "top"
       \/ /\ n.at = "sending" /\ n.pass = PassFor(p, i, u)
          /\ ~ \E k \in DOMAIN r.delivered : r.delivered[k] = i

\* Whether the process remembers the id or not, that is what it becomes.
LEMMA HearIs ==
    ASSUME RelayTypes, NEW p \in Process, Hear(p), NEW r, r = procs[p],
           NEW i, i = Head(r.inbox)[1], NEW u, u = Head(r.inbox)[2]
    PROVE  \E n : procs' = [procs EXCEPT ![p] = n] /\ HeardBy(p, r, n, i, u)
<1>1. /\ procs \in [Process -> Proc] /\ r \in Proc /\ Len(r.delivered) <= CacheSize
      /\ r.inbox # <<>>
  BY DEF Hear, RelayTypes, ProcTypes
<1>2. r.inbox \in Seq(Id \X User) /\ r.delivered \in Seq(Id)
  BY <1>1, ProcFields
<1>3. /\ Head(r.inbox) \in Id \X User /\ Tail(r.inbox) \in Seq(Id \X User)
  BY <1>1, <1>2, TailIs
<1>4. i \in Id /\ u \in User
  BY <1>3
<1>5. PICK box : box = Tail(r.inbox) /\ box \in Seq(Id \X User)
  BY <1>3
<1> DEFINE rest == [r EXCEPT !.at = "top", !.inbox = box]
<1>6. /\ rest \in Proc /\ rest.at = "top" /\ rest.inbox = box
      /\ rest.delivered = r.delivered /\ rest.evicted = r.evicted
      /\ rest.pending = r.pending /\ rest.subscribed = r.subscribed
      /\ rest.channels = r.channels /\ rest.pass = r.pass
  BY <1>1, <1>5 DEF Proc
<1>7. \/ \E k \in FirstAt(r.delivered, i) :
            procs' = [procs EXCEPT ![p] = [rest EXCEPT !.delivered = RemoveAt(r.delivered, k)]]
      \/ /\ ~Contains(r.delivered, i)
         /\ procs' = [procs EXCEPT ![p] =
                IF Connected(p, u)
                THEN [rest EXCEPT !.at = "sending", !.pass = PassFor(p, i, u)]
                ELSE rest]
  <2>1. rest = [r EXCEPT !.at = "top", !.inbox = Tail(@)]
    BY <1>5
  <2>2. [r EXCEPT !.at = "top", !.inbox = Tail(@)].delivered = r.delivered
    BY <1>1 DEF Proc
  <2> HIDE DEF rest
  <2>3. QED
    BY <2>1, <2>2 DEF Hear
<1> HIDE DEF rest
<1>8. CASE \E k \in FirstAt(r.delivered, i) :
            procs' = [procs EXCEPT ![p] = [rest EXCEPT !.delivered = RemoveAt(r.delivered, k)]]
  <2>1. PICK k \in FirstAt(r.delivered, i) :
            procs' = [procs EXCEPT ![p] = [rest EXCEPT !.delivered = RemoveAt(r.delivered, k)]]
    BY <1>8
  <2>2. k \in DOMAIN r.delivered /\ r.delivered[k] = i
    BY <2>1 DEF FirstAt
  <2>3. PICK ds : ds = r.delivered /\ ds \in Seq(Id) /\ k \in DOMAIN ds /\ ds[k] = i
    BY <1>2, <2>2
  <2>4. PICK cut : cut = RemoveAt(ds, k)
    OBVIOUS
  <2>5. /\ cut \in Seq(Id) /\ Len(cut) = Len(ds) - 1 /\ Len(ds) \in Nat
        /\ \A x : x # i /\ (\E l \in DOMAIN ds : ds[l] = x) => \E l \in DOMAIN cut : cut[l] = x
    <3>1. /\ RemoveAt(ds, k) \in Seq(Id) /\ Len(RemoveAt(ds, k)) = Len(ds) - 1
          /\ \A x : x # ds[k] /\ (\E l \in DOMAIN ds : ds[l] = x) =>
                 \E l \in DOMAIN RemoveAt(ds, k) : RemoveAt(ds, k)[l] = x
      BY <2>3, RemoveAtIs
    <3>2. Len(ds) \in Nat
      BY <2>3, LenProperties
    <3>3. QED
      BY <2>3, <2>4, <3>1, <3>2
  <2> DEFINE n == [rest EXCEPT !.delivered = cut]
  <2>6. procs' = [procs EXCEPT ![p] = n]
    BY <2>1, <2>3, <2>4
  <2>7. /\ n \in Proc /\ n.at = "top" /\ n.inbox = box /\ n.delivered = cut
        /\ n.evicted = r.evicted /\ n.pending = r.pending /\ n.subscribed = r.subscribed
        /\ n.channels = r.channels
    BY <1>6, <2>5 DEF Proc
  <2> HIDE DEF n
  <2>8. Len(n.delivered) <= CacheSize
    BY <1>1, <2>3, <2>5, <2>7, CacheAssumption
  <2>9. HeardBy(p, r, n, i, u)
    BY <1>5, <2>3, <2>5, <2>7, <2>8 DEF HeardBy
  <2>10. QED
    BY <2>6, <2>9
<1>9. CASE /\ ~Contains(r.delivered, i)
           /\ procs' = [procs EXCEPT ![p] =
                  IF Connected(p, u)
                  THEN [rest EXCEPT !.at = "sending", !.pass = PassFor(p, i, u)]
                  ELSE rest]
  <2>1. ~ \E k \in DOMAIN r.delivered : r.delivered[k] = i
    <3>1. DOMAIN r.delivered = 1 .. Len(r.delivered)
      BY <1>2, LenProperties
    <3>2. QED
      BY <1>9, <3>1 DEF Contains
  <2>2. CASE ~Connected(p, u)
    <3>1. procs' = [procs EXCEPT ![p] = rest]
      BY <1>9, <2>2
    <3>2. HeardBy(p, r, rest, i, u)
      BY <1>1, <1>5, <1>6 DEF HeardBy
    <3>3. QED
      BY <3>1, <3>2
  <2>3. CASE Connected(p, u)
    <3>1. PICK pass : pass = PassFor(p, i, u) /\ pass \in Pass
      BY <1>4, PassForIs
    <3> DEFINE n == [rest EXCEPT !.at = "sending", !.pass = pass]
    <3>2. procs' = [procs EXCEPT ![p] = n]
      BY <1>9, <2>3, <3>1
    <3>3. /\ n \in Proc /\ n.at = "sending" /\ n.inbox = box /\ n.delivered = r.delivered
          /\ n.evicted = r.evicted /\ n.pending = r.pending /\ n.subscribed = r.subscribed
          /\ n.channels = r.channels /\ n.pass = pass
      BY <1>6, <3>1 DEF Proc
    <3> HIDE DEF n
    <3>4. HeardBy(p, r, n, i, u)
      BY <1>1, <1>5, <2>1, <3>1, <3>3 DEF HeardBy
    <3>5. QED
      BY <3>2, <3>4
  <2>4. QED
    BY <2>2, <2>3
<1>10. QED
  BY <1>7, <1>8, <1>9

\* A frame is taken from the inbox: it waits no more, and if the process does
\* not remember it, whoever got it before got it from a process that forgot.
LEMMA HearKeeps ==
    ASSUME RelayTypes, Books, DeliveryInv, NEW p \in Process, Hear(p)
    PROVE  RelayTypes' /\ Books' /\ DeliveryInv'
<1>1. PICK r : r = procs[p]
  OBVIOUS
<1>2. PICK i, u : i = Head(r.inbox)[1] /\ u = Head(r.inbox)[2]
  OBVIOUS
<1>3. PICK n : procs' = [procs EXCEPT ![p] = n] /\ HeardBy(p, r, n, i, u)
  BY <1>1, <1>2, HearIs
<1>4. /\ procs \in [Process -> Proc] /\ r \in Proc /\ r.inbox # <<>>
      /\ sockets' = sockets /\ pushes' = pushes /\ messages' = messages /\ jobs' = jobs
  BY <1>1 DEF Hear, RelayTypes, ProcTypes, messageVars, store
<1>5. PICK box : box = r.inbox /\ box \in Seq(Id \X User)
  BY <1>4, ProcFields
<1>6. /\ Head(box) \in Id \X User /\ Head(box) = box[1] /\ 1 \in DOMAIN box
      /\ \A k \in DOMAIN Tail(box) : k + 1 \in DOMAIN box /\ Tail(box)[k] = box[k + 1]
      /\ DOMAIN Tail(box) \subseteq Nat
      /\ \A k \in DOMAIN Tail(box) : k + 1 # 1
  <2>1. Tail(box) \in Seq(Id \X User)
    BY <1>4, <1>5, TailIs
  <2>2. \A k \in DOMAIN Tail(box) : k \in Nat /\ k + 1 # 1
    BY <2>1, LenProperties
  <2>3. QED
    BY <1>4, <1>5, <2>2, TailIs
<1>7. i = box[1][1] /\ u = box[1][2] /\ i \in Id /\ u \in User /\ Frame(i, u)
  BY <1>1, <1>2, <1>5, <1>6 DEF DeliveryInv, FramesInv
<1>8. Waits(p, i)
  BY <1>1, <1>5, <1>6, <1>7 DEF Waits
<1>9. \A k, l \in DOMAIN box : box[k][1] = box[l][1] => k = l
  BY <1>1, <1>5 DEF DeliveryInv, HeardInv
<1>10. PICK pass : pass = PassFor(p, i, u)
  OBVIOUS
<1>11. pass \in Pass /\ pass.id = i /\ pass.to = u /\ pass.todo = Registry(p, u)
  <2>1. i \in Id /\ u \in User
    BY <1>7
  <2>2. QED
    BY <1>10, <2>1, PassForIs
<1>12. n \in Proc /\ ProcTypes' /\ procs'[p] = n /\ \A q \in Process : q # p => procs'[q] = procs[q]
  BY <1>3, <1>10, <1>11, OneProc DEF HeardBy, RelayTypes
<1>13. n.inbox = Tail(box) /\ procs'[p].evicted = procs[p].evicted
  BY <1>1, <1>3, <1>5, <1>12 DEF HeardBy
<1>14. /\ \A t : (Live(t)' <=> Live(t)) /\ \A x : Got(t, x)' <=> Got(t, x)
       /\ \A d, x : (Pushing(d)' <=> Pushing(d)) /\ (Pushes(d, x)' <=> Pushes(d, x))
       /\ \A q, v : Connected(q, v)' <=> Connected(q, v)
  BY <1>4 DEF Live, Got, Pushing, Pushes, Connected, Registry
<1>15. \A x : Waits(p, x)' => Waits(p, x) /\ x # i
  <2> SUFFICES ASSUME NEW x, Waits(p, x)' PROVE Waits(p, x) /\ x # i
    OBVIOUS
  <2>1. PICK k \in DOMAIN Tail(box) : Tail(box)[k][1] = x
    BY <1>12, <1>13 DEF Waits
  <2>2. k + 1 \in DOMAIN box /\ box[k + 1][1] = x /\ k + 1 # 1
    BY <1>6, <2>1
  <2>3. x # i
    BY <1>6, <1>7, <1>9, <2>2
  <2>4. QED
    BY <1>1, <1>5, <2>2, <2>3 DEF Waits
<1>16. \A x : Known(p, x) /\ x # i => Known(p, x)'
  BY <1>1, <1>3, <1>12, SMTT(30) DEF HeardBy, Known
<1>17. \A x : Relays(p, x)' => x = i /\ procs'[p].pass = pass
  BY <1>3, <1>10, <1>11, <1>12 DEF HeardBy, Relays, Relaying
<1>18. ASSUME NEW q \in Process, q # p
       PROVE  /\ Relaying(q, "sending")' <=> Relaying(q, "sending")
              /\ procs'[q] = procs[q]
              /\ \A x : /\ Waits(q, x)' <=> Waits(q, x)
                        /\ Relays(q, x)' <=> Relays(q, x)
                        /\ Known(q, x)' <=> Known(q, x)
  BY <1>12, <1>18 DEF Relaying, Waits, Relays, Known
<1>19. \A q \in Process : \A x :
          /\ Waits(q, x)' => Waits(q, x)
          /\ Relays(q, x)' => Relays(q, x) \/ x = i
  BY <1>15, <1>17, <1>18
<1>20. RelayTypes'
  BY <1>4, <1>12 DEF RelayTypes, SocketTypes, PushTypes
<1>21. Books'
  <2>1. \A q \in Process : /\ procs'[q].pending = procs[q].pending
                           /\ procs'[q].subscribed = procs[q].subscribed
                           /\ procs'[q].channels = procs[q].channels
    BY <1>1, <1>3, <1>12 DEF HeardBy
  <2>2. QED
    BY <1>14, <2>1 DEF Books
<1>22. FramesInv'
  <2>1. \A o, q : Addressed(o, q) => Addressed(o, q)'
    BY <1>4, <1>14 DEF Addressed, Frame
  <2>2. ASSUME NEW q \in Process, NEW k \in DOMAIN procs'[q].inbox
        PROVE  Frame(procs'[q].inbox[k][1], procs'[q].inbox[k][2])
    <3>1. CASE q = p
      <4>1. k + 1 \in DOMAIN box /\ procs'[q].inbox[k] = box[k + 1]
        BY <1>6, <1>12, <1>13, <2>2, <3>1
      <4>2. QED
        BY <1>1, <1>5, <4>1 DEF DeliveryInv, FramesInv
    <3>2. CASE q # p
      BY <1>18, <2>2, <3>2 DEF DeliveryInv, FramesInv
    <3>3. QED
      BY <3>1, <3>2
  <2>3. ASSUME NEW q \in Process, Relaying(q, "sending")', NEW o, o = procs'[q].pass
        PROVE  Addressed(o, q)'
    <3>1. CASE q = p
      <4>1. o = pass
        BY <1>17, <2>3, <3>1 DEF Relays
      <4>2. Addressed(pass, p)
        BY <1>7, <1>11 DEF Addressed, Registry
      <4>3. QED
        BY <2>1, <3>1, <4>1, <4>2
    <3>2. CASE q # p
      BY <1>18, <2>1, <2>3, <3>2 DEF DeliveryInv, FramesInv
    <3>3. QED
      BY <3>1, <3>2
  <2>4. ASSUME NEW d \in Desk, Pushing(d)', NEW o, o = pushes'[d].pass
        PROVE  Addressed(o, Home[d])'
    BY <1>4, <1>14, <2>1, <2>4 DEF DeliveryInv, FramesInv
  <2>5. \A t \in Socket : Live(t)' => \A k \in DOMAIN sockets'[t].got :
            Frame(sockets'[t].got[k], sockets'[t].user)
    BY <1>4, <1>14 DEF DeliveryInv, FramesInv
  <2>6. QED
    BY <1>4, <2>2, <2>3, <2>4, <2>5 DEF FramesInv, Frame
<1>23. UnsentInv'
  <2> SUFFICES ASSUME NEW d \in Desk, At(d, "sent")', NEW x, x = jobs'[d].id
               PROVE  /\ \A t \in Socket : ~Got(t, x)'
                      /\ \A q \in Process : ~Waits(q, x)' /\ ~Relays(q, x)'
                      /\ \A e \in Desk : ~Pushes(e, x)'
    BY DEF UnsentInv, Got, Waits, Relays, Pushes
  <2>1. At(d, "sent") /\ x = jobs[d].id
    BY <1>4 DEF At, Busy
  <2>2. x # i
    BY <1>8, <2>1 DEF DeliveryInv, UnsentInv
  <2>3. QED
    BY <1>14, <1>19, <2>1, <2>2 DEF DeliveryInv, UnsentInv
<1>24. PushedInv'
  <2> SUFFICES ASSUME NEW d \in Desk, Pushing(d)', NEW o, o = pushes'[d].pass,
                      NEW x, x = o.id
               PROVE  /\ \A t \in Socket : Got(t, x)' =>
                            /\ sockets'[t].proc = Home[d]
                            /\ t \in (o.fine \cup o.dead) \ o.todo
                      /\ \A q \in Process : ~Waits(q, x)' /\ ~Relays(q, x)'
                      /\ \A e \in Desk : Pushes(e, x)' => e = d
    BY DEF PushedInv, Got, Waits, Relays, Pushes
  <2>1. Pushing(d) /\ o = pushes[d].pass
    BY <1>4, <1>14
  <2>2. x # i
    BY <1>8, <2>1 DEF DeliveryInv, PushedInv
  <2>3. QED
    BY <1>4, <1>14, <1>19, <2>1, <2>2 DEF DeliveryInv, PushedInv
<1>25. HeardInv'
  <2> SUFFICES ASSUME NEW q \in Process
               PROVE  /\ \A k, l \in DOMAIN procs'[q].inbox :
                            procs'[q].inbox[k][1] = procs'[q].inbox[l][1] => k = l
                      /\ \A x : Relays(q, x)' => ~Waits(q, x)'
    BY DEF HeardInv, Relays, Waits
  <2>1. CASE q # p
    BY <1>18, <2>1 DEF DeliveryInv, HeardInv, Relays
  <2>2. CASE q = p
    <3>1. ASSUME NEW k \in DOMAIN Tail(box), NEW l \in DOMAIN Tail(box),
                 Tail(box)[k][1] = Tail(box)[l][1]
          PROVE  k = l
      <4>1. /\ k + 1 \in DOMAIN box /\ l + 1 \in DOMAIN box
            /\ box[k + 1][1] = box[l + 1][1] /\ k \in Nat /\ l \in Nat
        BY <1>6, <3>1
      <4>2. k + 1 = l + 1
        BY <1>9, <4>1
      <4>3. QED
        BY <4>1, <4>2
    <3>2. procs'[q].inbox = Tail(box)
      BY <1>12, <1>13, <2>2
    <3>3. \A x : Relays(q, x)' => ~Waits(q, x)'
      BY <1>15, <1>17, <2>2
    <3>4. QED
      BY <3>1, <3>2, <3>3
  <2>3. QED
    BY <2>1, <2>2
<1>26. OnceInv'
  <2>1. ASSUME NEW t \in Socket, Live(t)', NEW q, q = sockets'[t].proc, q \in Process,
               NEW k \in DOMAIN sockets'[t].got, NEW l \in DOMAIN sockets'[t].got,
               sockets'[t].got[k] = sockets'[t].got[l], k # l
        PROVE  sockets'[t].got[k] \in procs'[q].evicted
    <3>1. sockets[t].got[k] \in procs[q].evicted
      BY <1>4, <1>14, <2>1 DEF DeliveryInv, OnceInv
    <3>2. procs'[q].evicted = procs[q].evicted
      BY <1>13, <1>18, <2>1
    <3>3. QED
      BY <1>4, <3>1, <3>2
  <2>2. ASSUME NEW t \in Socket, Live(t)', NEW q, q = sockets'[t].proc, q \in Process,
               sockets'[t].at = "open", NEW x \in Id, Got(t, x)', Waits(q, x)'
        PROVE  Known(q, x)'
    <3>1. Known(q, x)
      BY <1>4, <1>14, <1>19, <2>2 DEF DeliveryInv, OnceInv
    <3>2. QED
      BY <1>15, <1>16, <1>18, <2>2, <3>1
  <2>3. ASSUME NEW q \in Process, Relaying(q, "sending")', NEW o, o = procs'[q].pass,
               NEW t \in o.todo, NEW x, x = o.id, Got(t, x)'
        PROVE  x \in procs'[q].evicted
    <3>1. CASE q = p
      <4>1. o = pass /\ x = i /\ n.at = "sending"
        BY <1>11, <1>12, <1>17, <2>3, <3>1 DEF Relays, Relaying
      <4>2. /\ t \in Socket /\ Live(t) /\ sockets[t].at = "open" /\ sockets[t].proc = p
        BY <1>11, <2>3, <4>1 DEF Registry
      <4>3. Known(p, i)
        BY <1>7, <1>8, <1>14, <2>3, <4>1, <4>2 DEF DeliveryInv, OnceInv
      <4>4. ~ \E k \in DOMAIN procs[p].delivered : procs[p].delivered[k] = i
        BY <1>1, <1>3, <4>1 DEF HeardBy
      <4>5. QED
        BY <1>13, <3>1, <4>1, <4>3, <4>4 DEF Known
    <3>2. CASE q # p
      <4>1. Relaying(q, "sending") /\ o = procs[q].pass /\ procs'[q].evicted = procs[q].evicted
        BY <1>18, <2>3, <3>2
      <4>2. QED
        BY <1>14, <2>3, <4>1 DEF DeliveryInv, OnceInv
    <3>3. QED
      BY <3>1, <3>2
  <2>4. \A t \in Socket : Live(t)' => sockets'[t].proc \in Process
    BY <1>4, <1>14, ConnectionFields DEF RelayTypes
  <2>5. QED
    BY <2>1, <2>2, <2>3, <2>4 DEF OnceInv, Got, Waits, Known
<1>27. QED
  BY <1>20, <1>21, <1>22, <1>23, <1>24, <1>25, <1>26 DEF DeliveryInv

-----------------------------------------------------------------------------
(* The theorems.                                                           *)

\* The invariant holds at first.
LEMMA RelayInitOK == ASSUME MessagesInit, RelayInit PROVE RelayInv
<1>1. /\ sockets = [s \in Socket |-> Off] /\ procs = [p \in Process |-> Fresh]
      /\ pushes = [d \in Desk |-> NoPush]
  BY DEF RelayInit
<1>2. \A d \in Desk : ~At(d, "sent")
  BY DEF MessagesInit, At, Busy
<1>3. /\ \A s \in Socket : ~Live(s)
      /\ \A p \in Process : procs[p] = Fresh /\ ~Relaying(p, "sending")
      /\ \A d \in Desk : ~Pushing(d)
  BY <1>1, KindsDiffer DEF Live, Relaying, Pushing
<1>4. RelayTypes
  BY <1>1, <1>3, KindsDiffer DEF RelayTypes, SocketTypes, ProcTypes, PushTypes
<1>5. Books
  BY <1>3, KindsDiffer DEF Books, Connected, Registry
<1>6. \A p \in Process : DOMAIN procs[p].inbox = {}
  BY <1>3, KindsDiffer, EmptySeq
<1>7. DeliveryInv
  BY <1>2, <1>3, <1>6 DEF DeliveryInv, FramesInv, UnsentInv, PushedInv, HeardInv, OnceInv
<1>8. QED
  BY <1>4, <1>5, <1>7, MessagesInitOK DEF RelayInv

\* Every step either brings no frame anywhere, or is one of the five that do.
LEMMA RelayStepOK ==
    ASSUME RelayInv, [RelayNext]_<<messageVars, relayVars>>
    PROVE  RelayInv'
<1> USE DEF RelayInv
<1>1. MessagesInv' /\ StoreInv
  BY MessagesStepOK DEF MessagesInv
<1>2. ASSUME RelayTypes' /\ Books' /\ Quiet PROVE RelayInv'
  BY <1>1, <1>2, QuietKeeps DEF RelayTypes
<1>3. CASE UNCHANGED <<messageVars, relayVars>>
  <2>1. QuietRows
    BY <1>3, RowsAtRest DEF messageVars, store
  <2>2. QED
    BY <1>2, <1>3, <2>1, RelayAtRest
<1>4. CASE MessagesNext /\ UNCHANGED relayVars
  BY <1>1, <1>2, <1>4, MessagesAreQuiet, RelayAtRest
<1>5. ASSUME NEW d \in Desk, PushStep(d) \/ AckFails(d) PROVE RelayInv'
  <2>1. CASE StartPush(d)
    BY <1>1, <2>1, StartPushKeeps
  <2>2. ASSUME NEW s \in Socket, PushOne(d, s) PROVE RelayInv'
    BY <1>1, <2>2, PushOneKeeps
  <2>3. CASE EndPush(d)
    BY <1>1, <2>3, EndPushKeeps
  <2>4. CASE AckFails(d)
    BY <1>1, <1>2, <2>4, AckFailsIsQuiet
  <2>5. QED
    BY <1>5, <2>1, <2>2, <2>3, <2>4 DEF PushStep
<1>6. ASSUME NEW p \in Process, RelayStep(p) \/ Crash(p) \/ LinkBreaks(p) \/ Reconnects(p)
      PROVE  RelayInv'
  <2>1. CASE \/ Ask(p) \/ Subscribe(p) \/ HearNothing(p) \/ RelayFails(p)
             \/ LinkBreaks(p) \/ Reconnects(p)
    BY <1>2, <2>1, BookStepsAreQuiet
  <2>2. CASE Hear(p)
    BY <1>1, <2>2, HearKeeps
  <2>3. ASSUME NEW s \in Socket, RelayOne(p, s) PROVE RelayInv'
    BY <1>1, <2>3, RelayOneKeeps
  <2>4. CASE EndRelay(p)
    BY <1>2, <2>4, EndRelayIsQuiet
  <2>5. CASE Crash(p)
    BY <1>1, <1>2, <2>5, CrashIsQuiet
  <2>6. QED
    BY <1>6, <2>1, <2>2, <2>3, <2>4, <2>5 DEF RelayStep
<1>7. ASSUME NEW s \in Socket, NEW p \in Process, NEW u \in User,
             Connect(s, p, u) \/ Disconnect(s)
      PROVE  RelayInv'
  BY <1>2, <1>7, ConnectIsQuiet, DisconnectIsQuiet
<1>8. QED
  BY <1>3, <1>4, <1>5, <1>6, <1>7 DEF RelayNext

\* The inductive invariant of the relay: where a committed message can be, at
\* every moment between its commit and its last socket.
THEOREM RelayInvariant == RelaySpec => []RelayInv
BY RelayInitOK, RelayStepOK, PTL DEF RelaySpec

\* Messages, sockets, processes and pushes keep their types, and a process
\* remembers no more ids than its cache holds.
THEOREM MessagingTypes == RelaySpec => []TypeOK
<1>1. ASSUME RelayInv PROVE RelayTypeOK
  <2>1. \A s \in Socket : Live(s) => sockets[s] \in Connection
    BY <1>1, ConnectionFields DEF RelayInv, RelayTypes
  <2>2. \A p \in Process : procs[p] \in Proc /\ Len(procs[p].delivered) <= CacheSize
    BY <1>1 DEF RelayInv, RelayTypes, ProcTypes
  <2>3. \A d \in Desk : Pushing(d) => pushes[d] \in Push
    BY <1>1 DEF RelayInv, RelayTypes, PushTypes, Pushing
  <2>4. QED
    BY <2>1, <2>2, <2>3 DEF RelayTypeOK
<1>2. QED
  BY <1>1, RelayInvariant, MessagesTypes, PTL DEF TypeOK

\* Whatever a socket was sent is a committed message to the user who signed in
\* on it, whichever of the two ways it came.
THEOREM FramesCommitted == RelaySpec => []FramesAreCommitted
<1>1. ASSUME RelayInv PROVE FramesAreCommitted
  BY <1>1 DEF RelayInv, DeliveryInv, FramesInv, Frame, FramesAreCommitted
<1>2. QED
  BY <1>1, RelayInvariant, PTL

\* A process hears the channels of its connected users, or knows that it has to
\* ask for them.
THEOREM NobodyIsForgotten == RelaySpec => []NobodyForgotten
<1>1. ASSUME RelayInv PROVE NobodyForgotten
  BY <1>1 DEF RelayInv, Books, NobodyForgotten
<1>2. QED
  BY <1>1, RelayInvariant, PTL

\* No socket is sent a message by the push and again by the relay, unless its
\* id fell out of the ids its process remembers.
THEOREM TwiceOnly == RelaySpec => []TwiceOnlyIfEvicted
<1>1. ASSUME RelayInv PROVE TwiceOnlyIfEvicted
  <2> SUFFICES ASSUME NEW s \in Socket, Live(s),
                      NEW i \in Id \ procs[sockets[s].proc].evicted
               PROVE  Times(s, i) <= 1
    BY DEF TwiceOnlyIfEvicted
  <2> DEFINE K == {k \in DOMAIN sockets[s].got : sockets[s].got[k] = i}
  <2>1. \A k, l \in K : k = l
    BY <1>1 DEF RelayInv, DeliveryInv, OnceInv
  <2>2. Times(s, i) = Cardinality(K)
    BY DEF Times
  <2> HIDE DEF K
  <2>3. CASE K = {}
    BY <2>2, <2>3, FS_EmptySet
  <2>4. CASE K # {}
    <3>1. PICK k : k \in K
      BY <2>4
    <3>2. K = {k}
      BY <2>1, <3>1
    <3>3. Cardinality({k}) = 1
      BY FS_Singleton
    <3>4. QED
      BY <2>2, <3>2, <3>3
  <2>5. QED
    BY <2>3, <2>4
<1>2. QED
  BY <1>1, RelayInvariant, PTL
=============================================================================
