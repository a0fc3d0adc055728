----------------------------- MODULE ChatProofs -----------------------------
(***************************************************************************)
(* Theorems about Chat, for any threads, number of requests under way,     *)
(* ids, length of a page and bounds: what is on the page is there once,    *)
(* nothing is missing from it, and no bubble outlives its send.            *)
(*                                                                         *)
(* The argument is ChatInv, in four parts, each kept by a step if it and   *)
(* those before it held: the types and what was committed (BaseInv); the   *)
(* requests, of which only one for the view there is is live (LoadsInv);   *)
(* the page, divided by the cursor into what is shown and what an older    *)
(* page brings (ShownInv); and the bubbles, counted against what can still *)
(* answer for them (NoPhantom).                                            *)
(***************************************************************************)
EXTENDS Chat, SequenceTheorems, FiniteSetTheorems, TLAPS

Loading(s, kind) == ~Free(s) /\ loads[s].kind = kind
Fresh(s, kind) == Loading(s, kind) /\ ~loads[s].stale

\* An id is one message's.
LogInv == \A j, k \in DOMAIN log : log[j].id = log[k].id => j = k

\* What answers tell of is there, a send's answer of the thread it went to.
WireInv ==
    /\ \A k \in DOMAIN line.frames : line.frames[k].type # "error" => line.frames[k].id \in TakenId
    /\ post.at = "saved" => post.id \in Committed(post.thread)

\* What the back end put into a page.
Cut(l) ==
    /\ \A j, k \in DOMAIN l.ids : l.ids[j] = l.ids[k] => j = k
    /\ \A k \in DOMAIN l.ids :
          /\ l.ids[k] \in Committed(l.thread)
          /\ l.ids[k] >= l.next
          /\ l.before # 0 => l.ids[k] < l.before
    /\ l.next = 0 => l.ids = <<>> /\ ~l.more
    /\ l.next # 0 /\ l.before # 0 => l.next < l.before
    /\ l.due \subseteq Committed(l.thread)
    /\ \A i \in l.due : (l.before = 0 \/ i < l.before) /\ (l.more => i >= l.next) =>
          \E k \in DOMAIN l.ids : l.ids[k] = i

Pages == \A s \in Slot : loads[s].at = "served" => Cut(loads[s])

\* One older page is asked for at a time.
Older ==
    /\ \A s \in Slot : Loading(s, "older") => view.older
    /\ \A r, s \in Slot : Loading(r, "older") /\ Loading(s, "older") => r = s

\* Of the view there is, one page is asked for, before any older one.
Newest ==
    /\ \A r, s \in Slot : Fresh(r, "open") /\ ~Free(s) /\ ~loads[s].stale => r = s
    /\ \A s \in Slot : Fresh(s, "open") =>
          /\ loads[s].thread = view.active /\ loads[s].before = 0
          /\ view.clean => ~view.more

LoadsInv == Pages /\ Older /\ Newest

\* The cursor an older page was asked with is the view's still.
OlderInv ==
    view.clean => \A s \in Slot : Fresh(s, "older") =>
        /\ view.loaded /\ view.more
        /\ loads[s].thread = view.active
        /\ loads[s].before = view.before /\ view.before # 0
        /\ loads[s].at = "served" => view.due \subseteq loads[s].due

\* The cursor divides what is on the page from what an older page brings.
PageInv ==
    /\ \A k \in Unsent(view) : view.shown[k].thread = view.active
    /\ view.active = NoThread => ~view.loaded
    /\ view.clean =>
          /\ view.active = NoThread => view.shown = <<>>
          /\ view.more /\ view.active # NoThread => view.loaded /\ view.before # 0
          /\ \A k \in DOMAIN view.shown : view.shown[k].id # Bubble =>
                /\ view.shown[k].id \in Committed(view.active)
                /\ view.shown[k].id < view.before => view.shown[k].id \in view.behind
    /\ Settled => view.due \subseteq Committed(view.active)

ChatInv ==
    /\ ChatTypeOK /\ LogInv /\ WireInv /\ LoadsInv /\ OlderInv /\ PageInv
    /\ ShownOnce /\ PageIsComplete /\ NoPhantom
-----------------------------------------------------------------------------
(* Numbers in order, and counting in sequences.                            *)

\* InOrder gives a set of ids as a sequence, without repetition and smallest
\* first.
LEMMA InOrderSorts ==
    ASSUME NEW n \in Nat, NEW S \in SUBSET (1 .. n)
    PROVE  /\ Cardinality(S) \in Nat /\ IsFiniteSet(S)
           /\ InOrder(S) \in [1 .. Cardinality(S) -> S]
           /\ \A j, k \in 1 .. Cardinality(S) : InOrder(S)[j] = InOrder(S)[k] => j = k
           /\ \A i \in S : \E k \in 1 .. Cardinality(S) : InOrder(S)[k] = i
           /\ \A i \in S : 1 \in 1 .. Cardinality(S) /\ InOrder(S)[1] <= i
           /\ S # {} => \E m \in S : \A i \in S : i <= m
<1> DEFINE Upto(i) == {m \in S : m <= i}
           rank == [i \in S |-> Cardinality(Upto(i))]
           N == Cardinality(S)
<1>a. \A i \in S : i \in Nat
  OBVIOUS
<1>b. IsFiniteSet(1 .. n)
  BY FS_Interval
<1>1. IsFiniteSet(S) /\ N \in Nat
  BY <1>b, FS_Subset, FS_CardinalityType
<1>2. \A i \in S : IsFiniteSet(Upto(i)) /\ rank[i] \in 1 .. N
  <2> SUFFICES ASSUME NEW i \in S PROVE IsFiniteSet(Upto(i)) /\ rank[i] \in 1 .. N
    OBVIOUS
  <2>1. Upto(i) \in SUBSET S /\ i \in Upto(i)
    OBVIOUS
  <2>2. IsFiniteSet(Upto(i)) /\ Cardinality(Upto(i)) <= N
    BY <1>1, <2>1, FS_Subset
  <2>3. Cardinality(Upto(i)) \in Nat /\ Cardinality(Upto(i)) # 0
    BY <2>1, <2>2, FS_EmptySet, FS_CardinalityType
  <2>4. QED
    BY <1>1, <2>2, <2>3
<1>3. \A i, j \in S : i < j => rank[i] < rank[j]
  <2> SUFFICES ASSUME NEW i \in S, NEW j \in S, i < j PROVE rank[i] < rank[j]
    OBVIOUS
  <2>a. i \in Nat /\ j \in Nat
    BY <1>a
  <2>b. \A m \in S : m <= i => m <= j
    BY <1>a, <2>a
  <2>c. ~(j <= i) /\ j <= j
    BY <2>a
  <2>d. Upto(i) \in SUBSET Upto(j)
    BY <2>b
  <2>1. Upto(i) \in SUBSET Upto(j) /\ j \in Upto(j) /\ j \notin Upto(i)
    BY <2>c, <2>d
  <2>2. IsFiniteSet(Upto(j))
    BY <1>2
  <2>3. Cardinality(Upto(i)) <= Cardinality(Upto(j)) /\ Cardinality(Upto(i)) # Cardinality(Upto(j))
    BY <2>1, <2>2, FS_Subset
  <2>4. QED
    BY <1>2, <2>3
<1>4. rank \in Injection(S, 1 .. N)
  <2>1. rank \in [S -> 1 .. N]
    BY <1>2
  <2>2. \A i, j \in S : rank[i] = rank[j] => i = j
    BY <1>2, <1>3
  <2>3. QED
    BY <2>1, <2>2 DEF Injection, IsInjective
<1>5. \A k \in 1 .. N : \E i \in S : rank[i] = k
  <2>1. IsFiniteSet(1 .. N) /\ Cardinality(1 .. N) = N
    BY <1>1, FS_Interval
  <2>2. rank \in Surjection(S, 1 .. N)
    BY <1>4, <2>1, FS_Injection
  <2>3. QED
    BY <2>2 DEF Surjection
<1>6. \A k \in 1 .. N : InOrder(S)[k] \in S /\ rank[InOrder(S)[k]] = k
  BY <1>5 DEF InOrder
<1>7. InOrder(S) \in [1 .. N -> S]
  BY <1>6 DEF InOrder
<1>8. \A i \in S : InOrder(S)[rank[i]] = i
  BY <1>2, <1>4, <1>6 DEF Injection, IsInjective
<1>9. \A i \in S : 1 \in 1 .. N /\ InOrder(S)[1] <= i
  <2> SUFFICES ASSUME NEW i \in S PROVE 1 \in 1 .. N /\ InOrder(S)[1] <= i
    OBVIOUS
  <2>1. rank[i] \in 1 .. N
    BY <1>2
  <2>a. 1 \in 1 .. N
    BY <1>1, <2>1
  <2>2. InOrder(S)[1] \in S /\ rank[InOrder(S)[1]] = 1
    BY <1>6, <2>a
  <2>3. ~(i < InOrder(S)[1])
    <3> SUFFICES ASSUME i < InOrder(S)[1] PROVE FALSE
      OBVIOUS
    <3>1. rank[i] < 1 /\ rank[i] \in 1 .. N
      BY <1>2, <1>3, <2>2
    <3>2. QED
      BY <1>1, <3>1
  <2>4. InOrder(S)[1] \in Nat /\ i \in Nat
    BY <1>a, <2>2
  <2>5. InOrder(S)[1] <= i
    BY <2>3, <2>4
  <2>6. QED
    BY <2>a, <2>5
<1>10. S # {} => \E m \in S : \A i \in S : i <= m
  <2> SUFFICES ASSUME NEW i \in S PROVE \E m \in S : \A j \in S : j <= m
    OBVIOUS
  <2>1. rank[i] \in 1 .. N
    BY <1>2
  <2>a. N \in 1 .. N
    BY <1>1, <2>1
  <2>2. InOrder(S)[N] \in S /\ rank[InOrder(S)[N]] = N
    BY <1>6, <2>a
  <2>3. ASSUME NEW j \in S, InOrder(S)[N] < j PROVE FALSE
    <3>1. N < rank[j] /\ rank[j] \in 1 .. N
      BY <1>2, <1>3, <2>2, <2>3
    <3>2. QED
      BY <1>1, <3>1
  <2>4. ASSUME NEW j \in S PROVE j <= InOrder(S)[N]
    <3>1. InOrder(S)[N] \in Nat /\ j \in Nat
      BY <1>a, <2>2
    <3>2. QED
      BY <2>3, <3>1
  <2>5. QED
    BY <2>2, <2>4
<1>11. QED
  BY <1>1, <1>2, <1>6, <1>7, <1>8, <1>9, <1>10

\* The places of a sequence that hold one of P.
Hits(s, P) == {k \in DOMAIN s : s[k] \in P}

LEMMA Appended ==
    ASSUME NEW T, NEW s \in Seq(T), NEW x \in T
    PROVE  /\ Append(s, x) \in Seq(T) /\ DOMAIN Append(s, x) = 1 .. Len(s) + 1
           /\ Len(s) \in Nat /\ DOMAIN s = 1 .. Len(s)
           /\ Append(s, x)[Len(s) + 1] = x
           /\ \A k \in DOMAIN s : Append(s, x)[k] = s[k]
           /\ \A k \in DOMAIN Append(s, x) :
                 Append(s, x)[k] = x \/ (k \in DOMAIN s /\ Append(s, x)[k] = s[k])
<1>1. /\ Append(s, x) \in Seq(T) /\ DOMAIN Append(s, x) = 1 .. Len(s) + 1
      /\ Len(s) \in Nat /\ DOMAIN s = 1 .. Len(s)
      /\ Append(s, x)[Len(s) + 1] = x
      /\ \A k \in DOMAIN s : Append(s, x)[k] = s[k]
  BY AppendProperties
<1>2. \A k \in DOMAIN Append(s, x) : k = Len(s) + 1 \/ k \in DOMAIN s
  BY <1>1
<1>3. QED
  BY <1>1, <1>2

LEMMA HitsFinite ==
    ASSUME NEW T, NEW s \in Seq(T), NEW P
    PROVE  IsFiniteSet(Hits(s, P)) /\ Cardinality(Hits(s, P)) \in Nat
<1>1. Len(s) \in Nat /\ Hits(s, P) \in SUBSET (1 .. Len(s))
  BY DEF Hits
<1>2. IsFiniteSet(1 .. Len(s))
  BY <1>1, FS_Interval
<1>3. QED
  BY <1>1, <1>2, FS_Subset, FS_CardinalityType

LEMMA HitsAppend ==
    ASSUME NEW T, NEW s \in Seq(T), NEW x \in T, NEW P
    PROVE  Cardinality(Hits(Append(s, x), P)) =
             Cardinality(Hits(s, P)) + (IF x \in P THEN 1 ELSE 0)
<1>1. IsFiniteSet(Hits(s, P)) /\ Cardinality(Hits(s, P)) \in Nat
  BY HitsFinite
<1>a. Len(s) + 1 \notin Hits(s, P)
  BY DEF Hits
<1>2. Hits(Append(s, x), P) = Hits(s, P) \cup (IF x \in P THEN {Len(s) + 1} ELSE {})
  BY DEF Hits
<1>3. CASE x \in P
  BY <1>1, <1>a, <1>2, <1>3, FS_AddElement
<1>4. CASE x \notin P
  BY <1>1, <1>2, <1>4
<1>5. QED
  BY <1>3, <1>4

\* Taking the head takes at most one.
LEMMA HitsTail ==
    ASSUME NEW T, NEW s \in Seq(T), s # <<>>, NEW P
    PROVE  Cardinality(Hits(s, P)) <=
             Cardinality(Hits(Tail(s), P)) + (IF Head(s) \in P THEN 1 ELSE 0)
<1> DEFINE rest == Hits(s, P) \ {1}
           f == [k \in rest |-> k - 1]
<1>1. Len(s) \in Nat /\ Len(s) > 0 /\ Head(s) = s[1] /\ Tail(s) \in Seq(T)
  BY EmptySeq, HeadTailProperties
<1>2. DOMAIN Tail(s) = 1 .. Len(s) - 1 /\ \A k \in 1 .. Len(s) - 1 : Tail(s)[k] = s[k + 1]
  BY <1>1, HeadTailProperties
<1>3. f \in Injection(rest, Hits(Tail(s), P))
  <2>1. \A k \in rest : k \in 2 .. Len(s) /\ s[k] \in P
    BY <1>1 DEF Hits
  <2>2. \A k \in rest : k - 1 \in 1 .. Len(s) - 1 /\ Tail(s)[k - 1] = s[k]
    BY <1>1, <1>2, <2>1
  <2>3. \A k \in rest : f[k] \in Hits(Tail(s), P)
    BY <1>2, <2>1, <2>2 DEF Hits
  <2>4. \A j, k \in rest : f[j] = f[k] => j = k
    BY <2>1
  <2>5. QED
    BY <2>3, <2>4 DEF Injection, IsInjective
<1>4. Cardinality(rest) <= Cardinality(Hits(Tail(s), P)) /\ IsFiniteSet(Hits(s, P))
  BY <1>1, <1>3, HitsFinite, FS_Injection
<1>5. Cardinality(rest) = IF 1 \in Hits(s, P) THEN Cardinality(Hits(s, P)) - 1 ELSE Cardinality(Hits(s, P))
  BY <1>4, FS_RemoveElement
<1>6. 1 \in Hits(s, P) <=> Head(s) \in P
  BY <1>1 DEF Hits
<1>7. Cardinality(Hits(s, P)) \in Nat /\ Cardinality(Hits(Tail(s), P)) \in Nat
  BY <1>1, HitsFinite
<1>8. QED
  BY <1>4, <1>5, <1>6, <1>7

LEMMA HitsConcat ==
    ASSUME NEW T, NEW r \in Seq(T), NEW s \in Seq(T), NEW P, Hits(r, P) = {}
    PROVE  Cardinality(Hits(r \o s, P)) <= Cardinality(Hits(s, P))
<1> DEFINE f == [k \in Hits(r \o s, P) |-> k - Len(r)]
<1>1. /\ Len(r) \in Nat /\ Len(s) \in Nat /\ DOMAIN (r \o s) = 1 .. Len(r) + Len(s)
      /\ \A k \in 1 .. Len(r) + Len(s) :
            (r \o s)[k] = IF k <= Len(r) THEN r[k] ELSE s[k - Len(r)]
  BY ConcatProperties
<1>2. \A k \in Hits(r \o s, P) : k \in Nat /\ k - Len(r) \in Hits(s, P)
  <2> SUFFICES ASSUME NEW k \in Hits(r \o s, P) PROVE k \in Nat /\ k - Len(r) \in Hits(s, P)
    OBVIOUS
  <2>1. k \in 1 .. Len(r) + Len(s) /\ (r \o s)[k] \in P
    BY <1>1 DEF Hits
  <2>2. ~(k <= Len(r))
    BY <1>1, <2>1 DEF Hits
  <2>3. k - Len(r) \in 1 .. Len(s) /\ s[k - Len(r)] \in P
    BY <1>1, <2>1, <2>2
  <2>4. QED
    BY <2>1, <2>3 DEF Hits
<1>3. f \in Injection(Hits(r \o s, P), Hits(s, P))
  BY <1>1, <1>2 DEF Injection, IsInjective
<1>4. QED
  BY <1>3, HitsFinite, FS_Injection

LEMMA Removed ==
    ASSUME NEW T, NEW s \in Seq(T), NEW n \in DOMAIN s
    PROVE  /\ RemoveAt(s, n) \in Seq(T) /\ DOMAIN RemoveAt(s, n) = 1 .. Len(s) - 1
           /\ \A k \in 1 .. Len(s) - 1 :
                 RemoveAt(s, n)[k] = IF k < n THEN s[k] ELSE s[k + 1]
<1> DEFINE a == SubSeq(s, 1, n - 1)
           b == SubSeq(s, n + 1, Len(s))
<1>1. n \in 1 .. Len(s) /\ Len(s) \in Nat
  OBVIOUS
<1>2. a \in Seq(T) /\ Len(a) = n - 1 /\ \A k \in 1 .. n - 1 : a[k] = s[k]
  BY <1>1, SubSeqProperties
<1>3. b \in Seq(T) /\ Len(b) = Len(s) - n /\ \A k \in 1 .. Len(s) - n : b[k] = s[n + k]
  BY <1>1, SubSeqProperties
<1>4. /\ a \o b \in Seq(T) /\ Len(a \o b) = Len(s) - 1
      /\ \A k \in 1 .. Len(s) - 1 : (a \o b)[k] = IF k < n THEN a[k] ELSE b[k - (n - 1)]
  <2> HIDE DEF a, b
  <2>1. /\ a \o b \in Seq(T) /\ Len(a \o b) = Len(a) + Len(b)
        /\ \A k \in 1 .. Len(a) + Len(b) :
              (a \o b)[k] = IF k <= Len(a) THEN a[k] ELSE b[k - Len(a)]
    BY <1>2, <1>3, ConcatProperties
  <2>2. Len(a) = n - 1 /\ Len(a) + Len(b) = Len(s) - 1
    BY <1>1, <1>2, <1>3
  <2>3. \A k \in 1 .. Len(s) - 1 : (a \o b)[k] = IF k <= n - 1 THEN a[k] ELSE b[k - (n - 1)]
    BY <2>1, <2>2
  <2>4. \A k \in 1 .. Len(s) - 1 : k <= n - 1 <=> k < n
    BY <1>1
  <2>5. QED
    BY <2>1, <2>2, <2>3, <2>4
<1>5. \A k \in 1 .. Len(s) - 1 : (a \o b)[k] = IF k < n THEN s[k] ELSE s[k + 1]
  <2> HIDE DEF a, b
  <2> SUFFICES ASSUME NEW k \in 1 .. Len(s) - 1
               PROVE  (a \o b)[k] = IF k < n THEN s[k] ELSE s[k + 1]
    OBVIOUS
  <2>1. CASE k < n
    BY <1>1, <1>2, <1>4, <2>1
  <2>2. CASE ~(k < n)
    <3>1. k - (n - 1) \in 1 .. Len(s) - n /\ n + (k - (n - 1)) = k + 1
      BY <1>1, <2>2
    <3>2. QED
      BY <1>3, <1>4, <2>2, <3>1
  <2>3. QED
    BY <2>1, <2>2
<1>6. RemoveAt(s, n) = a \o b
  BY DEF RemoveAt
<1>7. DOMAIN (a \o b) = 1 .. Len(s) - 1
  <2> HIDE DEF a, b
  <2>1. DOMAIN (a \o b) = 1 .. Len(a \o b)
    BY <1>4
  <2>2. QED
    BY <1>4, <2>1
<1>8. QED
  BY <1>4, <1>5, <1>6, <1>7

LEMMA HitsRemoved ==
    ASSUME NEW T, NEW s \in Seq(T), NEW P, NEW n \in Hits(s, P)
    PROVE  Cardinality(Hits(RemoveAt(s, n), P)) <= Cardinality(Hits(s, P)) - 1
<1> DEFINE rest == Hits(s, P) \ {n}
           f == [k \in Hits(RemoveAt(s, n), P) |-> IF k < n THEN k ELSE k + 1]
<1>1. n \in 1 .. Len(s) /\ Len(s) \in Nat
  BY DEF Hits
<1>2. \A k \in Hits(RemoveAt(s, n), P) : k \in 1 .. Len(s) - 1 /\ f[k] \in rest
  <2> SUFFICES ASSUME NEW k \in Hits(RemoveAt(s, n), P)
               PROVE  k \in 1 .. Len(s) - 1 /\ (IF k < n THEN k ELSE k + 1) \in rest
    OBVIOUS
  <2>1. k \in 1 .. Len(s) - 1 /\ RemoveAt(s, n)[k] \in P
    BY <1>1, Removed DEF Hits
  <2>2. RemoveAt(s, n)[k] = IF k < n THEN s[k] ELSE s[k + 1]
    BY <1>1, <2>1, Removed
  <2>3. QED
    BY <1>1, <2>1, <2>2 DEF Hits
<1>3. f \in Injection(Hits(RemoveAt(s, n), P), rest)
  <2>1. f \in [Hits(RemoveAt(s, n), P) -> rest]
    BY <1>2
  <2>2. \A j, k \in Hits(RemoveAt(s, n), P) : f[j] = f[k] => j = k
    BY <1>1, <1>2
  <2>3. QED
    BY <2>1, <2>2 DEF Injection, IsInjective
<1>4. IsFiniteSet(rest) /\ Cardinality(rest) = Cardinality(Hits(s, P)) - 1
  BY HitsFinite, FS_RemoveElement
<1>5. QED
  BY <1>3, <1>4, FS_Injection
-----------------------------------------------------------------------------
(* The log.                                                                *)

BaseInv == ChatTypeOK /\ LogInv /\ WireInv

LEMMA Bounds == /\ LastId \in Nat /\ LastId # 0 /\ Bubble \notin ChatId
                /\ 0 \notin ChatId /\ 0 \in 0 .. LastId /\ \A i \in ChatId : i \in Nat
  BY LimitAssumption DEF Bubble, ChatId

\* An id that is taken is of one thread.
LEMMA Threads ==
    ASSUME ChatTypeOK, LogInv
    PROVE  /\ \A i \in TakenId : i \in ChatId /\ ThreadOf(i) \in Thread /\ i \in Committed(ThreadOf(i))
           /\ \A t : \A i \in Committed(t) : i \in TakenId /\ ThreadOf(i) = t
           /\ \A t : Committed(t) \in SUBSET ChatId
<1>1. log \in Seq(LogEntry) /\ Logged = {log[k] : k \in DOMAIN log}
  BY DEF ChatTypeOK, Logged, ToSet
<1>2. \A m \in Logged : m \in LogEntry
  BY <1>1
<1>3. \A m, n \in Logged : m.id = n.id => m = n
  BY <1>1 DEF LogInv
<1>4. \A m \in Logged : (CHOOSE n \in Logged : n.id = m.id) = m
  <2> SUFFICES ASSUME NEW m \in Logged PROVE (CHOOSE n \in Logged : n.id = m.id) = m
    OBVIOUS
  <2>1. (CHOOSE n \in Logged : n.id = m.id) \in {n \in Logged : n.id = m.id}
    OBVIOUS
  <2>2. QED
    BY <1>3, <2>1
<1>5. \A m \in Logged : ThreadOf(m.id) = m.thread /\ m.id \in ChatId /\ m.thread \in Thread
  BY <1>2, <1>4 DEF ThreadOf, LogEntry
<1>6. \A t : \A i \in Committed(t) : i \in TakenId /\ ThreadOf(i) = t
  BY <1>5 DEF Committed, TakenId
<1>7. \A i \in TakenId : i \in ChatId /\ ThreadOf(i) \in Thread /\ i \in Committed(ThreadOf(i))
  BY <1>5 DEF Committed, TakenId
<1>8. QED
  BY <1>6, <1>7

\* A message is added, and what was there stays where it was.
LEMMA LogGrows ==
    ASSUME ChatTypeOK, LogInv, NEW i, NEW t \in Thread, NEW mine \in BOOLEAN, Writes(i, t, mine)
    PROVE  /\ log' \in Seq(LogEntry) /\ LogInv'
           /\ i \in ChatId /\ i \in TakenId' /\ i \in Committed(t)' /\ ThreadOf(i)' = t
           /\ \A j \in TakenId : j \in TakenId' /\ ThreadOf(j)' = ThreadOf(j)
           /\ \A u : Committed(u) \subseteq Committed(u)'
<1> DEFINE e == [id |-> i, thread |-> t, mine |-> mine]
<1>1. log \in Seq(LogEntry) /\ e \in LogEntry /\ log' = Append(log, e) /\ i \in ChatId \ TakenId
  BY DEF ChatTypeOK, Writes, LogEntry
<1>2. Logged = {log[k] : k \in DOMAIN log} /\ Logged' = {log'[k] : k \in DOMAIN log'}
  BY DEF Logged, ToSet
<1>3. log' \in Seq(LogEntry) /\ DOMAIN log' = DOMAIN log \cup {Len(log) + 1}
      /\ Len(log) + 1 \notin DOMAIN log
      /\ log'[Len(log) + 1] = e /\ \A k \in DOMAIN log : log'[k] = log[k]
  BY <1>1
<1>4. Logged' = Logged \cup {e}
  BY <1>2, <1>3
<1>5. \A m \in Logged : m.id # i
  BY <1>1 DEF TakenId
<1>6. \A m, n \in Logged : m.id = n.id => m = n
  BY <1>2 DEF LogInv
<1>7. LogInv'
  <2>1. ASSUME NEW j \in DOMAIN log', NEW k \in DOMAIN log', log'[j].id = log'[k].id PROVE j = k
    <3>1. CASE j \in DOMAIN log /\ k \in DOMAIN log
      BY <1>3, <2>1, <3>1 DEF LogInv
    <3>2. CASE j = Len(log) + 1 /\ k \in DOMAIN log
      BY <1>2, <1>3, <1>5, <2>1, <3>2
    <3>3. CASE k = Len(log) + 1 /\ j \in DOMAIN log
      BY <1>2, <1>3, <1>5, <2>1, <3>3
    <3>4. QED
      BY <1>3, <3>1, <3>2, <3>3
  <2>2. QED
    BY <2>1 DEF LogInv
<1>8. \A m, n \in Logged' : m.id = n.id => m = n
  BY <1>4, <1>5, <1>6
<1>9. \A m \in Logged' : (CHOOSE n \in Logged' : n.id = m.id) = m
  <2> SUFFICES ASSUME NEW m \in Logged' PROVE (CHOOSE n \in Logged' : n.id = m.id) = m
    OBVIOUS
  <2>1. (CHOOSE n \in Logged' : n.id = m.id) \in {n \in Logged' : n.id = m.id}
    OBVIOUS
  <2>2. QED
    BY <1>8, <2>1
<1>10. \A m \in Logged : (CHOOSE n \in Logged : n.id = m.id) = m
  <2> SUFFICES ASSUME NEW m \in Logged PROVE (CHOOSE n \in Logged : n.id = m.id) = m
    OBVIOUS
  <2>1. (CHOOSE n \in Logged : n.id = m.id) \in {n \in Logged : n.id = m.id}
    OBVIOUS
  <2>2. QED
    BY <1>6, <2>1
<1>11. \A m \in Logged : ThreadOf(m.id) = m.thread /\ ThreadOf(m.id)' = m.thread
  BY <1>4, <1>9, <1>10 DEF ThreadOf
<1>12. ThreadOf(i)' = t /\ i \in TakenId' /\ i \in Committed(t)'
  <2>1. e \in Logged' /\ e.id = i /\ e.thread = t
    BY <1>4
  <2>2. (CHOOSE n \in Logged' : n.id = i) = e
    BY <1>9, <2>1
  <2>3. QED
    BY <2>1, <2>2 DEF ThreadOf, TakenId, Committed
<1>13. \A j \in TakenId : j \in TakenId' /\ ThreadOf(j)' = ThreadOf(j)
  BY <1>4, <1>11 DEF TakenId
<1>14. \A u : Committed(u) \subseteq Committed(u)'
  BY <1>4 DEF Committed
<1>15. QED
  BY <1>1, <1>3, <1>7, <1>12, <1>13, <1>14
-----------------------------------------------------------------------------
(* What the handlers do to the page.                                       *)

\* r is s without some bubbles.
Kept(s, r) ==
    /\ \A k \in DOMAIN r : \E n \in DOMAIN s : r[k] = s[n]
    /\ \A n \in DOMAIN s : s[n].id # Bubble => \E k \in DOMAIN r : r[k] = s[n]
    /\ \A j, k \in DOMAIN r : j # k =>
          \E m, n \in DOMAIN s : m # n /\ r[j] = s[m] /\ r[k] = s[n]

Bubbles == {b \in Shown : b.id = Bubble}

LEMMA UnsentHits ==
    ASSUME NEW v, v.shown \in Seq(Shown)
    PROVE  /\ Unsent(v) = Hits(v.shown, Bubbles)
           /\ IsFiniteSet(Unsent(v)) /\ Cardinality(Unsent(v)) \in Nat
<1>1. Unsent(v) = Hits(v.shown, Bubbles)
  BY DEF Unsent, Hits, Bubbles
<1>2. QED
  BY <1>1, HitsFinite

LEMMA WithoutKeeps ==
    ASSUME NEW s \in Seq(Shown), NEW t
    PROVE  /\ Without(s, t) \in Seq(Shown) /\ Kept(s, Without(s, t))
           /\ \A k \in DOMAIN Without(s, t) :
                 Without(s, t)[k].id # Bubble \/ Without(s, t)[k].thread # t
<1> DEFINE K == {k \in DOMAIN s : s[k].id # Bubble \/ s[k].thread # t}
           f == InOrder(K)
           r == Without(s, t)
<1>1. Len(s) \in Nat /\ K \in SUBSET (1 .. Len(s))
  OBVIOUS
<1>2. /\ Cardinality(K) \in Nat /\ f \in [1 .. Cardinality(K) -> K]
      /\ \A j, k \in 1 .. Cardinality(K) : f[j] = f[k] => j = k
      /\ \A n \in K : \E k \in 1 .. Cardinality(K) : f[k] = n
  BY <1>1, InOrderSorts
<1>3. DOMAIN r = 1 .. Cardinality(K) /\ \A k \in 1 .. Cardinality(K) : r[k] = s[f[k]]
  BY <1>2 DEF Without
<1>4. r = [k \in 1 .. Cardinality(K) |-> s[f[k]]]
  BY <1>2 DEF Without
<1> HIDE DEF f, r
<1>5. \A k \in 1 .. Cardinality(K) : f[k] \in DOMAIN s /\ (s[f[k]].id # Bubble \/ s[f[k]].thread # t)
  BY <1>2
<1>6. r \in Seq(Shown)
  BY <1>2, <1>4, <1>5
<1>7. Kept(s, r)
  <2>1. \A k \in DOMAIN r : \E n \in DOMAIN s : r[k] = s[n]
    BY <1>3, <1>5
  <2>2. \A n \in DOMAIN s : s[n].id # Bubble => \E k \in DOMAIN r : r[k] = s[n]
    <3> SUFFICES ASSUME NEW n \in DOMAIN s, s[n].id # Bubble PROVE \E k \in DOMAIN r : r[k] = s[n]
      OBVIOUS
    <3>1. PICK k \in 1 .. Cardinality(K) : f[k] = n
      BY <1>2
    <3>2. r[k] = s[n] /\ k \in DOMAIN r
      BY <1>3, <3>1
    <3>3. QED
      BY <3>2
  <2>3. \A j, k \in DOMAIN r : j # k => \E m, n \in DOMAIN s : m # n /\ r[j] = s[m] /\ r[k] = s[n]
    BY <1>2, <1>3, <1>5
  <2>4. QED
    BY <2>1, <2>2, <2>3 DEF Kept
<1>8. QED
  BY <1>3, <1>5, <1>6, <1>7 DEF r

LEMMA RemovedKeeps ==
    ASSUME NEW s \in Seq(Shown), NEW n \in DOMAIN s, s[n].id = Bubble
    PROVE  RemoveAt(s, n) \in Seq(Shown) /\ Kept(s, RemoveAt(s, n))
<1> DEFINE r == RemoveAt(s, n)
           f == [k \in 1 .. Len(s) - 1 |-> IF k < n THEN k ELSE k + 1]
<1>1. n \in 1 .. Len(s) /\ Len(s) \in Nat /\ DOMAIN s = 1 .. Len(s)
  OBVIOUS
<1>2. r \in Seq(Shown) /\ DOMAIN r = 1 .. Len(s) - 1
      /\ \A k \in 1 .. Len(s) - 1 : r[k] = IF k < n THEN s[k] ELSE s[k + 1]
  BY Removed
<1> HIDE DEF r
<1>3. \A k \in DOMAIN r : f[k] \in DOMAIN s /\ r[k] = s[f[k]]
  BY <1>1, <1>2
<1>4. \A j, k \in DOMAIN r : j # k => f[j] # f[k]
  BY <1>1, <1>2
<1>5. ASSUME NEW m \in DOMAIN s, m # n PROVE \E k \in DOMAIN r : r[k] = s[m]
  <2>1. CASE m < n
    BY <1>1, <1>2, <2>1
  <2>2. CASE m > n
    <3>1. m - 1 \in DOMAIN r /\ ~(m - 1 < n) /\ (m - 1) + 1 = m
      BY <1>1, <1>2, <2>2
    <3>2. r[m - 1] = s[m]
      BY <1>2, <3>1
    <3>3. QED
      BY <3>1, <3>2
  <2>3. QED
    BY <1>1, <1>5, <2>1, <2>2
<1> HIDE DEF f
<1>6. Kept(s, r)
  <2>1. \A k \in DOMAIN r : \E m \in DOMAIN s : r[k] = s[m]
    BY <1>3
  <2>2. \A m \in DOMAIN s : s[m].id # Bubble => \E k \in DOMAIN r : r[k] = s[m]
    BY <1>5
  <2>3. \A j, k \in DOMAIN r : j # k => \E l, m \in DOMAIN s : l # m /\ r[j] = s[l] /\ r[k] = s[m]
    BY <1>3, <1>4
  <2>4. QED
    BY <2>1, <2>2, <2>3 DEF Kept
<1>7. QED
  BY <1>2, <1>6 DEF r

\* Two views apart from what is shown and what was heard.
SameFrame(v, w) ==
    /\ w.active = v.active /\ w.compose = v.compose /\ w.before = v.before
    /\ w.more = v.more /\ w.older = v.older /\ w.loaded = v.loaded
    /\ w.clean = v.clean /\ w.due = v.due /\ w.unsure = v.unsure

LEMMA IngestedPage ==
    ASSUME BaseInv, NEW v \in View, NEW i \in TakenId, NEW auth \in BOOLEAN,
           v.active = ThreadOf(i), NEW w, w = Ingested(v, i, auth)
    PROVE  /\ w \in View /\ SameFrame(v, w)
           /\ w.heard = v.heard \cup {i}
           /\ w.behind = IF i < v.before THEN v.behind \cup {i} ELSE v.behind
           /\ \E s \in Seq(Shown) :
                 /\ Kept(v.shown, s)
                 /\ s = IF auth THEN Without(v.shown, v.active) ELSE v.shown
                 /\ w.shown = IF Shows(v, i) THEN s
                              ELSE Append(s, [id |-> i, thread |-> v.active])
<1> DEFINE kept == IF auth THEN Without(v.shown, v.active) ELSE v.shown
           e == [id |-> i, thread |-> v.active]
           shown == IF Shows(v, i) THEN kept ELSE Append(kept, e)
           behind == IF i < v.before THEN v.behind \cup {i} ELSE v.behind
<1>1. i \in ChatId /\ v.active \in Thread
  BY Threads DEF BaseInv
<1>2. v.shown \in Seq(Shown) /\ v.heard \in SUBSET ChatId /\ v.behind \in SUBSET ChatId
  BY DEF View
<1>3. kept \in Seq(Shown) /\ Kept(v.shown, kept)
  <2>1. Kept(v.shown, v.shown)
    BY DEF Kept
  <2>2. QED
    BY <1>2, <2>1, WithoutKeeps
<1>4. w = [v EXCEPT !.shown = shown, !.heard = v.heard \cup {i}, !.behind = behind]
  BY DEF Ingested
<1> HIDE DEF kept
<1>a. e \in Shown
  BY <1>1 DEF Shown
<1>b. Append(kept, e) \in Seq(Shown)
  BY <1>3, <1>a
<1>5. shown \in Seq(Shown)
  BY <1>3, <1>b
<1>6. behind \in SUBSET ChatId /\ v.heard \cup {i} \in SUBSET ChatId
  BY <1>1, <1>2
<1> HIDE DEF shown, behind
<1>7. w \in View
  BY <1>4, <1>5, <1>6 DEF View
<1>8. SameFrame(v, w) /\ w.heard = v.heard \cup {i} /\ w.behind = behind /\ w.shown = shown
  BY <1>4 DEF SameFrame, View
<1>9. QED
  BY <1>3, <1>7, <1>8 DEF shown, kept, behind

LEMMA BubbleGone ==
    ASSUME NEW v \in View, Unsent(v) # {}, NEW w, w = WithoutBubble(v)
    PROVE  /\ w \in View /\ SameFrame(v, w)
           /\ w.heard = v.heard /\ w.behind = v.behind
           /\ Kept(v.shown, w.shown)
           /\ Cardinality(Unsent(w)) <= Cardinality(Unsent(v)) - 1
<1>1. v.shown \in Seq(Shown) /\ Len(v.shown) \in Nat
  BY DEF View
<1>2. Unsent(v) \in SUBSET (1 .. Len(v.shown))
  BY <1>1 DEF Unsent
<1>3. PICK n \in Unsent(v) : w = [v EXCEPT !.shown = RemoveAt(v.shown, n)]
  <2>1. PICK i \in Unsent(v) : TRUE
    OBVIOUS
  <2>2. \E k \in Unsent(v) : \A j \in Unsent(v) : k <= j
    <3>1. InOrder(Unsent(v))[1] \in Unsent(v) /\ \A j \in Unsent(v) : InOrder(Unsent(v))[1] <= j
      <4>1. /\ InOrder(Unsent(v)) \in [1 .. Cardinality(Unsent(v)) -> Unsent(v)]
            /\ \A j \in Unsent(v) : 1 \in 1 .. Cardinality(Unsent(v)) /\ InOrder(Unsent(v))[1] <= j
        BY <1>1, <1>2, InOrderSorts
      <4>2. QED
        BY <2>1, <4>1
    <3>2. QED
      BY <3>1
  <2>3. (CHOOSE k \in Unsent(v) : \A j \in Unsent(v) : k <= j) \in Unsent(v)
    BY <2>2
  <2>4. w = [v EXCEPT !.shown = RemoveAt(v.shown, CHOOSE k \in Unsent(v) : \A j \in Unsent(v) : k <= j)]
    BY DEF WithoutBubble
  <2>5. QED
    BY <2>3, <2>4
<1>4. n \in DOMAIN v.shown /\ v.shown[n].id = Bubble
  BY DEF Unsent
<1>5. RemoveAt(v.shown, n) \in Seq(Shown) /\ Kept(v.shown, RemoveAt(v.shown, n))
  BY <1>1, <1>4, RemovedKeeps
<1>6. w \in View /\ SameFrame(v, w) /\ w.heard = v.heard /\ w.behind = v.behind
      /\ w.shown = RemoveAt(v.shown, n)
  BY <1>3, <1>5 DEF SameFrame, View
<1>7. Unsent(v) = Hits(v.shown, Bubbles) /\ Unsent(w) = Hits(w.shown, Bubbles)
  BY <1>1, <1>5, <1>6, UnsentHits
<1>8. Cardinality(Unsent(w)) <= Cardinality(Unsent(v)) - 1
  BY <1>1, <1>6, <1>7, HitsRemoved
<1>9. QED
  BY <1>5, <1>6, <1>8
-----------------------------------------------------------------------------
(* Types.                                                                  *)

\* Messages stay, each in its thread.
LogKeeps ==
    /\ log' \in Seq(LogEntry) /\ LogInv'
    /\ \A j \in TakenId : j \in TakenId' /\ ThreadOf(j)' = ThreadOf(j)
    /\ \A u : Committed(u) \subseteq Committed(u)'

LEMMA LogSame ==
    ASSUME BaseInv, log' = log
    PROVE  /\ LogKeeps /\ TakenId' = TakenId
           /\ \A i : ThreadOf(i)' = ThreadOf(i)
           /\ \A t : Committed(t)' = Committed(t)
<1>1. Logged' = Logged
  BY DEF Logged
<1>2. TakenId' = TakenId /\ (\A i : ThreadOf(i)' = ThreadOf(i)) /\ \A t : Committed(t)' = Committed(t)
  BY <1>1 DEF TakenId, ThreadOf, Committed
<1>3. log' \in Seq(LogEntry) /\ LogInv'
  BY DEF BaseInv, ChatTypeOK, LogInv
<1>4. QED
  BY <1>2, <1>3 DEF LogKeeps

LEMMA Fields ==
    ASSUME BaseInv
    PROVE  /\ view \in View /\ view.shown \in Seq(Shown)
           /\ view.active \in Thread \cup {NoThread} /\ view.compose \in Thread \cup {NoThread}
           /\ \A s \in Slot : ~Free(s) => loads[s] \in Load
           /\ \A s \in Slot : loads[s].at \in {"asked", "served"} => ~Free(s)
           /\ line \in Line /\ line.frames \in Seq(Frame) /\ line.sends \in Seq(Thread)
           /\ \A t : t \in Thread => t # NoThread
<1>1. ChatTypeOK
  BY DEF BaseInv
<1>2. \A s \in Slot : ~Free(s) => loads[s] \in Load
  BY <1>1 DEF ChatTypeOK, Free
<1>3. \A s \in Slot : loads[s].at \in {"asked", "served"} => ~Free(s)
  BY DEF Free, NoLoad
<1>4. view \in View /\ line \in Line
  BY <1>1 DEF ChatTypeOK
<1>5. QED
  BY <1>2, <1>3, <1>4, ThreadAssumption DEF View, Line

\* The answer of a send, or the id its frame names.
LEMMA AnswerFields ==
    ASSUME BaseInv
    PROVE  /\ post.at \in {"asked", "saved"} =>
                /\ post \in [at : {"asked", "saved"}, kind : {"text", "media", "first"},
                             thread : Thread, id : {Bubble} \cup ChatId]
                /\ post # NoPost
           /\ post.at = "saved" => post.id \in TakenId /\ ThreadOf(post.id) = post.thread
           /\ post.at = "opening" => post \in [at : {"opening"}, slot : Slot]
           /\ line.frames # <<>> =>
                /\ Head(line.frames) \in Frame /\ Head(line.frames) = line.frames[1]
                /\ 1 \in DOMAIN line.frames /\ Tail(line.frames) \in Seq(Frame)
                /\ Head(line.frames).type # "error" =>
                      Head(line.frames).type \in {"message", "ack"} /\ Head(line.frames).id \in TakenId
           /\ line.sends # <<>> =>
                Head(line.sends) \in Thread /\ Tail(line.sends) \in Seq(Thread)
<1>1. post \in Post \cup {NoPost}
  BY DEF BaseInv, ChatTypeOK
<1>2. post.at \in {"asked", "saved"} =>
        /\ post \in [at : {"asked", "saved"}, kind : {"text", "media", "first"},
                     thread : Thread, id : {Bubble} \cup ChatId]
        /\ post # NoPost
  BY <1>1 DEF Post, NoPost
<1>3. post.at = "opening" => post \in [at : {"opening"}, slot : Slot]
  BY <1>1 DEF Post, NoPost
<1>4. post.at = "saved" => post.id \in TakenId /\ ThreadOf(post.id) = post.thread
  BY Threads DEF BaseInv, WireInv
<1>5. line.frames \in Seq(Frame) /\ line.sends \in Seq(Thread)
  BY Fields
<1>6. line.frames # <<>> =>
        /\ Head(line.frames) \in Frame /\ Head(line.frames) = line.frames[1]
        /\ 1 \in DOMAIN line.frames /\ Tail(line.frames) \in Seq(Frame)
  BY <1>5
<1>7. line.frames # <<>> /\ Head(line.frames).type # "error" =>
        Head(line.frames).type \in {"message", "ack"} /\ Head(line.frames).id \in TakenId
  BY <1>6 DEF Frame, BaseInv, WireInv
<1>8. line.sends # <<>> => Head(line.sends) \in Thread /\ Tail(line.sends) \in Seq(Thread)
  BY <1>5
<1>9. QED
  BY <1>2, <1>3, <1>4, <1>6, <1>7, <1>8

LEMMA RowsShown ==
    ASSUME NEW l \in Load
    PROVE  Rows(l) \in Seq(Shown) /\ DOMAIN Rows(l) = DOMAIN l.ids
           /\ \A k \in DOMAIN l.ids :
                 Rows(l)[k].id = l.ids[k] /\ Rows(l)[k].thread = l.thread /\ l.ids[k] \in ChatId
<1>1. l.ids \in Seq(ChatId) /\ l.thread \in Thread
  BY DEF Load
<1>2. DOMAIN l.ids = 1 .. Len(l.ids) /\ \A k \in DOMAIN l.ids : l.ids[k] \in ChatId
  BY <1>1
<1>3. \A k \in DOMAIN l.ids : [id |-> l.ids[k], thread |-> l.thread] \in Shown
  BY <1>1, <1>2 DEF Shown
<1>4. Rows(l) \in Seq(Shown) /\ DOMAIN Rows(l) = DOMAIN l.ids
  BY <1>1, <1>2, <1>3 DEF Rows
<1>5. ASSUME NEW k \in DOMAIN l.ids PROVE Rows(l)[k].id = l.ids[k] /\ Rows(l)[k].thread = l.thread
  BY <1>5 DEF Rows
<1>6. QED
  BY <1>2, <1>4, <1>5

LEMMA IngestedTypes ==
    ASSUME BaseInv, NEW i \in TakenId, NEW auth \in BOOLEAN
    PROVE  Ingested(view, i, auth) \in View
<1>1. CASE view.active = ThreadOf(i)
  BY <1>1, Fields, IngestedPage
<1>2. CASE view.active # ThreadOf(i)
  BY <1>2, Fields DEF Ingested
<1>3. QED
  BY <1>1, <1>2

LEMMA WithoutTypes == ASSUME BaseInv PROVE WithoutBubble(view) \in View
<1>1. CASE Unsent(view) # {}
  BY <1>1, Fields, BubbleGone
<1>2. CASE Unsent(view) = {}
  BY <1>2, Fields DEF WithoutBubble
<1>3. QED
  BY <1>1, <1>2

LEMMA BubbleTypes ==
    ASSUME BaseInv, view.active # NoThread
    PROVE  WithBubble(view) \in View
<1>1. [id |-> Bubble, thread |-> view.active] \in Shown
  BY Fields DEF Shown
<1>2. Append(view.shown, [id |-> Bubble, thread |-> view.active]) \in Seq(Shown)
  BY <1>1, Fields
<1>3. QED
  BY <1>2, Fields DEF WithBubble, View

LEMMA ViewTypes == ASSUME BaseInv, [ChatNext]_chatVars PROVE view' \in View
<1>1. ASSUME NEW t \in Thread PROVE Opened(view, t) \in View
  <2>1. <<>> \in Seq(Shown) /\ 0 \in 0 .. LastId
    BY Bounds
  <2>2. QED
    BY <1>1, <2>1, Fields DEF Opened, View
<1>2. ASSUME NEW s \in Slot, LoadOlder(s) \/ Serve(s) \/ ShowPage(s) \/ ShowOlder(s) \/ LoadFails(s)
             \/ \E t \in Thread : OpenThread(t, s)
      PROVE view' \in View
  <2>1. CASE LoadOlder(s) \/ LoadFails(s)
    BY <2>1, Fields DEF LoadOlder, LoadFails, View
  <2>2. CASE Serve(s)
    BY <2>2, Fields DEF Serve
  <2>3. CASE ShowPage(s)
    <3>1. loads[s] \in Load /\ Rows(loads[s]) \in Seq(Shown)
      BY <2>3, Fields, RowsShown DEF ShowPage
    <3>2. loads[s].next \in 0 .. LastId /\ loads[s].more \in BOOLEAN
          /\ loads[s].due \in SUBSET ChatId
      BY <3>1 DEF Load
    <3>3. QED
      BY <2>3, <3>1, <3>2, Fields, ZenonT(40) DEF ShowPage, View
  <2>4. CASE ShowOlder(s)
    <3>1. loads[s] \in Load /\ Rows(loads[s]) \o view.shown \in Seq(Shown)
      BY <2>4, Fields, RowsShown DEF ShowOlder
    <3>2. loads[s].next \in 0 .. LastId /\ loads[s].more \in BOOLEAN
      BY <3>1 DEF Load
    <3>3. QED
      BY <2>4, <3>1, <3>2, Fields, ZenonT(40) DEF ShowOlder, View
  <2>5. CASE \E t \in Thread : OpenThread(t, s)
    BY <1>1, <2>5 DEF OpenThread
  <2>6. QED
    BY <1>2, <2>1, <2>2, <2>3, <2>4, <2>5
<1>3. CASE BackToInbox
  BY <1>3, Fields, EmptySeq DEF BackToInbox, View
<1>4. CASE LineDrops
  BY <1>4, Fields DEF LineDrops, View
<1>5. CASE FrameIsRead
  <2>1. CASE Head(line.frames).type = "error"
    BY <1>5, <2>1, WithoutTypes DEF FrameIsRead
  <2>2. CASE Head(line.frames).type # "error"
    BY <1>5, <2>2, AnswerFields, IngestedTypes DEF FrameIsRead
  <2>3. QED
    BY <2>1, <2>2
<1>6. CASE SendLive \/ SendText
  BY <1>6, BubbleTypes DEF SendLive, SendText, MayBubble, MaySend
<1>7. ASSUME NEW s \in Slot, PostIsAnswered(s) PROVE view' \in View
  <2>1. CASE post.kind = "first"
    <3>1. post.thread \in Thread
      BY <1>7, AnswerFields DEF PostIsAnswered
    <3>2. Opened(view, post.thread) \in View
      BY <1>1, <3>1
    <3>3. QED
      BY <1>7, <2>1, <3>2 DEF PostIsAnswered, View
  <2>2. CASE post.kind # "first"
    BY <1>7, <2>2, AnswerFields, IngestedTypes DEF PostIsAnswered
  <2>3. QED
    BY <2>1, <2>2
<1>8. CASE PostFails
  BY <1>8, Fields, WithoutTypes DEF PostFails, View
<1>9. CASE UNCHANGED view
  BY <1>9, Fields
<1>10. QED
  BY <1>2, <1>3, <1>4, <1>5, <1>6, <1>7, <1>8, <1>9
     DEF ChatNext, chatVars, Browse, Socketry, Sends, Writing, LineOpens, Redial, FrameComes,
         SendMedia, SendFirst, SendIsHandled, PostIsSaved, OthersWrite
-----------------------------------------------------------------------------
(* What the back end reads.                                                *)

\* The newest messages before the cursor are there without a gap.
LEMMA PageCut ==
    ASSUME NEW S \in SUBSET ChatId, NEW P,
           P = {i \in S : Cardinality({j \in S : j > i}) < PageLimit}
    PROVE  /\ \A i \in P : \A j \in S : j > i => j \in P
           /\ S # {} => P # {}
<1>1. LastId \in Nat /\ ChatId = 1 .. LastId /\ PageLimit \in Nat /\ PageLimit > 0
  BY LimitAssumption DEF ChatId
<1>2. S \in SUBSET (1 .. LastId) /\ \A i \in S : i \in Nat
  BY <1>1
<1>3. IsFiniteSet(S)
  BY <1>1, <1>2, InOrderSorts
<1>4. \A i \in S : Cardinality({j \in S : j > i}) \in Nat /\ IsFiniteSet({j \in S : j > i})
  BY <1>3, FS_Subset, FS_CardinalityType
<1>5. ASSUME NEW i \in P, NEW j \in S, j > i PROVE j \in P
  <2>a. i \in Nat /\ j \in Nat
    BY <1>2, <1>5
  <2>b. \A m \in S : m > j => m > i
    BY <1>2, <1>5, <2>a
  <2>1. {m \in S : m > j} \in SUBSET {m \in S : m > i}
    BY <2>b
  <2>2. Cardinality({m \in S : m > j}) <= Cardinality({m \in S : m > i})
    BY <1>4, <2>1, FS_Subset
  <2>3. Cardinality({m \in S : m > j}) < PageLimit
    BY <1>1, <1>4, <2>2
  <2>4. QED
    BY <2>3
<1>6. ASSUME S # {} PROVE P # {}
  <2>1. PICK m \in S : \A i \in S : i <= m
    BY <1>1, <1>2, <1>6, InOrderSorts
  <2>a. \A i \in S : ~(i > m)
    BY <1>2, <2>1
  <2>2. {j \in S : j > m} = {}
    BY <2>a
  <2>3. Cardinality({j \in S : j > m}) = 0
    BY <2>2, FS_EmptySet
  <2>4. QED
    BY <1>1, <2>1, <2>3
<1>7. QED
  BY <1>5, <1>6

LEMMA Served ==
    ASSUME BaseInv, NEW s \in Slot, Serve(s)
    PROVE  \E l \in Load :
              /\ loads' = [loads EXCEPT ![s] = l]
              /\ l.at = "served" /\ l.kind = loads[s].kind /\ l.thread = loads[s].thread
              /\ l.before = loads[s].before /\ l.stale = loads[s].stale
              /\ l.due = Committed(l.thread) /\ Cut(l)
<1>1. PICK a \in Load : a = loads[s]
  BY Fields DEF Serve
<1> DEFINE S == Before(a)
           P == {i \in S : Cardinality({j \in S : j > i}) < PageLimit}
           ids == InOrder(P)
           next == IF ids = <<>> THEN 0 ELSE Head(ids)
           more == S \ P # {}
           l == [a EXCEPT !.at = "served", !.ids = ids, !.due = Committed(a.thread),
                          !.next = next, !.more = more]
<1>2. loads' = [loads EXCEPT ![s] = l]
  BY <1>1 DEF Serve
<1>3. S \in SUBSET ChatId /\ P \in SUBSET S /\ Committed(a.thread) \in SUBSET ChatId
      /\ S \in SUBSET Committed(a.thread)
  BY Threads DEF Before, BaseInv
<1>4. (\A i \in P : \A j \in S : j > i => j \in P) /\ (S # {} => P # {})
  BY <1>3, PageCut
<1>5. a.before \in 0 .. LastId /\ \A i \in S : i \in ChatId /\ (a.before # 0 => i < a.before)
  BY <1>3 DEF Before, Load
<1>6. \A i \in Committed(a.thread) : a.before = 0 \/ i < a.before => i \in S
  BY DEF Before
<1> HIDE DEF S, P
<1>7. P \in SUBSET (1 .. LastId) /\ LastId \in Nat
  BY <1>3, Bounds DEF ChatId
<1>8. /\ Cardinality(P) \in Nat
      /\ ids \in [1 .. Cardinality(P) -> P]
      /\ \A j, k \in 1 .. Cardinality(P) : ids[j] = ids[k] => j = k
      /\ \A i \in P : \E k \in 1 .. Cardinality(P) : ids[k] = i
      /\ \A i \in P : 1 \in 1 .. Cardinality(P) /\ ids[1] <= i
  BY <1>7, InOrderSorts
<1> HIDE DEF ids
<1>9. ids \in Seq(ChatId) /\ DOMAIN ids = 1 .. Cardinality(P)
  BY <1>3, <1>8
<1>10. CASE P = {}
  <2>1. ids = <<>> /\ S = {}
    <3>1. DOMAIN ids = {}
      <4>1. ASSUME NEW k \in 1 .. Cardinality(P) PROVE FALSE
        BY <1>8, <1>10
      <4>2. QED
        BY <1>9, <4>1
    <3>2. QED
      BY <1>4, <1>9, <1>10, <3>1
  <2>2. next = 0 /\ more = FALSE
    BY <1>10, <2>1
  <2>3. l \in Load /\ l.at = "served" /\ l.kind = a.kind /\ l.thread = a.thread
        /\ l.before = a.before /\ l.stale = a.stale /\ l.due = Committed(a.thread)
        /\ l.ids = <<>> /\ l.next = 0 /\ l.more = FALSE
    <3> HIDE DEF next, more
    <3>1. 0 \in 0 .. LastId /\ ids \in Seq(ChatId)
      BY <1>9, Bounds
    <3>2. QED
      BY <1>3, <2>1, <2>2, <3>1 DEF Load
  <2> HIDE DEF l
  <2>4. Cut(l)
    BY <1>6, <2>1, <2>3 DEF Cut
  <2>5. QED
    BY <1>1, <1>2, <2>3, <2>4
<1>11. CASE P # {}
  <2>1. ids # <<>> /\ Head(ids) = ids[1] /\ ids[1] \in P /\ \A i \in P : ids[1] <= i
    <3>1. PICK i \in P : TRUE
      BY <1>11
    <3>2. 1 \in DOMAIN ids
      BY <1>8, <1>9, <3>1
    <3>3. QED
      BY <1>8, <1>9, <3>2
  <2>a. ids[1] \in 1 .. LastId
    BY <1>7, <2>1
  <2>2. next = ids[1] /\ next \in P /\ next \in 0 .. LastId /\ next # 0 /\ more \in BOOLEAN
    BY <1>7, <2>1, <2>a
  <2>3. l \in Load /\ l.at = "served" /\ l.kind = a.kind /\ l.thread = a.thread
        /\ l.before = a.before /\ l.stale = a.stale /\ l.due = Committed(a.thread)
        /\ l.ids = ids /\ l.next = next /\ (l.more <=> S \ P # {})
    <3> HIDE DEF next
    <3>1. QED
      BY <1>3, <1>9, <2>2 DEF Load
  <2> HIDE DEF l, next
  <2>4. Cut(l)
    <3>1. \A k \in DOMAIN l.ids : l.ids[k] \in P
      BY <1>8, <1>9, <2>3
    <3>2. \A i \in P : \E k \in DOMAIN l.ids : l.ids[k] = i
      BY <1>8, <1>9, <2>3
    <3>3. \A j, k \in DOMAIN l.ids : l.ids[j] = l.ids[k] => j = k
      BY <1>8, <1>9, <2>3
    <3>4. \A i \in P : i >= next /\ i \in Committed(l.thread) /\ (l.before # 0 => i < l.before)
      BY <1>3, <1>5, <1>7, <2>1, <2>2, <2>3
    <3>5. \A i \in S : (l.more => i >= l.next) => i \in P
      <4> SUFFICES ASSUME NEW i \in S, l.more => i >= l.next PROVE i \in P
        OBVIOUS
      <4>1. CASE l.more
        <5>1. i \in Nat /\ next \in Nat /\ i >= next
          BY <1>3, <2>2, <2>3, <4>1, Bounds
        <5>2. i = next \/ i > next
          BY <5>1
        <5>3. QED
          BY <1>4, <2>2, <5>2
      <4>2. CASE ~l.more
        BY <2>3, <4>2
      <4>3. QED
        BY <4>1, <4>2
    <3>6. \A i \in l.due : (l.before = 0 \/ i < l.before) => i \in S
      BY <1>6, <2>3
    <3>7. l.next # 0 /\ (l.before # 0 => l.next < l.before) /\ l.due \subseteq Committed(l.thread)
      BY <2>2, <2>3, <3>4
    <3>8. QED
      BY <2>3, <3>1, <3>2, <3>3, <3>4, <3>5, <3>6, <3>7 DEF Cut
  <2>5. QED
    BY <1>1, <1>2, <2>3, <2>4
<1>12. QED
  BY <1>10, <1>11
-----------------------------------------------------------------------------
(* The other variables.                                                    *)

LEMMA AskedTypes ==
    ASSUME NEW kind \in {"open", "older"}, NEW t \in Thread, NEW b \in 0 .. LastId,
           NEW stale \in BOOLEAN
    PROVE  Asked(kind, t, b, stale) \in Load
  BY Bounds, EmptySeq DEF Asked, Load

LEMMA LeftTypes ==
    ASSUME BaseInv
    PROVE  /\ Left(loads) \in [Slot -> Load \cup {NoLoad}]
           /\ \A s \in Slot : Left(loads)[s] # NoLoad =>
                 /\ ~Free(s) /\ Left(loads)[s] = [loads[s] EXCEPT !.stale = TRUE]
                 /\ Left(loads)[s].stale /\ Left(loads)[s].kind = loads[s].kind
                 /\ Left(loads)[s].at = loads[s].at
<1>1. ASSUME NEW s \in Slot, ~Free(s)
      PROVE  /\ [loads[s] EXCEPT !.stale = TRUE] \in Load
             /\ [loads[s] EXCEPT !.stale = TRUE].stale
             /\ [loads[s] EXCEPT !.stale = TRUE].kind = loads[s].kind
             /\ [loads[s] EXCEPT !.stale = TRUE].at = loads[s].at
  <2>1. PICK l \in Load : l = loads[s]
    BY <1>1, Fields
  <2>2. [l EXCEPT !.stale = TRUE] \in Load /\ [l EXCEPT !.stale = TRUE].stale
        /\ [l EXCEPT !.stale = TRUE].kind = l.kind /\ [l EXCEPT !.stale = TRUE].at = l.at
    BY DEF Load
  <2>3. QED
    BY <2>1, <2>2
<1>2. QED
  BY <1>1 DEF Left, Free

LEMMA LoadTypes ==
    ASSUME BaseInv, [ChatNext]_chatVars
    PROVE  loads' \in [Slot -> Load \cup {NoLoad}]
<1>a. loads \in [Slot -> Load \cup {NoLoad}]
  BY DEF BaseInv, ChatTypeOK
<1>1. ASSUME NEW s \in Slot, NEW l \in Load \cup {NoLoad},
             loads' = [loads EXCEPT ![s] = l] \/ loads' = [Left(loads) EXCEPT ![s] = l]
      PROVE  loads' \in [Slot -> Load \cup {NoLoad}]
  BY <1>a, <1>1, LeftTypes
<1>2. ASSUME NEW s \in Slot, NEW t \in Thread, OpenThread(t, s)
      PROVE loads' \in [Slot -> Load \cup {NoLoad}]
  <2>1. Asked("open", t, 0, FALSE) \in Load
    BY AskedTypes, Bounds
  <2>2. QED
    BY <1>1, <1>2, <2>1 DEF OpenThread
<1>3. ASSUME NEW s \in Slot, LoadOlder(s) PROVE loads' \in [Slot -> Load \cup {NoLoad}]
  <2>1. view.active \in Thread /\ view.before \in 0 .. LastId /\ (~view.clean) \in BOOLEAN
    BY <1>3, Fields DEF LoadOlder, View
  <2>2. Asked("older", view.active, view.before, ~view.clean) \in Load
    BY <2>1, AskedTypes
  <2>3. QED
    BY <1>1, <1>3, <2>2 DEF LoadOlder
<1>4. ASSUME NEW s \in Slot, Serve(s) PROVE loads' \in [Slot -> Load \cup {NoLoad}]
  BY <1>1, <1>4, Served
<1>5. ASSUME NEW s \in Slot, ShowPage(s) \/ ShowOlder(s) \/ LoadFails(s)
      PROVE loads' \in [Slot -> Load \cup {NoLoad}]
  BY <1>1, <1>5 DEF ShowPage, ShowOlder, LoadFails
<1>6. ASSUME NEW s \in Slot, PostIsAnswered(s) PROVE loads' \in [Slot -> Load \cup {NoLoad}]
  <2>1. post.thread \in Thread
    BY <1>6, AnswerFields DEF PostIsAnswered
  <2>2. Asked("open", post.thread, 0, FALSE) \in Load
    BY <2>1, AskedTypes, Bounds
  <2>3. QED
    BY <1>1, <1>6, <1>a, <2>2 DEF PostIsAnswered
<1>7. CASE BackToInbox
  BY <1>7, LeftTypes DEF BackToInbox
<1>8. CASE UNCHANGED loads
  BY <1>8, <1>a
<1>9. QED
  BY <1>2, <1>3, <1>4, <1>5, <1>6, <1>7, <1>8
     DEF ChatNext, chatVars, Browse, Socketry, Sends, Writing, LineOpens, LineDrops, Redial,
         FrameComes, FrameIsRead, SendLive, SendText, SendMedia, SendFirst, SendIsHandled,
         PostIsSaved, PostFails, OthersWrite

LEMMA LogStep == ASSUME BaseInv, [ChatNext]_chatVars PROVE LogKeeps
<1>1. ASSUME NEW i \in ChatId, NEW t \in Thread, NEW mine \in BOOLEAN, Writes(i, t, mine)
      PROVE LogKeeps
  BY <1>1, LogGrows DEF BaseInv, LogKeeps
<1>2. CASE SendIsHandled
  BY <1>1, <1>2, AnswerFields, LogSame DEF SendIsHandled
<1>3. ASSUME NEW i \in ChatId, PostIsSaved(i) PROVE LogKeeps
  BY <1>1, <1>3, AnswerFields DEF PostIsSaved
<1>4. CASE Writing
  BY <1>1, <1>4 DEF Writing, OthersWrite
<1>5. CASE UNCHANGED log
  BY <1>5, LogSame
<1>6. QED
  BY <1>2, <1>3, <1>4, <1>5
     DEF ChatNext, chatVars, Browse, Socketry, Sends, OpenThread, BackToInbox, LoadOlder, Serve,
         ShowPage, ShowOlder, LoadFails, LineOpens, LineDrops, Redial, FrameComes, FrameIsRead,
         SendLive, SendText, SendMedia, SendFirst, PostIsAnswered, PostFails

FramesTaken ==
    \A k \in DOMAIN line.frames : line.frames[k].type # "error" => line.frames[k].id \in TakenId

LEMMA LineStep ==
    ASSUME BaseInv, [ChatNext]_chatVars
    PROVE  line' \in Line /\ FramesTaken'
<1>a. PICK l \in Line : l = line
  BY Fields
<1>b. l.frames \in Seq(Frame) /\ l.sends \in Seq(Thread)
  BY DEF Line
<1>c. \A k \in DOMAIN l.frames : l.frames[k].type # "error" => l.frames[k].id \in TakenId'
  BY <1>a, LogStep DEF BaseInv, WireInv, LogKeeps
<1>1. ASSUME line'.frames \in {l.frames, <<>>}, line' \in Line PROVE line' \in Line /\ FramesTaken'
  BY <1>c, <1>1 DEF FramesTaken
<1>2. Dialed(l) \in Line /\ Dialed(l).frames = l.frames /\ Dialed(l).sends = l.sends
  BY DEF Dialed, Line
<1>3. CASE \E s \in Slot : ShowPage(s)
  BY <1>1, <1>2, <1>3, <1>a DEF ShowPage
<1>4. CASE BackToInbox \/ LineOpens \/ LineDrops
  <2>1. <<>> \in Seq(Frame) /\ <<>> \in Seq(Thread)
    OBVIOUS
  <2>2. CASE BackToInbox
    BY <1>1, <2>1, <2>2, <1>a DEF BackToInbox, Line
  <2>3. CASE LineOpens
    BY <1>1, <2>3, <1>a DEF LineOpens, Line
  <2>4. CASE LineDrops
    <3>1. PICK timer \in BOOLEAN :
             line' = [l EXCEPT !.at = "down", !.frames = <<>>, !.sends = <<>>, !.timer = timer]
      BY <1>a, <2>4 DEF LineDrops, Line
    <3>2. line' \in Line /\ line'.frames = <<>>
      BY <2>1, <3>1 DEF Line
    <3>3. QED
      BY <1>1, <3>2
  <2>5. QED
    BY <1>4, <2>2, <2>3, <2>4
<1>5. CASE Redial
  <2>1. [l EXCEPT !.timer = FALSE] \in Line /\ [l EXCEPT !.timer = FALSE].frames = l.frames
    BY DEF Line
  <2>2. [Dialed(l) EXCEPT !.timer = FALSE] \in Line
        /\ [Dialed(l) EXCEPT !.timer = FALSE].frames = l.frames
    BY <1>2 DEF Line
  <2>3. QED
    BY <1>1, <1>5, <1>a, <2>1, <2>2 DEF Redial
<1>6. ASSUME NEW f \in Frame, f.type # "error" => f.id \in TakenId',
             line'.frames = Append(l.frames, f), line' \in Line
      PROVE  FramesTaken'
  <2>1. \A k \in DOMAIN Append(l.frames, f) :
           \/ Append(l.frames, f)[k] = f
           \/ k \in DOMAIN l.frames /\ Append(l.frames, f)[k] = l.frames[k]
    BY <1>b, Appended
  <2>2. QED
    BY <1>c, <1>6, <2>1 DEF FramesTaken
<1>7. ASSUME NEW i \in ChatId, FrameComes(i) PROVE line' \in Line /\ FramesTaken'
  <2>1. i \in TakenId /\ log' = log
    BY <1>7 DEF FrameComes, TakenId
  <2>2. i \in TakenId'
    BY <2>1, LogSame
  <2> DEFINE f == [type |-> "message", id |-> i]
  <2>3. f \in Frame /\ f.id \in TakenId'
    BY <2>2 DEF Frame
  <2>4. line' \in Line /\ line'.frames = Append(l.frames, f)
    <3>1. line' = [l EXCEPT !.frames = Append(l.frames, f)]
      BY <1>7, <1>a DEF FrameComes
    <3>2. Append(l.frames, f) \in Seq(Frame)
      BY <1>b, <2>3
    <3>3. QED
      BY <3>1, <3>2 DEF Line
  <2>5. QED
    BY <1>6, <2>3, <2>4
<1>8. CASE FrameIsRead
  <2>1. l.frames # <<>> /\ line' = [l EXCEPT !.frames = Tail(l.frames)]
    BY <1>8, <1>a DEF FrameIsRead
  <2>2. line' \in Line /\ line'.frames = Tail(l.frames)
    <3>1. Tail(l.frames) \in Seq(Frame)
      BY <1>b, <2>1
    <3>2. QED
      BY <2>1, <3>1 DEF Line
  <2>3. \A k \in DOMAIN Tail(l.frames) : k + 1 \in DOMAIN l.frames /\ Tail(l.frames)[k] = l.frames[k + 1]
    BY <1>b, <2>1
  <2>4. QED
    BY <1>c, <2>2, <2>3 DEF FramesTaken
<1>9. CASE SendLive
  <2>1. view.active \in Thread
    BY <1>9, Fields DEF SendLive, MayBubble, MaySend
  <2>2. line' \in Line /\ line'.frames = l.frames
    <3>1. line' = [l EXCEPT !.sends = Append(l.sends, view.active)]
      BY <1>9, <1>a DEF SendLive
    <3>2. Append(l.sends, view.active) \in Seq(Thread)
      BY <1>b, <2>1
    <3>3. QED
      BY <3>1, <3>2 DEF Line
  <2>3. QED
    BY <1>1, <2>2
<1>10. CASE SendIsHandled
  <2>1. ASSUME NEW f \in Frame, f.type # "error" => f.id \in TakenId',
               line' = [line EXCEPT !.sends = Tail(@), !.frames = Append(@, f)]
        PROVE  line' \in Line /\ FramesTaken'
    <3>1. Tail(l.sends) \in Seq(Thread)
      BY <1>10, <1>a, AnswerFields DEF SendIsHandled
    <3>2. line' \in Line /\ line'.frames = Append(l.frames, f)
      <4>1. line' = [l EXCEPT !.sends = Tail(l.sends), !.frames = Append(l.frames, f)]
        BY <1>a, <2>1
      <4>2. Append(l.frames, f) \in Seq(Frame)
        BY <1>b, <2>1
      <4>3. QED
        BY <3>1, <4>1, <4>2 DEF Line
    <3>3. QED
      BY <1>6, <2>1, <3>2
  <2>2. ASSUME NEW i \in ChatId, Writes(i, Head(line.sends), TRUE),
               line' = [line EXCEPT !.sends = Tail(@), !.frames = Append(@, [type |-> "ack", id |-> i])]
        PROVE  line' \in Line /\ FramesTaken'
    <3>1. Head(line.sends) \in Thread
      BY <1>10, AnswerFields DEF SendIsHandled
    <3>2. i \in TakenId'
      BY <2>2, <3>1, LogGrows DEF BaseInv
    <3>3. [type |-> "ack", id |-> i] \in Frame
      BY DEF Frame
    <3>4. QED
      BY <2>1, <2>2, <3>2, <3>3
  <2>3. [type |-> "error"] \in Frame
    BY DEF Frame
  <2>4. QED
    BY <1>10, <2>1, <2>2, <2>3 DEF SendIsHandled
<1>11. CASE UNCHANGED line
  BY <1>1, <1>11, <1>a
<1>12. QED
  BY <1>3, <1>4, <1>5, <1>7, <1>8, <1>9, <1>10, <1>11
     DEF ChatNext, chatVars, Browse, Socketry, Sends, Writing, OpenThread, LoadOlder, Serve,
         ShowOlder, LoadFails, SendText, SendMedia, SendFirst, PostIsSaved, PostIsAnswered,
         PostFails, OthersWrite

Saved == post.at = "saved" => post.id \in Committed(post.thread)

LEMMA PostStep ==
    ASSUME BaseInv, [ChatNext]_chatVars
    PROVE  post' \in Post \cup {NoPost} /\ Saved'
<1>a. post \in Post \cup {NoPost}
  BY DEF BaseInv, ChatTypeOK
<1>1. ASSUME post' = post PROVE Saved'
  BY <1>1, LogStep DEF Saved, Committed, BaseInv, WireInv, LogKeeps
<1>2. ASSUME post' = NoPost PROVE post' \in Post \cup {NoPost} /\ Saved'
  BY <1>2 DEF NoPost, Saved
<1>3. ASSUME NEW kind \in {"text", "media", "first"}, NEW t \in Thread, Posting(kind, t)
      PROVE  post' \in Post \cup {NoPost} /\ Saved'
  BY <1>3 DEF Posting, Post, Saved
<1>4. ASSUME NEW s \in Slot, ShowPage(s) \/ LoadFails(s) PROVE post' \in Post \cup {NoPost} /\ Saved'
  BY <1>1, <1>2, <1>4, <1>a DEF ShowPage, LoadFails, Released
<1>5. CASE SendText \/ SendMedia \/ SendFirst
  BY <1>3, <1>5, Fields DEF SendText, SendMedia, SendFirst, MayBubble, MaySend
<1>6. ASSUME NEW i \in ChatId, PostIsSaved(i) PROVE post' \in Post \cup {NoPost} /\ Saved'
  <2>1. PICK q \in [at : {"asked", "saved"}, kind : {"text", "media", "first"},
                    thread : Thread, id : {Bubble} \cup ChatId] : q = post
    BY <1>6, AnswerFields DEF PostIsSaved
  <2>2. post' = [q EXCEPT !.at = "saved", !.id = i] /\ Writes(i, q.thread, TRUE)
    BY <1>6, <2>1 DEF PostIsSaved
  <2>3. i \in Committed(q.thread)'
    BY <2>2, LogGrows DEF BaseInv
  <2>4. post' \in Post /\ post'.id = i /\ post'.thread = q.thread
    BY <2>2 DEF Post
  <2>5. Saved'
    BY <2>3, <2>4 DEF Saved, Committed
  <2>6. QED
    BY <2>4, <2>5
<1>7. ASSUME NEW s \in Slot, PostIsAnswered(s) PROVE post' \in Post \cup {NoPost} /\ Saved'
  <2>1. CASE post' = NoPost
    BY <1>2, <2>1
  <2>2. CASE post' = [at |-> "opening", slot |-> s]
    BY <2>2 DEF Post, Saved
  <2>3. QED
    BY <1>7, <2>1, <2>2 DEF PostIsAnswered
<1>8. CASE PostFails
  BY <1>2, <1>8 DEF PostFails
<1>9. CASE UNCHANGED post
  BY <1>1, <1>9, <1>a
<1>10. QED
  BY <1>4, <1>5, <1>6, <1>7, <1>8, <1>9
     DEF ChatNext, chatVars, Browse, Socketry, Sends, Writing, OpenThread, BackToInbox, LoadOlder,
         Serve, ShowOlder, LineOpens, LineDrops, Redial, FrameComes, FrameIsRead, SendLive,
         SendIsHandled, OthersWrite

LEMMA BaseStep == ASSUME BaseInv, [ChatNext]_chatVars PROVE BaseInv'
<1>1. log' \in Seq(LogEntry) /\ LogInv'
  BY LogStep DEF LogKeeps
<1>2. ChatTypeOK'
  BY <1>1, ViewTypes, LoadTypes, LineStep, PostStep DEF ChatTypeOK
<1>3. WireInv'
  BY LineStep, PostStep DEF WireInv, FramesTaken, Saved
<1>4. QED
  BY <1>1, <1>2, <1>3 DEF BaseInv
-----------------------------------------------------------------------------
(* What a step does to the page and its requests, in a few words.          *)

\* A thread is opened, by a click or by the answer to a first message.
NewThread(s, t) ==
    /\ Free(s)
    /\ loads' = [Left(loads) EXCEPT ![s] = Asked("open", t, 0, FALSE)]
    /\ view'.active = t /\ view'.shown = <<>> /\ view'.before = 0 /\ ~view'.more
    /\ view'.older = view.older /\ ~view'.loaded /\ view'.clean
    /\ view'.due = {} /\ view'.heard = {} /\ view'.behind = {}

\* The thread, its cursor and its requests stay.
Stays ==
    /\ loads' = loads
    /\ view'.active = view.active /\ view'.before = view.before /\ view'.more = view.more
    /\ view'.older = view.older /\ view'.loaded = view.loaded
    /\ view'.clean = view.clean /\ view'.due = view.due

\* At most bubbles go.
Fewer == Stays /\ Kept(view.shown, view'.shown)
         /\ view'.heard = view.heard /\ view'.behind = view.behind

\* A bubble is added.
OneMore == Stays /\ view.active # NoThread
           /\ view'.shown = Append(view.shown, [id |-> Bubble, thread |-> view.active])
           /\ view'.heard = view.heard /\ view'.behind = view.behind

\* Message i of the thread comes by a frame or an answer.
Comes(i) ==
    /\ Stays /\ view.active = ThreadOf(i)
    /\ view'.heard = view.heard \cup {i}
    /\ view'.behind = IF i < view.before THEN view.behind \cup {i} ELSE view.behind
    /\ \E s \in Seq(Shown) :
          /\ Kept(view.shown, s)
          /\ view'.shown = IF Shows(view, i) THEN s
                           ELSE Append(s, [id |-> i, thread |-> view.active])

LEMMA Steps ==
    ASSUME BaseInv, [ChatNext]_chatVars
    PROVE  \/ \E s \in Slot, t \in Thread : NewThread(s, t)
           \/ BackToInbox
           \/ \E s \in Slot : LoadOlder(s) \/ Serve(s) \/ ShowPage(s) \/ ShowOlder(s) \/ LoadFails(s)
           \/ Fewer \/ OneMore \/ \E i \in TakenId : Comes(i)
<1> DEFINE Goal == \/ \E s \in Slot, t \in Thread : NewThread(s, t)
                   \/ BackToInbox
                   \/ \E s \in Slot : LoadOlder(s) \/ Serve(s) \/ ShowPage(s) \/ ShowOlder(s)
                                      \/ LoadFails(s)
                   \/ Fewer \/ OneMore \/ \E i \in TakenId : Comes(i)
<1> SUFFICES Goal
  OBVIOUS
<1>a. Kept(view.shown, view.shown)
  BY DEF Kept
<1>b. PICK v \in View : v = view
  BY Fields
<1>1. ASSUME NEW s \in Slot, NEW t \in Thread, OpenThread(t, s) PROVE Goal
  <2>1. NewThread(s, t)
    BY <1>1, <1>b DEF OpenThread, Opened, NewThread, View
  <2>2. QED
    BY <2>1
<1>2. ASSUME loads' = loads, SameFrame(view, view'), view'.heard = view.heard,
             view'.behind = view.behind, Kept(view.shown, view'.shown)
      PROVE  Fewer
  BY <1>2 DEF Fewer, Stays, SameFrame
<1>3. ASSUME loads' = loads, view' = view PROVE Fewer
  BY <1>2, <1>3, <1>a DEF SameFrame
<1>4. ASSUME loads' = loads, view' = WithoutBubble(view) PROVE Fewer
  <2>1. CASE Unsent(view) = {}
    BY <1>3, <1>4, <2>1 DEF WithoutBubble
  <2>2. CASE Unsent(view) # {}
    BY <1>2, <1>4, <2>2, BubbleGone, Fields
  <2>3. QED
    BY <2>1, <2>2
<1>5. ASSUME NEW i \in TakenId, NEW auth \in BOOLEAN, loads' = loads,
             view' = Ingested(view, i, auth)
      PROVE  Goal
  <2>1. CASE view.active = ThreadOf(i)
    <3>1. PICK w : w = view'
      OBVIOUS
    <3>2. /\ w \in View /\ SameFrame(v, w)
          /\ w.heard = v.heard \cup {i}
          /\ w.behind = IF i < v.before THEN v.behind \cup {i} ELSE v.behind
          /\ \E s \in Seq(Shown) :
                /\ Kept(v.shown, s)
                /\ s = IF auth THEN Without(v.shown, v.active) ELSE v.shown
                /\ w.shown = IF Shows(v, i) THEN s
                             ELSE Append(s, [id |-> i, thread |-> v.active])
      BY <1>5, <1>b, <2>1, <3>1, IngestedPage
    <3>3. PICK s \in Seq(Shown) :
             /\ Kept(v.shown, s)
             /\ w.shown = IF Shows(v, i) THEN s ELSE Append(s, [id |-> i, thread |-> v.active])
      BY <3>2
    <3>4. Stays
      BY <1>5, <1>b, <3>1, <3>2 DEF Stays, SameFrame
    <3>5. Comes(i)
      BY <1>b, <2>1, <3>1, <3>2, <3>3, <3>4 DEF Comes
    <3>6. QED
      BY <3>5
  <2>2. CASE view.active # ThreadOf(i)
    BY <1>3, <1>5, <2>2 DEF Ingested
  <2>3. QED
    BY <2>1, <2>2
<1>6. CASE LineDrops
  BY <1>2, <1>6, <1>a, <1>b DEF LineDrops, Fewer, Stays, View
<1>7. CASE FrameIsRead
  <2>1. CASE Head(line.frames).type = "error"
    BY <1>4, <1>7, <2>1 DEF FrameIsRead
  <2>2. CASE Head(line.frames).type # "error"
    BY <1>5, <1>7, <2>2, AnswerFields DEF FrameIsRead
  <2>3. QED
    BY <2>1, <2>2
<1>8. CASE SendLive \/ SendText
  <2>1. loads' = loads /\ view' = WithBubble(view) /\ view.active # NoThread
    BY <1>8 DEF SendLive, SendText, MayBubble, MaySend
  <2>2. OneMore
    BY <1>b, <2>1 DEF OneMore, Stays, WithBubble, View
  <2>3. QED
    BY <2>2
<1>9. ASSUME NEW s \in Slot, PostIsAnswered(s) PROVE Goal
  <2>1. CASE post.kind = "first"
    <3>1. post.thread \in Thread
      BY <1>9, AnswerFields DEF PostIsAnswered
    <3>2. NewThread(s, post.thread)
      BY <1>9, <1>b, <2>1 DEF PostIsAnswered, Opened, NewThread, View
    <3>3. QED
      BY <3>1, <3>2
  <2>2. CASE post.kind # "first"
    BY <1>5, <1>9, <2>2, AnswerFields DEF PostIsAnswered
  <2>3. QED
    BY <2>1, <2>2
<1>10. CASE PostFails
  <2>1. CASE view' = [view EXCEPT !.compose = NoThread]
    BY <1>10, <2>1, <1>a, <1>b DEF PostFails, Fewer, Stays, View
  <2>2. CASE view' \in {view, WithoutBubble(view)}
    BY <1>3, <1>4, <1>10, <2>2 DEF PostFails
  <2>3. QED
    BY <1>10, <2>1, <2>2 DEF PostFails
<1>11. CASE UNCHANGED <<view, loads>>
  BY <1>3, <1>11
<1>12. QED
  BY <1>1, <1>6, <1>7, <1>8, <1>9, <1>10, <1>11
     DEF ChatNext, chatVars, Browse, Socketry, Sends, Writing, LineOpens, Redial, FrameComes,
         SendMedia, SendFirst, SendIsHandled, PostIsSaved, OthersWrite

\* A page that was read stays a page of its thread.
LEMMA CutStays ==
    ASSUME BaseInv, [ChatNext]_chatVars, NEW l, Cut(l)
    PROVE  Cut(l)'
<1>1. Committed(l.thread) \subseteq Committed(l.thread)'
  BY LogStep DEF LogKeeps
<1>2. QED
  BY <1>1 DEF Cut

LEMMA StaleCut ==
    ASSUME NEW l \in Load, Cut(l)
    PROVE  Cut([l EXCEPT !.stale = TRUE])
<1>1. PICK m : m = [l EXCEPT !.stale = TRUE]
  OBVIOUS
<1>2. m.ids = l.ids /\ m.thread = l.thread /\ m.before = l.before /\ m.next = l.next
      /\ m.more = l.more /\ m.due = l.due
  BY <1>1 DEF Load
<1>3. Cut(m)
  BY <1>2 DEF Cut
<1>4. QED
  BY <1>1, <1>3

LEMMA PagesStep ==
    ASSUME BaseInv, Pages, [ChatNext]_chatVars
    PROVE  Pages'
<1>a. loads \in [Slot -> Load \cup {NoLoad}]
  BY DEF BaseInv, ChatTypeOK
<1>1. ASSUME NEW l, l.at = "served" => Cut(l) PROVE l.at = "served" => Cut(l)'
  BY <1>1, CutStays
<1>2. ASSUME \A r \in Slot : loads'[r].at = "served" => Cut(loads'[r])
      PROVE  Pages'
  <2>1. ASSUME NEW r \in Slot, loads'[r].at = "served" PROVE (Cut(loads[r]))'
    <3>1. PICK l : l = loads'[r]
      OBVIOUS
    <3>2. Cut(l)'
      BY <1>1, <1>2, <2>1, <3>1
    <3>3. QED
      BY <3>1, <3>2 DEF Cut
  <2>2. QED
    BY <2>1 DEF Pages
<1>3. ASSUME NEW s \in Slot, NEW l, l.at = "served" => Cut(l), loads' = [loads EXCEPT ![s] = l]
      PROVE  Pages'
  <2>1. ASSUME NEW r \in Slot, loads'[r].at = "served" PROVE Cut(loads'[r])
    <3>1. CASE r = s
      BY <1>3, <1>a, <2>1, <3>1
    <3>2. CASE r # s
      BY <1>3, <1>a, <2>1, <3>2 DEF Pages
    <3>3. QED
      BY <3>1, <3>2
  <2>2. QED
    BY <1>2, <2>1
<1>4. ASSUME NEW r \in Slot, Left(loads)[r].at = "served" PROVE Cut(Left(loads)[r])
  <2>1. Left(loads)[r] # NoLoad
    BY <1>4 DEF NoLoad
  <2>2. ~Free(r) /\ loads[r] \in Load /\ Left(loads)[r] = [loads[r] EXCEPT !.stale = TRUE]
        /\ loads[r].at = "served"
    BY <1>4, <2>1, LeftTypes, Fields
  <2>3. QED
    BY <2>2, StaleCut DEF Pages
<1>5. ASSUME NEW s \in Slot, NEW t \in Thread, NewThread(s, t) PROVE Pages'
  <2>1. ASSUME NEW r \in Slot, loads'[r].at = "served" PROVE Cut(loads'[r])
    <3>1. loads'[r] = IF r = s THEN Asked("open", t, 0, FALSE) ELSE Left(loads)[r]
      BY <1>5, LeftTypes DEF NewThread
    <3>2. r # s
      BY <2>1, <3>1 DEF Asked
    <3>3. QED
      BY <1>4, <2>1, <3>1, <3>2
  <2>2. QED
    BY <1>2, <2>1
<1>6. CASE BackToInbox
  BY <1>2, <1>4, <1>6 DEF BackToInbox
<1>7. ASSUME NEW s \in Slot, LoadOlder(s) PROVE Pages'
  <2>1. PICK l : l = Asked("older", view.active, view.before, ~view.clean)
    OBVIOUS
  <2>2. l.at # "served"
    BY <2>1 DEF Asked
  <2>3. QED
    BY <1>3, <1>7, <2>1, <2>2 DEF LoadOlder
<1>8. ASSUME NEW s \in Slot, Serve(s) PROVE Pages'
  BY <1>3, <1>8, Served
<1>9. ASSUME NEW s \in Slot, ShowPage(s) \/ ShowOlder(s) \/ LoadFails(s) PROVE Pages'
  BY <1>3, <1>9 DEF ShowPage, ShowOlder, LoadFails, NoLoad
<1>10. CASE Stays
  BY <1>2, <1>10 DEF Stays, Pages
<1>11. QED
  BY <1>5, <1>6, <1>7, <1>8, <1>9, <1>10, Steps DEF Fewer, OneMore, Comes

LEMMA LoadsStep ==
    ASSUME BaseInv, LoadsInv, [ChatNext]_chatVars
    PROVE  LoadsInv'
<1>a. loads \in [Slot -> Load \cup {NoLoad}]
  BY DEF BaseInv, ChatTypeOK
<1>b. Older /\ Newest
  BY DEF LoadsInv
<1> SUFFICES Older' /\ Newest'
  BY PagesStep DEF LoadsInv
<1>1. ASSUME NEW s \in Slot, NEW t \in Thread, NewThread(s, t) PROVE Older' /\ Newest'
  <2>1. \A r \in Slot : loads'[r] = IF r = s THEN Asked("open", t, 0, FALSE) ELSE Left(loads)[r]
    BY <1>1, LeftTypes DEF NewThread
  <2>2. loads'[s].kind = "open" /\ loads'[s].thread = t /\ loads'[s].before = 0
    BY <2>1 DEF Asked
  <2>3. \A r \in Slot : r # s /\ loads'[r] # NoLoad =>
           loads'[r].stale /\ ~Free(r) /\ loads'[r].kind = loads[r].kind
    BY <2>1, LeftTypes
  <2>4. Older'
    <3>1. view'.older <=> view.older
      BY <1>1 DEF NewThread
    <3>2. \A r \in Slot : (Loading(r, "older"))' => Loading(r, "older")
      BY <2>2, <2>3 DEF Loading, Free
    <3>3. QED
      BY <1>b, <3>1, <3>2 DEF Older
  <2>5. Newest'
    BY <1>1, <2>2, <2>3 DEF Newest, Loading, Fresh, Free, NewThread
  <2>6. QED
    BY <2>4, <2>5
<1>2. CASE BackToInbox
  <2>1. \A r \in Slot : loads'[r] # NoLoad =>
           loads'[r].stale /\ ~Free(r) /\ loads'[r].kind = loads[r].kind
    BY <1>2, LeftTypes DEF BackToInbox
  <2>2. view'.older = view.older
    BY <1>2, Fields DEF BackToInbox, View
  <2>3. Older'
    BY <1>b, <2>1, <2>2 DEF Older, Loading, Free
  <2>4. Newest'
    BY <2>1 DEF Newest, Older, Loading, Fresh, Free
  <2>5. QED
    BY <2>3, <2>4
<1>3. ASSUME NEW s \in Slot, LoadOlder(s) PROVE Older' /\ Newest'
  <2>1. \A r \in Slot : loads'[r] = IF r = s
                                    THEN Asked("older", view.active, view.before, ~view.clean)
                                    ELSE loads[r]
    BY <1>3, <1>a DEF LoadOlder
  <2>2. loads'[s].kind = "older" /\ (~loads'[s].stale => view.clean)
    <3>1. loads'[s] = [at |-> "asked", kind |-> "older", thread |-> view.active,
                       before |-> view.before, stale |-> ~view.clean, ids |-> <<>>,
                       next |-> 0, more |-> FALSE, due |-> {}]
      BY <2>1 DEF Asked
    <3>2. loads'[s].kind = "older" /\ loads'[s].stale = ~view.clean
      BY <3>1
    <3>3. QED
      BY <3>2
  <2>3. view'.older /\ view'.active = view.active /\ view'.clean = view.clean
        /\ view'.more = view.more /\ view.more /\ ~view.older
    BY <1>3, Fields DEF LoadOlder, View
  <2>4. Older'
    BY <1>b, <2>1, <2>3 DEF Older, Loading, Free
  <2>5. Newest'
    BY <1>b, <2>1, <2>2, <2>3 DEF Newest, Loading, Fresh, Free
  <2>6. QED
    BY <2>4, <2>5
<1>4. ASSUME NEW s \in Slot, Serve(s) PROVE Older' /\ Newest'
  <2>1. PICK l \in Load :
           /\ loads' = [loads EXCEPT ![s] = l]
           /\ l.kind = loads[s].kind /\ l.thread = loads[s].thread
           /\ l.before = loads[s].before /\ l.stale = loads[s].stale
    BY <1>4, Served
  <2>2. \A r \in Slot : loads'[r] = IF r = s THEN l ELSE loads[r]
    BY <1>a, <2>1
  <2>3. ~Free(s) /\ view' = view
    BY <1>4, Fields DEF Serve
  <2>4. \A r \in Slot : loads'[r] # NoLoad =>
           /\ ~Free(r) /\ loads'[r].kind = loads[r].kind /\ loads'[r].thread = loads[r].thread
           /\ loads'[r].before = loads[r].before /\ loads'[r].stale = loads[r].stale
    BY <2>1, <2>2, <2>3 DEF Free
  <2>5. QED
    BY <1>b, <2>3, <2>4 DEF Newest, Older, Loading, Fresh, Free
<1>5. ASSUME NEW s \in Slot, ShowPage(s) \/ ShowOlder(s) \/ LoadFails(s) PROVE Older' /\ Newest'
  <2>1. \A r \in Slot : loads'[r] = IF r = s THEN NoLoad ELSE loads[r]
    BY <1>5, <1>a DEF ShowPage, ShowOlder, LoadFails
  <2>2. ~Free(s) /\ loads[s] \in Load
    BY <1>5, Fields DEF ShowPage, ShowOlder, LoadFails
  <2>3. view'.active = view.active
    BY <1>5, Fields DEF ShowPage, ShowOlder, LoadFails, View
  <2>4. view.older => view'.older \/ loads[s].kind = "older"
    BY <1>5, Fields DEF ShowPage, ShowOlder, LoadFails, View
  <2>5. \/ view'.clean = view.clean /\ view'.more = view.more
        \/ ~loads[s].stale \/ ~view'.clean
    BY <1>5, Fields DEF ShowPage, ShowOlder, LoadFails, View
  <2>6. Older'
    BY <1>b, <2>1, <2>2, <2>4 DEF Older, Loading, Free
  <2>7. Newest'
    BY <1>b, <2>1, <2>2, <2>3, <2>5 DEF Newest, Older, Loading, Fresh, Free
  <2>8. QED
    BY <2>6, <2>7
<1>6. CASE Stays
  <2>1. Older'
    BY <1>6, <1>b DEF Older, Stays, Loading, Free
  <2>2. Newest'
    BY <1>6, <1>b DEF Newest, Stays, Loading, Fresh, Free
  <2>3. QED
    BY <2>1, <2>2
<1>7. QED
  BY <1>1, <1>2, <1>3, <1>4, <1>5, <1>6, Steps DEF Fewer, OneMore, Comes
-----------------------------------------------------------------------------
(* What is on the page.                                                    *)

ShownInv == OlderInv /\ PageInv /\ ShownOnce /\ PageIsComplete

LEMMA Grows ==
    ASSUME BaseInv, [ChatNext]_chatVars
    PROVE  \A t : \A i \in Committed(t) : i \in Committed(t)'
  BY LogStep DEF LogKeeps

LEMMA GrowsActive ==
    ASSUME BaseInv, [ChatNext]_chatVars, view'.active = view.active
    PROVE  \A i \in Committed(view.active) : (i \in Committed(view.active))'
<1>1. PICK t : t = view.active
  OBVIOUS
<1>2. \A i \in Committed(t) : i \in Committed(t)'
  BY Grows
<1>3. (Committed(view.active))' = Committed(t)'
  BY <1>1 DEF Committed
<1>4. QED
  BY <1>1, <1>2, <1>3

LEMMA OlderStays ==
    ASSUME OlderInv, Stays
    PROVE  OlderInv'
  BY DEF OlderInv, Stays, Fresh, Loading, Free

LEMMA FewerStep ==
    ASSUME BaseInv, ShownInv, [ChatNext]_chatVars, Fewer
    PROVE  ShownInv'
<1>a. /\ view'.active = view.active /\ view'.before = view.before /\ view'.more = view.more
      /\ view'.loaded = view.loaded /\ view'.clean = view.clean /\ view'.due = view.due
      /\ view'.heard = view.heard /\ view'.behind = view.behind
  BY DEF Fewer, Stays
<1>b. /\ \A k \in DOMAIN view'.shown : \E n \in DOMAIN view.shown : view'.shown[k] = view.shown[n]
      /\ \A n \in DOMAIN view.shown : view.shown[n].id # Bubble =>
            \E k \in DOMAIN view'.shown : view'.shown[k] = view.shown[n]
      /\ \A j, k \in DOMAIN view'.shown : j # k =>
            \E m, n \in DOMAIN view.shown :
               m # n /\ view'.shown[j] = view.shown[m] /\ view'.shown[k] = view.shown[n]
  BY DEF Fewer, Kept
<1>c. \A i \in ChatId : Shows(view, i) => Shows(view', i)
  BY <1>b, Bounds DEF Shows
<1>d. view.due \in SUBSET ChatId /\ view.heard \in SUBSET ChatId
  BY Fields DEF View
<1>1. OlderInv'
  BY OlderStays DEF ShownInv, Fewer
<1>2. PageInv'
  <2>1. \A k \in Unsent(view') : view'.shown[k].thread = view.active
    BY <1>b DEF ShownInv, PageInv, Unsent
  <2>2. view.clean /\ view.active = NoThread => view'.shown = <<>>
    <3>1. view.clean /\ view.active = NoThread => view.shown = <<>>
      BY DEF ShownInv, PageInv
    <3>2. view.shown = <<>> => DOMAIN view'.shown = {}
      BY <1>b
    <3>3. view'.shown \in Seq(Shown)
      BY BaseStep, ViewTypes DEF View
    <3>4. DOMAIN view'.shown = {} => view'.shown = <<>>
      <4>1. PICK s \in Seq(Shown) : s = view'.shown
        BY <3>3
      <4>2. DOMAIN s = {} => s = <<>>
        OBVIOUS
      <4>3. QED
        BY <4>1, <4>2
    <3>5. QED
      BY <3>1, <3>2, <3>4
  <2>3. view.clean => \A k \in DOMAIN view'.shown : view'.shown[k].id # Bubble =>
           /\ view'.shown[k].id \in Committed(view.active)
           /\ view'.shown[k].id < view.before => view'.shown[k].id \in view.behind
    BY <1>b DEF ShownInv, PageInv
  <2>4. \A i \in Committed(view.active) : (i \in Committed(view.active))'
    BY <1>a, GrowsActive
  <2>5. /\ view.active = NoThread => ~view.loaded
        /\ view.clean => (view.more /\ view.active # NoThread => view.loaded /\ view.before # 0)
        /\ view.loaded /\ view.clean => view.due \subseteq Committed(view.active)
    BY DEF ShownInv, PageInv, Settled
  <2>6. QED
    BY <1>a, <2>1, <2>2, <2>3, <2>4, <2>5 DEF PageInv, Settled, Unsent
<1>3. ShownOnce'
  BY <1>a, <1>b DEF ShownInv, ShownOnce
<1>4. PageIsComplete'
  <2>1. view.loaded /\ view.clean => \A k \in DOMAIN view'.shown : view'.shown[k].thread = view.active
    BY <1>b DEF ShownInv, PageIsComplete, Settled
  <2>2. view.loaded /\ view.clean =>
           /\ \A i \in view.due : (view.more => i >= view.before) => Shows(view', i)
           /\ \A i \in view.heard : Shows(view', i)
    BY <1>c, <1>d DEF ShownInv, PageIsComplete, Settled
  <2>3. QED
    BY <1>a, <2>1, <2>2 DEF PageIsComplete, Settled, Shows
<1>5. QED
  BY <1>1, <1>2, <1>3, <1>4 DEF ShownInv

LEMMA OneMoreStep ==
    ASSUME BaseInv, ShownInv, [ChatNext]_chatVars, OneMore
    PROVE  ShownInv'
<1>a. /\ view'.active = view.active /\ view'.before = view.before /\ view'.more = view.more
      /\ view'.loaded = view.loaded /\ view'.clean = view.clean /\ view'.due = view.due
      /\ view'.heard = view.heard /\ view'.behind = view.behind /\ view.active # NoThread
  BY DEF OneMore, Stays
<1> DEFINE e == [id |-> Bubble, thread |-> view.active]
<1>b. /\ \A k \in DOMAIN view'.shown :
            view'.shown[k] = e \/ (k \in DOMAIN view.shown /\ view'.shown[k] = view.shown[k])
      /\ \A k \in DOMAIN view.shown : k \in DOMAIN view'.shown /\ view'.shown[k] = view.shown[k]
  <2>1. e \in Shown
    BY <1>a, Fields DEF Shown
  <2>2. view'.shown = Append(view.shown, e)
    BY DEF OneMore
  <2> HIDE DEF e
  <2>3. QED
    BY <2>1, <2>2, Fields, Appended
<1>c. \A i : Shows(view, i) => Shows(view', i)
  BY <1>b DEF Shows
<1>d. e.id = Bubble /\ e.thread = view.active
  OBVIOUS
<1> HIDE DEF e
<1>1. OlderInv'
  BY OlderStays DEF ShownInv, OneMore
<1>2. PageInv'
  <2>1. \A k \in Unsent(view') : view'.shown[k].thread = view.active
    BY <1>b, <1>d DEF ShownInv, PageInv, Unsent
  <2>2. view.clean => \A k \in DOMAIN view'.shown : view'.shown[k].id # Bubble =>
           /\ view'.shown[k].id \in Committed(view.active)
           /\ view'.shown[k].id < view.before => view'.shown[k].id \in view.behind
    BY <1>b, <1>d DEF ShownInv, PageInv
  <2>3. \A i \in Committed(view.active) : (i \in Committed(view.active))'
    BY <1>a, GrowsActive
  <2>4. /\ view.active = NoThread => ~view.loaded
        /\ view.clean => (view.more /\ view.active # NoThread => view.loaded /\ view.before # 0)
        /\ view.loaded /\ view.clean => view.due \subseteq Committed(view.active)
    BY DEF ShownInv, PageInv, Settled
  <2>5. QED
    BY <1>a, <2>1, <2>2, <2>3, <2>4 DEF PageInv, Settled, Unsent
<1>3. ShownOnce'
  BY <1>a, <1>b, <1>d DEF ShownInv, ShownOnce
<1>4. PageIsComplete'
  <2>1. view.loaded /\ view.clean => \A k \in DOMAIN view'.shown : view'.shown[k].thread = view.active
    BY <1>b, <1>d DEF ShownInv, PageIsComplete, Settled
  <2>2. view.loaded /\ view.clean =>
           /\ \A i \in view.due : (view.more => i >= view.before) => Shows(view', i)
           /\ \A i \in view.heard : Shows(view', i)
    BY <1>c DEF ShownInv, PageIsComplete, Settled
  <2>3. QED
    BY <1>a, <2>1, <2>2 DEF PageIsComplete, Settled, Shows
<1>5. QED
  BY <1>1, <1>2, <1>3, <1>4 DEF ShownInv

LEMMA ComesStep ==
    ASSUME BaseInv, ShownInv, [ChatNext]_chatVars, NEW i \in TakenId, Comes(i)
    PROVE  ShownInv'
<1>a. /\ view'.active = view.active /\ view'.before = view.before /\ view'.more = view.more
      /\ view'.loaded = view.loaded /\ view'.clean = view.clean /\ view'.due = view.due
      /\ view'.heard = view.heard \cup {i}
      /\ view'.behind = IF i < view.before THEN view.behind \cup {i} ELSE view.behind
      /\ view.active = ThreadOf(i)
  BY DEF Comes, Stays
<1>b. view.active \in Thread /\ i \in ChatId /\ i \in Committed(view.active) /\ i # Bubble
      /\ view.active # NoThread
  BY <1>a, Threads, Bounds, Fields DEF BaseInv
<1> DEFINE e == [id |-> i, thread |-> view.active]
<1>c. e.id = i /\ e.thread = view.active /\ e \in Shown
  BY <1>b DEF Shown
<1> HIDE DEF e
<1>d. PICK s \in Seq(Shown) :
         Kept(view.shown, s) /\ view'.shown = IF Shows(view, i) THEN s ELSE Append(s, e)
  BY DEF Comes, e
<1>e. /\ \A k \in DOMAIN s : \E n \in DOMAIN view.shown : s[k] = view.shown[n]
      /\ \A n \in DOMAIN view.shown : view.shown[n].id # Bubble =>
            \E k \in DOMAIN s : s[k] = view.shown[n]
      /\ \A j, k \in DOMAIN s : j # k =>
            \E m, n \in DOMAIN view.shown : m # n /\ s[j] = view.shown[m] /\ s[k] = view.shown[n]
  BY <1>d DEF Kept
<1>f. /\ \A k \in DOMAIN view'.shown :
            \/ k \in DOMAIN s /\ view'.shown[k] = s[k]
            \/ view'.shown[k] = e /\ ~Shows(view, i) /\ k = Len(s) + 1
      /\ \A k \in DOMAIN s : k \in DOMAIN view'.shown /\ view'.shown[k] = s[k]
      /\ \E k \in DOMAIN view'.shown : view'.shown[k].id = i
  <2>1. CASE Shows(view, i)
    <3>1. PICK n \in DOMAIN view.shown : view.shown[n].id = i
      BY <2>1 DEF Shows
    <3>2. \E k \in DOMAIN s : s[k].id = i
      BY <1>b, <1>e, <3>1
    <3>3. QED
      BY <1>d, <2>1, <3>2
  <2>2. CASE ~Shows(view, i)
    <3>1. PICK r : r = view'.shown /\ r = Append(s, e)
      BY <1>d, <2>2
    <3>2. /\ DOMAIN r = 1 .. Len(s) + 1 /\ Len(s) \in Nat /\ DOMAIN s = 1 .. Len(s)
          /\ r[Len(s) + 1] = e /\ \A k \in DOMAIN s : r[k] = s[k]
      BY <1>c, <3>1, Appended
    <3>3. \A k \in DOMAIN r : k \in DOMAIN s \/ k = Len(s) + 1
      BY <3>2
    <3>4. Len(s) + 1 \in DOMAIN r /\ \A k \in DOMAIN s : k \in DOMAIN r
      BY <3>2
    <3>5. QED
      BY <1>c, <2>2, <3>1, <3>2, <3>3, <3>4
  <2>3. QED
    BY <2>1, <2>2
<1>g. \A j \in ChatId : Shows(view, j) => Shows(view', j)
  BY <1>e, <1>f, Bounds DEF Shows
<1>h. Shows(view', i)
  BY <1>f DEF Shows
<1>i. view.due \in SUBSET ChatId /\ view.heard \in SUBSET ChatId
  BY Fields DEF View
<1>1. OlderInv'
  BY OlderStays DEF ShownInv, Comes
<1>2. PageInv'
  <2>1. \A k \in Unsent(view') : view'.shown[k].thread = view.active
    BY <1>b, <1>c, <1>e, <1>f DEF ShownInv, PageInv, Unsent
  <2>2. view.clean => \A k \in DOMAIN view'.shown : view'.shown[k].id # Bubble =>
           /\ view'.shown[k].id \in Committed(view.active)
           /\ view'.shown[k].id < view.before => view'.shown[k].id \in view'.behind
    <3> SUFFICES ASSUME view.clean, NEW k \in DOMAIN view'.shown, view'.shown[k].id # Bubble
                 PROVE  /\ view'.shown[k].id \in Committed(view.active)
                        /\ view'.shown[k].id < view.before => view'.shown[k].id \in view'.behind
      OBVIOUS
    <3>1. CASE view'.shown[k] = e
      BY <1>a, <1>b, <1>c, <3>1
    <3>2. CASE k \in DOMAIN s /\ view'.shown[k] = s[k]
      <4>1. PICK n \in DOMAIN view.shown : s[k] = view.shown[n]
        BY <1>e, <3>2
      <4>2. view'.shown[k].id = view.shown[n].id
        BY <3>2, <4>1
      <4>3. /\ view.shown[n].id \in Committed(view.active)
            /\ view.shown[n].id < view.before => view.shown[n].id \in view.behind
        BY <4>2 DEF ShownInv, PageInv
      <4>4. view.behind \subseteq view'.behind
        BY <1>a
      <4>5. QED
        BY <4>2, <4>3, <4>4
    <3>3. QED
      BY <1>f, <3>1, <3>2
  <2>3. \A j \in Committed(view.active) : (j \in Committed(view.active))'
    BY <1>a, GrowsActive
  <2>4. /\ view.active = NoThread => ~view.loaded
        /\ view.clean => (view.more /\ view.active # NoThread => view.loaded /\ view.before # 0)
        /\ view.loaded /\ view.clean => view.due \subseteq Committed(view.active)
    BY DEF ShownInv, PageInv, Settled
  <2>5. QED
    BY <1>a, <1>b, <2>1, <2>2, <2>3, <2>4 DEF PageInv, Settled, Unsent
<1>3. ShownOnce'
  <2> SUFFICES ASSUME view.clean, NEW j \in DOMAIN view'.shown, NEW k \in DOMAIN view'.shown,
                      j # k, view'.shown[j].id = view'.shown[k].id
               PROVE  view'.shown[j].id \in {Bubble} \cup view.behind
    BY <1>a DEF ShownOnce
  <2>1. CASE j \in DOMAIN s /\ k \in DOMAIN s
    BY <1>e, <1>f, <2>1 DEF ShownInv, ShownOnce
  <2>2. ASSUME NEW l \in DOMAIN s, s[l].id = i, ~Shows(view, i) PROVE FALSE
    BY <1>e, <2>2 DEF Shows
  <2>3. CASE j \in DOMAIN s /\ k \notin DOMAIN s
    BY <1>c, <1>f, <2>2, <2>3
  <2>4. CASE j \notin DOMAIN s /\ k \in DOMAIN s
    BY <1>c, <1>f, <2>2, <2>4
  <2>5. QED
    BY <1>f, <2>1, <2>3, <2>4
<1>4. PageIsComplete'
  <2>1. view.loaded /\ view.clean => \A k \in DOMAIN view'.shown : view'.shown[k].thread = view.active
    BY <1>c, <1>e, <1>f DEF ShownInv, PageIsComplete, Settled
  <2>2. view.loaded /\ view.clean =>
           /\ \A j \in view.due : (view.more => j >= view.before) => Shows(view', j)
           /\ \A j \in view.heard \cup {i} : Shows(view', j)
    BY <1>g, <1>h, <1>i DEF ShownInv, PageIsComplete, Settled
  <2>3. QED
    BY <1>a, <2>1, <2>2 DEF PageIsComplete, Settled, Shows
<1>5. QED
  BY <1>1, <1>2, <1>3, <1>4 DEF ShownInv

LEMMA NewThreadStep ==
    ASSUME BaseInv, NEW s \in Slot, NEW t \in Thread, NewThread(s, t)
    PROVE  ShownInv'
<1>1. \A r \in Slot : loads'[r] = IF r = s THEN Asked("open", t, 0, FALSE) ELSE Left(loads)[r]
  BY LeftTypes DEF NewThread
<1>2. loads'[s].kind = "open"
  BY <1>1 DEF Asked
<1>3. \A r \in Slot : r # s /\ loads'[r] # NoLoad => loads'[r].stale
  BY <1>1, LeftTypes
<1>4. OlderInv'
  BY <1>2, <1>3 DEF OlderInv, Fresh, Loading, Free
<1>5. DOMAIN view'.shown = {}
  BY DEF NewThread
<1>6. t # NoThread
  BY Fields
<1>7. PageInv'
  BY <1>5, <1>6 DEF PageInv, Settled, Unsent, NewThread
<1>8. ShownOnce' /\ PageIsComplete'
  BY <1>5 DEF ShownOnce, PageIsComplete, Settled, NewThread
<1>9. QED
  BY <1>4, <1>7, <1>8 DEF ShownInv

LEMMA BackStep ==
    ASSUME BaseInv, BackToInbox
    PROVE  ShownInv'
<1>1. view'.active = NoThread /\ view'.shown = <<>> /\ ~view'.loaded
  BY Fields DEF BackToInbox, View
<1>2. OlderInv'
  BY LeftTypes DEF OlderInv, Fresh, Loading, Free, BackToInbox
<1>3. DOMAIN view'.shown = {}
  BY <1>1
<1>4. PageInv'
  BY <1>1, <1>3 DEF PageInv, Settled, Unsent
<1>5. ShownOnce' /\ PageIsComplete'
  BY <1>1, <1>3 DEF ShownOnce, PageIsComplete, Settled
<1>6. QED
  BY <1>2, <1>4, <1>5 DEF ShownInv

\* Where only the requests change, or that an older page is awaited.
LEMMA PageStays ==
    ASSUME BaseInv, ShownInv, log' = log, view'.shown = view.shown,
           view'.active = view.active, view'.before = view.before, view'.more = view.more,
           view'.loaded = view.loaded, view'.clean = view.clean, view'.due = view.due,
           view'.heard = view.heard, view'.behind = view.behind
    PROVE  PageInv' /\ ShownOnce' /\ PageIsComplete'
<1>1. (Committed(view.active))' = Committed(view.active)
  BY DEF Committed, Logged
<1>2. PageInv'
  BY <1>1 DEF ShownInv, PageInv, Settled, Unsent
<1>3. ShownOnce' /\ PageIsComplete'
  BY DEF ShownInv, ShownOnce, PageIsComplete, Settled, Shows
<1>4. QED
  BY <1>2, <1>3

LEMMA LoadOlderStep ==
    ASSUME BaseInv, LoadsInv, ShownInv, NEW s \in Slot, LoadOlder(s)
    PROVE  ShownInv'
<1>a. PICK v \in View : v = view /\ view' = [v EXCEPT !.older = TRUE]
  BY Fields DEF LoadOlder
<1>b. /\ view'.shown = view.shown /\ view'.active = view.active /\ view'.before = view.before
      /\ view'.more = view.more /\ view'.loaded = view.loaded /\ view'.clean = view.clean
      /\ view'.due = view.due /\ view'.heard = view.heard /\ view'.behind = view.behind
  BY <1>a DEF View
<1>c. loads \in [Slot -> Load \cup {NoLoad}]
  BY DEF BaseInv, ChatTypeOK
<1>1. PageInv' /\ ShownOnce' /\ PageIsComplete'
  BY <1>b, PageStays DEF LoadOlder
<1>2. \A r \in Slot : loads'[r] = IF r = s THEN Asked("older", view.active, view.before, ~view.clean)
                                  ELSE loads[r]
  BY <1>c DEF LoadOlder
<1>3. /\ loads'[s].thread = view.active /\ loads'[s].before = view.before /\ loads'[s].at = "asked"
  BY <1>2 DEF Asked
<1>4. \A r \in Slot : r # s => ~(Loading(r, "older"))'
  BY <1>2 DEF LoadOlder, LoadsInv, Older, Loading, Free
<1>5. view.clean => view.loaded /\ view.more /\ view.before # 0
  BY DEF ShownInv, PageInv, LoadOlder
<1>6. OlderInv'
  BY <1>b, <1>3, <1>4, <1>5 DEF OlderInv, Fresh, Loading, Free
<1>7. QED
  BY <1>1, <1>6 DEF ShownInv

LEMMA ServeStep ==
    ASSUME BaseInv, ShownInv, NEW s \in Slot, Serve(s)
    PROVE  ShownInv'
<1>a. log' = log /\ view' = view
  BY DEF Serve
<1>1. PageInv' /\ ShownOnce' /\ PageIsComplete'
  BY <1>a, PageStays
<1>b. loads \in [Slot -> Load \cup {NoLoad}]
  BY DEF BaseInv, ChatTypeOK
<1>2. PICK l \in Load :
         /\ loads' = [loads EXCEPT ![s] = l]
         /\ l.at = "served" /\ l.kind = loads[s].kind /\ l.thread = loads[s].thread
         /\ l.before = loads[s].before /\ l.stale = loads[s].stale
         /\ l.due = Committed(l.thread)
  BY Served
<1>3. \A r \in Slot : loads'[r] = IF r = s THEN l ELSE loads[r]
  BY <1>b, <1>2
<1>4. ~Free(s)
  BY Fields DEF Serve
<1>5. ASSUME view.clean, NEW r \in Slot, (Fresh(r, "older"))'
      PROVE  /\ view.loaded /\ view.more
             /\ loads'[r].thread = view.active
             /\ loads'[r].before = view.before /\ view.before # 0
             /\ loads'[r].at = "served" => view.due \subseteq loads'[r].due
  <2>1. CASE r = s
    <3>1. Fresh(s, "older") /\ loads'[s] = l
      BY <1>2, <1>3, <1>4, <1>5, <2>1 DEF Fresh, Loading, Free
    <3>2. /\ view.loaded /\ view.more /\ l.thread = view.active
          /\ l.before = view.before /\ view.before # 0
      BY <1>2, <1>5, <3>1 DEF ShownInv, OlderInv
    <3>3. view.due \subseteq Committed(view.active)
      BY <1>5, <3>2 DEF ShownInv, PageInv, Settled
    <3>4. QED
      BY <1>2, <2>1, <3>1, <3>2, <3>3
  <2>2. CASE r # s
    <3>1. Fresh(r, "older") /\ loads'[r] = loads[r]
      BY <1>3, <1>5, <2>2 DEF Fresh, Loading, Free
    <3>2. QED
      BY <1>5, <3>1 DEF ShownInv, OlderInv
  <2>3. QED
    BY <2>1, <2>2
<1>6. OlderInv'
  BY <1>a, <1>5 DEF OlderInv
<1>7. QED
  BY <1>1, <1>6 DEF ShownInv

LEMMA LoadFailsStep ==
    ASSUME BaseInv, ShownInv, NEW s \in Slot, LoadFails(s)
    PROVE  ShownInv'
<1>a. PICK v \in View : v = view /\ \E older : view' = [v EXCEPT !.older = older]
  BY Fields DEF LoadFails
<1>b. /\ view'.shown = view.shown /\ view'.active = view.active /\ view'.before = view.before
      /\ view'.more = view.more /\ view'.loaded = view.loaded /\ view'.clean = view.clean
      /\ view'.due = view.due /\ view'.heard = view.heard /\ view'.behind = view.behind
  BY <1>a DEF View
<1>c. loads \in [Slot -> Load \cup {NoLoad}]
  BY DEF BaseInv, ChatTypeOK
<1>1. PageInv' /\ ShownOnce' /\ PageIsComplete'
  BY <1>b, PageStays DEF LoadFails
<1>2. \A r \in Slot : loads'[r] = IF r = s THEN NoLoad ELSE loads[r]
  BY <1>c DEF LoadFails
<1>3. \A r \in Slot : (Fresh(r, "older"))' => Fresh(r, "older") /\ loads'[r] = loads[r]
  BY <1>2 DEF Fresh, Loading, Free
<1>4. OlderInv'
  BY <1>b, <1>3 DEF ShownInv, OlderInv
<1>5. QED
  BY <1>1, <1>4 DEF ShownInv

LEMMA ShowPageStep ==
    ASSUME BaseInv, LoadsInv, ShownInv, NEW s \in Slot, ShowPage(s)
    PROVE  ShownInv'
<1>1. PICK l \in Load : l = loads[s]
  BY Fields DEF ShowPage
<1>a. ~Free(s) /\ l.at = "served" /\ l.kind = "open" /\ Cut(l)
  BY <1>1, Fields DEF ShowPage, LoadsInv, Pages
<1>b. /\ view'.active = view.active /\ view'.shown = Rows(l) /\ view'.before = l.next
      /\ view'.more = l.more /\ view'.loaded = ~l.stale /\ view'.clean = ~l.stale
      /\ view'.due = l.due /\ view'.heard = {} /\ view'.behind = {}
  BY <1>1, Fields DEF ShowPage, View
<1>c. DOMAIN Rows(l) = DOMAIN l.ids
      /\ \A k \in DOMAIN l.ids : Rows(l)[k].id = l.ids[k] /\ Rows(l)[k].thread = l.thread
                                 /\ l.ids[k] \in ChatId
  BY RowsShown
<1>d. Unsent(view') = {}
  BY <1>b, <1>c, Bounds DEF Unsent
<1>e. loads \in [Slot -> Load \cup {NoLoad}] /\ l.next \in 0 .. LastId /\ l.thread \in Thread
  BY DEF BaseInv, ChatTypeOK, Load
<1>f. \A r \in Slot : loads'[r] = IF r = s THEN NoLoad ELSE loads[r]
  BY <1>e DEF ShowPage
<1>2. CASE l.stale
  <2>1. ~view'.loaded /\ ~view'.clean
    BY <1>b, <1>2
  <2>2. QED
    BY <1>d, <2>1 DEF ShownInv, OlderInv, PageInv, ShownOnce, PageIsComplete, Settled
<1>3. CASE ~l.stale
  <2>1. Fresh(s, "open")
    BY <1>1, <1>3, <1>a DEF Fresh, Loading
  <2>2. l.thread = view.active /\ l.before = 0 /\ view.active # NoThread
    BY <1>1, <1>e, <2>1, Fields DEF LoadsInv, Newest
  <2>3. \A r \in Slot : ~(Fresh(r, "older"))'
    BY <1>f, <2>1 DEF LoadsInv, Newest, Fresh, Loading, Free
  <2>4. OlderInv'
    BY <2>3 DEF OlderInv
  <2>5. (Committed(view.active))' = Committed(l.thread)
    BY <1>b, <2>2 DEF ShowPage, Committed, Logged
  <2>6. PageInv'
    <3>1. l.more => l.next # 0
      BY <1>a DEF Cut
    <3>2. \A k \in DOMAIN l.ids : l.ids[k] \in Committed(l.thread) /\ ~(l.ids[k] < l.next)
      BY <1>a, <1>c, <1>e, Bounds DEF Cut, ChatId
    <3>3. l.due \subseteq Committed(l.thread)
      BY <1>a DEF Cut
    <3>4. QED
      BY <1>3, <1>b, <1>c, <1>d, <2>2, <2>5, <3>1, <3>2, <3>3 DEF PageInv, Settled
  <2>7. ShownOnce'
    BY <1>a, <1>b, <1>c DEF Cut, ShownOnce
  <2>8. PageIsComplete'
    <3>1. \A i \in l.due : (l.more => i >= l.next) => \E k \in DOMAIN l.ids : l.ids[k] = i
      BY <1>a, <2>2 DEF Cut
    <3>2. QED
      BY <1>b, <1>c, <2>2, <3>1 DEF PageIsComplete, Shows
  <2>9. QED
    BY <2>4, <2>6, <2>7, <2>8 DEF ShownInv
<1>4. QED
  BY <1>2, <1>3

\* An older page goes before what is shown.
LEMMA OnTop ==
    ASSUME NEW l \in Load, NEW s \in Seq(Shown)
    PROVE  /\ \A k \in DOMAIN (Rows(l) \o s) :
                 \/ /\ k \in DOMAIN l.ids /\ (Rows(l) \o s)[k].id = l.ids[k]
                    /\ (Rows(l) \o s)[k].thread = l.thread
                 \/ \E n \in DOMAIN s : k = n + Len(l.ids) /\ (Rows(l) \o s)[k] = s[n]
           /\ \A k \in DOMAIN l.ids : k \in DOMAIN (Rows(l) \o s)
                 /\ (Rows(l) \o s)[k].id = l.ids[k] /\ l.ids[k] \in ChatId
           /\ \A n \in DOMAIN s : \E k \in DOMAIN (Rows(l) \o s) : (Rows(l) \o s)[k] = s[n]
           /\ Len(l.ids) \in Nat
<1>1. PICK r \in Seq(Shown) : r = Rows(l)
  BY RowsShown
<1>2. DOMAIN r = DOMAIN l.ids /\ \A k \in DOMAIN l.ids : r[k].id = l.ids[k] /\ r[k].thread = l.thread
  BY <1>1, RowsShown
<1>3. l.ids \in Seq(ChatId)
  BY DEF Load
<1>4. DOMAIN l.ids = 1 .. Len(l.ids) /\ Len(l.ids) \in Nat /\ \A k \in DOMAIN l.ids : l.ids[k] \in ChatId
  BY <1>3
<1>5. Len(r) = Len(l.ids)
  BY <1>2, <1>4
<1>6. /\ Len(s) \in Nat /\ DOMAIN s = 1 .. Len(s) /\ DOMAIN (r \o s) = 1 .. Len(r) + Len(s)
      /\ \A k \in 1 .. Len(r) + Len(s) :
            (r \o s)[k] = IF k <= Len(r) THEN r[k] ELSE s[k - Len(r)]
  BY ConcatProperties
<1>7. ASSUME NEW k \in DOMAIN (r \o s)
      PROVE  \/ /\ k \in DOMAIN l.ids /\ (r \o s)[k].id = l.ids[k]
                /\ (r \o s)[k].thread = l.thread
             \/ \E n \in DOMAIN s : k = n + Len(l.ids) /\ (r \o s)[k] = s[n]
  <2>1. CASE k <= Len(r)
    <3>1. k \in DOMAIN l.ids /\ (r \o s)[k] = r[k]
      BY <1>4, <1>5, <1>6, <2>1
    <3>2. QED
      BY <1>2, <3>1
  <2>2. CASE ~(k <= Len(r))
    <3>1. k - Len(r) \in DOMAIN s /\ k = (k - Len(r)) + Len(l.ids) /\ (r \o s)[k] = s[k - Len(r)]
      BY <1>4, <1>5, <1>6, <2>2
    <3>2. QED
      BY <3>1
  <2>3. QED
    BY <2>1, <2>2
<1>8. \A k \in DOMAIN l.ids : k \in DOMAIN (r \o s) /\ (r \o s)[k].id = l.ids[k]
  <2> SUFFICES ASSUME NEW k \in DOMAIN l.ids
               PROVE  k \in DOMAIN (r \o s) /\ (r \o s)[k].id = l.ids[k]
    OBVIOUS
  <2>1. k \in 1 .. Len(r) + Len(s) /\ k <= Len(r)
    BY <1>4, <1>5, <1>6
  <2>2. (r \o s)[k] = r[k]
    BY <1>6, <2>1
  <2>3. QED
    BY <1>2, <1>6, <2>1, <2>2
<1>9. \A n \in DOMAIN s : \E k \in DOMAIN (r \o s) : (r \o s)[k] = s[n]
  <2> SUFFICES ASSUME NEW n \in DOMAIN s PROVE \E k \in DOMAIN (r \o s) : (r \o s)[k] = s[n]
    OBVIOUS
  <2>1. n + Len(r) \in DOMAIN (r \o s) /\ ~(n + Len(r) <= Len(r)) /\ (n + Len(r)) - Len(r) = n
    BY <1>4, <1>5, <1>6
  <2>2. (r \o s)[n + Len(r)] = s[n]
    BY <1>6, <2>1
  <2>3. QED
    BY <2>1, <2>2
<1>10. QED
  BY <1>1, <1>4, <1>7, <1>8, <1>9

LEMMA ShowOlderStep ==
    ASSUME BaseInv, LoadsInv, ShownInv, NEW s \in Slot, ShowOlder(s)
    PROVE  ShownInv'
<1>1. PICK l \in Load : l = loads[s]
  BY Fields DEF ShowOlder
<1>a. ~Free(s) /\ l.at = "served" /\ l.kind = "older" /\ Cut(l)
  BY <1>1, Fields DEF ShowOlder, LoadsInv, Pages
<1>b. /\ view'.active = view.active /\ view'.shown = Rows(l) \o view.shown /\ view'.before = l.next
      /\ view'.more = l.more /\ view'.loaded = view.loaded /\ view'.clean = (view.clean /\ ~l.stale)
      /\ view'.due = view.due /\ view'.heard = view.heard /\ view'.behind = view.behind
  BY <1>1, Fields DEF ShowOlder, View
<1>c. /\ \A k \in DOMAIN view'.shown :
            \/ /\ k \in DOMAIN l.ids /\ view'.shown[k].id = l.ids[k]
               /\ view'.shown[k].thread = l.thread
            \/ \E n \in DOMAIN view.shown : k = n + Len(l.ids) /\ view'.shown[k] = view.shown[n]
      /\ \A k \in DOMAIN l.ids : k \in DOMAIN view'.shown /\ view'.shown[k].id = l.ids[k]
                                 /\ l.ids[k] \in ChatId
      /\ \A n \in DOMAIN view.shown : \E k \in DOMAIN view'.shown : view'.shown[k] = view.shown[n]
      /\ Len(l.ids) \in Nat
  <2>1. PICK shown \in Seq(Shown) : shown = view.shown
    BY Fields
  <2> DEFINE r == Rows(l) \o shown
  <2>2. /\ \A k \in DOMAIN r :
              \/ k \in DOMAIN l.ids /\ r[k].id = l.ids[k] /\ r[k].thread = l.thread
              \/ \E n \in DOMAIN shown : k = n + Len(l.ids) /\ r[k] = shown[n]
        /\ \A k \in DOMAIN l.ids : k \in DOMAIN r /\ r[k].id = l.ids[k] /\ l.ids[k] \in ChatId
        /\ \A n \in DOMAIN shown : \E k \in DOMAIN r : r[k] = shown[n]
        /\ Len(l.ids) \in Nat
    BY OnTop
  <2>3. view'.shown = r
    BY <1>b, <2>1
  <2> HIDE DEF r
  <2>4. QED
    BY <2>1, <2>2, <2>3
<1>d. \A k \in Unsent(view') : view'.shown[k].thread = view.active
  <2> SUFFICES ASSUME NEW k \in DOMAIN view'.shown, view'.shown[k].id = Bubble
               PROVE  view'.shown[k].thread = view.active
    BY DEF Unsent
  <2>1. PICK n \in DOMAIN view.shown : view'.shown[k] = view.shown[n]
    BY <1>c, Bounds
  <2>2. QED
    BY <2>1 DEF ShownInv, PageInv, Unsent
<1>e. view.active = NoThread => ~view'.loaded
  BY <1>b DEF ShownInv, PageInv
<1>f. loads \in [Slot -> Load \cup {NoLoad}]
  BY DEF BaseInv, ChatTypeOK
<1>g. \A r \in Slot : loads'[r] = IF r = s THEN NoLoad ELSE loads[r]
  BY <1>f DEF ShowOlder
<1>h. l.next \in 0 .. LastId /\ view.before \in 0 .. LastId /\ l.thread \in Thread
  BY Fields DEF Load, View
<1>2. CASE ~view'.clean
  BY <1>b, <1>d, <1>e, <1>2 DEF ShownInv, OlderInv, PageInv, ShownOnce, PageIsComplete, Settled
<1>3. CASE view'.clean
  <2>1. Fresh(s, "older") /\ view.clean
    BY <1>1, <1>3, <1>a, <1>b DEF Fresh, Loading
  <2>2. /\ view.loaded /\ view.more /\ l.thread = view.active /\ view.active # NoThread
        /\ l.before = view.before /\ view.before # 0 /\ view.due \subseteq l.due
    BY <1>1, <1>a, <1>h, <2>1, Fields DEF ShownInv, OlderInv
  <2>3. \A r \in Slot : ~(Fresh(r, "older"))'
    BY <1>g, <2>1 DEF LoadsInv, Older, Fresh, Loading, Free
  <2>4. OlderInv'
    BY <2>3 DEF OlderInv
  <2>5. (Committed(view.active))' = Committed(view.active)
    BY <1>b DEF ShowOlder, Committed, Logged
  <2>6. \A k \in DOMAIN l.ids : /\ l.ids[k] \in Committed(view.active) /\ l.ids[k] \in ChatId
                                /\ ~(l.ids[k] < l.next) /\ l.ids[k] < view.before
    BY <1>a, <1>c, <1>h, <2>2, Bounds DEF Cut, ChatId
  <2>7. \A n \in DOMAIN view.shown : view.shown[n].id # Bubble =>
           /\ view.shown[n].id \in Committed(view.active) /\ view.shown[n].id \in ChatId
           /\ view.shown[n].id < view.before => view.shown[n].id \in view.behind
    <3>1. \A n \in DOMAIN view.shown : view.shown[n] \in Shown
      BY Fields
    <3>2. \A n \in DOMAIN view.shown : view.shown[n].id # Bubble => view.shown[n].id \in ChatId
      BY <3>1 DEF Shown
    <3>3. QED
      BY <2>1, <3>2 DEF ShownInv, PageInv
  <2>8. l.next = 0 \/ l.next < view.before
    BY <1>a, <2>2 DEF Cut
  <2>9. \A k \in DOMAIN view'.shown : view'.shown[k].id # Bubble =>
           /\ view'.shown[k].id \in Committed(view.active)
           /\ view'.shown[k].id < l.next => view'.shown[k].id \in view.behind
    <3> SUFFICES ASSUME NEW k \in DOMAIN view'.shown, view'.shown[k].id # Bubble
                 PROVE  /\ view'.shown[k].id \in Committed(view.active)
                        /\ view'.shown[k].id < l.next => view'.shown[k].id \in view.behind
      OBVIOUS
    <3>1. CASE k \in DOMAIN l.ids /\ view'.shown[k].id = l.ids[k]
      BY <2>6, <3>1
    <3>2. CASE \E n \in DOMAIN view.shown : view'.shown[k] = view.shown[n]
      <4>1. PICK n \in DOMAIN view.shown : view'.shown[k] = view.shown[n]
        BY <3>2
      <4>2. PICK i \in ChatId : i = view.shown[n].id
        BY <2>7, <4>1
      <4>3. i \in Nat /\ i >= 1 /\ l.next \in Nat /\ view.before \in Nat
        BY <1>h, Bounds DEF ChatId
      <4>4. i < l.next => i < view.before
        BY <2>8, <4>3
      <4>5. QED
        BY <2>7, <4>1, <4>2, <4>4
    <3>3. QED
      BY <1>c, <3>1, <3>2
  <2>10. PageInv'
    <3>1. l.more => l.next # 0
      BY <1>a DEF Cut
    <3>2. view.due \subseteq Committed(view.active)
      BY <2>1, <2>2 DEF ShownInv, PageInv, Settled
    <3>3. QED
      BY <1>b, <1>d, <2>2, <2>5, <2>9, <3>1, <3>2 DEF PageInv, Settled
  <2>11. ShownOnce'
    <3> SUFFICES ASSUME NEW j \in DOMAIN view'.shown, NEW k \in DOMAIN view'.shown, j # k,
                        view'.shown[j].id = view'.shown[k].id
                 PROVE  view'.shown[j].id \in {Bubble} \cup view.behind
      BY <1>b DEF ShownOnce
    <3>1. ASSUME NEW m \in DOMAIN l.ids, NEW n \in DOMAIN view.shown, l.ids[m] = view.shown[n].id
          PROVE  l.ids[m] \in view.behind
      BY <1>c, <2>6, <2>7, <3>1, Bounds
    <3>2. CASE j \in DOMAIN l.ids /\ k \in DOMAIN l.ids
      BY <1>a, <1>c, <3>2 DEF Cut
    <3>3. ASSUME NEW m \in DOMAIN view'.shown, m \notin DOMAIN l.ids
          PROVE  \E n \in DOMAIN view.shown : m = n + Len(l.ids) /\ view'.shown[m] = view.shown[n]
      BY <1>c, <3>3
    <3>4. CASE j \in DOMAIN l.ids /\ k \notin DOMAIN l.ids
      BY <1>c, <3>1, <3>3, <3>4
    <3>5. CASE j \notin DOMAIN l.ids /\ k \in DOMAIN l.ids
      BY <1>c, <3>1, <3>3, <3>5
    <3>6. CASE j \notin DOMAIN l.ids /\ k \notin DOMAIN l.ids
      <4>1. PICK m \in DOMAIN view.shown : j = m + Len(l.ids) /\ view'.shown[j] = view.shown[m]
        BY <3>3, <3>6
      <4>2. PICK n \in DOMAIN view.shown : k = n + Len(l.ids) /\ view'.shown[k] = view.shown[n]
        BY <3>3, <3>6
      <4>3. m # n /\ view.shown[m].id = view.shown[n].id
        BY <4>1, <4>2
      <4>4. QED
        BY <2>1, <4>1, <4>3 DEF ShownInv, ShownOnce
    <3>7. QED
      BY <3>2, <3>4, <3>5, <3>6
  <2>12. PageIsComplete'
    <3>1. \A i : Shows(view, i) => Shows(view', i)
      BY <1>c DEF Shows
    <3>2. /\ \A i \in view.due : i >= view.before => Shows(view, i)
          /\ \A i \in view.heard : Shows(view, i)
          /\ \A n \in DOMAIN view.shown : view.shown[n].thread = view.active
      BY <2>1, <2>2 DEF ShownInv, PageIsComplete, Settled
    <3>3. ASSUME NEW i \in view.due, l.more => i >= l.next PROVE Shows(view', i)
      <4>1. i \in Nat /\ view.before \in Nat
        BY <1>h, Fields, Bounds DEF View, ChatId
      <4>2. CASE i >= view.before
        BY <3>1, <3>2, <4>2
      <4>3. CASE i < view.before
        <5>1. \E k \in DOMAIN l.ids : l.ids[k] = i
          BY <1>a, <2>2, <3>3, <4>3 DEF Cut
        <5>2. QED
          BY <1>c, <5>1 DEF Shows
      <4>4. QED
        BY <4>1, <4>2, <4>3
    <3>4. \A k \in DOMAIN view'.shown : view'.shown[k].thread = view.active
      BY <1>c, <2>2, <3>2
    <3>5. QED
      BY <1>b, <3>1, <3>2, <3>3, <3>4 DEF PageIsComplete, Shows
  <2>13. QED
    BY <2>4, <2>10, <2>11, <2>12 DEF ShownInv
<1>4. QED
  BY <1>2, <1>3

LEMMA ShownStep ==
    ASSUME BaseInv, LoadsInv, ShownInv, [ChatNext]_chatVars
    PROVE  ShownInv'
  BY Steps, NewThreadStep, BackStep, LoadOlderStep, ServeStep, ShowPageStep, ShowOlderStep,
     LoadFailsStep, FewerStep, OneMoreStep, ComesStep
-----------------------------------------------------------------------------
(* Bubbles, and what can still answer for them.                            *)

Unsents == Cardinality(Unsent(view))
Answers == {f \in Frame : f.type = "error" \/ (f.type = "ack" /\ ThreadOf(f.id) = view.active)}
Sent == Cardinality(Hits(line.sends, {view.active}))
Answering == Cardinality(Hits(line.frames, Answers))
Posted == IF post.at \in {"asked", "saved"} /\ post.kind = "text" /\ post.thread = view.active
          THEN 1 ELSE 0

Counted ==
    /\ Unsents \in Nat /\ Sent \in Nat /\ Answering \in Nat /\ Posted \in 0 .. 1
    /\ Pending = Sent + Answering + Posted

LEMMA Counts == BaseInv => Counted
<1> SUFFICES ASSUME BaseInv PROVE Counted
  OBVIOUS
<1>1. Unsents \in Nat
  BY Fields, UnsentHits DEF Unsents
<1>2. Sent \in Nat
  BY Fields, HitsFinite DEF Sent
<1>3. Answering \in Nat
  BY Fields, HitsFinite DEF Answering
<1>4. Posted \in 0 .. 1
  BY DEF Posted
<1>5. {k \in DOMAIN line.sends : line.sends[k] = view.active} = Hits(line.sends, {view.active})
  BY DEF Hits
<1>6. {k \in DOMAIN line.frames :
          LET f == line.frames[k] IN
          f.type = "error" \/ (f.type = "ack" /\ ThreadOf(f.id) = view.active)}
        = Hits(line.frames, Answers)
  <2>1. \A k \in DOMAIN line.frames : line.frames[k] \in Frame
    BY Fields
  <2>2. QED
    BY <2>1 DEF Hits, Answers
<1>7. Pending = Sent + Answering + Posted
  BY <1>5, <1>6 DEF Pending, Sent, Answering, Posted
<1>8. QED
  BY <1>1, <1>2, <1>3, <1>4, <1>7 DEF Counted

LEMMA CountsNext ==
    ASSUME BaseInv'
    PROVE  /\ Unsents' \in Nat /\ Sent' \in Nat /\ Answering' \in Nat /\ Posted' \in 0 .. 1
           /\ Pending' = Sent' + Answering' + Posted'
<1>1. Counted'
  BY Counts, PTL
<1>2. QED
  BY <1>1 DEF Counted

LEMMA Balance ==
    ASSUME BaseInv, BaseInv', NoPhantom, view.unsure => view'.unsure,
           Unsents' + Sent + Answering + Posted <= Unsents + Sent' + Answering' + Posted'
    PROVE  NoPhantom'
<1>1. /\ Unsents \in Nat /\ Sent \in Nat /\ Answering \in Nat /\ Posted \in 0 .. 1
      /\ Pending = Sent + Answering + Posted
  BY Counts DEF Counted
<1>2. NoPhantom <=> (view.unsure \/ Unsents <= Pending)
  BY DEF NoPhantom, Unsents
<1>3. NoPhantom' <=> (view'.unsure \/ Unsents' <= Pending')
  BY DEF NoPhantom, Unsents
<1>4. Unsents <= Pending => Unsents' <= Pending'
  BY <1>1, CountsNext
<1>5. QED
  BY <1>2, <1>3, <1>4

LEMMA NoBubbles ==
    ASSUME BaseInv', Unsent(view') = {}
    PROVE  NoPhantom'
<1>1. Unsents' = 0
  BY FS_EmptySet DEF Unsents
<1>2. Unsents' <= Pending'
  BY <1>1, CountsNext
<1>3. QED
  BY <1>2 DEF NoPhantom, Unsents

\* Frames keep their threads.
LEMMA AnswersStay ==
    ASSUME BaseInv, [ChatNext]_chatVars, view'.active = view.active
    PROVE  Hits(line.frames, Answers') = Hits(line.frames, Answers)
<1>1. ASSUME NEW k \in DOMAIN line.frames
      PROVE  line.frames[k] \in Answers' <=> line.frames[k] \in Answers
  <2>1. PICK f : f = line.frames[k]
    OBVIOUS
  <2>2. f.type # "error" => f.id \in TakenId
    BY <1>1, <2>1 DEF BaseInv, WireInv
  <2>3. f.type # "error" => ThreadOf(f.id)' = ThreadOf(f.id)
    BY <2>2, LogStep DEF LogKeeps
  <2>4. f \in Answers <=> f \in Frame /\ (f.type = "error" \/ (f.type = "ack" /\ ThreadOf(f.id) = view.active))
    BY DEF Answers
  <2>5. f \in Answers' <=> f \in Frame /\ (f.type = "error" \/ (f.type = "ack" /\ ThreadOf(f.id)' = view'.active))
    BY DEF Answers
  <2>6. QED
    BY <2>1, <2>3, <2>4, <2>5
<1>2. QED
  BY <1>1 DEF Hits

LEMMA LineStays ==
    ASSUME BaseInv, [ChatNext]_chatVars, view'.active = view.active,
           line'.frames = line.frames, line'.sends = line.sends
    PROVE  Sent' = Sent /\ Answering' = Answering
<1>1. Sent' = Sent
  BY DEF Sent
<1>2. Answering' = Cardinality(Hits(line.frames, Answers'))
  BY DEF Answering
<1>3. QED
  BY <1>1, <1>2, AnswersStay DEF Answering

\* An answer from the back end drops all bubbles of the open thread.
LEMMA BubblesDropped ==
    ASSUME BaseInv, PageInv, NEW i \in TakenId, ThreadOf(i) = view.active,
           view' = Ingested(view, i, TRUE)
    PROVE  Unsent(view') = {}
<1>1. PICK v \in View : v = view
  BY Fields
<1>2. PICK w : w = view'
  OBVIOUS
<1>3. w.shown = IF Shows(v, i) THEN Without(v.shown, v.active)
                ELSE Append(Without(v.shown, v.active), [id |-> i, thread |-> v.active])
  <2>1. PICK auth \in BOOLEAN : auth
    OBVIOUS
  <2>2. auth = TRUE
    BY <2>1
  <2>3. w = Ingested(v, i, auth) /\ v.active = ThreadOf(i)
    BY <1>1, <1>2, <2>2
  <2>4. /\ w \in View /\ SameFrame(v, w)
        /\ w.heard = v.heard \cup {i}
        /\ w.behind = IF i < v.before THEN v.behind \cup {i} ELSE v.behind
        /\ \E s \in Seq(Shown) :
              /\ Kept(v.shown, s)
              /\ s = IF auth THEN Without(v.shown, v.active) ELSE v.shown
              /\ w.shown = IF Shows(v, i) THEN s
                           ELSE Append(s, [id |-> i, thread |-> v.active])
    BY <2>3, IngestedPage
  <2>5. QED
    BY <2>1, <2>4
<1>a. PICK s : s = Without(v.shown, v.active)
  OBVIOUS
<1>4. v.shown \in Seq(Shown) /\ i # Bubble /\ i \in ChatId /\ v.active \in Thread
  BY <1>1, Threads, Bounds DEF View, BaseInv
<1>5. s \in Seq(Shown) /\ \A k \in DOMAIN s : s[k].id # Bubble
  <2>1. /\ s \in Seq(Shown) /\ Kept(v.shown, s)
        /\ \A k \in DOMAIN s : s[k].id # Bubble \/ s[k].thread # v.active
    BY <1>4, <1>a, WithoutKeeps
  <2>2. ASSUME NEW k \in DOMAIN s, s[k].id = Bubble PROVE FALSE
    <3>1. PICK n \in DOMAIN v.shown : s[k] = v.shown[n]
      BY <2>1 DEF Kept
    <3>2. v.shown[n].thread = v.active
      BY <1>1, <2>2, <3>1 DEF PageInv, Unsent
    <3>3. QED
      BY <2>1, <2>2, <3>1, <3>2
  <2>3. QED
    BY <2>1, <2>2
<1> DEFINE e == [id |-> i, thread |-> v.active]
<1>6. e \in Shown /\ e.id = i
  BY <1>4 DEF Shown
<1>7. w.shown \in {s, Append(s, e)}
  BY <1>3, <1>a
<1> HIDE DEF e
<1>8. \A k \in DOMAIN w.shown : w.shown[k].id # Bubble
  <2>1. CASE w.shown = s
    BY <1>5, <2>1
  <2>2. CASE w.shown = Append(s, e)
    <3>1. \A k \in DOMAIN Append(s, e) :
             Append(s, e)[k] = e \/ (k \in DOMAIN s /\ Append(s, e)[k] = s[k])
      BY <1>5, <1>6, Appended
    <3>2. QED
      BY <1>4, <1>5, <1>6, <2>2, <3>1
  <2>3. QED
    BY <1>7, <2>1, <2>2
<1>9. QED
  BY <1>2, <1>8 DEF Unsent

\* A refusal drops one, if there is one.
LEMMA BubbleDropped ==
    ASSUME BaseInv, BaseInv', view' = WithoutBubble(view)
    PROVE  /\ view'.active = view.active /\ view'.unsure = view.unsure
           /\ Unsents' + 1 <= Unsents \/ Unsent(view') = {}
<1>1. CASE Unsent(view) = {}
  BY <1>1 DEF WithoutBubble
<1>2. CASE Unsent(view) # {}
  <2>1. PICK v \in View : v = view
    BY Fields
  <2>2. PICK w : w = view'
    OBVIOUS
  <2>3. SameFrame(v, w) /\ Cardinality(Unsent(w)) <= Cardinality(Unsent(v)) - 1
    BY <1>2, <2>1, <2>2, BubbleGone
  <2>4. Unsents = Cardinality(Unsent(v)) /\ Unsents' = Cardinality(Unsent(w))
    BY <2>1, <2>2 DEF Unsents
  <2>5. Unsents \in Nat /\ Unsents' \in Nat
    BY Counts, CountsNext DEF Counted
  <2>6. QED
    BY <2>1, <2>2, <2>3, <2>4, <2>5 DEF SameFrame
<1>3. QED
  BY <1>1, <1>2

LEMMA PhantomStep ==
    ASSUME BaseInv, BaseInv', PageInv, NoPhantom, [ChatNext]_chatVars
    PROVE  NoPhantom'
<1>a. PICK u \in Nat, a \in Nat, b \in Nat, c \in 0 .. 1 :
         u = Unsents /\ a = Sent /\ b = Answering /\ c = Posted
  BY Counts DEF Counted
<1>b. PICK u1 \in Nat, a1 \in Nat, b1 \in Nat, c1 \in 0 .. 1 :
         u1 = Unsents' /\ a1 = Sent' /\ b1 = Answering' /\ c1 = Posted'
  BY CountsNext
<1>c. view'.shown = view.shown => u1 = u
  BY <1>a, <1>b DEF Unsents, Unsent
<1>d. post' = post /\ view'.active = view.active => c1 = c
  BY <1>a, <1>b DEF Posted
<1>e. post.at \notin {"asked", "saved"} => c = 0
  BY <1>a DEF Posted
<1>j. ASSUME view.unsure => view'.unsure, u1 + a + b + c <= u + a1 + b1 + c1
      PROVE  NoPhantom'
  BY <1>a, <1>b, <1>j, Balance
<1>k. view'.active = view.active /\ line'.frames = line.frames /\ line'.sends = line.sends
        => a1 = a /\ b1 = b
  BY <1>a, <1>b, LineStays
<1>f. PICK v \in View : v = view
  BY Fields
<1>g. PICK l \in Line : l = line
  BY Fields
<1>h. view'.shown = <<>> => NoPhantom'
  BY NoBubbles DEF Unsent
<1>i. log' = log /\ view'.active = view.active => Answers' = Answers
  BY LogSame DEF Answers
\* Nothing happens to bubbles or to what answers for them.
<1>1. ASSUME view'.shown = view.shown, view'.active = view.active, view'.unsure = view.unsure,
             line'.frames = line.frames, line'.sends = line.sends, post' = post
      PROVE  NoPhantom'
  BY <1>1, <1>c, <1>d, <1>j, <1>k
<1>2. CASE UNCHANGED <<view, line, post>>
  BY <1>1, <1>2
<1>3. ASSUME NEW t \in Thread, NEW s \in Slot, OpenThread(t, s) PROVE NoPhantom'
  BY <1>3, <1>f, <1>h DEF OpenThread, Opened, View
<1>4. CASE BackToInbox
  BY <1>4, <1>f, <1>h DEF BackToInbox, View
<1>5. ASSUME NEW s \in Slot, LoadOlder(s) PROVE NoPhantom'
  BY <1>1, <1>5, <1>f DEF LoadOlder, View
<1>6. ASSUME NEW s \in Slot, ShowPage(s) PROVE NoPhantom'
  <2>1. loads[s] \in Load /\ view'.shown = Rows(loads[s])
    BY <1>6, <1>f, Fields DEF ShowPage, View
  <2>2. PICK r \in Seq(Shown) : r = view'.shown /\ \A k \in DOMAIN r : r[k].id \in ChatId
    BY <2>1, RowsShown
  <2>3. Unsent(view') = {}
    BY <2>2, Bounds DEF Unsent
  <2>4. QED
    BY <2>3, NoBubbles
<1>7. ASSUME NEW s \in Slot, ShowOlder(s) PROVE NoPhantom'
  <2>1. /\ loads[s] \in Load /\ view'.shown = Rows(loads[s]) \o view.shown
        /\ view'.active = view.active /\ view'.unsure = view.unsure
        /\ line' = line /\ post' = post
    BY <1>7, <1>f, Fields DEF ShowOlder, View
  <2>2. PICK r \in Seq(Shown) : r = Rows(loads[s]) /\ \A k \in DOMAIN r : r[k].id \in ChatId
    BY <2>1, RowsShown
  <2>3. Hits(r, Bubbles) = {}
    BY <2>2, Bounds DEF Hits, Bubbles
  <2>4. Cardinality(Hits(r \o view.shown, Bubbles)) <= Cardinality(Hits(view.shown, Bubbles))
    BY <2>3, Fields, HitsConcat
  <2>5. Unsents = Cardinality(Hits(view.shown, Bubbles))
    BY Fields, UnsentHits DEF Unsents
  <2>6. Unsents' = Cardinality(Hits(view'.shown, Bubbles))
    <3>1. PICK w : w = view'
      OBVIOUS
    <3>2. w.shown \in Seq(Shown)
      BY <3>1, ViewTypes DEF View
    <3>3. Unsent(w) = Hits(w.shown, Bubbles)
      BY <3>2, UnsentHits
    <3>4. QED
      BY <3>1, <3>3 DEF Unsents
  <2>7. u1 <= u
    BY <2>1, <2>2, <2>4, <2>5, <2>6, <1>a, <1>b
  <2>8. a1 = a /\ b1 = b /\ c1 = c
    BY <2>1, <1>d, <1>k
  <2>9. u1 + a + b + c <= u + a1 + b1 + c1
    BY <2>7, <2>8
  <2>10. QED
    BY <2>1, <2>9, <1>j
<1>8. ASSUME NEW s \in Slot, LoadFails(s) PROVE NoPhantom'
  <2>1. /\ view'.shown = view.shown /\ view'.active = view.active /\ view'.unsure = view.unsure
        /\ line' = line
    BY <1>8, <1>f DEF LoadFails, View
  <2>2. CASE post' = post
    BY <1>1, <2>1, <2>2
  <2>3. CASE post = [at |-> "opening", slot |-> s]
    <3>1. c = 0
      BY <2>3, <1>e
    <3>2. u1 + a + b + c <= u + a1 + b1 + c1
      BY <2>1, <3>1, <1>c, <1>k
    <3>3. QED
      BY <2>1, <3>2, <1>j
  <2>4. QED
    BY <1>8, <2>2, <2>3 DEF LoadFails, Released
<1>9. CASE LineOpens
  BY <1>1, <1>9, <1>g DEF LineOpens, Line
<1>10. CASE Redial
  BY <1>1, <1>10, <1>g DEF Redial, Dialed, Line
<1>11. CASE LineDrops
  <2>1. view'.shown = view.shown /\ view'.unsure = (view.unsure \/ Unsent(view) # {})
    BY <1>11, <1>f DEF LineDrops, View
  <2>2. CASE Unsent(view) = {}
    BY <2>1, <2>2, NoBubbles DEF Unsent
  <2>3. CASE Unsent(view) # {}
    BY <2>1, <2>3 DEF NoPhantom
  <2>4. QED
    BY <2>2, <2>3
<1>12. ASSUME NEW i \in ChatId, FrameComes(i) PROVE NoPhantom'
  <2>1. /\ view' = view /\ log' = log /\ post' = post
        /\ line'.frames = Append(l.frames, [type |-> "message", id |-> i])
        /\ line'.sends = line.sends
    BY <1>12, <1>g DEF FrameComes, Line
  <2>2. [type |-> "message", id |-> i] \in Frame /\ [type |-> "message", id |-> i] \notin Answers
    BY DEF Frame, Answers
  <2>3. l.frames \in Seq(Frame)
    BY DEF Line
  <2>4. Cardinality(Hits(Append(l.frames, [type |-> "message", id |-> i]), Answers))
          = Cardinality(Hits(l.frames, Answers))
    BY <2>2, <2>3, HitsAppend, HitsFinite
  <2>5. b1 = b
    BY <2>1, <2>4, <1>a, <1>b, <1>g, <1>i DEF Answering
  <2>6. a1 = a
    BY <2>1, <1>a, <1>b DEF Sent
  <2>7. u1 + a + b + c <= u + a1 + b1 + c1
    BY <2>1, <2>5, <2>6, <1>c, <1>d
  <2>8. QED
    BY <2>1, <2>7, <1>j
<1>13. CASE FrameIsRead
  <2> DEFINE f == Head(line.frames)
  <2>1. /\ l.frames # <<>> /\ line'.frames = Tail(l.frames) /\ line'.sends = line.sends
        /\ log' = log /\ post' = post
        /\ view' = IF f.type = "error" THEN WithoutBubble(view)
                   ELSE Ingested(view, f.id, f.type = "ack")
    BY <1>13, <1>g DEF FrameIsRead, Line
  <2>2. l.frames \in Seq(Frame) /\ f = Head(l.frames)
    BY <1>g DEF Line
  <2> HIDE DEF f
  <2>3. ASSUME view'.active = view.active
        PROVE  a1 = a /\ b <= b1 + 1 /\ (f \notin Answers => b <= b1)
    <3>1. Answers' = Answers
      BY <2>1, <2>3, <1>i
    <3>2. Cardinality(Hits(l.frames, Answers))
            <= Cardinality(Hits(Tail(l.frames), Answers)) + (IF f \in Answers THEN 1 ELSE 0)
      BY <2>1, <2>2, HitsTail
    <3>3. a1 = a
      BY <2>1, <2>3, <1>a, <1>b DEF Sent
    <3>4. Cardinality(Hits(l.frames, Answers)) = b /\ Cardinality(Hits(Tail(l.frames), Answers)) = b1
      BY <2>1, <3>1, <1>a, <1>b, <1>g DEF Answering
    <3>5. b <= b1 + (IF f \in Answers THEN 1 ELSE 0)
      BY <3>2, <3>4
    <3>6. QED
      BY <3>3, <3>5
  <2>4. CASE f.type = "error"
    <3>1. /\ view'.active = view.active /\ view'.unsure = view.unsure
          /\ u1 + 1 <= u \/ Unsent(view') = {}
      BY <2>1, <2>4, <1>a, <1>b, BubbleDropped
    <3>2. CASE u1 + 1 <= u
      <4>1. a1 = a /\ b <= b1 + 1
        BY <2>3, <3>1
      <4>2. c1 = c
        BY <2>1, <3>1, <1>d
      <4>3. u1 + a + b + c <= u + a1 + b1 + c1
        BY <3>2, <4>1, <4>2
      <4>4. QED
        BY <3>1, <4>3, <1>j
    <3>3. QED
      BY <3>1, <3>2, NoBubbles
  <2>5. CASE f.type # "error"
    <3>1. f.type \in {"message", "ack"} /\ f.id \in TakenId
      BY <2>1, <2>5, <1>g, AnswerFields DEF f
    <3>2. CASE ThreadOf(f.id) # view.active
      <4>1. view' = view
        BY <2>1, <2>5, <3>2 DEF Ingested
      <4>2. f \notin Answers
        BY <2>5, <3>2 DEF Answers
      <4>3. a1 = a /\ b <= b1
        BY <2>3, <4>1, <4>2
      <4>4. u1 + a + b + c <= u + a1 + b1 + c1
        BY <2>1, <4>1, <4>3, <1>c, <1>d
      <4>5. QED
        BY <4>1, <4>4, <1>j
    <3>3. CASE ThreadOf(f.id) = view.active /\ f.type = "ack"
      BY <2>1, <2>5, <3>1, <3>3, BubblesDropped, NoBubbles
    <3>4. CASE ThreadOf(f.id) = view.active /\ f.type = "message"
      <4>1. PICK i \in TakenId : i = f.id
        BY <3>1
      <4>2. PICK e : e = [id |-> i, thread |-> view.active]
        OBVIOUS
      <4>3. e \in Shown /\ e \notin Bubbles
        <5>1. i \in ChatId /\ view.active \in Thread /\ i # Bubble
          BY <3>4, <4>1, Threads, Bounds DEF BaseInv
        <5>2. QED
          BY <4>2, <5>1 DEF Shown, Bubbles
      <4>4. view' = IF view.active # ThreadOf(i) THEN view
                    ELSE [view EXCEPT !.shown = IF Shows(view, i) THEN view.shown
                                                ELSE Append(view.shown, [id |-> i, thread |-> ThreadOf(i)]),
                                      !.heard = @ \cup {i},
                                      !.behind = IF i < view.before THEN @ \cup {i} ELSE @]
        BY <2>1, <2>5, <3>4, <4>1 DEF Ingested
      <4>5. /\ view'.active = view.active /\ view'.unsure = view.unsure
            /\ view'.shown \in {v.shown, Append(v.shown, e)}
        BY <3>4, <4>1, <4>2, <4>4, <1>f DEF View
      <4>6. u1 = u
        <5>1. v.shown \in Seq(Shown)
          BY DEF View
        <5>2. Cardinality(Hits(Append(v.shown, e), Bubbles)) = Cardinality(Hits(v.shown, Bubbles))
          BY <4>3, <5>1, HitsAppend, HitsFinite
        <5>3. PICK w : w = view' /\ w.shown \in {v.shown, Append(v.shown, e)}
          BY <4>5
        <5>4. w.shown \in Seq(Shown)
          BY <5>3, ViewTypes DEF View
        <5>5. Unsent(w) = Hits(w.shown, Bubbles) /\ Unsent(v) = Hits(v.shown, Bubbles)
          BY <5>1, <5>4, UnsentHits
        <5>6. QED
          BY <5>2, <5>3, <5>5, <1>a, <1>b, <1>f DEF Unsents
      <4>7. f \notin Answers
        BY <3>4 DEF Answers
      <4>8. a1 = a /\ b <= b1
        BY <2>3, <4>5, <4>7
      <4>9. c1 = c
        BY <2>1, <4>5, <1>d
      <4>10. u1 + a + b + c <= u + a1 + b1 + c1
        BY <4>6, <4>8, <4>9
      <4>11. QED
        BY <4>5, <4>10, <1>j
    <3>5. QED
      BY <3>1, <3>2, <3>3, <3>4
  <2>6. QED
    BY <2>4, <2>5
<1>14. CASE SendLive \/ SendText
  <2>1. /\ post = NoPost /\ view.active \in Thread /\ view' = WithBubble(view) /\ log' = log
    BY <1>14, Fields DEF SendLive, SendText, MayBubble, MaySend
  <2>2. PICK e : e = [id |-> Bubble, thread |-> view.active]
    OBVIOUS
  <2>3. e \in Shown /\ e \in Bubbles
    BY <2>1, <2>2 DEF Shown, Bubbles
  <2>4. view'.active = view.active /\ view'.unsure = view.unsure /\ view'.shown = Append(v.shown, e)
    BY <2>1, <2>2, <1>f DEF WithBubble, View
  <2>5. u1 = u + 1
    <3>1. v.shown \in Seq(Shown)
      BY DEF View
    <3>2. Cardinality(Hits(Append(v.shown, e), Bubbles)) = Cardinality(Hits(v.shown, Bubbles)) + 1
      BY <2>3, <3>1, HitsAppend, HitsFinite
    <3>3. PICK w : w = view' /\ w.shown = Append(v.shown, e)
      BY <2>4
    <3>4. w.shown \in Seq(Shown)
      BY <3>3, ViewTypes DEF View
    <3>5. Unsent(w) = Hits(w.shown, Bubbles) /\ Unsent(v) = Hits(v.shown, Bubbles)
      BY <3>1, <3>4, UnsentHits
    <3>6. QED
      BY <3>2, <3>3, <3>5, <1>a, <1>b, <1>f DEF Unsents
  <2>6. CASE SendLive
    <3>1. line'.frames = line.frames /\ line'.sends = Append(l.sends, view.active) /\ post' = post
      BY <2>6, <1>g DEF SendLive, Line
    <3>2. b1 = b
      BY <2>1, <2>4, <3>1, <1>a, <1>b, <1>i DEF Answering
    <3>3. l.sends \in Seq(Thread)
      BY DEF Line
    <3>4. PICK t \in Thread : t = view.active
      BY <2>1
    <3>5. Cardinality(Hits(Append(l.sends, t), {t})) = Cardinality(Hits(l.sends, {t})) + 1
      BY <3>3, HitsAppend
    <3>6. a1 = a + 1
      BY <2>4, <3>1, <3>4, <3>5, <1>a, <1>b, <1>g DEF Sent
    <3>7. c1 = c
      BY <2>4, <3>1, <1>d
    <3>8. u1 + a + b + c <= u + a1 + b1 + c1
      BY <2>5, <3>2, <3>6, <3>7
    <3>9. QED
      BY <2>4, <3>8, <1>j
  <2>7. CASE SendText
    <3>1. c1 = 1
      BY <2>4, <2>7, <1>b DEF SendText, Posting, Posted
    <3>2. c = 0
      BY <2>1, <1>e DEF NoPost
    <3>3. a1 = a /\ b1 = b
      BY <2>4, <2>7, <1>k DEF SendText
    <3>4. u1 + a + b + c <= u + a1 + b1 + c1
      BY <2>5, <3>1, <3>2, <3>3
    <3>5. QED
      BY <2>4, <3>4, <1>j
  <2>8. QED
    BY <1>14, <2>6, <2>7
<1>15. CASE SendMedia \/ SendFirst
  <2>1. post = NoPost /\ view' = view /\ line' = line
    BY <1>15 DEF SendMedia, SendFirst, MaySend
  <2>2. c = 0
    BY <2>1, <1>e DEF NoPost
  <2>3. u1 + a + b + c <= u + a1 + b1 + c1
    BY <2>1, <2>2, <1>c, <1>k
  <2>4. QED
    BY <2>1, <2>3, <1>j
<1>16. CASE SendIsHandled
  <2>1. PICK f \in Frame :
           /\ line' = [line EXCEPT !.sends = Tail(@), !.frames = Append(@, f)]
           /\ Head(line.sends) = view.active => f \in Answers'
    <3>1. Head(line.sends) \in Thread /\ view' = view
      BY <1>16, AnswerFields DEF SendIsHandled
    <3>2. ASSUME NEW i \in ChatId, Writes(i, Head(line.sends), TRUE),
                 line' = [line EXCEPT !.sends = Tail(@),
                                      !.frames = Append(@, [type |-> "ack", id |-> i])]
          PROVE  \E f \in Frame :
                    /\ line' = [line EXCEPT !.sends = Tail(@), !.frames = Append(@, f)]
                    /\ Head(line.sends) = view.active => f \in Answers'
      <4>1. ThreadOf(i)' = Head(line.sends)
        BY <3>1, <3>2, LogGrows DEF BaseInv
      <4>2. PICK f : f = [type |-> "ack", id |-> i]
        OBVIOUS
      <4>3. f \in Frame /\ f.type = "ack" /\ f.id = i
        BY <4>2 DEF Frame
      <4>4. Head(line.sends) = view.active => f \in Answers'
        BY <3>1, <4>1, <4>3 DEF Answers
      <4>5. QED
        BY <3>2, <4>2, <4>3, <4>4
    <3>3. ASSUME line' = [line EXCEPT !.sends = Tail(@), !.frames = Append(@, [type |-> "error"])]
          PROVE  \E f \in Frame :
                    /\ line' = [line EXCEPT !.sends = Tail(@), !.frames = Append(@, f)]
                    /\ Head(line.sends) = view.active => f \in Answers'
      <4>1. [type |-> "error"] \in Frame /\ [type |-> "error"] \in Answers'
        BY DEF Frame, Answers
      <4>2. QED
        BY <3>3, <4>1
    <3>4. QED
      BY <1>16, <3>2, <3>3 DEF SendIsHandled
  <2>2. /\ l.sends # <<>> /\ line'.sends = Tail(l.sends) /\ line'.frames = Append(l.frames, f)
        /\ view' = view /\ post' = post
    BY <1>16, <2>1, <1>g DEF SendIsHandled, Line
  <2>3. l.sends \in Seq(Thread) /\ l.frames \in Seq(Frame)
    BY DEF Line
  <2>4. a <= a1 + (IF Head(l.sends) = view.active THEN 1 ELSE 0)
    <3>1. PICK t : t = view.active
      OBVIOUS
    <3>2. Cardinality(Hits(l.sends, {t}))
            <= Cardinality(Hits(Tail(l.sends), {t})) + (IF Head(l.sends) \in {t} THEN 1 ELSE 0)
      BY <2>2, <2>3, HitsTail
    <3>3. Cardinality(Hits(l.sends, {t})) = a /\ Cardinality(Hits(Tail(l.sends), {t})) = a1
      BY <2>2, <3>1, <1>a, <1>b, <1>g DEF Sent
    <3>4. QED
      BY <3>1, <3>2, <3>3
  <2>5. b1 = b + (IF f \in Answers' THEN 1 ELSE 0)
    <3>1. PICK A : A = Answers'
      OBVIOUS
    <3>2. Cardinality(Hits(Append(l.frames, f), A))
            = Cardinality(Hits(l.frames, A)) + (IF f \in A THEN 1 ELSE 0)
      BY <2>3, HitsAppend
    <3>3. Hits(l.frames, A) = Hits(l.frames, Answers)
      BY <2>2, <3>1, <1>g, AnswersStay
    <3>4. Answering' = Cardinality(Hits(Append(l.frames, f), A))
      BY <2>2, <3>1 DEF Answering
    <3>5. Answering = Cardinality(Hits(l.frames, Answers))
      BY <1>g DEF Answering
    <3>6. QED
      BY <3>1, <3>2, <3>3, <3>4, <3>5, <1>a, <1>b
  <2>6. u1 = u /\ c1 = c
    BY <2>2, <1>c, <1>d
  <2>7. u1 + a + b + c <= u + a1 + b1 + c1
    <3>1. CASE Head(l.sends) = view.active
      BY <2>1, <2>4, <2>5, <2>6, <3>1, <1>g
    <3>2. CASE Head(l.sends) # view.active
      BY <2>4, <2>5, <2>6, <3>2
    <3>3. QED
      BY <3>1, <3>2
  <2>8. QED
    BY <2>2, <2>7, <1>j
<1>17. ASSUME NEW i \in ChatId, PostIsSaved(i) PROVE NoPhantom'
  <2>1. view' = view /\ line' = line
    BY <1>17 DEF PostIsSaved
  <2>2. PICK q \in [at : {"asked", "saved"}, kind : {"text", "media", "first"},
                    thread : Thread, id : {Bubble} \cup ChatId] : q = post
    BY <1>17, AnswerFields DEF PostIsSaved
  <2>3. post' = [q EXCEPT !.at = "saved", !.id = i]
    BY <1>17, <2>2 DEF PostIsSaved
  <2>4. post'.at = "saved" /\ post'.kind = q.kind /\ post'.thread = q.thread
    BY <2>3
  <2>5. c1 = c
    BY <2>1, <2>2, <2>4, <1>a, <1>b DEF Posted
  <2>6. u1 + a + b + c <= u + a1 + b1 + c1
    BY <2>1, <2>5, <1>c, <1>k
  <2>7. QED
    BY <2>1, <2>6, <1>j
<1>18. ASSUME NEW s \in Slot, PostIsAnswered(s) PROVE NoPhantom'
  <2>1. CASE post.kind = "first"
    BY <1>18, <2>1, <1>f, <1>h DEF PostIsAnswered, Opened, View
  <2>2. CASE post.kind # "first"
    <3>1. /\ view' = Ingested(view, post.id, TRUE) /\ line' = line
          /\ post.id \in TakenId /\ ThreadOf(post.id) = post.thread
      BY <1>18, <2>2, AnswerFields DEF PostIsAnswered
    <3>2. CASE post.thread = view.active
      BY <3>1, <3>2, BubblesDropped, NoBubbles
    <3>3. CASE post.thread # view.active
      <4>1. view' = view
        BY <3>1, <3>3 DEF Ingested
      <4>2. c = 0
        BY <3>3, <1>a DEF Posted
      <4>3. u1 = u /\ a1 = a /\ b1 = b
        BY <3>1, <4>1, <1>c, <1>k
      <4>4. u1 + a + b + c <= u + a1 + b1 + c1
        BY <4>2, <4>3
      <4>5. QED
        BY <4>1, <4>4, <1>j
    <3>4. QED
      BY <3>2, <3>3
  <2>3. QED
    BY <2>1, <2>2
<1>19. CASE PostFails
  <2>1. ASSUME view'.shown = view.shown, view'.active = view.active, view'.unsure = view.unsure,
               post.kind # "text"
        PROVE  NoPhantom'
    <3>1. c = 0
      BY <2>1, <1>a DEF Posted
    <3>2. line' = line
      BY <1>19 DEF PostFails
    <3>3. u1 + a + b + c <= u + a1 + b1 + c1
      BY <2>1, <3>1, <3>2, <1>c, <1>k
    <3>4. QED
      BY <2>1, <3>3, <1>j
  <2>2. CASE post.kind = "text" /\ view' = WithoutBubble(view)
    <3>1. /\ view'.active = view.active /\ view'.unsure = view.unsure
          /\ u1 + 1 <= u \/ Unsent(view') = {}
      BY <2>2, <1>a, <1>b, BubbleDropped
    <3>2. CASE u1 + 1 <= u
      <4>1. line' = line
        BY <1>19 DEF PostFails
      <4>2. u1 + a + b + c <= u + a1 + b1 + c1
        BY <3>1, <3>2, <4>1, <1>k
      <4>3. QED
        BY <3>1, <4>2, <1>j
    <3>3. QED
      BY <3>1, <3>2, NoBubbles
  <2>3. CASE post.kind # "text" /\ view' \in {view, [v EXCEPT !.compose = NoThread]}
    BY <2>1, <2>3, <1>f DEF View
  <2>4. QED
    BY <1>19, <2>2, <2>3, <1>f DEF PostFails
<1>20. ASSUME NEW i \in ChatId, NEW t \in Thread, NEW mine \in BOOLEAN, OthersWrite(i, t, mine)
       PROVE  NoPhantom'
  BY <1>2, <1>20 DEF OthersWrite
<1>21. ASSUME NEW s \in Slot, Serve(s) PROVE NoPhantom'
  BY <1>2, <1>21 DEF Serve
<1>22. CASE UNCHANGED chatVars
  BY <1>2, <1>22 DEF chatVars
<1>23. QED
  BY <1>3, <1>4, <1>5, <1>6, <1>7, <1>8, <1>9, <1>10, <1>11, <1>12, <1>13, <1>14, <1>15, <1>16,
     <1>17, <1>18, <1>19, <1>20, <1>21, <1>22
     DEF ChatNext, Browse, Socketry, Sends, Writing
-----------------------------------------------------------------------------
(* The theorems.                                                           *)

THEOREM ChatInvariant == ChatSpec => []ChatInv
<1>1. ChatInit => ChatInv
  <2> SUFFICES ASSUME ChatInit PROVE ChatInv
    OBVIOUS
  <2>1. <<>> \in Seq(LogEntry) /\ <<>> \in Seq(Shown) /\ <<>> \in Seq(Frame) /\ <<>> \in Seq(Thread)
    OBVIOUS
  <2>2. 0 \in 0 .. LastId
    BY Bounds
  <2>3. ChatTypeOK
    <3>1. view \in View
      BY <2>1, <2>2 DEF ChatInit, View
    <3>2. line \in Line
      BY <2>1 DEF ChatInit, Line
    <3>3. QED
      BY <2>1, <3>1, <3>2 DEF ChatInit, ChatTypeOK
  <2>4. /\ view.active = NoThread /\ view.shown = <<>> /\ ~view.loaded
        /\ \A s \in Slot : Free(s)
    BY DEF ChatInit, Free
  <2>5. LogInv /\ WireInv
    BY DEF ChatInit, LogInv, WireInv, NoPost
  <2>6. LoadsInv
    BY <2>4 DEF ChatInit, LoadsInv, Pages, Older, Newest, Fresh, Loading, Free, NoLoad
  <2>7. OlderInv /\ PageInv /\ ShownOnce /\ PageIsComplete
    BY <2>4 DEF OlderInv, PageInv, ShownOnce, PageIsComplete, Settled, Fresh, Loading, Unsent
  <2>8. NoPhantom
    <3>1. Unsent(view) = {}
      BY <2>4 DEF Unsent
    <3>2. Unsents = 0
      BY <3>1, FS_EmptySet DEF Unsents
    <3>3. Unsents <= Pending
      BY <2>3, <2>5, <3>2, Counts DEF BaseInv, Counted
    <3>4. QED
      BY <3>3 DEF NoPhantom, Unsents
  <2>9. QED
    BY <2>3, <2>5, <2>6, <2>7, <2>8 DEF ChatInv
<1>2. ChatInv /\ [ChatNext]_chatVars => ChatInv'
  <2> SUFFICES ASSUME ChatInv, [ChatNext]_chatVars PROVE ChatInv'
    OBVIOUS
  <2>1. BaseInv /\ LoadsInv /\ ShownInv /\ NoPhantom /\ PageInv
    BY DEF ChatInv, BaseInv, ShownInv
  <2>2. BaseInv'
    BY <2>1, BaseStep
  <2>3. LoadsInv' /\ ShownInv'
    BY <2>1, LoadsStep, ShownStep
  <2>4. NoPhantom'
    BY <2>1, <2>2, PhantomStep
  <2>5. QED
    BY <2>2, <2>3, <2>4 DEF ChatInv, BaseInv, ShownInv
<1>3. QED
  BY <1>1, <1>2, PTL DEF ChatSpec

\* The log, the page, its requests, the send under way and the socket keep
\* their types, whatever comes in whatever order.
THEOREM ChatTypes == ChatSpec => []ChatTypeOK
<1>1. ChatInv => ChatTypeOK
  BY DEF ChatInv
<1>2. QED
  BY <1>1, ChatInvariant, PTL

\* However pages, frames and the answers to sends overlap, _ingestMessage and
\* _loadOlder put a message on the page once, but for those that came by frame
\* when the cursor was past them.
THEOREM MessagesShownOnce == ChatSpec => []ShownOnce
<1>1. ChatInv => ShownOnce
  BY DEF ChatInv
<1>2. QED
  BY <1>1, ChatInvariant, PTL

\* Nothing that was there or has come is missing from an open thread, as far
\* back as the cursor, and nothing of another thread is among it.
THEOREM NothingMissing == ChatSpec => []PageIsComplete
<1>1. ChatInv => PageIsComplete
  BY DEF ChatInv
<1>2. QED
  BY <1>1, ChatInvariant, PTL

\* A bubble is on the page only while a send, an answer or a request can still
\* take it away, unless a socket was lost under it.
THEOREM NoBubbleStays == ChatSpec => []NoPhantom
<1>1. ChatInv => NoPhantom
  BY DEF ChatInv
<1>2. QED
  BY <1>1, ChatInvariant, PTL
=============================================================================
