-------------------------- MODULE MessagesProofs ---------------------------
(***************************************************************************)
(* Theorems about DirectMessages, as Relay's specification runs it: for    *)
(* every set of users, desks, keys and processes.                          *)
(***************************************************************************)
EXTENDS Relay, SequenceTheorems, TLAPS

Jobs == Job \cup {Idle}
InFlight(d) == {jobs[d]} \ {Idle}

StoreTypes ==
    /\ blocked \subseteq Pair /\ follows \subseteq Pair /\ closed \subseteq Creator
    /\ threads \subseteq Pair
    /\ DOMAIN messages \subseteq Id /\ messages \in [DOMAIN messages -> Message]
    /\ nextId \in 1 .. MaxMessages + 1
    /\ files \subseteq Key /\ astray \subseteq Key
    /\ jobs \in [Desk -> Jobs]

\* Ids are drawn once: a row to be committed is new, one that was is as its job.
OwnIds ==
    /\ \A i \in DOMAIN messages : i < nextId
    /\ \A d \in Desk : At(d, "commit") =>
          jobs[d].id \in Id /\ jobs[d].id < nextId /\ jobs[d].id \notin DOMAIN messages
    /\ \A d \in Desk : At(d, "sent") =>
          jobs[d].id \in DOMAIN messages /\ messages[jobs[d].id] = Row(jobs[d])
    /\ \A d, e \in Desk : (At(d, "commit") \/ At(d, "sent")) /\ (At(e, "commit") \/ At(e, "sent"))
                          /\ jobs[d].id = jobs[e].id => d = e

\* An upload is one request's until its row is committed.
OwnKeys ==
    /\ \A d \in Desk : Busy(d) /\ jobs[d].key # NoKey /\ ~At(d, "sent") =>
          jobs[d].key \notin astray \cup KeysSent
    /\ \A d, e \in Desk : Busy(d) /\ Busy(e) /\ jobs[d].key # NoKey
                          /\ jobs[d].key = jobs[e].key => d = e

StoreInv == StoreTypes /\ OwnIds /\ OwnKeys /\ FilesMatchRows

-----------------------------------------------------------------------------
(* Requests on their way through the gate.                                 *)

Watched(j) ==
    /\ Now(j.pair) \subseteq j.held
    /\ j.steady => j.held = Now(j.pair)

Allowed(h) == "unblocked" \in h /\ ("thread" \in h \/ {"follower", "open"} \subseteq h)

\* What a subscriber's request has read, by its stage; what it was told.
Asked(j) ==
    j.from \in Subscriber =>
        /\ j.steady => (j.said <=> Allowed(j.held))
        /\ j.at \in {"thread", "follower", "policy"} \cup Admitted => "unblocked" \in j.held
        /\ j.at = "policy" => "follower" \in j.held
        /\ j.at \in {"follower", "policy"} /\ j.steady => "thread" \notin j.held
        /\ j.at \in Admitted => Allowed(j.held)
        /\ j.at = "refused" /\ j.steady => ~Allowed(j.held)

GateInv == \A d \in Desk : \A j \in InFlight(d) : Watched(j) /\ Asked(j)

-----------------------------------------------------------------------------
(* The reader.                                                             *)

\* Everything due from the cursor on has been shown.
Scrolled(r) ==
    /\ r.due \subseteq InThread(r.pair)
    /\ \A k, l \in 1 .. Len(r.seen) : k < l => r.seen[k] > r.seen[l]
    /\ \A k \in 1 .. Len(r.seen) : r.seen[k] \in InThread(r.pair) /\ r.seen[k] >= r.before
    /\ \A i \in r.due : i >= r.before => \E k \in 1 .. Len(r.seen) : r.seen[k] = i
    /\ r.at = "end" => \A i \in r.due : i >= r.before

ReaderInv ==
    /\ reader \in Reading \cup {Resting}
    /\ \A r \in {reader} \ {Resting} : Scrolled(r)

MessagesInv == StoreInv /\ GateInv /\ ReaderInv
-----------------------------------------------------------------------------
(* Jobs and keys.                                                          *)

\* What a request is made of.
LEMMA JobFields ==
    /\ Idle \notin Job
    /\ \A j \in Job : /\ j.at \in Stage /\ j.pair \in Pair /\ j.from \in User
                      /\ j.key \in Key \cup {NoKey} /\ j.id \in 0 .. MaxMessages
                      /\ j.said \in BOOLEAN /\ j.steady \in BOOLEAN /\ j.held \subseteq Condition
BY DEF Job, Idle, Stage, Asking, Admitted

\* The keys of rows and of requests, before and after a step.
LEMMA KeySets ==
    ASSUME NEW k
    PROVE  /\ k \in KeysSent <=> \E i \in DOMAIN messages : messages[i].key = k
           /\ k \in KeysSent' <=> \E i \in DOMAIN messages' : messages'[i].key = k
           /\ k \in KeysHeld <=> \E d \in Desk : Busy(d) /\ jobs[d].key = k
           /\ k \in KeysHeld' <=> \E d \in Desk : Busy(d)' /\ jobs'[d].key = k
BY DEF KeysSent, KeysHeld

\* A desk that is busy has a request.
LEMMA BusyJob ==
    ASSUME StoreInv, NEW d \in Desk, Busy(d)
    PROVE  jobs[d] \in Job
BY DEF StoreInv, StoreTypes, Jobs, Busy

\* The parts of a job that rows and files go by.
SameClaim(j, o) ==
    /\ o.key = j.key /\ o.id = j.id /\ o.pair = j.pair /\ o.from = j.from
    /\ \A s \in {"commit", "sent"} : o.at = s <=> j.at = s

\* Requests go from stage to stage; rows and files stay.
LEMMA StagesKeep ==
    ASSUME StoreInv, messages' = messages, nextId' = nextId, files' = files, astray' = astray,
           threads' = threads,
           blocked' \subseteq Pair, follows' \subseteq Pair, closed' \subseteq Creator,
           jobs' \in [Desk -> Jobs],
           \A d \in Desk : /\ Busy(d)' <=> Busy(d)
                           /\ Busy(d) => SameClaim(jobs[d], jobs'[d])
    PROVE  StoreInv'
<1>1. StoreTypes'
  BY DEF StoreInv, StoreTypes
<1>2. \A d \in Desk : /\ Busy(d)' <=> Busy(d)
                      /\ At(d, "commit")' <=> At(d, "commit")
                      /\ At(d, "sent")' <=> At(d, "sent")
                      /\ Busy(d) => jobs'[d].key = jobs[d].key /\ jobs'[d].id = jobs[d].id
                                    /\ Row(jobs'[d]) = Row(jobs[d])
  BY DEF At, SameClaim, Row
<1>3. \A k : (k \in KeysSent' <=> k \in KeysSent) /\ (k \in KeysHeld' <=> k \in KeysHeld)
  BY <1>2, KeySets
<1>4. OwnIds'
  BY <1>2 DEF StoreInv, OwnIds, At
<1>5. OwnKeys'
  BY <1>2, <1>3 DEF StoreInv, OwnKeys
<1>6. FilesMatchRows'
  BY <1>3 DEF StoreInv, FilesMatchRows
<1>7. QED
  BY <1>1, <1>4, <1>5, <1>6 DEF StoreInv

\* Requests end: with their rows committed, or their keys deleted or astray.
LEMMA EndsKeep ==
    ASSUME StoreInv, messages' = messages, nextId' = nextId, threads' = threads,
           blocked' = blocked, follows' = follows, closed' = closed,
           jobs' \in [Desk -> Jobs], NEW gone \in SUBSET Desk,
           \A d \in Desk : IF d \in gone THEN jobs'[d] = Idle ELSE jobs'[d] = jobs[d],
           files' \subseteq files, astray \subseteq astray',
           \A k \in astray' \ astray : k \in Key /\ \E d \in gone : Busy(d) /\ jobs[d].key = k,
           \A k \in files \ files' : \E d \in gone : Busy(d) /\ jobs[d].key = k,
           \A d \in gone : Busy(d) /\ jobs[d].key # NoKey =>
               \/ At(d, "sent") /\ (jobs[d].key \in files' \/ files' = files)
               \/ jobs[d].key \in astray'
               \/ jobs[d].key \notin files' /\ ~At(d, "sent")
    PROVE  StoreInv'
<1>1. StoreTypes'
  BY DEF StoreInv, StoreTypes
<1>2. /\ \A d \in gone : ~Busy(d)' /\ \A s : ~At(d, s)'
      /\ \A d \in Desk : d \notin gone => /\ Busy(d)' <=> Busy(d)
                                          /\ jobs'[d] = jobs[d]
                                          /\ \A s : At(d, s)' <=> At(d, s)
  BY DEF At, Busy
<1>3. \A k : /\ k \in KeysSent' <=> k \in KeysSent
             /\ k \in KeysHeld' => k \in KeysHeld
  BY <1>2, KeySets
<1>4. OwnIds'
  BY <1>2 DEF StoreInv, OwnIds
<1>5. OwnKeys'
  BY <1>2, <1>3 DEF StoreInv, OwnKeys
<1>6. FilesMatchRows'
  <2> SUFFICES ASSUME NEW k \in Key, k \notin astray'
               PROVE  k \in files' <=> k \in KeysSent' \cup KeysHeld'
    BY DEF FilesMatchRows
  <2>1. k \in files <=> k \in KeysSent \cup KeysHeld
    BY DEF StoreInv, FilesMatchRows
  <2>2. k # NoKey
    BY KeyAssumption
  <2>3. ASSUME k \in KeysHeld', k \notin KeysSent' PROVE k \in files'
    <3>1. PICK d \in Desk : Busy(d)' /\ jobs'[d].key = k
      BY <2>3, KeySets
    <3>2. \A e \in gone : Busy(e) => jobs[e].key # k
      BY <1>2, <2>2, <3>1 DEF StoreInv, OwnKeys
    <3>3. QED
      BY <1>2, <2>1, <3>1, <3>2, KeySets
  <2>4. ASSUME k \in KeysSent PROVE k \in files'
    <3>1. ASSUME k \notin files' PROVE FALSE
      <4>1. PICK d \in gone : Busy(d) /\ jobs[d].key = k
        BY <2>1, <2>4, <3>1
      <4>2. At(d, "sent")
        BY <2>2, <2>4, <4>1 DEF StoreInv, OwnKeys
      <4>3. QED
        BY <2>1, <2>2, <2>4, <3>1, <4>1, <4>2
    <3>2. QED
      BY <3>1
  <2>5. ASSUME k \in files', k \notin KeysHeld' PROVE k \in KeysSent
    <3>1. CASE k \in KeysSent
      BY <3>1
    <3>2. CASE k \in KeysHeld
      <4>1. PICK d \in Desk : Busy(d) /\ jobs[d].key = k
        BY <3>2, KeySets
      <4>2. d \in gone
        BY <1>2, <2>5, <4>1, KeySets
      <4>3. At(d, "sent")
        BY <2>2, <2>5, <4>1, <4>2
      <4>4. messages[jobs[d].id] = Row(jobs[d]) /\ jobs[d].id \in DOMAIN messages
        BY <4>3 DEF StoreInv, OwnIds
      <4>5. Row(jobs[d]).key = k
        BY <4>1 DEF Row
      <4>6. QED
        BY <4>4, <4>5, KeySets
    <3>3. QED
      BY <2>1, <2>5, <3>1, <3>2
  <2>6. QED
    BY <1>3, <2>3, <2>4, <2>5
<1>7. QED
  BY <1>1, <1>4, <1>5, <1>6 DEF StoreInv

\* A new request takes a key nobody has.
LEMMA BeginKeeps ==
    ASSUME StoreInv, NEW d \in Desk, NEW from \in User, NEW to \in User,
           NEW key \in Key \cup {NoKey}, Begin(d, from, to, key)
    PROVE  StoreInv'
<1> DEFINE p == IF from \in Creator THEN <<from, to>> ELSE <<to, from>>
           j == [at |-> IF from \in Creator THEN "open" ELSE "gate",
                 pair |-> p, from |-> from, key |-> key, id |-> 0, fresh |-> FALSE,
                 said |-> CanMessage(from, to), steady |-> TRUE, held |-> Now(p)]
<1>1. /\ ~Busy(d) /\ p \in Pair /\ key \in FreshKey \cup {NoKey}
      /\ jobs' = [jobs EXCEPT ![d] = j]
      /\ files' = files \cup ({key} \ {NoKey})
      /\ threads' = threads /\ messages' = messages /\ nextId' = nextId /\ astray' = astray
      /\ blocked' = blocked /\ follows' = follows /\ closed' = closed
  BY DEF Begin, access, store
<1>2. j \in Job
  <2>1. Now(p) \subseteq Condition
    BY DEF Now, Holding
  <2>2. CanMessage(from, to) \in BOOLEAN
    BY DEF CanMessage
  <2>3. 0 \in 0 .. MaxMessages
    BY PageAssumption
  <2> HIDE DEF p
  <2>4. QED
    BY <1>1, <2>1, <2>2, <2>3 DEF Job, Stage, Asking, Admitted
<1>3. j.key = key /\ j.at # "commit" /\ j.at # "sent" /\ j # Idle
  BY <1>2, JobFields
<1> HIDE DEF j
<1>4. /\ jobs' \in [Desk -> Jobs] /\ jobs'[d] = j
      /\ \A e \in Desk : e # d => jobs'[e] = jobs[e]
  BY <1>1, <1>2 DEF StoreInv, StoreTypes, Jobs
<1>5. /\ Busy(d)' /\ ~At(d, "commit")' /\ ~At(d, "sent")'
      /\ \A e \in Desk : e # d => (Busy(e)' <=> Busy(e)) /\ \A s : At(e, s)' <=> At(e, s)
  BY <1>3, <1>4 DEF At, Busy
<1>6. /\ key # NoKey => key \in Key /\ key \notin files /\ key \notin astray
                        /\ key \notin KeysSent /\ key \notin KeysHeld
  BY <1>1 DEF FreshKey
<1>7. \A k : /\ k \in KeysSent' <=> k \in KeysSent
             /\ k \in KeysHeld' <=> k \in KeysHeld \/ k = key
  <2> TAKE k
  <2>1. k \in KeysSent' <=> k \in KeysSent
    BY <1>1, KeySets
  <2>2. k \in KeysHeld' => k \in KeysHeld \/ k = key
    BY <1>3, <1>4, <1>5, KeySets
  <2>3. k \in KeysHeld \/ k = key => k \in KeysHeld'
    BY <1>1, <1>3, <1>4, <1>5, KeySets
  <2>4. QED
    BY <2>1, <2>2, <2>3
<1>8. StoreTypes'
  BY <1>1, <1>4, <1>6 DEF StoreInv, StoreTypes
<1>9. OwnIds'
  BY <1>1, <1>4, <1>5 DEF StoreInv, OwnIds
<1>10. OwnKeys'
  <2>1. \A e \in Desk : Busy(e) /\ key # NoKey => jobs[e].key # key
    BY <1>6, KeySets
  <2>2. QED
    BY <1>1, <1>3, <1>4, <1>5, <1>6, <1>7, <2>1 DEF StoreInv, OwnKeys
<1>11. FilesMatchRows'
  BY <1>1, <1>7, KeyAssumption DEF StoreInv, FilesMatchRows
<1>12. QED
  BY <1>8, <1>9, <1>10, <1>11 DEF StoreInv

\* A file whose request never came to be is astray.
LEMMA StorageFailsKeeps ==
    ASSUME StoreInv, NEW d \in Desk, NEW key, StorageFails(d, key)
    PROVE  StoreInv'
<1>1. /\ key \in FreshKey /\ files' = files \cup {key} /\ astray' = astray \cup {key}
      /\ jobs' = jobs /\ threads' = threads /\ messages' = messages /\ nextId' = nextId
      /\ blocked' = blocked /\ follows' = follows /\ closed' = closed
  BY DEF StorageFails, access, store
<1>2. key \in Key /\ key \notin KeysSent /\ key \notin KeysHeld
  BY <1>1 DEF FreshKey
<1>3. \A k : (k \in KeysSent' <=> k \in KeysSent) /\ (k \in KeysHeld' <=> k \in KeysHeld)
  BY <1>1, KeySets DEF Busy
<1>4. StoreTypes'
  BY <1>1, <1>2 DEF StoreInv, StoreTypes
<1>5. OwnIds'
  BY <1>1 DEF StoreInv, OwnIds, At, Busy
<1>6. OwnKeys'
  <2>1. \A e \in Desk : Busy(e) => jobs[e].key # key
    BY <1>2, KeySets
  <2>2. QED
    BY <1>1, <1>3, <2>1 DEF StoreInv, OwnKeys, At, Busy
<1>7. FilesMatchRows'
  BY <1>1, <1>3 DEF StoreInv, FilesMatchRows
<1>8. QED
  BY <1>4, <1>5, <1>6, <1>7 DEF StoreInv

\* A request without a row takes its upload along.
LEMMA DropKeeps ==
    ASSUME StoreInv, NEW d \in Desk, Drop(d), Busy(d), ~At(d, "sent")
    PROVE  StoreInv'
<1>1. /\ jobs' = [jobs EXCEPT ![d] = Idle] /\ files' = files \ {jobs[d].key}
      /\ blocked' = blocked /\ follows' = follows /\ closed' = closed
      /\ threads' = threads /\ messages' = messages /\ nextId' = nextId /\ astray' = astray
  BY DEF Drop, access, store
<1>2. /\ jobs' \in [Desk -> Jobs] /\ jobs'[d] = Idle
      /\ \A e \in Desk : e # d => jobs'[e] = jobs[e]
  BY <1>1 DEF StoreInv, StoreTypes, Jobs
<1> DEFINE gone == {d}
<1>3. /\ gone \in SUBSET Desk
      /\ \A e \in Desk : IF e \in gone THEN jobs'[e] = Idle ELSE jobs'[e] = jobs[e]
      /\ files' \subseteq files /\ astray \subseteq astray' /\ astray' \ astray = {}
      /\ \A k \in files \ files' : \E e \in gone : Busy(e) /\ jobs[e].key = k
      /\ \A e \in gone : jobs[e].key \notin files' /\ ~At(e, "sent")
  BY <1>1, <1>2
<1> HIDE DEF gone
<1>4. QED
  BY <1>1, <1>2, <1>3, EndsKeep

\* A row whose upload was deleted behind it leaves the key astray.
LEMMA RefreshFailsKeeps ==
    ASSUME StoreInv, NEW d \in Desk, RefreshFails(d)
    PROVE  StoreInv'
<1>1. /\ At(d, "sent") /\ Busy(d)
      /\ jobs' = [jobs EXCEPT ![d] = Idle] /\ files' = files \ {jobs[d].key}
      /\ astray' = astray \cup ({jobs[d].key} \ {NoKey})
      /\ blocked' = blocked /\ follows' = follows /\ closed' = closed
      /\ threads' = threads /\ messages' = messages /\ nextId' = nextId
  BY DEF RefreshFails, access, store, At
<1>2. /\ jobs' \in [Desk -> Jobs] /\ jobs'[d] = Idle
      /\ \A e \in Desk : e # d => jobs'[e] = jobs[e]
  BY <1>1 DEF StoreInv, StoreTypes, Jobs
<1>3. jobs[d].key \in Key \cup {NoKey}
  BY <1>1, BusyJob, JobFields
<1> DEFINE gone == {d}
<1>4. /\ gone \in SUBSET Desk
      /\ \A e \in Desk : IF e \in gone THEN jobs'[e] = Idle ELSE jobs'[e] = jobs[e]
      /\ files' \subseteq files /\ astray \subseteq astray'
      /\ \A k \in astray' \ astray : k \in Key /\ \E e \in gone : Busy(e) /\ jobs[e].key = k
      /\ \A k \in files \ files' : \E e \in gone : Busy(e) /\ jobs[e].key = k
      /\ \A e \in gone : jobs[e].key # NoKey => jobs[e].key \in astray'
  BY <1>1, <1>2, <1>3
<1> HIDE DEF gone
<1>5. QED
  BY <1>1, <1>2, <1>4, EndsKeep

\* The id drawn is above every id there is.
LEMMA WriteKeeps ==
    ASSUME StoreInv, NEW d \in Desk, Write(d)
    PROVE  StoreInv'
<1>1. /\ At(d, "write") /\ Busy(d) /\ nextId \in Id /\ nextId' = nextId + 1
      /\ jobs' = [jobs EXCEPT ![d].at = "commit", ![d].id = nextId]
      /\ blocked' = blocked /\ follows' = follows /\ closed' = closed
      /\ threads' = threads /\ messages' = messages /\ files' = files /\ astray' = astray
  BY DEF Write, access, At
<1>2. jobs[d] \in Job /\ jobs \in [Desk -> Jobs]
  BY <1>1, BusyJob DEF StoreInv, StoreTypes
<1> DEFINE j == [jobs[d] EXCEPT !.at = "commit", !.id = nextId]
<1>3. j \in Job /\ j.at = "commit" /\ j.id = nextId /\ j.key = jobs[d].key
  <2>1. nextId \in 0 .. MaxMessages
    BY <1>1, PageAssumption DEF Id
  <2>2. QED
    BY <1>2, <2>1 DEF Job, Stage, Admitted
<1>4. jobs' = [jobs EXCEPT ![d] = j]
  BY <1>1, <1>2
<1> HIDE DEF j
<1>5. /\ jobs' \in [Desk -> Jobs] /\ jobs'[d] = j /\ j # Idle
      /\ \A e \in Desk : e # d => jobs'[e] = jobs[e]
  BY <1>2, <1>3, <1>4, JobFields DEF Jobs
<1>6. /\ Busy(d)' /\ At(d, "commit")' /\ ~At(d, "sent")' /\ jobs'[d].id = nextId
      /\ jobs'[d].key = jobs[d].key /\ ~At(d, "sent") /\ ~At(d, "commit")
      /\ \A e \in Desk : e # d => (Busy(e)' <=> Busy(e)) /\ \A s : At(e, s)' <=> At(e, s)
  BY <1>1, <1>3, <1>5 DEF At, Busy
<1>7. \A k : (k \in KeysSent' <=> k \in KeysSent) /\ (k \in KeysHeld' <=> k \in KeysHeld)
  BY <1>1, <1>5, <1>6, KeySets
<1>8. StoreTypes'
  <2>1. nextId' \in 1 .. MaxMessages + 1
    BY <1>1, PageAssumption DEF Id
  <2>2. QED
    BY <1>1, <1>5, <2>1 DEF StoreInv, StoreTypes
<1>9. OwnIds'
  <2>1. \A e \in Desk : At(e, "commit") \/ At(e, "sent") => jobs[e].id \in Int /\ jobs[e].id < nextId
    BY DEF StoreInv, OwnIds, Id, StoreTypes
  <2>2. \A i \in DOMAIN messages : i \in Int /\ i < nextId
    BY DEF StoreInv, OwnIds, StoreTypes, Id
  <2>3. nextId \in Int
    BY <1>1 DEF Id
  <2>4. \A i \in DOMAIN messages' : i < nextId'
    BY <1>1, <2>2, <2>3
  <2>5. \A e \in Desk : At(e, "commit")' =>
          jobs'[e].id \in Id /\ jobs'[e].id < nextId' /\ jobs'[e].id \notin DOMAIN messages'
    <3> SUFFICES ASSUME NEW e \in Desk, At(e, "commit")'
                 PROVE  jobs'[e].id \in Id /\ jobs'[e].id < nextId' /\ jobs'[e].id \notin DOMAIN messages'
      OBVIOUS
    <3>1. CASE e = d
      BY <1>1, <1>6, <2>2, <2>3, <3>1
    <3>2. CASE e # d
      BY <1>1, <1>5, <1>6, <2>1, <2>3, <3>2 DEF StoreInv, OwnIds
    <3>3. QED
      BY <3>1, <3>2
  <2>6. \A e \in Desk : At(e, "sent")' =>
          jobs'[e].id \in DOMAIN messages' /\ messages'[jobs'[e].id] = Row(jobs'[e])
    BY <1>1, <1>5, <1>6 DEF StoreInv, OwnIds
  <2>7. \A e, f \in Desk : (At(e, "commit")' \/ At(e, "sent")') /\ (At(f, "commit")' \/ At(f, "sent")')
                           /\ jobs'[e].id = jobs'[f].id => e = f
    <3>1. \A e \in Desk : e # d /\ (At(e, "commit")' \/ At(e, "sent")') =>
              jobs'[e].id = jobs[e].id /\ jobs[e].id # jobs'[d].id
                  /\ (At(e, "commit") \/ At(e, "sent"))
      BY <1>5, <1>6, <2>1, <2>3
    <3>2. QED
      BY <3>1 DEF StoreInv, OwnIds
  <2>8. QED
    BY <2>4, <2>5, <2>6, <2>7 DEF OwnIds
<1>10. OwnKeys'
  BY <1>1, <1>5, <1>6, <1>7 DEF StoreInv, OwnKeys
<1>11. FilesMatchRows'
  BY <1>1, <1>7 DEF StoreInv, FilesMatchRows
<1>12. QED
  BY <1>8, <1>9, <1>10, <1>11 DEF StoreInv

\* Observed changes what the properties compare with, and nothing else.
LEMMA ObservedIs ==
    ASSUME NEW b, NEW f, NEW c, NEW t, NEW js \in [Desk -> Jobs]
    PROVE  LET os == Observed(b, f, c, t, js) IN
           /\ os \in [Desk -> Jobs]
           /\ \A d \in Desk :
                 /\ js[d] = Idle => os[d] = Idle
                 /\ js[d] # Idle =>
                       /\ os[d] \in Job /\ os[d] # Idle
                       /\ SameClaim(js[d], os[d])
                       /\ os[d].at = js[d].at /\ os[d].said = js[d].said
                       /\ os[d].held = js[d].held \cup Holding(js[d].pair, b, f, c, t)
                       /\ os[d].steady <=> js[d].steady
                             /\ Holding(js[d].pair, b, f, c, t) = Now(js[d].pair)
<1> DEFINE os == Observed(b, f, c, t, js)
<1>1. ASSUME NEW d \in Desk
      PROVE  /\ os[d] \in Jobs
             /\ js[d] = Idle => os[d] = Idle
             /\ js[d] # Idle =>
                   /\ os[d] \in Job /\ os[d] # Idle
                   /\ SameClaim(js[d], os[d])
                   /\ os[d].at = js[d].at /\ os[d].said = js[d].said
                   /\ os[d].held = js[d].held \cup Holding(js[d].pair, b, f, c, t)
                   /\ os[d].steady <=> js[d].steady
                         /\ Holding(js[d].pair, b, f, c, t) = Now(js[d].pair)
  <2>1. CASE js[d] = Idle
    BY <2>1 DEF Observed, Jobs
  <2>2. CASE js[d] # Idle
    <3> DEFINE h == Holding(js[d].pair, b, f, c, t)
               n == Now(js[d].pair)
               o == [js[d] EXCEPT !.held = @ \cup h, !.steady = @ /\ h = n]
    <3>1. os[d] = o
      BY <2>2 DEF Observed
    <3>2. js[d] \in Job /\ h \subseteq Condition
      BY <2>2 DEF Jobs, Holding
    <3> HIDE DEF h, n
    <3>3. o \in Job
      BY <3>2 DEF Job
    <3>4. o # Idle
      BY <3>3, JobFields
    <3>5. /\ o.key = js[d].key /\ o.id = js[d].id /\ o.pair = js[d].pair /\ o.from = js[d].from
          /\ o.at = js[d].at /\ o.said = js[d].said
          /\ o.held = js[d].held \cup h /\ (o.steady <=> js[d].steady /\ h = n)
      BY <3>2 DEF Job
    <3>6. SameClaim(js[d], o)
      BY <3>5 DEF SameClaim
    <3>7. os[d] \in Jobs /\ os[d] \in Job /\ os[d] # Idle /\ SameClaim(js[d], os[d])
      BY <3>1, <3>3, <3>4, <3>6 DEF Jobs
    <3> HIDE DEF os, o
    <3>8. /\ os[d].at = js[d].at /\ os[d].said = js[d].said
          /\ os[d].held = js[d].held \cup h
          /\ os[d].steady <=> js[d].steady /\ h = n
      BY <3>1, <3>5
    <3>9. QED
      BY <2>2, <3>7, <3>8 DEF h, n
  <2>3. QED
    BY <2>1, <2>2
<1>2. os = [d \in Desk |-> os[d]]
  BY DEF Observed
<1> HIDE DEF os
<1>3. QED
  BY <1>1, <1>2 DEF os

\* What a commit does, before and after everybody has observed it.
LEMMA CommitIs ==
    ASSUME StoreInv, NEW d \in Desk, Commit(d)
    PROVE  /\ At(d, "commit") /\ Busy(d) /\ jobs[d] \in Job
           /\ DOMAIN messages' = DOMAIN messages \cup {jobs[d].id}
           /\ messages'[jobs[d].id] = Row(jobs[d])
           /\ \A i \in DOMAIN messages : i # jobs[d].id => messages'[i] = messages[i]
           /\ jobs[d].id \notin DOMAIN messages /\ jobs[d].id \in Id /\ jobs[d].id < nextId
           /\ messages' \in [DOMAIN messages' -> Message]
           /\ threads' = threads \cup {jobs[d].pair} /\ jobs[d].pair \in Pair
           /\ nextId' = nextId /\ files' = files /\ astray' = astray
           /\ blocked' = blocked /\ follows' = follows /\ closed' = closed
           /\ jobs' \in [Desk -> Jobs]
           /\ \A e \in Desk :
                 /\ Busy(e)' <=> Busy(e)
                 /\ Busy(e) => /\ jobs'[e].key = jobs[e].key /\ jobs'[e].id = jobs[e].id
                               /\ jobs'[e].pair = jobs[e].pair /\ jobs'[e].from = jobs[e].from
                               /\ jobs'[e].said = jobs[e].said
                               /\ jobs'[e].at = IF e = d THEN "sent" ELSE jobs[e].at
                               /\ jobs'[e].held = jobs[e].held
                                     \cup Holding(jobs[e].pair, blocked, follows, closed, threads')
                               /\ jobs'[e].steady <=> jobs[e].steady
                                     /\ Holding(jobs[e].pair, blocked, follows, closed, threads')
                                            = Now(jobs[e].pair)
<1> DEFINE js == [jobs EXCEPT ![d].at = "sent", ![d].fresh = FALSE]
           o == [jobs[d] EXCEPT !.at = "sent", !.fresh = FALSE]
<1>1. /\ At(d, "commit") /\ Busy(d)
      /\ messages' = [i \in DOMAIN messages \cup {jobs[d].id} |->
                         IF i = jobs[d].id THEN Row(jobs[d]) ELSE messages[i]]
      /\ threads' = threads \cup {jobs[d].pair}
      /\ nextId' = nextId /\ files' = files /\ astray' = astray
      /\ blocked' = blocked /\ follows' = follows /\ closed' = closed
      /\ jobs' = Observed(blocked, follows, closed, threads', js)
  BY DEF Commit, At, access
<1>2. jobs[d] \in Job /\ jobs \in [Desk -> Jobs] /\ messages \in [DOMAIN messages -> Message]
  BY <1>1, BusyJob DEF StoreInv, StoreTypes
<1>3. jobs[d].pair \in Pair /\ Row(jobs[d]) \in Message
  BY <1>2 DEF Job, Row, Message
<1>4. jobs[d].id \notin DOMAIN messages /\ jobs[d].id \in Id /\ jobs[d].id < nextId
  BY <1>1 DEF StoreInv, OwnIds
<1>5. js = [jobs EXCEPT ![d] = o]
  BY <1>2
<1>6. o \in Job /\ o.at = "sent" /\ o.key = jobs[d].key /\ o.id = jobs[d].id
      /\ o.pair = jobs[d].pair /\ o.from = jobs[d].from /\ o.said = jobs[d].said
      /\ o.held = jobs[d].held /\ o.steady = jobs[d].steady
  BY <1>2 DEF Job, Stage, Admitted
<1> HIDE DEF o, js
<1>7. /\ js \in [Desk -> Jobs] /\ js[d] = o /\ js[d] # Idle
      /\ \A e \in Desk : e # d => js[e] = jobs[e]
  BY <1>2, <1>5, <1>6, JobFields DEF Jobs
<1>8. PICK t : t = threads'
  OBVIOUS
<1>9. /\ jobs' \in [Desk -> Jobs]
      /\ \A e \in Desk :
            /\ js[e] = Idle => jobs'[e] = Idle
            /\ js[e] # Idle =>
                  /\ jobs'[e] \in Job /\ jobs'[e] # Idle
                  /\ SameClaim(js[e], jobs'[e])
                  /\ jobs'[e].at = js[e].at /\ jobs'[e].said = js[e].said
                  /\ jobs'[e].held = js[e].held \cup Holding(js[e].pair, blocked, follows, closed, t)
                  /\ jobs'[e].steady <=> js[e].steady
                        /\ Holding(js[e].pair, blocked, follows, closed, t) = Now(js[e].pair)
  BY <1>1, <1>7, <1>8, ObservedIs
<1>10. messages' \in [DOMAIN messages' -> Message]
  BY <1>1, <1>2, <1>3
<1>11. ASSUME NEW e \in Desk
       PROVE  /\ Busy(e)' <=> Busy(e)
              /\ Busy(e) => /\ jobs'[e].key = jobs[e].key /\ jobs'[e].id = jobs[e].id
                            /\ jobs'[e].pair = jobs[e].pair /\ jobs'[e].from = jobs[e].from
                            /\ jobs'[e].said = jobs[e].said
                            /\ jobs'[e].at = IF e = d THEN "sent" ELSE jobs[e].at
                            /\ jobs'[e].held = jobs[e].held
                                  \cup Holding(jobs[e].pair, blocked, follows, closed, t)
                            /\ jobs'[e].steady <=> jobs[e].steady
                                  /\ Holding(jobs[e].pair, blocked, follows, closed, t)
                                         = Now(jobs[e].pair)
  <2>1. CASE e = d
    BY <1>1, <1>6, <1>7, <1>9, <2>1, ZenonT(40) DEF Busy, SameClaim
  <2>2. CASE e # d
    BY <1>7, <1>9, <2>2 DEF Busy, SameClaim
  <2>3. QED
    BY <2>1, <2>2
<1>12. QED
  BY <1>1, <1>2, <1>3, <1>4, <1>8, <1>9, <1>10, <1>11

\* The committed row is new and its key nobody else's.
LEMMA CommitKeeps ==
    ASSUME StoreInv, NEW d \in Desk, Commit(d)
    PROVE  StoreInv'
<1> DEFINE id == jobs[d].id
<1>1. /\ At(d, "commit") /\ Busy(d) /\ jobs[d] \in Job
      /\ DOMAIN messages' = DOMAIN messages \cup {id} /\ messages'[id] = Row(jobs[d])
      /\ \A i \in DOMAIN messages : i # id => messages'[i] = messages[i]
      /\ id \notin DOMAIN messages /\ id \in Id /\ id < nextId
      /\ messages' \in [DOMAIN messages' -> Message]
      /\ threads' = threads \cup {jobs[d].pair} /\ jobs[d].pair \in Pair
      /\ nextId' = nextId /\ files' = files /\ astray' = astray
      /\ blocked' = blocked /\ follows' = follows /\ closed' = closed
      /\ jobs' \in [Desk -> Jobs]
  BY CommitIs
<1>2. \A e \in Desk :
         /\ Busy(e)' <=> Busy(e)
         /\ Busy(e) => /\ jobs'[e].key = jobs[e].key /\ jobs'[e].id = jobs[e].id
                       /\ Row(jobs'[e]) = Row(jobs[e])
                       /\ jobs'[e].at = IF e = d THEN "sent" ELSE jobs[e].at
  BY CommitIs DEF Row
<1>3. /\ At(d, "sent")' /\ ~At(d, "commit")' /\ ~At(d, "sent")
      /\ \A e \in Desk : e # d => \A s : At(e, s)' <=> At(e, s)
  BY <1>1, <1>2 DEF At
<1>4. \A k : /\ k \in KeysSent' <=> k \in KeysSent \/ k = jobs[d].key
             /\ k \in KeysHeld' <=> k \in KeysHeld
  <2> TAKE k
  <2>1. messages'[id].key = jobs[d].key
    BY <1>1 DEF Row
  <2> HIDE DEF id
  <2>2. k \in KeysSent' <=> k \in KeysSent \/ k = jobs[d].key
    BY <1>1, <2>1, KeySets
  <2>3. k \in KeysHeld' <=> k \in KeysHeld
    BY <1>2, KeySets
  <2>4. QED
    BY <2>2, <2>3
<1>5. jobs[d].key \in KeysHeld
  BY <1>1, KeySets
<1> HIDE DEF id
<1>6. StoreTypes'
  BY <1>1 DEF StoreInv, StoreTypes
<1>7. OwnIds'
  <2>1. \A i \in DOMAIN messages' : i < nextId'
    BY <1>1 DEF StoreInv, OwnIds
  <2>2. \A e \in Desk : e # d /\ At(e, "commit") => jobs[e].id # id
    BY <1>1 DEF StoreInv, OwnIds, id
  <2>3. \A e \in Desk : At(e, "commit")' =>
           jobs'[e].id \in Id /\ jobs'[e].id < nextId' /\ jobs'[e].id \notin DOMAIN messages'
    BY <1>1, <1>2, <1>3, <2>2 DEF StoreInv, OwnIds, At
  <2>4. \A e \in Desk : At(e, "sent")' =>
           jobs'[e].id \in DOMAIN messages' /\ messages'[jobs'[e].id] = Row(jobs'[e])
    <3> SUFFICES ASSUME NEW e \in Desk, At(e, "sent")'
                 PROVE  jobs'[e].id \in DOMAIN messages' /\ messages'[jobs'[e].id] = Row(jobs'[e])
      OBVIOUS
    <3>1. CASE e = d
      BY <1>1, <1>2, <3>1 DEF id
    <3>2. CASE e # d
      <4>1. At(e, "sent") /\ Busy(e)
        BY <1>3, <3>2 DEF At
      <4>2. jobs[e].id \in DOMAIN messages /\ messages[jobs[e].id] = Row(jobs[e])
        BY <4>1 DEF StoreInv, OwnIds
      <4>3. QED
        BY <1>1, <1>2, <4>1, <4>2
    <3>3. QED
      BY <3>1, <3>2
  <2>5. \A e, f \in Desk : (At(e, "commit")' \/ At(e, "sent")') /\ (At(f, "commit")' \/ At(f, "sent")')
                           /\ jobs'[e].id = jobs'[f].id => e = f
    <3>1. \A e \in Desk : At(e, "commit")' \/ At(e, "sent")' =>
              (At(e, "commit") \/ At(e, "sent")) /\ jobs'[e].id = jobs[e].id
      BY <1>1, <1>2, <1>3 DEF At
    <3>2. QED
      BY <3>1 DEF StoreInv, OwnIds
  <2>6. QED
    BY <2>1, <2>3, <2>4, <2>5 DEF OwnIds
<1>8. OwnKeys'
  <2>1. \A e \in Desk : e # d /\ Busy(e) /\ jobs[e].key # NoKey => jobs[e].key # jobs[d].key
    BY <1>1 DEF StoreInv, OwnKeys
  <2>2. QED
    BY <1>1, <1>2, <1>3, <1>4, <2>1 DEF StoreInv, OwnKeys
<1>9. FilesMatchRows'
  BY <1>1, <1>4, <1>5 DEF StoreInv, FilesMatchRows
<1>10. QED
  BY <1>6, <1>7, <1>8, <1>9 DEF StoreInv

-----------------------------------------------------------------------------
(* The gate, read by read.                                                 *)

\* The conditions that hold now, one by one.
LEMMA NowIs ==
    ASSUME NEW p
    PROVE  /\ Now(p) = Holding(p, blocked, follows, closed, threads)
           /\ Now(p) \subseteq Condition
           /\ "unblocked" \in Now(p) <=> p \notin blocked
           /\ "follower" \in Now(p) <=> p \in follows
           /\ "open" \in Now(p) <=> p[1] \notin closed
           /\ "thread" \in Now(p) <=> p \in threads
BY DEF Now, Holding, Condition

\* The conditions that hold after a step.
LEMMA NextNowIs ==
    ASSUME NEW p
    PROVE  Now(p)' = Holding(p, blocked', follows', closed', threads')
BY DEF Now

\* Where access and threads stay, requests that end disturb no other.
LEMMA UnwatchedKeep ==
    ASSUME GateInv, blocked' = blocked, follows' = follows, closed' = closed, threads' = threads,
           \A d \in Desk : jobs'[d] = jobs[d] \/ jobs'[d] = Idle
    PROVE  GateInv'
<1> SUFFICES ASSUME NEW d \in Desk, NEW j \in InFlight(d)'
             PROVE  Watched(j)' /\ Asked(j)
  BY DEF GateInv, Asked
<1>1. j \in InFlight(d)
  BY DEF InFlight
<1>2. Watched(j) /\ Asked(j)
  BY <1>1 DEF GateInv
<1>3. Now(j.pair)' = Now(j.pair)
  BY NowIs, NextNowIs
<1>4. QED
  BY <1>2, <1>3 DEF Watched

\* What a request has observed only grows, and nothing while it is steady.
LEMMA ObserverAsked ==
    ASSUME NEW j, NEW o, NEW h, Asked(j), o.from = j.from, o.said = j.said,
           o.held = j.held \cup h, o.steady => j.steady /\ h \subseteq j.held,
           o.at = j.at \/ (o.at = "sent" /\ j.at = "commit")
    PROVE  Asked(o)
<1>1. o.steady => o.held = j.held /\ j.steady
  OBVIOUS
<1>2. \A x : x \in j.held => x \in o.held
  OBVIOUS
<1>3. Allowed(j.held) => Allowed(o.held)
  BY <1>2 DEF Allowed
<1>4. \A s \in Admitted : o.at = s => j.at \in Admitted
  BY DEF Admitted
<1>5. QED
  BY <1>1, <1>2, <1>3, <1>4 DEF Asked, Admitted

\* One desk goes on to another stage.
LEMMA StageKeeps ==
    ASSUME StoreInv, GateInv, NEW d \in Desk, Busy(d), NEW o \in Job,
           jobs' = [jobs EXCEPT ![d] = o],
           SameClaim(jobs[d], o), o.held = jobs[d].held, o.steady = jobs[d].steady, Asked(o),
           UNCHANGED <<access, store, files, astray>>
    PROVE  StoreInv' /\ GateInv'
<1>1. /\ blocked' = blocked /\ follows' = follows /\ closed' = closed
      /\ threads' = threads /\ messages' = messages /\ nextId' = nextId
      /\ files' = files /\ astray' = astray
  BY DEF access, store
<1>2. /\ jobs' \in [Desk -> Jobs] /\ jobs'[d] = o /\ o # Idle
      /\ \A e \in Desk : e # d => jobs'[e] = jobs[e]
  BY JobFields DEF StoreInv, StoreTypes, Jobs
<1>3. \A e \in Desk : /\ Busy(e)' <=> Busy(e)
                      /\ Busy(e) => SameClaim(jobs[e], jobs'[e])
  BY <1>2 DEF Busy, SameClaim
<1>4. StoreInv'
  BY <1>1, <1>2, <1>3, StagesKeep DEF StoreInv, StoreTypes
<1>5. GateInv'
  <2> SUFFICES ASSUME NEW e \in Desk, NEW j \in InFlight(e)'
               PROVE  Watched(j)' /\ Asked(j)
    BY DEF GateInv, Asked
  <2>1. Now(j.pair)' = Now(j.pair)
    BY <1>1, NowIs, NextNowIs
  <2>2. CASE e = d
    <3>1. j = o
      BY <1>2, <2>2 DEF InFlight
    <3>2. Watched(jobs[d])
      BY DEF GateInv, InFlight, Busy
    <3>3. QED
      BY <2>1, <3>1, <3>2 DEF Watched, SameClaim
  <2>3. CASE e # d
    <3>1. j \in InFlight(e)
      BY <1>2, <2>3 DEF InFlight
    <3>2. QED
      BY <2>1, <3>1 DEF GateInv, Watched
  <2>4. QED
    BY <2>2, <2>3
<1>6. QED
  BY <1>4, <1>5

\* What every stage has read of what was there.
LEMMA InFlightIs ==
    ASSUME StoreInv, GateInv, NEW d \in Desk, Busy(d)
    PROVE  /\ jobs[d] \in Job /\ jobs \in [Desk -> Jobs]
           /\ Watched(jobs[d]) /\ Asked(jobs[d])
           /\ jobs[d].pair \notin blocked => "unblocked" \in jobs[d].held
           /\ jobs[d].pair \in follows => "follower" \in jobs[d].held
           /\ jobs[d].pair[1] \notin closed => "open" \in jobs[d].held
           /\ jobs[d].pair \in threads => "thread" \in jobs[d].held
           /\ jobs[d].steady =>
                 /\ jobs[d].pair \in blocked => "unblocked" \notin jobs[d].held
                 /\ jobs[d].pair \notin follows => "follower" \notin jobs[d].held
                 /\ jobs[d].pair[1] \in closed => "open" \notin jobs[d].held
                 /\ jobs[d].pair \notin threads => "thread" \notin jobs[d].held
<1>1. /\ jobs[d] \in Job /\ jobs \in [Desk -> Jobs]
      /\ Watched(jobs[d]) /\ Asked(jobs[d])
  BY BusyJob DEF StoreInv, StoreTypes, GateInv, InFlight, Busy
<1>2. PICK p : p = jobs[d].pair
  OBVIOUS
<1>3. /\ p \notin blocked <=> "unblocked" \in Now(p)
      /\ p \in follows <=> "follower" \in Now(p)
      /\ p[1] \notin closed <=> "open" \in Now(p)
      /\ p \in threads <=> "thread" \in Now(p)
  BY NowIs
<1>4. Now(p) \subseteq jobs[d].held /\ (jobs[d].steady => jobs[d].held = Now(p))
  BY <1>1, <1>2 DEF Watched
<1>5. QED
  BY <1>1, <1>2, <1>3, <1>4

\* A step of d from one stage to another, neither with a row of its own.
LEMMA GotoKeeps ==
    ASSUME StoreInv, GateInv, NEW d \in Desk, Busy(d), NEW s \in Stage, NEW fr \in BOOLEAN,
           jobs[d].at \notin {"commit", "sent"}, s \notin {"commit", "sent"},
           jobs' = [jobs EXCEPT ![d] = [jobs[d] EXCEPT !.at = s, !.fresh = fr]],
           Asked([jobs[d] EXCEPT !.at = s, !.fresh = fr]),
           UNCHANGED <<access, store, files, astray>>
    PROVE  StoreInv' /\ GateInv'
<1> DEFINE o == [jobs[d] EXCEPT !.at = s, !.fresh = fr]
<1>1. jobs[d] \in Job
  BY InFlightIs
<1>2. o \in Job
  BY <1>1 DEF Job
<1>3. /\ SameClaim(jobs[d], o) /\ o.held = jobs[d].held /\ o.steady = jobs[d].steady
  BY <1>1 DEF Job, SameClaim
<1> HIDE DEF o
<1>4. jobs' = [jobs EXCEPT ![d] = o] /\ Asked(o)
  BY DEF o
<1>5. QED
  BY <1>2, <1>3, <1>4, StageKeeps

\* Each read of the gate leads on only past a condition that held.
LEMMA GateStepsKeep ==
    ASSUME StoreInv, GateInv, NEW d \in Desk,
           Gate(d) \/ LookUp(d) \/ Follower(d) \/ Policy(d) \/ Open(d) \/ Insert(d)
    PROVE  StoreInv' /\ GateInv'
<1>1. Busy(d) /\ jobs[d].at \in {"gate", "thread", "follower", "policy", "open", "insert"}
  BY DEF Gate, LookUp, Follower, Policy, Open, Insert, Read, At
<1>2. /\ jobs[d] \in Job /\ jobs \in [Desk -> Jobs]
      /\ Watched(jobs[d]) /\ Asked(jobs[d])
      /\ jobs[d].pair \notin blocked => "unblocked" \in jobs[d].held
      /\ jobs[d].pair \in follows => "follower" \in jobs[d].held
      /\ jobs[d].pair[1] \notin closed => "open" \in jobs[d].held
      /\ jobs[d].pair \in threads => "thread" \in jobs[d].held
      /\ jobs[d].steady =>
            /\ jobs[d].pair \in blocked => "unblocked" \notin jobs[d].held
            /\ jobs[d].pair \notin follows => "follower" \notin jobs[d].held
            /\ jobs[d].pair[1] \in closed => "open" \notin jobs[d].held
            /\ jobs[d].pair \notin threads => "thread" \notin jobs[d].held
  BY <1>1, InFlightIs
<1>3. jobs[d].fresh \in BOOLEAN
  BY <1>2 DEF Job
<1>4. ASSUME NEW s
      PROVE  [jobs EXCEPT ![d].at = s] =
                 [jobs EXCEPT ![d] = [jobs[d] EXCEPT !.at = s, !.fresh = jobs[d].fresh]]
  <2>1. [jobs[d] EXCEPT !.at = s] = [jobs[d] EXCEPT !.at = s, !.fresh = jobs[d].fresh]
    BY <1>2 DEF Job
  <2>2. [jobs EXCEPT ![d].at = s] = [jobs EXCEPT ![d] = [jobs[d] EXCEPT !.at = s]]
    BY <1>2
  <2>3. QED
    BY <2>1, <2>2
<1>5. ASSUME NEW s, NEW fr
      PROVE  LET o == [jobs[d] EXCEPT !.at = s, !.fresh = fr] IN
             /\ o.at = s /\ o.from = jobs[d].from /\ o.said = jobs[d].said
             /\ o.held = jobs[d].held /\ o.steady = jobs[d].steady
  BY <1>2 DEF Job
<1>6. ASSUME NEW s \in Stage \ {"commit", "sent"}, NEW fr \in BOOLEAN,
             jobs' = [jobs EXCEPT ![d] = [jobs[d] EXCEPT !.at = s, !.fresh = fr]],
             UNCHANGED <<access, store, files, astray>>,
             jobs[d].from \in Subscriber =>
                /\ s \in {"thread", "follower", "policy"} \cup Admitted
                       => "unblocked" \in jobs[d].held
                /\ s = "policy" => "follower" \in jobs[d].held
                /\ s \in {"follower", "policy"} /\ jobs[d].steady => "thread" \notin jobs[d].held
                /\ s \in Admitted => Allowed(jobs[d].held)
                /\ s = "refused" /\ jobs[d].steady => ~Allowed(jobs[d].held)
      PROVE  StoreInv' /\ GateInv'
  <2> DEFINE o == [jobs[d] EXCEPT !.at = s, !.fresh = fr]
  <2>1. /\ o.at = s /\ o.from = jobs[d].from /\ o.said = jobs[d].said
        /\ o.held = jobs[d].held /\ o.steady = jobs[d].steady
    BY <1>5
  <2> HIDE DEF o
  <2>2. Asked(o)
    BY <1>2, <1>6, <2>1 DEF Asked
  <2>3. QED
    BY <1>1, <1>6, <2>2, GotoKeeps DEF o
<1>7. CASE Gate(d)
  <2> DEFINE s == IF jobs[d].pair \notin blocked THEN "thread" ELSE "refused"
  <2>1. jobs' = [jobs EXCEPT ![d].at = s] /\ UNCHANGED <<access, store, files, astray>>
    BY <1>7 DEF Gate, Read, Goto
  <2>2. jobs' = [jobs EXCEPT ![d] = [jobs[d] EXCEPT !.at = s, !.fresh = jobs[d].fresh]]
    BY <1>4, <2>1
  <2>3. s \in Stage \ {"commit", "sent"} /\ s \notin Admitted
    BY DEF Stage, Asking, Admitted
  <2>4. jobs[d].from \in Subscriber =>
           /\ s = "thread" => "unblocked" \in jobs[d].held
           /\ s = "refused" /\ jobs[d].steady => ~Allowed(jobs[d].held)
    BY <1>2 DEF Allowed
  <2>5. s = "thread" \/ s = "refused"
    OBVIOUS
  <2> HIDE DEF s
  <2>6. QED
    BY <1>3, <1>6, <2>1, <2>2, <2>3, <2>4, <2>5
<1>8. CASE LookUp(d)
  <2> DEFINE s == IF jobs[d].pair \in threads THEN "open" ELSE "follower"
  <2>1. /\ jobs' = [jobs EXCEPT ![d].at = s] /\ UNCHANGED <<access, store, files, astray>>
        /\ jobs[d].at = "thread"
    BY <1>8 DEF LookUp, Goto, At
  <2>2. jobs' = [jobs EXCEPT ![d] = [jobs[d] EXCEPT !.at = s, !.fresh = jobs[d].fresh]]
    BY <1>4, <2>1
  <2>3. s \in Stage \ {"commit", "sent"}
    BY DEF Stage, Asking, Admitted
  <2>4. jobs[d].from \in Subscriber =>
           /\ "unblocked" \in jobs[d].held
           /\ s = "open" => Allowed(jobs[d].held)
           /\ s = "follower" /\ jobs[d].steady => "thread" \notin jobs[d].held
    BY <1>2, <2>1 DEF Allowed, Asked
  <2>5. s = "open" \/ (s = "follower" /\ s \notin Admitted)
    BY DEF Admitted
  <2> HIDE DEF s
  <2>6. QED
    BY <1>3, <1>6, <2>1, <2>2, <2>3, <2>4, <2>5
<1>9. CASE Follower(d)
  <2> DEFINE s == IF jobs[d].pair \in follows THEN "policy" ELSE "refused"
  <2>1. /\ jobs' = [jobs EXCEPT ![d].at = s] /\ UNCHANGED <<access, store, files, astray>>
        /\ jobs[d].at = "follower"
    BY <1>9 DEF Follower, Read, Goto, At
  <2>2. jobs' = [jobs EXCEPT ![d] = [jobs[d] EXCEPT !.at = s, !.fresh = jobs[d].fresh]]
    BY <1>4, <2>1
  <2>3. s \in Stage \ {"commit", "sent"} /\ s \notin Admitted
    BY DEF Stage, Asking, Admitted
  <2>4. jobs[d].from \in Subscriber =>
           /\ "unblocked" \in jobs[d].held
           /\ jobs[d].steady => "thread" \notin jobs[d].held
           /\ s = "policy" => "follower" \in jobs[d].held
           /\ s = "refused" /\ jobs[d].steady => ~Allowed(jobs[d].held)
    BY <1>2, <2>1 DEF Allowed, Asked
  <2>5. s = "policy" \/ s = "refused"
    OBVIOUS
  <2> HIDE DEF s
  <2>6. QED
    BY <1>3, <1>6, <2>1, <2>2, <2>3, <2>4, <2>5
<1>10. CASE Policy(d)
  <2> DEFINE s == IF jobs[d].pair[1] \notin closed THEN "open" ELSE "refused"
  <2>1. /\ jobs' = [jobs EXCEPT ![d].at = s] /\ UNCHANGED <<access, store, files, astray>>
        /\ jobs[d].at = "policy"
    BY <1>10 DEF Policy, Read, Goto, At
  <2>2. jobs' = [jobs EXCEPT ![d] = [jobs[d] EXCEPT !.at = s, !.fresh = jobs[d].fresh]]
    BY <1>4, <2>1
  <2>3. s \in Stage \ {"commit", "sent"}
    BY DEF Stage, Asking, Admitted
  <2>4. jobs[d].from \in Subscriber =>
           /\ "unblocked" \in jobs[d].held
           /\ s = "open" => Allowed(jobs[d].held)
           /\ s = "refused" /\ jobs[d].steady => ~Allowed(jobs[d].held)
    BY <1>2, <2>1 DEF Allowed, Asked
  <2>5. s = "open" \/ (s = "refused" /\ s \notin Admitted)
    BY DEF Admitted
  <2> HIDE DEF s
  <2>6. QED
    BY <1>3, <1>6, <2>1, <2>2, <2>3, <2>4, <2>5
<1>11. CASE Open(d) \/ Insert(d)
  <2>1. PICK s \in {"write", "insert"}, fr \in BOOLEAN :
           /\ jobs' = [jobs EXCEPT ![d] = [jobs[d] EXCEPT !.at = s, !.fresh = fr]]
           /\ UNCHANGED <<access, store, files, astray>>
           /\ jobs[d].at \in {"open", "insert"}
    <3>1. CASE Open(d)
      <4> DEFINE s == IF jobs[d].pair \in threads THEN "write" ELSE "insert"
      <4>1. /\ jobs' = [jobs EXCEPT ![d].at = s] /\ UNCHANGED <<access, store, files, astray>>
            /\ jobs[d].at = "open" /\ s \in {"write", "insert"}
        BY <3>1 DEF Open, Goto, At
      <4> HIDE DEF s
      <4>2. QED
        BY <1>3, <1>4, <4>1
    <3>2. CASE Insert(d)
      <4> DEFINE fr == jobs[d].pair \notin threads
      <4>1. /\ jobs' = [jobs EXCEPT ![d].at = "write", ![d].fresh = fr]
            /\ UNCHANGED <<access, store, files, astray>>
            /\ jobs[d].at = "insert" /\ fr \in BOOLEAN
        BY <3>2 DEF Insert, At
      <4> HIDE DEF fr
      <4>2. jobs' = [jobs EXCEPT ![d] = [jobs[d] EXCEPT !.at = "write", !.fresh = fr]]
        BY <1>2, <4>1
      <4>3. QED
        BY <4>1, <4>2
    <3>3. QED
      BY <1>11, <3>1, <3>2
  <2>2. jobs[d].from \in Subscriber => "unblocked" \in jobs[d].held /\ Allowed(jobs[d].held)
    BY <1>2, <2>1 DEF Asked, Allowed, Admitted
  <2>3. s \in Stage \ {"commit", "sent"}
    BY DEF Stage, Asking, Admitted
  <2>4. QED
    BY <1>6, <2>1, <2>2, <2>3
<1>12. QED
  BY <1>7, <1>8, <1>9, <1>10, <1>11

\* Drawing an id changes nothing of what was read.
LEMMA WriteGate ==
    ASSUME StoreInv, GateInv, NEW d \in Desk, Write(d)
    PROVE  GateInv'
<1> DEFINE o == [jobs[d] EXCEPT !.at = "commit", !.id = nextId]
<1>1. /\ At(d, "write") /\ Busy(d)
      /\ jobs' = [jobs EXCEPT ![d].at = "commit", ![d].id = nextId]
      /\ blocked' = blocked /\ follows' = follows /\ closed' = closed /\ threads' = threads
  BY DEF Write, access, At
<1>2. jobs[d] \in Job /\ jobs \in [Desk -> Jobs] /\ Watched(jobs[d]) /\ Asked(jobs[d])
  BY <1>1, InFlightIs
<1>3. jobs' = [jobs EXCEPT ![d] = o]
  BY <1>1, <1>2
<1>4. /\ o.at = "commit" /\ o.pair = jobs[d].pair /\ o.from = jobs[d].from
      /\ o.said = jobs[d].said /\ o.held = jobs[d].held /\ o.steady = jobs[d].steady
  BY <1>2 DEF Job
<1> HIDE DEF o
<1>5. jobs[d].at = "write"
  BY <1>1 DEF At
<1>6. Asked(o)
  BY <1>2, <1>4, <1>5 DEF Asked, Admitted
<1> SUFFICES ASSUME NEW e \in Desk, NEW j \in InFlight(e)'
             PROVE  Watched(j)' /\ Asked(j)
  BY DEF GateInv, Asked
<1>7. Now(j.pair)' = Now(j.pair)
  BY <1>1, NowIs, NextNowIs
<1>8. CASE e = d
  <2>1. j = o
    BY <1>2, <1>3, <1>8 DEF InFlight
  <2>2. QED
    BY <1>2, <1>4, <1>6, <1>7, <2>1 DEF Watched
<1>9. CASE e # d
  <2>1. j \in InFlight(e)
    BY <1>2, <1>3, <1>9 DEF InFlight
  <2>2. QED
    BY <1>7, <2>1 DEF GateInv, Watched
<1>10. QED
  BY <1>8, <1>9

\* A commit may open a thread, which every other request observes.
LEMMA CommitGate ==
    ASSUME StoreInv, GateInv, NEW d \in Desk, Commit(d)
    PROVE  GateInv'
<1> SUFFICES ASSUME NEW e \in Desk, NEW o \in InFlight(e)'
             PROVE  Watched(o)' /\ Asked(o)
  BY DEF GateInv, Asked
<1>1. PICK t : t = threads'
  OBVIOUS
<1>2. PICK j : j = jobs[e]
  OBVIOUS
<1> DEFINE h == Holding(j.pair, blocked, follows, closed, t)
<1>3. o = jobs'[e] /\ Busy(e)' /\ Busy(e)
  BY CommitIs DEF InFlight, Busy
<1>4. /\ blocked' = blocked /\ follows' = follows /\ closed' = closed
      /\ At(d, "commit")
      /\ o.pair = j.pair /\ o.from = j.from /\ o.said = j.said
      /\ o.at = (IF e = d THEN "sent" ELSE j.at)
      /\ o.held = j.held \cup h /\ (o.steady <=> j.steady /\ h = Now(j.pair))
  BY <1>1, <1>2, <1>3, CommitIs
<1>5. Watched(j) /\ Asked(j)
  BY <1>2, <1>3 DEF GateInv, InFlight, Busy
<1>6. Now(o.pair)' = h
  BY <1>1, <1>4, NextNowIs
<1> HIDE DEF h
<1>7. o.at = j.at \/ (o.at = "sent" /\ j.at = "commit")
  BY <1>2, <1>4 DEF At
<1>8. Watched(o)'
  BY <1>4, <1>5, <1>6 DEF Watched
<1>9. Asked(o)
  BY <1>4, <1>5, <1>7, ObserverAsked DEF Watched
<1>10. QED
  BY <1>8, <1>9

\* Blocks, follows and the policy change and every request observes it.
LEMMA ChangeKeeps ==
    ASSUME StoreInv, GateInv, Change
    PROVE  StoreInv' /\ GateInv'
<1>1. /\ jobs' = Observed(blocked', follows', closed', threads', jobs)
      /\ threads' = threads /\ messages' = messages /\ nextId' = nextId
      /\ files' = files /\ astray' = astray
  BY DEF Change, store
<1>2. blocked' \subseteq Pair /\ follows' \subseteq Pair /\ closed' \subseteq Creator
  BY DEF Change, Toggle, StoreInv, StoreTypes
<1>3. PICK b, f, c : b = blocked' /\ f = follows' /\ c = closed'
  OBVIOUS
<1>4. jobs \in [Desk -> Jobs]
  BY DEF StoreInv, StoreTypes
<1>5. /\ jobs' \in [Desk -> Jobs]
      /\ \A d \in Desk :
            /\ jobs[d] = Idle => jobs'[d] = Idle
            /\ jobs[d] # Idle =>
                  /\ jobs'[d] \in Job /\ jobs'[d] # Idle
                  /\ SameClaim(jobs[d], jobs'[d])
                  /\ jobs'[d].at = jobs[d].at /\ jobs'[d].said = jobs[d].said
                  /\ jobs'[d].held = jobs[d].held \cup Holding(jobs[d].pair, b, f, c, threads)
                  /\ jobs'[d].steady <=> jobs[d].steady
                        /\ Holding(jobs[d].pair, b, f, c, threads) = Now(jobs[d].pair)
  BY <1>1, <1>3, <1>4, ObservedIs
<1>6. StoreInv'
  BY <1>1, <1>2, <1>5, StagesKeep DEF Busy
<1>7. GateInv'
  <2> SUFFICES ASSUME NEW d \in Desk, NEW o \in InFlight(d)'
               PROVE  Watched(o)' /\ Asked(o)
    BY DEF GateInv, Asked
  <2>1. PICK j : j = jobs[d]
    OBVIOUS
  <2> DEFINE h == Holding(j.pair, b, f, c, threads)
  <2>2. o = jobs'[d] /\ jobs[d] # Idle
    BY <1>5 DEF InFlight
  <2>3. /\ o.pair = j.pair /\ o.from = j.from /\ o.at = j.at /\ o.said = j.said
        /\ o.held = j.held \cup h /\ (o.steady <=> j.steady /\ h = Now(j.pair))
    BY <1>5, <2>1, <2>2 DEF SameClaim
  <2>4. Watched(j) /\ Asked(j)
    BY <2>1, <2>2 DEF GateInv, InFlight
  <2>5. Now(o.pair)' = h
    BY <1>1, <1>3, <2>3, NextNowIs
  <2> HIDE DEF h
  <2>6. Watched(o)'
    BY <2>3, <2>4, <2>5 DEF Watched
  <2>7. Asked(o)
    BY <2>3, <2>4, ObserverAsked DEF Watched
  <2>8. QED
    BY <2>6, <2>7
<1>8. QED
  BY <1>6, <1>7

\* What messages_status answers a subscriber is what the gate would.
LEMMA StatusIsGate ==
    ASSUME StoreInv, NEW from \in Subscriber, NEW to \in User, NEW p, p = <<to, from>>, p \in Pair
    PROVE  CanMessage(from, to) <=> Allowed(Now(p))
<1>1. from \notin Creator /\ to \in Creator /\ to # from /\ p[1] = to
  BY RoleAssumption DEF Pair
<1>2. HasConversation(from, to) <=> p \in threads
  BY <1>1 DEF HasConversation, StoreInv, StoreTypes, Pair
<1>3. QED
  BY <1>1, <1>2, NowIs DEF CanMessage, Allowed

\* A request starts out with what messages_status says to its sender.
LEMMA BeginGate ==
    ASSUME StoreInv, GateInv, NEW d \in Desk, NEW from \in User, NEW to \in User, NEW key,
           Begin(d, from, to, key)
    PROVE  GateInv'
<1> DEFINE q == IF from \in Creator THEN <<from, to>> ELSE <<to, from>>
<1>1. PICK p : p = q
  OBVIOUS
<1> DEFINE o == [at |-> IF from \in Creator THEN "open" ELSE "gate",
                 pair |-> p, from |-> from, key |-> key, id |-> 0, fresh |-> FALSE,
                 said |-> CanMessage(from, to), steady |-> TRUE, held |-> Now(p)]
<1>2. /\ p \in Pair /\ jobs' = [jobs EXCEPT ![d] = o]
      /\ blocked' = blocked /\ follows' = follows /\ closed' = closed /\ threads' = threads
  BY <1>1 DEF Begin, access, store
<1>3. /\ o.pair = p /\ o.from = from /\ o.at = (IF from \in Creator THEN "open" ELSE "gate")
      /\ (o.said <=> CanMessage(from, to)) /\ o.steady = TRUE /\ o.held = Now(p)
  OBVIOUS
<1> HIDE DEF o
<1>4. Asked(o)
  <2> SUFFICES ASSUME from \in Subscriber
               PROVE  Asked(o)
    BY <1>3 DEF Asked
  <2>1. from \notin Creator /\ p = <<to, from>>
    BY <1>1, RoleAssumption
  <2>2. CanMessage(from, to) <=> Allowed(Now(p))
    BY <1>2, <2>1, StatusIsGate
  <2>3. o.at = "gate" /\ "gate" \notin Admitted
    BY <1>3, <2>1 DEF Admitted
  <2>4. QED
    BY <1>3, <2>2, <2>3 DEF Asked
<1>5. jobs \in [Desk -> Jobs]
  BY DEF StoreInv, StoreTypes
<1> SUFFICES ASSUME NEW e \in Desk, NEW j \in InFlight(e)'
             PROVE  Watched(j)' /\ Asked(j)
  BY DEF GateInv, Asked
<1>6. Now(j.pair)' = Now(j.pair)
  BY <1>2, NowIs, NextNowIs
<1>7. CASE e = d
  <2>1. j = o
    BY <1>2, <1>5, <1>7 DEF InFlight
  <2>2. Now(p)' = Now(p)
    BY <1>2, NowIs, NextNowIs
  <2>3. QED
    BY <1>3, <1>4, <1>6, <2>1, <2>2 DEF Watched
<1>8. CASE e # d
  <2>1. j \in InFlight(e)
    BY <1>2, <1>5, <1>8 DEF InFlight
  <2>2. QED
    BY <1>6, <2>1 DEF GateInv, Watched
<1>9. QED
  BY <1>7, <1>8

\* A request answered, broken off or refused.
LEMMA EndsGate ==
    ASSUME StoreInv, GateInv, NEW d \in Desk,
           \/ Drop(d) \/ RefreshFails(d) \/ AckFails(d) \/ StartPush(d)
    PROVE  GateInv'
<1>1. /\ jobs' = [jobs EXCEPT ![d] = Idle]
      /\ blocked' = blocked /\ follows' = follows /\ closed' = closed /\ threads' = threads
  BY DEF Drop, RefreshFails, AckFails, StartPush, access, store
<1>2. \A e \in Desk : jobs'[e] = jobs[e] \/ jobs'[e] = Idle
  BY <1>1 DEF StoreInv, StoreTypes
<1>3. QED
  BY <1>1, <1>2, UnwatchedKeep

\* A request handed to the push, or nobody to acknowledge it to.
LEMMA AnsweredKeeps ==
    ASSUME StoreInv, NEW d \in Desk, AckFails(d) \/ StartPush(d)
    PROVE  StoreInv'
<1>1. /\ At(d, "sent") /\ jobs' = [jobs EXCEPT ![d] = Idle]
      /\ blocked' = blocked /\ follows' = follows /\ closed' = closed
      /\ threads' = threads /\ messages' = messages /\ nextId' = nextId
      /\ files' = files /\ astray' = astray
  BY DEF AckFails, StartPush, access, store
<1>2. /\ jobs' \in [Desk -> Jobs] /\ jobs'[d] = Idle
      /\ \A e \in Desk : e # d => jobs'[e] = jobs[e]
  BY <1>1 DEF StoreInv, StoreTypes, Jobs
<1> DEFINE gone == {d}
<1>3. /\ gone \in SUBSET Desk
      /\ \A e \in Desk : IF e \in gone THEN jobs'[e] = Idle ELSE jobs'[e] = jobs[e]
      /\ files' \subseteq files /\ astray \subseteq astray'
      /\ astray' \ astray = {} /\ files \ files' = {}
      /\ \A e \in gone : At(e, "sent") /\ files' = files
  BY <1>1, <1>2
<1> HIDE DEF gone
<1>4. QED
  BY <1>1, <1>2, <1>3, EndsKeep

\* A crash leaves uploads behind, and no row half committed.
LEMMA CrashKeeps ==
    ASSUME StoreInv, GateInv, NEW p \in Process, Crash(p)
    PROVE  StoreInv' /\ GateInv'
<1> DEFINE gone == {d \in Desk : Home[d] = p}
           lost == {jobs[d].key : d \in {e \in gone : Busy(e) /\ ~At(e, "sent")}} \ {NoKey}
<1>1. /\ jobs' = [d \in Desk |-> IF d \in gone THEN Idle ELSE jobs[d]]
      /\ astray' = astray \cup lost
      /\ blocked' = blocked /\ follows' = follows /\ closed' = closed
      /\ threads' = threads /\ messages' = messages /\ nextId' = nextId /\ files' = files
  BY DEF Crash, access, store
<1>2. /\ jobs' \in [Desk -> Jobs] /\ gone \in SUBSET Desk
      /\ \A d \in Desk : IF d \in gone THEN jobs'[d] = Idle ELSE jobs'[d] = jobs[d]
  BY <1>1 DEF StoreInv, StoreTypes, Jobs
<1>3. \A k \in lost : k \in Key /\ \E d \in gone : Busy(d) /\ jobs[d].key = k
  BY BusyJob, JobFields
<1>4. \A d \in gone : Busy(d) /\ jobs[d].key # NoKey => At(d, "sent") \/ jobs[d].key \in lost
  OBVIOUS
<1> HIDE DEF gone, lost
<1>5. StoreInv'
  BY <1>1, <1>2, <1>3, <1>4, EndsKeep
<1>6. GateInv'
  BY <1>1, <1>2, UnwatchedKeep
<1>7. QED
  BY <1>5, <1>6

-----------------------------------------------------------------------------
(* Scrolling.                                                              *)

\* What a reader is made of.
LEMMA ReadingFields ==
    ASSUME NEW r \in Reading
    PROVE  /\ r.at \in {"page", "more", "end"} /\ r.pair \in Pair
           /\ r.before \in 1 .. MaxMessages + 1 /\ r.seen \in Seq(Id) /\ r.due \subseteq Id
           /\ r # Resting
BY DEF Reading, Resting

\* The messages of a thread, before and after a step.
LEMMA Threaded ==
    ASSUME NEW p, NEW i
    PROVE  /\ i \in InThread(p) <=> i \in DOMAIN messages /\ messages[i].pair = p
           /\ i \in InThread(p)' <=> i \in DOMAIN messages' /\ messages'[i].pair = p
BY DEF InThread

\* Messages are only ever added, and a reader at rest or midway keeps his place.
LEMMA ReaderUntouched ==
    ASSUME ReaderInv, reader' = reader, DOMAIN messages \subseteq DOMAIN messages',
           \A i \in DOMAIN messages : messages'[i] = messages[i]
    PROVE  ReaderInv'
<1> SUFFICES ASSUME NEW r, r = reader, r # Resting
             PROVE  Scrolled(r)'
  BY DEF ReaderInv
<1>1. Scrolled(r)
  BY DEF ReaderInv
<1>2. \A i : i \in InThread(r.pair) => i \in InThread(r.pair)'
  BY Threaded
<1>3. QED
  BY <1>1, <1>2 DEF Scrolled

\* A page: descending, and nothing above its last message is missing.
LEMMA PageIs ==
    ASSUME NEW ids \in SUBSET Id, NEW page \in Newest(ids)
    PROVE  /\ page \in Seq(ids) /\ page \in Seq(Id)
           /\ \A k \in 1 .. Len(page) : page[k] \in ids
           /\ \A k, l \in 1 .. Len(page) : k < l => page[k] > page[l]
           /\ Len(page) = 0 => ids = {}
           /\ Len(page) # 0 => \A i \in ids :
                  (\E k \in 1 .. Len(page) : page[k] = i) \/ i < page[Len(page)]
<1>1. PICK n \in 0 .. PageSize : page \in [1 .. n -> ids]
  BY DEF Newest
<1>2. n \in Nat /\ PageSize \in Nat \ {0} /\ n <= PageSize
  BY PageAssumption
<1>3. page \in Seq(ids) /\ Len(page) = n /\ DOMAIN page = 1 .. n
  BY <1>1, <1>2
<1>4. \A i, j \in DOMAIN page : i < j => page[i] > page[j]
  BY DEF Newest
<1>5. \A i \in ids : \/ \E k \in DOMAIN page : page[k] = i
                     \/ Len(page) = PageSize /\ page[PageSize] > i
  BY DEF Newest
<1>6. \A k \in 1 .. n : page[k] \in ids /\ page[k] \in Int
  <2>1. \A i \in ids : i \in Int
    BY DEF Id
  <2>2. QED
    BY <1>1, <2>1
<1>7. page \in Seq(Id)
  BY <1>3, SeqMonotonic
<1>8. n = 0 => ids = {}
  BY <1>2, <1>3, <1>5
<1>9. n # 0 => \A i \in ids : (\E k \in 1 .. n : page[k] = i) \/ i < page[n]
  BY <1>2, <1>3, <1>5, <1>6 DEF Id
<1>10. QED
  BY <1>3, <1>4, <1>6, <1>7, <1>8, <1>9

\* At first nothing is due above the cursor.
LEMMA StartReadingKeeps ==
    ASSUME StoreInv, ReaderInv, NEW p \in Pair, StartReading(p)
    PROVE  ReaderInv'
<1>1. PICK r : r = [at |-> "page", pair |-> p, before |-> MaxMessages + 1,
                    seen |-> <<>>, due |-> InThread(p)]
  OBVIOUS
<1>2. reader' = r /\ messages' = messages
  BY <1>1 DEF StartReading, store
<1>3. InThread(p) \subseteq Id
  BY DEF StoreInv, StoreTypes, InThread
<1>4. MaxMessages + 1 \in 1 .. MaxMessages + 1
  BY PageAssumption
<1>5. r \in Reading
  BY <1>1, <1>3, <1>4 DEF Reading
<1>6. r.at = "page" /\ r.pair = p /\ r.before = MaxMessages + 1
      /\ Len(r.seen) = 0 /\ r.due = InThread(p)
  BY <1>1
<1>7. \A i \in r.due : i \in Int /\ ~(i >= MaxMessages + 1)
  BY <1>3, <1>6, PageAssumption DEF Id
<1>8. InThread(p)' = InThread(p)
  BY <1>2 DEF InThread
<1>9. Scrolled(r)'
  BY <1>6, <1>7, <1>8 DEF Scrolled
<1>10. QED
  BY <1>2, <1>5, <1>9 DEF ReaderInv

\* A page continues what was shown, down to its last message.
LEMMA ReadPageKeeps ==
    ASSUME StoreInv, ReaderInv, ReadPage
    PROVE  ReaderInv'
<1>1. PICK r : r = reader
  OBVIOUS
<1>2. /\ r.at = "page" /\ messages' = messages
  BY <1>1 DEF ReadPage, store
<1>3. PICK page \in Newest(Older(r)) :
         reader' = IF Len(page) = 0 THEN [r EXCEPT !.at = "end"]
                   ELSE [r EXCEPT !.at = "more", !.seen = @ \o page,
                                  !.before = page[Len(page)]]
  BY <1>1 DEF ReadPage
<1>4. r \in Reading /\ Scrolled(r)
  BY <1>1, <1>2 DEF ReaderInv, Resting
<1>5. /\ r.pair \in Pair /\ r.before \in 1 .. MaxMessages + 1
      /\ r.seen \in Seq(Id) /\ r.due \subseteq Id /\ r.before \in Int
  BY <1>4, ReadingFields
<1>6. InThread(r.pair) \subseteq Id
  BY DEF StoreInv, StoreTypes, InThread
<1>7. Older(r) \in SUBSET Id /\ Older(r) \subseteq InThread(r.pair)
      /\ \A i \in InThread(r.pair) : i \in Older(r) <=> i < r.before
  BY <1>6 DEF Older
<1>8. /\ page \in Seq(Id)
      /\ \A k \in 1 .. Len(page) : page[k] \in Older(r)
      /\ \A k, l \in 1 .. Len(page) : k < l => page[k] > page[l]
      /\ Len(page) = 0 => Older(r) = {}
      /\ Len(page) # 0 => \A i \in Older(r) :
             (\E k \in 1 .. Len(page) : page[k] = i) \/ i < page[Len(page)]
  BY <1>7, PageIs
<1>9. InThread(r.pair)' = InThread(r.pair)
  BY <1>2 DEF InThread
<1>10. CASE Len(page) = 0
  <2> DEFINE o == [r EXCEPT !.at = "end"]
  <2>1. reader' = o
    BY <1>3, <1>10
  <2>2. o \in Reading
    BY <1>4 DEF Reading
  <2>3. o.pair = r.pair /\ o.before = r.before /\ o.seen = r.seen /\ o.due = r.due
    BY <1>4 DEF Reading
  <2> HIDE DEF o
  <2>4. \A i \in r.due : i >= r.before
    <3>1. \A i \in r.due : i \in InThread(r.pair) /\ i \in Int
      BY <1>4, <1>5 DEF Scrolled, Id
    <3>2. QED
      BY <1>5, <1>7, <1>8, <1>10, <3>1
  <2>5. Scrolled(o)'
    BY <1>4, <1>9, <2>3, <2>4 DEF Scrolled
  <2>6. QED
    BY <2>1, <2>2, <2>5 DEF ReaderInv
<1>11. CASE Len(page) # 0
  <2> DEFINE o == [r EXCEPT !.at = "more", !.seen = @ \o page, !.before = page[Len(page)]]
             n == Len(r.seen)
             m == Len(page)
  <2>1. reader' = o
    BY <1>3, <1>11
  <2>2. n \in Nat /\ m \in Nat /\ m # 0 /\ m \in 1 .. m
    BY <1>5, <1>8, <1>11, LenProperties
  <2>3. /\ r.seen \o page \in Seq(Id) /\ Len(r.seen \o page) = n + m
        /\ \A k \in 1 .. n + m : (r.seen \o page)[k] =
              IF k <= n THEN r.seen[k] ELSE page[k - n]
    BY <1>5, <1>8, ConcatProperties
  <2>4. page[m] \in 1 .. MaxMessages + 1 /\ page[m] \in Int /\ page[m] < r.before
        /\ \A k \in 1 .. m : page[k] \in Int /\ page[k] >= page[m] /\ page[k] < r.before
    <3>1. \A k \in 1 .. m : page[k] \in Id /\ page[k] \in Older(r) /\ page[k] < r.before
      BY <1>7, <1>8
    <3>2. \A k \in 1 .. m : page[k] \in Int /\ page[k] >= page[m]
      BY <1>8, <2>2, <3>1 DEF Id
    <3>3. QED
      BY <2>2, <3>1, <3>2, PageAssumption DEF Id
  <2>5. o \in Reading
    BY <1>4, <2>3, <2>4 DEF Reading
  <2>6. o.at = "more" /\ o.pair = r.pair /\ o.before = page[m] /\ o.seen = r.seen \o page
        /\ o.due = r.due
    BY <1>4 DEF Reading
  <2> HIDE DEF o
  <2>7. /\ \A k \in 1 .. n : r.seen[k] \in Int /\ r.seen[k] >= r.before
              /\ r.seen[k] \in InThread(r.pair)
        /\ \A k, l \in 1 .. n : k < l => r.seen[k] > r.seen[l]
        /\ \A i \in r.due : i >= r.before => \E k \in 1 .. n : r.seen[k] = i
        /\ r.due \subseteq InThread(r.pair)
    BY <1>4, <1>6 DEF Scrolled, Id
  <2>8. \A k, l \in 1 .. n + m : k < l => (r.seen \o page)[k] > (r.seen \o page)[l]
    <3> SUFFICES ASSUME NEW k \in 1 .. n + m, NEW l \in 1 .. n + m, k < l
                 PROVE  (r.seen \o page)[k] > (r.seen \o page)[l]
      OBVIOUS
    <3>1. CASE l <= n
      <4>1. k \in 1 .. n /\ l \in 1 .. n
        BY <2>2, <3>1
      <4>2. QED
        BY <2>2, <2>3, <2>7, <4>1
    <3>2. CASE k <= n /\ n < l
      <4>1. k \in 1 .. n /\ l - n \in 1 .. m
        BY <2>2, <3>2
      <4>2. r.seen[k] \in Int /\ page[l - n] \in Int /\ r.seen[k] >= r.before
            /\ page[l - n] < r.before
        BY <2>4, <2>7, <4>1
      <4>3. (r.seen \o page)[k] = r.seen[k] /\ (r.seen \o page)[l] = page[l - n]
        BY <2>2, <2>3, <3>2
      <4>4. QED
        BY <1>5, <4>2, <4>3
    <3>3. CASE n < k
      <4>1. k - n \in 1 .. m /\ l - n \in 1 .. m /\ k - n < l - n /\ n < l
        BY <2>2, <3>3
      <4>2. (r.seen \o page)[k] = page[k - n] /\ (r.seen \o page)[l] = page[l - n]
        BY <2>2, <2>3, <3>3, <4>1
      <4>3. QED
        BY <1>8, <4>1, <4>2
    <3>4. QED
      BY <2>2, <3>1, <3>2, <3>3
  <2>9. \A k \in 1 .. n + m : /\ (r.seen \o page)[k] \in InThread(r.pair)
                              /\ (r.seen \o page)[k] >= page[m]
    <3> SUFFICES ASSUME NEW k \in 1 .. n + m
                 PROVE  /\ (r.seen \o page)[k] \in InThread(r.pair)
                        /\ (r.seen \o page)[k] >= page[m]
      OBVIOUS
    <3>1. CASE k <= n
      BY <1>5, <2>2, <2>3, <2>4, <2>7, <3>1
    <3>2. CASE n < k
      <4>1. k - n \in 1 .. m /\ (r.seen \o page)[k] = page[k - n]
        BY <2>2, <2>3, <3>2
      <4>2. QED
        BY <1>7, <1>8, <2>4, <4>1
    <3>3. QED
      BY <2>2, <3>1, <3>2
  <2>10. ASSUME NEW i \in r.due, i >= page[m]
         PROVE  \E k \in 1 .. n + m : (r.seen \o page)[k] = i
    <3>1. i \in Int /\ i \in InThread(r.pair)
      BY <1>5, <2>7 DEF Id
    <3>2. CASE i >= r.before
      <4>1. PICK k \in 1 .. n : r.seen[k] = i
        BY <2>7, <3>2
      <4>2. k \in 1 .. n + m /\ (r.seen \o page)[k] = i
        BY <2>2, <2>3, <4>1
      <4>3. QED
        BY <4>2
    <3>3. CASE i < r.before
      <4>1. i \in Older(r)
        BY <1>7, <3>1, <3>3
      <4>2. ~(i < page[m])
        BY <2>4, <2>10, <3>1
      <4>3. PICK k \in 1 .. m : page[k] = i
        BY <1>8, <1>11, <4>1, <4>2
      <4>4. n + k \in 1 .. n + m /\ (r.seen \o page)[n + k] = i
        BY <2>2, <2>3, <4>3
      <4>5. QED
        BY <4>4
    <3>4. QED
      BY <1>5, <3>1, <3>2, <3>3
  <2>11. Scrolled(o)'
    BY <1>9, <2>3, <2>6, <2>7, <2>8, <2>9, <2>10 DEF Scrolled
  <2>12. QED
    BY <2>1, <2>5, <2>11 DEF ReaderInv
<1>12. QED
  BY <1>10, <1>11

\* The end is where nothing is older.
LEMMA ReadMoreKeeps ==
    ASSUME StoreInv, ReaderInv, ReadMore
    PROVE  ReaderInv'
<1>1. PICK r : r = reader
  OBVIOUS
<1>2. PICK s : s = IF Older(r) = {} THEN "end" ELSE "page"
  OBVIOUS
<1> DEFINE o == [r EXCEPT !.at = s]
<1>3. r.at = "more" /\ messages' = messages /\ reader' = o
  BY <1>1, <1>2 DEF ReadMore, store
<1>4. r \in Reading /\ Scrolled(r)
  BY <1>1, <1>3 DEF ReaderInv, Resting
<1>5. o \in Reading
  BY <1>2, <1>4 DEF Reading
<1>6. o.at = s /\ o.pair = r.pair /\ o.before = r.before /\ o.seen = r.seen /\ o.due = r.due
  BY <1>4 DEF Reading
<1>7. s = "end" => \A i \in r.due : i >= r.before
  <2>1. \A i \in r.due : i \in InThread(r.pair) /\ i \in Int /\ r.before \in Int
    BY <1>4, ReadingFields DEF Scrolled, Id
  <2>2. QED
    BY <1>2, <2>1 DEF Older
<1>8. InThread(r.pair)' = InThread(r.pair)
  BY <1>3 DEF InThread
<1> HIDE DEF o
<1>9. Scrolled(o)'
  BY <1>4, <1>6, <1>7, <1>8 DEF Scrolled
<1>10. QED
  BY <1>3, <1>5, <1>9 DEF ReaderInv

-----------------------------------------------------------------------------
(* The theorems.                                                           *)

\* The invariant holds at first.
LEMMA MessagesInitOK == ASSUME MessagesInit PROVE MessagesInv
<1>1. /\ blocked = {} /\ follows \in SUBSET Pair /\ closed = {}
      /\ threads = {} /\ messages = <<>> /\ nextId = 1
      /\ files = {} /\ astray = {} /\ reader = Resting
      /\ jobs = [d \in Desk |-> Idle]
  BY DEF MessagesInit
<1>2. DOMAIN messages = {} /\ \A d \in Desk : ~Busy(d) /\ \A s : ~At(d, s)
  BY <1>1 DEF Busy, At
<1>3. nextId \in 1 .. MaxMessages + 1
  BY <1>1, PageAssumption
<1>4. messages \in [DOMAIN messages -> Message]
  BY <1>1
<1>5. StoreTypes
  BY <1>1, <1>2, <1>3, <1>4 DEF StoreTypes, Jobs
<1>6. \A k : k \notin KeysSent /\ k \notin KeysHeld
  BY <1>2, KeySets
<1>7. StoreInv
  BY <1>1, <1>2, <1>5, <1>6 DEF StoreInv, OwnIds, OwnKeys, FilesMatchRows
<1>8. GateInv
  BY <1>1 DEF GateInv, InFlight
<1>9. ReaderInv
  BY <1>1 DEF ReaderInv
<1>10. QED
  BY <1>7, <1>8, <1>9 DEF MessagesInv

\* No handler of a message takes another one away.
LEMMA MessagesGrow ==
    ASSUME StoreInv, NEW d \in Desk, SendStep(d) \/ SendFails(d)
    PROVE  /\ reader' = reader
           /\ DOMAIN messages \subseteq DOMAIN messages'
           /\ \A i \in DOMAIN messages : messages'[i] = messages[i]
<1>1. CASE Commit(d)
  BY <1>1, CommitIs DEF Commit
<1>2. CASE ~Commit(d)
  BY <1>2 DEF SendStep, SendFails, Gate, LookUp, Follower, Policy, Reject, Open, Insert, Write,
     Read, Drop, CommitFails, RefreshFails, store
<1>3. QED
  BY <1>1, <1>2

\* Every step of a send keeps the invariant.
LEMMA SendKeeps ==
    ASSUME MessagesInv, NEW d \in Desk, SendStep(d) \/ SendFails(d)
    PROVE  MessagesInv'
<1>1. ReaderInv'
  BY MessagesGrow, ReaderUntouched DEF MessagesInv
<1>2. CASE Gate(d) \/ LookUp(d) \/ Follower(d) \/ Policy(d) \/ Open(d) \/ Insert(d)
  BY <1>1, <1>2, GateStepsKeep DEF MessagesInv
<1>3. CASE Write(d)
  BY <1>1, <1>3, WriteKeeps, WriteGate DEF MessagesInv
<1>4. CASE Commit(d)
  BY <1>1, <1>4, CommitKeeps, CommitGate DEF MessagesInv
<1>5. CASE Reject(d) \/ CommitFails(d)
  <2>1. Drop(d) /\ Busy(d) /\ ~At(d, "sent")
    BY <1>5 DEF Reject, CommitFails, At
  <2>2. QED
    BY <1>1, <2>1, DropKeeps, EndsGate DEF MessagesInv
<1>6. CASE RefreshFails(d)
  BY <1>1, <1>6, RefreshFailsKeeps, EndsGate DEF MessagesInv
<1>7. QED
  BY <1>2, <1>3, <1>4, <1>5, <1>6 DEF SendStep, SendFails

\* What goes on at the sockets does not touch messages.
LEMMA MessagesAtRest ==
    ASSUME MessagesInv, UNCHANGED messageVars
    PROVE  MessagesInv'
<1>1. /\ blocked' = blocked /\ follows' = follows /\ closed' = closed
      /\ threads' = threads /\ messages' = messages /\ nextId' = nextId
      /\ files' = files /\ astray' = astray /\ jobs' = jobs /\ reader' = reader
  BY DEF messageVars, access, store
<1>2. StoreInv'
  <2>1. \A d \in Desk : /\ Busy(d)' <=> Busy(d)
                        /\ Busy(d) => SameClaim(jobs[d], jobs'[d])
    BY <1>1 DEF Busy, SameClaim
  <2>2. QED
    BY <1>1, <2>1, StagesKeep DEF MessagesInv, StoreInv, StoreTypes
<1>3. GateInv'
  BY <1>1, UnwatchedKeep DEF MessagesInv
<1>4. ReaderInv'
  BY <1>1, ReaderUntouched DEF MessagesInv
<1>5. QED
  BY <1>2, <1>3, <1>4 DEF MessagesInv

\* Every step of the reader keeps the invariant.
LEMMA ReadsKeep ==
    ASSUME MessagesInv, Reads
    PROVE  MessagesInv'
<1>1. /\ blocked' = blocked /\ follows' = follows /\ closed' = closed
      /\ threads' = threads /\ messages' = messages /\ nextId' = nextId
      /\ files' = files /\ astray' = astray /\ jobs' = jobs
  BY DEF Reads, StartReading, ReadPage, ReadMore, StopReading, access, store
<1>2. StoreInv'
  <2>1. \A d \in Desk : /\ Busy(d)' <=> Busy(d)
                        /\ Busy(d) => SameClaim(jobs[d], jobs'[d])
    BY <1>1 DEF Busy, SameClaim
  <2>2. QED
    BY <1>1, <2>1, StagesKeep DEF MessagesInv, StoreInv, StoreTypes
<1>3. GateInv'
  BY <1>1, UnwatchedKeep DEF MessagesInv
<1>4. ReaderInv'
  BY StartReadingKeeps, ReadPageKeeps, ReadMoreKeeps
     DEF MessagesInv, Reads, StopReading, ReaderInv
<1>5. QED
  BY <1>2, <1>3, <1>4 DEF MessagesInv

\* Every step of requests, readers and their surroundings keeps it.
LEMMA MessagesNextKeeps == ASSUME MessagesInv, MessagesNext PROVE MessagesInv'
<1>1. CASE Change
  <2>1. ReaderInv'
    BY <1>1, ReaderUntouched DEF Change, store, MessagesInv
  <2>2. QED
    BY <1>1, <2>1, ChangeKeeps DEF MessagesInv
<1>2. CASE Reads
  BY <1>2, ReadsKeep
<1>3. ASSUME NEW d \in Desk, SendStep(d) \/ SendFails(d) PROVE MessagesInv'
  BY <1>3, SendKeeps
<1>4. ASSUME NEW d \in Desk, NEW from \in User, NEW to \in User, NEW key \in Key \cup {NoKey},
             Begin(d, from, to, key)
      PROVE  MessagesInv'
  <2>1. ReaderInv'
    BY <1>4, ReaderUntouched DEF Begin, store, MessagesInv
  <2>2. QED
    BY <1>4, <2>1, BeginKeeps, BeginGate DEF MessagesInv
<1>5. ASSUME NEW d \in Desk, NEW key, StorageFails(d, key) PROVE MessagesInv'
  <2>1. ReaderInv'
    BY <1>5, ReaderUntouched DEF StorageFails, store, MessagesInv
  <2>2. GateInv'
    BY <1>5, UnwatchedKeep DEF StorageFails, store, access, MessagesInv
  <2>3. QED
    BY <1>5, <2>1, <2>2, StorageFailsKeeps DEF MessagesInv
<1>6. QED
  BY <1>1, <1>2, <1>3, <1>4, <1>5 DEF MessagesNext

\* Every step of the whole system keeps it.
LEMMA MessagesStepOK ==
    ASSUME MessagesInv, [RelayNext]_<<messageVars, relayVars>>
    PROVE  MessagesInv'
<1>1. ASSUME NEW d \in Desk, AckFails(d) \/ StartPush(d) PROVE MessagesInv'
  <2>1. ReaderInv'
    BY <1>1, ReaderUntouched DEF AckFails, StartPush, store, MessagesInv
  <2>2. QED
    BY <1>1, <2>1, AnsweredKeeps, EndsGate DEF MessagesInv
<1>2. ASSUME NEW p \in Process, Crash(p) PROVE MessagesInv'
  <2>1. ReaderInv'
    BY <1>2, ReaderUntouched DEF Crash, store, MessagesInv
  <2>2. QED
    BY <1>2, <2>1, CrashKeeps DEF MessagesInv
<1>3. ASSUME NEW d \in Desk, PushStep(d) PROVE MessagesInv'
  BY <1>1, <1>3, MessagesAtRest DEF PushStep, PushOne, EndPush
<1>4. ASSUME NEW p \in Process, RelayStep(p) \/ LinkBreaks(p) \/ Reconnects(p) PROVE MessagesInv'
  BY <1>4, MessagesAtRest DEF RelayStep, Ask, Subscribe, Hear, HearNothing, RelayOne, EndRelay,
     RelayFails, LinkBreaks, Reconnects
<1>5. ASSUME NEW s \in Socket, NEW p \in Process, NEW u \in User, Connect(s, p, u) \/ Disconnect(s)
      PROVE  MessagesInv'
  BY <1>5, MessagesAtRest DEF Connect, Disconnect
<1>6. CASE UNCHANGED <<messageVars, relayVars>>
  BY <1>6, MessagesAtRest
<1>7. QED
  BY <1>1, <1>2, <1>3, <1>4, <1>5, <1>6, MessagesNextKeeps DEF RelayNext

\* The inductive invariant of sending and reading: ids and keys are their
\* requests' own, and what a request has read decides how far it has come.
THEOREM MessagesInvariant == RelaySpec => []MessagesInv
BY MessagesInitOK, MessagesStepOK, PTL DEF RelaySpec

\* Rows, files, jobs and the reader keep their types.
THEOREM MessagesTypes == RelaySpec => []MessagesTypeOK
<1>1. ASSUME MessagesInv PROVE MessagesTypeOK
  <2>1. \A d \in Desk : Busy(d) => jobs[d] \in Job
    BY <1>1, BusyJob DEF MessagesInv
  <2>2. reader # Resting => reader \in Reading
    BY <1>1 DEF MessagesInv, ReaderInv
  <2>3. QED
    BY <1>1, <2>1, <2>2 DEF MessagesInv, StoreInv, StoreTypes, MessagesTypeOK
<1>2. QED
  BY <1>1, MessagesInvariant, PTL

\* A subscriber's message gets past the gate only if its sender was unblocked
\* and had a thread or followed an open creator while the request was read.
THEOREM WrittenOnlyByLeave == RelaySpec => []WrittenByLeave
<1>1. ASSUME MessagesInv PROVE WrittenByLeave
  <2>1. \A d \in Desk : Busy(d) => Asked(jobs[d])
    BY <1>1 DEF MessagesInv, GateInv, InFlight, Busy
  <2>2. QED
    BY <2>1 DEF WrittenByLeave, Asked, Allowed
<1>2. QED
  BY <1>1, MessagesInvariant, PTL

\* While nothing changes underneath, the gate refuses exactly those whom
\* messages_status told so.
THEOREM StatusMirrors == RelaySpec => []StatusMirrorsGate
<1>1. ASSUME MessagesInv PROVE StatusMirrorsGate
  <2>1. \A d \in Desk : Busy(d) => Asked(jobs[d])
    BY <1>1 DEF MessagesInv, GateInv, InFlight, Busy
  <2>2. QED
    BY <2>1 DEF StatusMirrorsGate, Asked, At
<1>2. QED
  BY <1>1, MessagesInvariant, PTL

\* Storage holds the uploads of committed messages and of requests in flight,
\* and of those that broke off halfway.
THEOREM FilesMatch == RelaySpec => []FilesMatchRows
<1>1. ASSUME MessagesInv PROVE FilesMatchRows
  BY <1>1 DEF MessagesInv, StoreInv
<1>2. QED
  BY <1>1, MessagesInvariant, PTL

\* A reader who scrolls to the end has seen, once and in order, every message
\* that was there when he began.
THEOREM HistoryComplete == RelaySpec => []HistoryIsComplete
<1>1. ASSUME MessagesInv PROVE HistoryIsComplete
  <2> SUFFICES ASSUME NEW r, r = reader, r # Resting
               PROVE  /\ \A i, j \in 1 .. Len(r.seen) : i < j => r.seen[i] > r.seen[j]
                      /\ \A i \in DOMAIN r.seen : r.seen[i] \in InThread(r.pair)
                      /\ r.at = "end" => r.due \subseteq {r.seen[i] : i \in DOMAIN r.seen}
    BY DEF HistoryIsComplete
  <2>1. r \in Reading /\ Scrolled(r)
    BY <1>1 DEF MessagesInv, ReaderInv
  <2>2. DOMAIN r.seen = 1 .. Len(r.seen)
    BY <2>1, ReadingFields, LenProperties
  <2>3. QED
    BY <2>1, <2>2 DEF Scrolled
<1>2. QED
  BY <1>1, MessagesInvariant, PTL
=============================================================================
