--------------------------- MODULE DirectMessages ---------------------------
(***************************************************************************)
(* Messages between a creator and a subscriber (services/messages.py and   *)
(* routers/messages.py): the gate a sender passes read by read while       *)
(* blocks, follows and the creator's policy change underneath, the thread  *)
(* made on first contact, the files an upload saves before its row, and a  *)
(* reader who scrolls back through the history page by page.               *)
(*                                                                         *)
(* A desk handles one request at a time.  What blocks, follows and the     *)
(* policy do elsewhere is not repeated: here they just change.             *)
(***************************************************************************)
EXTENDS Integers, SequencesExt

CONSTANTS
    Creator, Subscriber,
    Desk,           \* places where a send request is handled
    Key, NoKey,     \* storage keys of uploads, each drawn once (uuid4)
    MaxMessages,    \* ids the message sequence hands out (a bound)
    PageSize        \* messages to a page of history

ASSUME KeyAssumption == NoKey \notin Key
ASSUME RoleAssumption == Creator \cap Subscriber = {}   \* is_creator, or not
ASSUME PageAssumption == MaxMessages \in Nat /\ PageSize \in Nat \ {0}

VARIABLES
    blocked, follows,     \* pairs <<creator, subscriber>>
    closed,               \* creators who take no new threads
    threads,              \* committed conversations: pairs
    messages,             \* committed messages by id
    nextId,               \* the sequence of message ids
    files,                \* keys in storage
    astray,               \* keys of requests that broke off halfway
    jobs,                 \* what each desk is doing
    reader                \* somebody reading a thread

access == <<blocked, follows, closed>>
store == <<threads, messages, nextId>>
messageVars == <<access, store, files, astray, jobs, reader>>

User == Creator \cup Subscriber
Pair == Creator \X Subscriber
Id == 1 .. MaxMessages

Idle == [at |-> "idle"]

Asking == {"gate", "thread", "follower", "policy"}
Admitted == {"open", "insert", "write", "commit", "sent"}
Stage == Asking \cup Admitted \cup {"refused"}

\* What decides whether a subscriber may write, each read on its own.
Condition == {"unblocked", "follower", "open", "thread"}

Holding(p, b, f, c, t) ==
    {k \in Condition :
        CASE k = "unblocked" -> p \notin b
          [] k = "follower" -> p \in f
          [] k = "open" -> p[1] \notin c
          [] k = "thread" -> p \in t}

Now(p) == Holding(p, blocked, follows, closed, threads)

\* fresh: an uncommitted insert of the thread.  said, steady, held are what
\* the properties compare with: what messages_status answered when the request
\* came in, whether nothing it depends on changed since, and which conditions
\* held at some instant since.
Job == [at : Stage, pair : Pair, from : User, key : Key \cup {NoKey},
        id : 0 .. MaxMessages, fresh : BOOLEAN,
        said : BOOLEAN, steady : BOOLEAN, held : SUBSET Condition]

Message == [pair : Pair, from : User, key : Key \cup {NoKey}]

Busy(d) == jobs[d] # Idle
At(d, stage) == Busy(d) /\ jobs[d].at = stage
Goto(d, stage) == jobs' = [jobs EXCEPT ![d].at = stage]
Recipient(m) == IF m.from = m.pair[1] THEN m.pair[2] ELSE m.pair[1]
InThread(p) == {i \in DOMAIN messages : messages[i].pair = p}
KeysSent == {messages[i].key : i \in DOMAIN messages}
KeysHeld == {jobs[d].key : d \in {e \in Desk : Busy(e)}}
-----------------------------------------------------------------------------
(* What messages_status answers.                                           *)

\* A mutant: the pair looked up one way round only, and the wrong one.
MutHasConversation(user, recipient) == <<user, recipient>> \in threads

HasConversation(user, recipient) ==
    <<recipient, user>> \in threads \/ <<user, recipient>> \in threads

CanMessage(user, recipient) ==
    LET p == <<recipient, user>> IN
    /\ ~ (user \notin Creator /\ recipient \in Creator /\ p \in blocked)
    /\ recipient # user
    /\ ~ (user \in Creator /\ recipient \in Creator)
    /\ ~ (user \notin Creator /\ recipient \notin Creator)
    /\ user \notin Creator /\ ~HasConversation(user, recipient)
           => p \in follows /\ recipient \notin closed
-----------------------------------------------------------------------------
(* Around the requests.                                                    *)

\* Every request in flight has its conditions observed as they change.
Observed(b, f, c, t, js) ==
    [d \in Desk |->
        IF js[d] = Idle THEN Idle
        ELSE LET h == Holding(js[d].pair, b, f, c, t) IN
             [js[d] EXCEPT !.held = @ \cup h,
                           !.steady = @ /\ h = Now(js[d].pair)]]

Toggle(set, x) == (set \ {x}) \cup ({x} \ set)

Change ==
    /\ \/ \E p \in Pair : /\ blocked' = Toggle(blocked, p)
                          /\ UNCHANGED <<follows, closed>>
       \/ \E p \in Pair : /\ follows' = Toggle(follows, p)
                          /\ UNCHANGED <<blocked, closed>>
       \/ \E c \in Creator : /\ closed' = Toggle(closed, c)
                             /\ UNCHANGED <<blocked, follows>>
    /\ jobs' = Observed(blocked', follows', closed', threads, jobs)
    /\ UNCHANGED <<store, files, astray, reader>>

\* A mutant: the upload is left where it is.
MutDrop(d) ==
    /\ jobs' = [jobs EXCEPT ![d] = Idle]
    /\ UNCHANGED <<access, store, files, astray, reader>>

\* The request ends without a row; the router deletes its upload.
Drop(d) ==
    /\ jobs' = [jobs EXCEPT ![d] = Idle]
    /\ files' = files \ {jobs[d].key}
    /\ UNCHANGED <<access, store, astray, reader>>
-----------------------------------------------------------------------------
(* Sending.                                                                *)

FreshKey == Key \ (files \cup astray \cup KeysSent \cup KeysHeld)

\* The upload, if any, is saved before anything is checked.
Begin(d, from, to, key) ==
    LET p == IF from \in Creator THEN <<from, to>> ELSE <<to, from>> IN
    /\ ~Busy(d) /\ p \in Pair
    /\ key \in FreshKey \cup {NoKey}
    /\ jobs' = [jobs EXCEPT ![d] =
           [at |-> IF from \in Creator THEN "open" ELSE "gate",
            pair |-> p, from |-> from, key |-> key, id |-> 0, fresh |-> FALSE,
            said |-> CanMessage(from, to), steady |-> TRUE, held |-> Now(p)]]
    /\ files' = files \cup ({key} \ {NoKey})
    /\ UNCHANGED <<access, store, astray, reader>>

\* A second file of the upload cannot be stored: the first one stays.
StorageFails(d, key) ==
    /\ ~Busy(d) /\ key \in FreshKey
    /\ files' = files \cup {key} /\ astray' = astray \cup {key}
    /\ UNCHANGED <<access, store, jobs, reader>>

\* One read of the gate: on to the next stage, or refused.
Read(d, stage, passes, next) ==
    /\ At(d, stage)
    /\ Goto(d, IF passes THEN next ELSE "refused")
    /\ UNCHANGED <<access, store, files, astray, reader>>

Gate(d) == Read(d, "gate", jobs[d].pair \notin blocked, "thread")

LookUp(d) ==
    /\ At(d, "thread")
    /\ Goto(d, IF jobs[d].pair \in threads THEN "open" ELSE "follower")
    /\ UNCHANGED <<access, store, files, astray, reader>>

\* A mutant: a follower is let in without a look at the policy.
MutFollower(d) == Read(d, "follower", jobs[d].pair \in follows, "open")

Follower(d) == Read(d, "follower", jobs[d].pair \in follows, "policy")
Policy(d) == Read(d, "policy", jobs[d].pair[1] \notin closed, "open")
Reject(d) == At(d, "refused") /\ Drop(d)

Open(d) ==
    /\ At(d, "open")
    /\ Goto(d, IF jobs[d].pair \in threads THEN "write" ELSE "insert")
    /\ UNCHANGED <<access, store, files, astray, reader>>

\* The unique pair: an insert waits for another uncommitted one, and one that
\* finds the thread there after all is rolled back and reuses it.
Insert(d) ==
    /\ At(d, "insert")
    /\ \A e \in Desk : Busy(e) /\ jobs[e].pair = jobs[d].pair => ~jobs[e].fresh
    /\ jobs' = [jobs EXCEPT ![d].at = "write",
                            ![d].fresh = jobs[d].pair \notin threads]
    /\ UNCHANGED <<access, store, files, astray, reader>>

\* The flush draws the id; nobody else sees the row before the commit.
Write(d) ==
    /\ At(d, "write") /\ nextId \in Id
    /\ jobs' = [jobs EXCEPT ![d].at = "commit", ![d].id = nextId]
    /\ nextId' = nextId + 1
    /\ UNCHANGED <<access, threads, messages, files, astray, reader>>

Row(j) == [pair |-> j.pair, from |-> j.from, key |-> j.key]

Commit(d) ==
    LET j == jobs[d] IN
    /\ At(d, "commit")
    /\ messages' = [i \in DOMAIN messages \cup {j.id} |->
                       IF i = j.id THEN Row(j) ELSE messages[i]]
    /\ threads' = threads \cup {j.pair}
    /\ jobs' = Observed(blocked, follows, closed, threads',
                        [jobs EXCEPT ![d].at = "sent", ![d].fresh = FALSE])
    /\ UNCHANGED <<access, nextId, files, astray, reader>>

CommitFails(d) == (At(d, "write") \/ At(d, "commit")) /\ Drop(d)

\* The row is committed, and reading it back fails: the router takes that for
\* a failed send and deletes the upload.
RefreshFails(d) ==
    /\ At(d, "sent")
    /\ jobs' = [jobs EXCEPT ![d] = Idle]
    /\ files' = files \ {jobs[d].key}
    /\ astray' = astray \cup ({jobs[d].key} \ {NoKey})
    /\ UNCHANGED <<access, store, reader>>
-----------------------------------------------------------------------------
(* Reading a thread, newest page first.                                    *)

Resting == [at |-> "rest"]

\* seen: the ids in the order shown; due: those committed at the first page.
Reading == [at : {"page", "more", "end"}, pair : Pair,
            before : 1 .. MaxMessages + 1, seen : Seq(Id), due : SUBSET Id]

StartReading(p) ==
    /\ reader = Resting /\ p \in threads
    /\ reader' = [at |-> "page", pair |-> p, before |-> MaxMessages + 1,
                  seen |-> <<>>, due |-> InThread(p)]
    /\ UNCHANGED <<access, store, files, astray, jobs>>

\* A mutant: the cursor takes its own message along.
MutOlder(r) == {i \in InThread(r.pair) : i <= r.before}

Older(r) == {i \in InThread(r.pair) : i < r.before}

\* The newest of ids, newest first: a page of them, or all if they fit in one.
Newest(ids) ==
    {page \in UNION {[1 .. n -> ids] : n \in 0 .. PageSize} :
        /\ \A i, j \in DOMAIN page : i < j => page[i] > page[j]
        /\ \A i \in ids : \/ \E k \in DOMAIN page : page[k] = i
                          \/ Len(page) = PageSize /\ page[PageSize] > i}

ReadPage ==
    /\ reader.at = "page"
    /\ \E page \in Newest(Older(reader)) :
          reader' = IF Len(page) = 0 THEN [reader EXCEPT !.at = "end"]
                    ELSE [reader EXCEPT !.at = "more", !.seen = @ \o page,
                                        !.before = page[Len(page)]]
    /\ UNCHANGED <<access, store, files, astray, jobs>>

\* A second query tells whether there is anything older still.
ReadMore ==
    /\ reader.at = "more"
    /\ reader' = [reader EXCEPT !.at = IF Older(reader) = {} THEN "end" ELSE "page"]
    /\ UNCHANGED <<access, store, files, astray, jobs>>

StopReading ==
    /\ reader.at = "end" /\ reader' = Resting
    /\ UNCHANGED <<access, store, files, astray, jobs>>

Reads == (\E p \in Pair : StartReading(p)) \/ ReadPage \/ ReadMore \/ StopReading

SendStep(d) ==
    \/ Gate(d) \/ LookUp(d) \/ Follower(d) \/ Policy(d) \/ Reject(d)
    \/ Open(d) \/ Insert(d) \/ Write(d) \/ Commit(d)

SendFails(d) == CommitFails(d) \/ RefreshFails(d)

MessagesInit ==
    /\ blocked = {} /\ follows \in SUBSET Pair /\ closed = {}
    /\ threads = {} /\ messages = <<>> /\ nextId = 1
    /\ files = {} /\ astray = {}
    /\ jobs = [d \in Desk |-> Idle] /\ reader = Resting
-----------------------------------------------------------------------------
MessagesTypeOK ==
    /\ blocked \subseteq Pair /\ follows \subseteq Pair /\ closed \subseteq Creator
    /\ threads \subseteq Pair
    /\ DOMAIN messages \subseteq Id
    /\ \A i \in DOMAIN messages : messages[i] \in Message
    /\ nextId \in 1 .. MaxMessages + 1
    /\ files \subseteq Key /\ astray \subseteq Key
    /\ \A d \in Desk : Busy(d) => jobs[d] \in Job
    /\ reader # Resting => reader \in Reading

\* The composer is told the truth: while nothing it depends on changes, a
\* subscriber's request is refused exactly if messages_status said it would be
\* (the status page repeats the gate in other words and another order).
StatusMirrorsGate ==
    \A d \in Desk :
        Busy(d) /\ jobs[d].from \in Subscriber /\ jobs[d].steady =>
            /\ At(d, "refused") => ~jobs[d].said
            /\ jobs[d].at \in Admitted => jobs[d].said

\* However blocks, follows and the policy change while a request is read
\* through the gate, a subscriber's message is committed only if the sender was
\* unblocked at some instant of the request, and either had a thread or was a
\* follower at some instant and met an open policy at some instant.
WrittenByLeave ==
    \A d \in Desk :
        Busy(d) /\ jobs[d].from \in Subscriber /\ jobs[d].at \in Admitted =>
            /\ "unblocked" \in jobs[d].held
            /\ "thread" \in jobs[d].held \/ {"follower", "open"} \subseteq jobs[d].held

\* Uploads and rows stay together whatever is refused, rolled back or lost in a
\* race: apart from requests that broke off halfway, a file is in storage
\* exactly if a message or a request in flight has it.
FilesMatchRows ==
    \A k \in Key \ astray : k \in files <=> k \in KeysSent \cup KeysHeld

\* Scrolling back shows every message that was there when the reader began,
\* each once and in descending order, however many are sent, rolled back or
\* committed out of the order of their ids meanwhile.
HistoryIsComplete ==
    reader # Resting =>
        /\ \A i, j \in 1 .. Len(reader.seen) : i < j => reader.seen[i] > reader.seen[j]
        /\ \A i \in DOMAIN reader.seen : reader.seen[i] \in InThread(reader.pair)
        /\ reader.at = "end" => reader.due \subseteq {reader.seen[i] : i \in DOMAIN reader.seen}
=============================================================================
