-------------------------------- MODULE Chat --------------------------------
(***************************************************************************)
(* The chat page (frontend/src/pages/chat.ts): one user's list of threads, *)
(* the thread that is open, pages of history asked for over HTTP, a socket *)
(* that brings new messages and takes sends, and the bubbles of what is    *)
(* not yet answered for.                                                   *)
(*                                                                         *)
(* Answers come back in any order, to a page that may meanwhile show       *)
(* something else.  Of the back end only what the page can observe is left *)
(* here: ids may be committed out of order (DirectMessages), and a frame   *)
(* of a committed message comes once, twice, late or never (Relay).        *)
(***************************************************************************)
EXTENDS Naturals, FiniteSets, SequencesExt

CONSTANTS
    Thread, NoThread,
    Slot,            \* requests for pages under way at once (a bound)
    LastId,          \* the largest id of a message (a bound)
    PageLimit,       \* messages to a page (50)
    WireLimit,       \* frames under way in one direction (a bound)
    BubbleLimit      \* bubbles on the page (a bound)

ASSUME ThreadAssumption == NoThread \notin Thread
ASSUME LimitAssumption == {LastId, PageLimit, WireLimit, BubbleLimit} \subseteq Nat \ {0}

VARIABLES
    log,      \* messages in the order of their commits
    view,     \* what the page shows
    loads,    \* requests for pages, by slot
    post,     \* the one send over HTTP, while `sending'
    line      \* the socket, its frames in both directions and the retry timer

chatVars == <<log, view, loads, post, line>>

ChatId == 1 .. LastId

\* What a thread shows: messages, and bubbles in place of their id.
Bubble == 0
Shown == [id : {Bubble} \cup ChatId, thread : Thread]

LogEntry == [id : ChatId, thread : Thread, mine : BOOLEAN]

\* compose: the thread a first message will make.  before: the cursor of the
\* next older page (0 for null).  The rest is what the properties compare with: whether the page of this thread has come,
\* whether every answer that was shown was asked for by this view, the messages
\* that were there when its newest page was read, those that came since by
\* frame or answer, those of them the cursor was past already, and whether a
\* socket was lost with bubbles on the screen.
View == [active : Thread \cup {NoThread}, compose : Thread \cup {NoThread},
         shown : Seq(Shown),
         before : 0 .. LastId, more : BOOLEAN, older : BOOLEAN,
         loaded : BOOLEAN, clean : BOOLEAN, due : SUBSET ChatId,
         heard : SUBSET ChatId, behind : SUBSET ChatId, unsure : BOOLEAN]

NoLoad == [at |-> "free"]

\* stale: the view that asked has been left, or the cursor was another view's.
Load == [at : {"asked", "served"}, kind : {"open", "older"}, thread : Thread,
         before : 0 .. LastId, stale : BOOLEAN,
         ids : Seq(ChatId), next : 0 .. LastId, more : BOOLEAN,
         due : SUBSET ChatId]

\* opening: the first message is there, its thread's page under way.
NoPost == [at |-> "idle"]
Post == [at : {"asked", "saved"}, kind : {"text", "media", "first"},
         thread : Thread, id : {Bubble} \cup ChatId]
        \cup [at : {"opening"}, slot : Slot]

Frame == [type : {"message", "ack"}, id : ChatId] \cup [type : {"error"}]

Line == [at : {"none", "dialing", "up", "down"}, timer : BOOLEAN,
         frames : Seq(Frame), sends : Seq(Thread)]

Logged == ToSet(log)
TakenId == {m.id : m \in Logged}
ThreadOf(i) == (CHOOSE m \in Logged : m.id = i).thread
Committed(t) == {m.id : m \in {n \in Logged : n.thread = t}}
Free(s) == loads[s] = NoLoad
Shows(v, i) == \E k \in DOMAIN v.shown : v.shown[k].id = i
Unsent(v) == {k \in DOMAIN v.shown : v.shown[k].id = Bubble}

\* A finite set of numbers, smallest first.
InOrder(S) ==
    [k \in 1 .. Cardinality(S) |->
        CHOOSE i \in S : Cardinality({j \in S : j <= i}) = k]

\* The messages on the page, without the bubbles of thread t.
Without(shown, t) ==
    LET kept == InOrder({k \in DOMAIN shown : shown[k].id # Bubble \/ shown[k].thread # t})
    IN  [k \in DOMAIN kept |-> shown[kept[k]]]
-----------------------------------------------------------------------------
(* What the handlers do to the page.                                       *)

\* _openThread empties the page, except that loadingOlder stays as it is.
Opened(v, t) ==
    [v EXCEPT !.active = t, !.shown = <<>>, !.before = 0, !.more = FALSE,
              !.loaded = FALSE, !.clean = TRUE, !.due = {}, !.heard = {},
              !.behind = {}, !.unsure = FALSE]

Left(ls) == [s \in Slot |-> IF ls[s] = NoLoad THEN NoLoad
                            ELSE [ls[s] EXCEPT !.stale = TRUE]]

Asked(kind, t, before, stale) ==
    [at |-> "asked", kind |-> kind, thread |-> t, before |-> before,
     stale |-> stale, ids |-> <<>>, next |-> 0, more |-> FALSE, due |-> {}]

\* A mutant: what is there already is added again.
MutIngested(v, i, authoritative) ==
    LET t == ThreadOf(i)
        kept == IF authoritative THEN Without(v.shown, t) ELSE v.shown IN
    IF v.active # t THEN v
    ELSE [v EXCEPT !.shown = Append(kept, [id |-> i, thread |-> t]),
                   !.heard = @ \cup {i},
                   !.behind = IF i < v.before THEN @ \cup {i} ELSE @]

\* _ingestMessage: a message of another thread is ignored, an authoritative
\* one takes the place of all bubbles, and one that is there stays alone.
Ingested(v, i, authoritative) ==
    LET t == ThreadOf(i)
        kept == IF authoritative THEN Without(v.shown, t) ELSE v.shown IN
    IF v.active # t THEN v
    ELSE [v EXCEPT !.shown = IF Shows(v, i) THEN kept
                             ELSE Append(kept, [id |-> i, thread |-> t]),
                   !.heard = @ \cup {i},
                   !.behind = IF i < v.before THEN @ \cup {i} ELSE @]

\* A mutant: a refusal leaves its bubble.
MutWithoutBubble(v) == v

\* _dropLastOptimistic, which drops the first.
WithoutBubble(v) ==
    IF Unsent(v) = {} THEN v
    ELSE [v EXCEPT !.shown = RemoveAt(@, CHOOSE k \in Unsent(v) :
                                             \A j \in Unsent(v) : k <= j)]

\* A mutant: the bubble is for the thread that is being composed.
MutWithBubble(v) ==
    [v EXCEPT !.shown = Append(@, [id |-> Bubble, thread |-> v.compose])]

WithBubble(v) ==
    [v EXCEPT !.shown = Append(@, [id |-> Bubble, thread |-> v.active])]

\* A first message holds up the next send until its thread has opened.
Released(s) == IF post = [at |-> "opening", slot |-> s] THEN NoPost ELSE post

\* _openWs: one socket at a time.
Dialed(l) ==
    IF l.at \in {"dialing", "up"} THEN l
    ELSE [l EXCEPT !.at = "dialing"]
-----------------------------------------------------------------------------
(* Opening threads and scrolling back.                                     *)

OpenThread(t, s) ==
    /\ Free(s)
    /\ view' = Opened(view, t)
    /\ loads' = [Left(loads) EXCEPT ![s] = Asked("open", t, 0, FALSE)]
    /\ UNCHANGED <<log, post, line>>

\* Back to the inbox: the socket is closed for good, a timer goes on.
BackToInbox ==
    /\ {view.active, view.compose} # {NoThread}
    /\ view' = [view EXCEPT !.active = NoThread, !.compose = NoThread, !.shown = <<>>, !.loaded = FALSE,
                            !.unsure = FALSE]
    /\ loads' = Left(loads)
    /\ line' = [line EXCEPT !.at = "none", !.frames = <<>>, !.sends = <<>>]
    /\ UNCHANGED <<log, post>>

LoadOlder(s) ==
    /\ view.active # NoThread /\ view.more /\ ~view.older /\ Free(s)
    /\ view' = [view EXCEPT !.older = TRUE]
    /\ loads' = [loads EXCEPT ![s] = Asked("older", view.active, view.before, ~view.clean)]
    /\ UNCHANGED <<log, post, line>>

\* The messages a page is cut from.
Before(l) == {i \in Committed(l.thread) : l.before = 0 \/ i < l.before}

\* The back end reads a page: the newest before the cursor, oldest first.
Serve(s) ==
    LET l == loads[s]
        page == {i \in Before(l) :
                    Cardinality({j \in Before(l) : j > i}) < PageLimit}
        ids == InOrder(page) IN
    /\ l.at = "asked"
    /\ loads' = [loads EXCEPT ![s] =
           [l EXCEPT !.at = "served", !.ids = ids, !.due = Committed(l.thread),
                     !.next = IF ids = <<>> THEN 0 ELSE Head(ids),
                     !.more = Before(l) \ page # {}]]
    /\ UNCHANGED <<log, view, post, line>>

Rows(l) == [k \in DOMAIN l.ids |-> [id |-> l.ids[k], thread |-> l.thread]]

\* The page of a thread replaces whatever is shown, whichever thread is open
\* by now, and the socket is opened.
ShowPage(s) ==
    LET l == loads[s] IN
    /\ l.at = "served" /\ l.kind = "open"
    /\ view' = [view EXCEPT !.shown = Rows(l), !.before = l.next, !.more = l.more,
                            !.loaded = ~l.stale, !.clean = ~l.stale,
                            !.due = l.due, !.heard = {}, !.behind = {},
                            !.unsure = FALSE]
    /\ line' = Dialed(line)
    /\ loads' = [loads EXCEPT ![s] = NoLoad]
    /\ post' = Released(s) /\ UNCHANGED log

\* A mutant: an older page replaces the newer ones.
MutShowOlder(s) ==
    LET l == loads[s] IN
    /\ l.at = "served" /\ l.kind = "older"
    /\ view' = [view EXCEPT !.shown = Rows(l), !.before = l.next,
                            !.more = l.more, !.older = FALSE,
                            !.clean = @ /\ ~l.stale]
    /\ loads' = [loads EXCEPT ![s] = NoLoad]
    /\ UNCHANGED <<log, post, line>>

\* An older page goes on top.
ShowOlder(s) ==
    LET l == loads[s] IN
    /\ l.at = "served" /\ l.kind = "older"
    /\ view' = [view EXCEPT !.shown = Rows(l) \o @, !.before = l.next,
                            !.more = l.more, !.older = FALSE,
                            !.clean = @ /\ ~l.stale]
    /\ loads' = [loads EXCEPT ![s] = NoLoad]
    /\ UNCHANGED <<log, post, line>>

LoadFails(s) ==
    /\ ~Free(s)
    /\ view' = [view EXCEPT !.older = @ /\ loads[s].kind # "older"]
    /\ loads' = [loads EXCEPT ![s] = NoLoad]
    /\ post' = Released(s) /\ UNCHANGED <<log, line>>
-----------------------------------------------------------------------------
(* The socket.                                                             *)

LineOpens ==
    /\ line.at = "dialing"
    /\ line' = [line EXCEPT !.at = "up"]
    /\ UNCHANGED <<log, view, loads, post>>

\* Whatever was under way is lost; the page tries again if a thread is open.
LineDrops ==
    /\ line.at \in {"dialing", "up"}
    /\ line' = [line EXCEPT !.at = "down", !.frames = <<>>, !.sends = <<>>,
                            !.timer = @ \/ view.active # NoThread]
    /\ view' = [view EXCEPT !.unsure = @ \/ Unsent(view) # {}]
    /\ UNCHANGED <<log, loads, post>>

Redial ==
    /\ line.timer
    /\ line' = [IF view.active = NoThread THEN line ELSE Dialed(line)
                EXCEPT !.timer = FALSE]
    /\ UNCHANGED <<log, view, loads, post>>

\* A frame of somebody else's message reaches this socket.
FrameComes(i) ==
    /\ line.at = "up" /\ Len(line.frames) < WireLimit
    /\ \E m \in Logged : m.id = i /\ ~m.mine
    /\ line' = [line EXCEPT !.frames = Append(@, [type |-> "message", id |-> i])]
    /\ UNCHANGED <<log, view, loads, post>>

\* _onWsFrame.
FrameIsRead ==
    LET f == Head(line.frames) IN
    /\ line.frames # <<>>
    /\ line' = [line EXCEPT !.frames = Tail(@)]
    /\ view' = IF f.type = "error" THEN WithoutBubble(view)
               ELSE Ingested(view, f.id, f.type = "ack")
    /\ UNCHANGED <<log, loads, post>>
-----------------------------------------------------------------------------
(* Sending.                                                                *)

Writes(i, t, mine) ==
    /\ i \in ChatId \ TakenId
    /\ log' = Append(log, [id |-> i, thread |-> t, mine |-> mine])

\* Somebody else writes, or this user does elsewhere, or a send whose socket
\* was lost gets through all the same.
OthersWrite(i, t, mine) ==
    Writes(i, t, mine) /\ UNCHANGED <<view, loads, post, line>>

MaySend == view.active # NoThread /\ post = NoPost
MayBubble == MaySend /\ Cardinality(Unsent(view)) < BubbleLimit

SendLive ==
    /\ MayBubble /\ line.at = "up" /\ Len(line.sends) < WireLimit
    /\ view' = WithBubble(view)
    /\ line' = [line EXCEPT !.sends = Append(@, view.active)]
    /\ UNCHANGED <<log, loads, post>>

Posting(kind, t) ==
    post' = [at |-> "asked", kind |-> kind, thread |-> t, id |-> Bubble]

\* Without an open socket.
SendText ==
    /\ MayBubble /\ line.at # "up"
    /\ view' = WithBubble(view)
    /\ Posting("text", view.active)
    /\ UNCHANGED <<log, loads, line>>

SendMedia ==
    /\ MaySend
    /\ Posting("media", view.active)
    /\ UNCHANGED <<log, view, loads, line>>

\* From compose mode, to somebody there was no thread with.
SendFirst ==
    /\ view.active = NoThread /\ view.compose # NoThread /\ post = NoPost
    /\ Posting("first", view.compose)
    /\ UNCHANGED <<log, view, loads, line>>

\* The back end takes the sends of a socket one after the other.
SendIsHandled ==
    LET t == Head(line.sends)
        Answered(f) == line' = [line EXCEPT !.sends = Tail(@), !.frames = Append(@, f)] IN
    /\ line.sends # <<>> /\ Len(line.frames) < WireLimit
    /\ \/ \E i \in ChatId : Writes(i, t, TRUE) /\ Answered([type |-> "ack", id |-> i])
       \/ Answered([type |-> "error"]) /\ UNCHANGED log
    /\ UNCHANGED <<view, loads, post>>

PostIsSaved(i) ==
    /\ post.at = "asked" /\ Writes(i, post.thread, TRUE)
    /\ post' = [post EXCEPT !.at = "saved", !.id = i]
    /\ UNCHANGED <<view, loads, line>>

\* The answer is ingested, or opens the thread it has made.
PostIsAnswered(s) ==
    /\ post.at = "saved"
    /\ IF post.kind = "first"
       THEN /\ Free(s)
            /\ view' = [Opened(view, post.thread) EXCEPT !.compose = NoThread]
            /\ loads' = [Left(loads) EXCEPT ![s] = Asked("open", post.thread, 0, FALSE)]
            /\ post' = [at |-> "opening", slot |-> s]
       ELSE /\ view' = Ingested(view, post.id, TRUE)
            /\ post' = NoPost /\ UNCHANGED loads
    /\ UNCHANGED <<log, line>>

\* Refused, or saved and the answer lost: the page cannot tell.  A first
\* message may be answered and the list of threads, fetched next, fail.
PostFails ==
    /\ post.at \in {"asked", "saved"} /\ post' = NoPost
    /\ \/ view' = IF post.kind = "text" THEN WithoutBubble(view) ELSE view
       \/ /\ post.at = "saved" /\ post.kind = "first"
          /\ view' = [view EXCEPT !.compose = NoThread]
    /\ UNCHANGED <<log, loads, line>>
-----------------------------------------------------------------------------
ChatInit ==
    /\ log = <<>> /\ post = NoPost
    /\ \E t \in Thread \cup {NoThread} : view =
              [active |-> NoThread, compose |-> t, shown |-> <<>>, before |-> 0,
               more |-> FALSE, older |-> FALSE, loaded |-> FALSE, clean |-> TRUE, due |-> {},
               heard |-> {}, behind |-> {}, unsure |-> FALSE]
    /\ loads = [s \in Slot |-> NoLoad]
    /\ line = [at |-> "none", timer |-> FALSE, frames |-> <<>>, sends |-> <<>>]

Browse ==
    \/ \E s \in Slot : \/ LoadOlder(s) \/ Serve(s) \/ ShowPage(s) \/ ShowOlder(s)
                       \/ LoadFails(s)
                       \/ \E t \in Thread : OpenThread(t, s)
    \/ BackToInbox

Socketry == LineOpens \/ LineDrops \/ Redial \/ FrameIsRead
            \/ \E i \in ChatId : FrameComes(i)

Sends ==
    \/ SendLive \/ SendText \/ SendMedia \/ SendFirst
    \/ SendIsHandled \/ PostFails
    \/ (\E i \in ChatId : PostIsSaved(i)) \/ (\E s \in Slot : PostIsAnswered(s))

Writing == \E i \in ChatId, t \in Thread, mine \in BOOLEAN : OthersWrite(i, t, mine)

ChatNext == Browse \/ Socketry \/ Sends \/ Writing
ChatSpec == ChatInit /\ [][ChatNext]_chatVars
-----------------------------------------------------------------------------
ChatTypeOK ==
    /\ log \in Seq(LogEntry)
    /\ view \in View
    /\ loads \in [Slot -> Load \cup {NoLoad}]
    /\ post \in Post \cup {NoPost}
    /\ line \in Line

\* An open thread whose page has come, and no answer to another view on top.
Settled == view.loaded /\ view.clean

\* Pages, frames and answers to sends overlap in what they bring, and a message
\* is on the page once: unless it came by a frame or an answer when the cursor
\* was past it, and comes again with the older page.
ShownOnce ==
    view.clean => \A j, k \in DOMAIN view.shown :
        j # k /\ view.shown[j].id = view.shown[k].id
            => view.shown[j].id \in {Bubble} \cup view.behind

\* However frames, sends and older pages interleave, what was there when the
\* thread was read is on the page as far back as the cursor, and all of it when
\* there is no more; nothing that came since gets lost; and nothing of another
\* thread is among it.
PageIsComplete ==
    Settled =>
        /\ \A i \in view.due : (view.more => i >= view.before) => Shows(view, i)
        /\ \A i \in view.heard : Shows(view, i)
        /\ \A k \in DOMAIN view.shown : view.shown[k].thread = view.active

\* What can still answer for a bubble of the open thread.
Pending ==
    Cardinality({k \in DOMAIN line.sends : line.sends[k] = view.active})
  + Cardinality({k \in DOMAIN line.frames :
        LET f == line.frames[k] IN
        f.type = "error" \/ (f.type = "ack" /\ ThreadOf(f.id) = view.active)})
  + (IF post.at \in {"asked", "saved"} /\ post.kind = "text" /\ post.thread = view.active THEN 1 ELSE 0)

\* No bubble outlives its send: each one on the page has a send, an answer or a
\* request under way, though answers drop bubbles that are not theirs, unless a
\* socket was lost under them.
NoPhantom == view.unsure \/ Cardinality(Unsent(view)) <= Pending
=============================================================================
