------------------------------- MODULE Relay -------------------------------
(***************************************************************************)
(* How a committed message reaches the sockets of its recipient            *)
(* (realtime.py, routers/realtime.py).  Each worker process pushes to its  *)
(* own sockets first and then publishes the frame on the recipient's Redis *)
(* channel; each process's relay task listens on the channels of the users *)
(* connected to it, pushes what it hears to its own sockets, and skips the *)
(* ids its process has just pushed itself.                                 *)
(*                                                                         *)
(* Tasks of a process interleave at every await.  Redis and the links to   *)
(* it fail at any time, sockets die or hang at any time, and so do the     *)
(* processes.                                                              *)
(***************************************************************************)
EXTENDS DirectMessages, FiniteSets

CONSTANTS
    Process, Socket,
    Home,            \* the process of each desk
    CacheSize        \* ids a process remembers having pushed (500)

ASSUME HomeAssumption == Home \in [Desk -> Process]
ASSUME CacheAssumption == CacheSize \in Nat \ {0}

VARIABLES
    sockets,     \* the clients' connections
    procs,       \* per process: its relay and what it keeps
    pushes       \* per desk: the frame it is pushing

relayVars == <<sockets, procs, pushes>>

Off == [at |-> "off"]
NoPush == [at |-> "idle"]

\* open: in its process's registry.  stale: dropped from it after a failed
\* send, though its own handler still runs.
Connection == [at : {"open", "stale"}, proc : Process, user : User, got : Seq(Id)]

\* One pass of _deliver_local: the sockets still to be tried, those that took
\* the frame and those that failed.
Pass == [id : Id, to : User, todo : SUBSET Socket,
         fine : SUBSET Socket, dead : SUBSET Socket]

Push == [at : {"sending"}, pass : Pass]

\* pending and subscribed are the process's own books, channels what Redis
\* sends it; asked is the subscription under way, evicted the ids that fell out
\* of delivered before their frame came back.
Fresh == [at |-> "top", link |-> "none",
          pending |-> {}, subscribed |-> {}, channels |-> {}, asked |-> {},
          inbox |-> <<>>, delivered |-> <<>>, evicted |-> {}, pass |-> <<>>]

Live(s) == sockets[s] # Off
Registry(p, u) ==
    {s \in Socket : /\ Live(s) /\ sockets[s].at = "open"
                    /\ sockets[s].proc = p /\ sockets[s].user = u}
Connected(p, u) == Registry(p, u) # {}
Pushing(d) == pushes[d] # NoPush
Unheard(p) == procs[p].pending \ procs[p].subscribed

InUse(s) ==
    \/ \E d \in Desk : Pushing(d) /\ s \in pushes[d].pass.todo \cup pushes[d].pass.dead
    \/ \E p \in Process : /\ procs[p].at = "sending"
                           /\ s \in procs[p].pass.todo \cup procs[p].pass.dead
-----------------------------------------------------------------------------
(* Sockets.                                                                *)

\* A connection is a new object: no pass under way knows it.
Connect(s, p, u) ==
    /\ ~Live(s) /\ ~InUse(s)
    /\ sockets' = [sockets EXCEPT ![s] =
                      [at |-> "open", proc |-> p, user |-> u, got |-> <<>>]]
    /\ procs' = [procs EXCEPT ![p].pending = @ \cup {u}]
    /\ UNCHANGED <<messageVars, pushes>>

\* A mutant: every socket that closes takes the channel off the books.
MutDisconnect(s) ==
    LET p == sockets[s].proc
        u == sockets[s].user IN
    /\ Live(s)
    /\ sockets' = [sockets EXCEPT ![s] = Off]
    /\ procs' = [procs EXCEPT ![p].pending = @ \ {u}, ![p].subscribed = @ \ {u}]
    /\ UNCHANGED <<messageVars, pushes>>

\* The last registered socket of a user takes the channel off the books.
Disconnect(s) ==
    LET p == sockets[s].proc
        u == sockets[s].user
        last == Registry(p, u) = {s} IN
    /\ Live(s)
    /\ sockets' = [sockets EXCEPT ![s] = Off]
    /\ procs' = IF last THEN [procs EXCEPT ![p].pending = @ \ {u},
                                           ![p].subscribed = @ \ {u}]
                ELSE procs
    /\ UNCHANGED <<messageVars, pushes>>

\* What a send on s does: the frame arrives or not, and the send returns or
\* times out.  One that timed out may have arrived all the same.
Sending(s, id, arrives) ==
    sockets' = IF arrives THEN [sockets EXCEPT ![s].got = Append(@, id)] ELSE sockets

Tried(pass, s, returns) ==
    [pass EXCEPT !.todo = @ \ {s},
                 !.fine = IF returns THEN @ \cup {s} ELSE @,
                 !.dead = IF returns THEN @ ELSE @ \cup {s}]

\* The failed sockets leave the registry.
Dropped(dead) ==
    [s \in Socket |-> IF s \in dead /\ Live(s) THEN [sockets[s] EXCEPT !.at = "stale"]
                      ELSE sockets[s]]

PassFor(p, id, u) == [id |-> id, to |-> u, todo |-> Registry(p, u),
                      fine |-> {}, dead |-> {}]
-----------------------------------------------------------------------------
(* Pushing from the process that handled the send.                         *)

\* A mutant: a list that only grows.
MutRemember(r, id) == [r EXCEPT !.delivered = Append(@, id)]

\* delivered is a deque(maxlen): the oldest id falls out.
Remember(r, id) ==
    IF Len(r.delivered) < CacheSize THEN [r EXCEPT !.delivered = Append(@, id)]
    ELSE [r EXCEPT !.delivered = Append(Tail(@), id),
                   !.evicted = @ \cup {Head(r.delivered)}]

Hears(r, u) == r.link = "live" /\ u \in r.channels

Published(ps, id, u) ==
    [p \in Process |->
        IF Hears(ps[p], u)
        THEN [ps[p] EXCEPT !.inbox = Append(@, <<id, u>>)] ELSE ps[p]]

\* A mutant: the frame goes back to the sender.
MutStartPush(d) ==
    LET j == jobs[d]
        u == j.from IN
    /\ At(d, "sent") /\ ~Pushing(d)
    /\ jobs' = [jobs EXCEPT ![d] = Idle]
    /\ IF Connected(Home[d], u)
       THEN /\ pushes' = [pushes EXCEPT ![d] =
                             [at |-> "sending", pass |-> PassFor(Home[d], j.id, u)]]
            /\ procs' = procs
       ELSE /\ procs' \in {procs, Published(procs, j.id, u)}
            /\ pushes' = pushes
    /\ UNCHANGED <<access, store, files, astray, reader, sockets>>

\* The message is committed and read back; with no socket here it is only
\* published, at once.
StartPush(d) ==
    LET j == jobs[d]
        u == Recipient(Row(j)) IN
    /\ At(d, "sent") /\ ~Pushing(d)
    /\ jobs' = [jobs EXCEPT ![d] = Idle]
    /\ IF Connected(Home[d], u)
       THEN /\ pushes' = [pushes EXCEPT ![d] =
                             [at |-> "sending", pass |-> PassFor(Home[d], j.id, u)]]
            /\ procs' = procs
       ELSE /\ procs' \in {procs, Published(procs, j.id, u)}
            /\ pushes' = pushes
    /\ UNCHANGED <<access, store, files, astray, reader, sockets>>

\* A send that came in on a socket is acknowledged there first; if that socket
\* is gone the frame goes to nobody.
AckFails(d) ==
    /\ At(d, "sent") /\ jobs[d].key = NoKey
    /\ jobs' = [jobs EXCEPT ![d] = Idle]
    /\ UNCHANGED <<access, store, files, astray, reader, relayVars>>

PushOne(d, s) ==
    /\ Pushing(d) /\ s \in pushes[d].pass.todo
    /\ \E returns, arrives \in BOOLEAN :
          /\ returns => arrives
          /\ arrives => Live(s)
          /\ Sending(s, pushes[d].pass.id, arrives)
          /\ pushes' = [pushes EXCEPT ![d].pass = Tried(@, s, returns)]
    /\ UNCHANGED <<messageVars, procs>>

\* A mutant: the id is remembered only if no socket failed.
MutEndPush(d) ==
    LET pass == pushes[d].pass
        p == Home[d]
        known == IF pass.dead # {} THEN procs
                 ELSE [procs EXCEPT ![p] = Remember(@, pass.id)] IN
    /\ Pushing(d) /\ pass.todo = {}
    /\ sockets' = Dropped(pass.dead)
    /\ procs' \in {known, Published(known, pass.id, pass.to)}
    /\ pushes' = [pushes EXCEPT ![d] = NoPush]
    /\ UNCHANGED messageVars

\* After the last socket, without another await: drop the failed ones,
\* remember the id if anybody took it, publish (Redis may not take it).
EndPush(d) ==
    LET pass == pushes[d].pass
        p == Home[d]
        known == IF pass.fine = {} THEN procs
                 ELSE [procs EXCEPT ![p] = Remember(@, pass.id)] IN
    /\ Pushing(d) /\ pass.todo = {}
    /\ sockets' = Dropped(pass.dead)
    /\ procs' \in {known, Published(known, pass.id, pass.to)}
    /\ pushes' = [pushes EXCEPT ![d] = NoPush]
    /\ UNCHANGED messageVars
-----------------------------------------------------------------------------
(* The relay task of process p.                                            *)

Relaying(p, stage) == procs[p].at = stage

\* A mutant: only a relay that hears nothing yet asks.
MutAsk(p) ==
    /\ Relaying(p, "top") /\ Unheard(p) # {} /\ procs[p].subscribed = {}
    /\ procs' = [procs EXCEPT ![p].at = "asking", ![p].asked = Unheard(p)]
    /\ UNCHANGED <<messageVars, sockets, pushes>>

\* Top of the loop: ask for the channels the process does not yet hear.
Ask(p) ==
    /\ Relaying(p, "top") /\ Unheard(p) # {}
    /\ procs' = [procs EXCEPT ![p].at = "asking", ![p].asked = Unheard(p)]
    /\ UNCHANGED <<messageVars, sockets, pushes>>

Subscribe(p) ==
    /\ Relaying(p, "asking") /\ procs[p].link # "broken"
    /\ procs' = [procs EXCEPT ![p].at = "get", ![p].link = "live",
                              ![p].channels = @ \cup procs[p].asked,
                              ![p].subscribed = @ \cup procs[p].asked,
                              ![p].asked = {}]
    /\ UNCHANGED <<messageVars, sockets, pushes>>

Listening(p) == Relaying(p, "get") \/ (Relaying(p, "top") /\ Unheard(p) = {})

\* remove takes the first occurrence.
FirstAt(seq, e) == {k \in DOMAIN seq : seq[k] = e /\ \A l \in 1 .. k - 1 : seq[l] # e}

\* One frame: skipped if this process pushed it, else pushed to the sockets
\* registered now.
Hear(p) ==
    LET r == procs[p]
        id == Head(r.inbox)[1]
        u == Head(r.inbox)[2]
        rest == [r EXCEPT !.at = "top", !.inbox = Tail(@)] IN
    /\ Listening(p) /\ r.link = "live" /\ r.inbox # <<>>
    /\ \/ \E k \in FirstAt(r.delivered, id) :
             procs' = [procs EXCEPT ![p] = [rest EXCEPT !.delivered = RemoveAt(@, k)]]
       \/ /\ ~Contains(r.delivered, id)
          /\ procs' = [procs EXCEPT ![p] =
                 IF Connected(p, u)
                 THEN [rest EXCEPT !.at = "sending", !.pass = PassFor(p, id, u)]
                 ELSE rest]
    /\ UNCHANGED <<messageVars, sockets, pushes>>

\* A mutant: what comes first after subscribing is taken for its confirmation.
MutHearNothing(p) ==
    /\ Relaying(p, "get") /\ procs[p].link = "live"
    /\ procs' = [procs EXCEPT ![p].at = "top", ![p].inbox = <<>>]
    /\ UNCHANGED <<messageVars, sockets, pushes>>

\* Nothing came for a while.
HearNothing(p) ==
    /\ Relaying(p, "get") /\ procs[p].link = "live" /\ procs[p].inbox = <<>>
    /\ procs' = [procs EXCEPT ![p].at = "top"]
    /\ UNCHANGED <<messageVars, sockets, pushes>>

RelayOne(p, s) ==
    /\ Relaying(p, "sending") /\ s \in procs[p].pass.todo
    /\ \E returns, arrives \in BOOLEAN :
          /\ returns => arrives
          /\ arrives => Live(s)
          /\ Sending(s, procs[p].pass.id, arrives)
          /\ procs' = [procs EXCEPT ![p].pass = Tried(@, s, returns)]
    /\ UNCHANGED <<messageVars, pushes>>

EndRelay(p) ==
    /\ Relaying(p, "sending") /\ procs[p].pass.todo = {}
    /\ sockets' = Dropped(procs[p].pass.dead)
    /\ procs' = [procs EXCEPT ![p].at = "top", ![p].pass = <<>>]
    /\ UNCHANGED <<messageVars, pushes>>

\* Any failure of the client: the relay forgets what it subscribed to, drops
\* the client and starts over.
RelayFails(p) ==
    /\ \/ Relaying(p, "asking")
       \/ Listening(p) /\ procs[p].link = "broken"
    /\ procs' = [procs EXCEPT ![p].at = "top", ![p].link = "none",
                              ![p].subscribed = {}, ![p].channels = {},
                              ![p].asked = {}, ![p].inbox = <<>>]
    /\ UNCHANGED <<messageVars, sockets, pushes>>
-----------------------------------------------------------------------------
(* What goes wrong around them.                                            *)

Cut(r) == IF r.link = "live" THEN [r EXCEPT !.link = "broken", !.inbox = <<>>] ELSE r

\* A restart of Redis breaks them all, one after the other.
LinkBreaks(p) ==
    /\ procs[p].link = "live" /\ procs' = [procs EXCEPT ![p] = Cut(@)]
    /\ UNCHANGED <<messageVars, sockets, pushes>>

\* The client library reconnects by itself and subscribes again.
Reconnects(p) ==
    /\ procs[p].link = "broken"
    /\ procs' = [procs EXCEPT ![p].link = "live"]
    /\ UNCHANGED <<messageVars, sockets, pushes>>

\* A worker dies and is started again: its requests, sockets and books are gone.
Crash(p) ==
    LET mine == {d \in Desk : Home[d] = p} IN
    /\ jobs' = [d \in Desk |-> IF d \in mine THEN Idle ELSE jobs[d]]
    /\ astray' = astray \cup
           ({jobs[d].key : d \in {e \in mine : Busy(e) /\ ~At(e, "sent")}} \ {NoKey})
    /\ pushes' = [d \in Desk |-> IF d \in mine THEN NoPush ELSE pushes[d]]
    /\ sockets' = [s \in Socket |->
           IF Live(s) /\ sockets[s].proc = p THEN Off ELSE sockets[s]]
    /\ procs' = [procs EXCEPT ![p] = Fresh]
    /\ UNCHANGED <<access, store, files, reader>>

RelayInit ==
    /\ sockets = [s \in Socket |-> Off]
    /\ procs = [p \in Process |-> Fresh]
    /\ pushes = [d \in Desk |-> NoPush]

RelayStep(p) ==
    \/ Ask(p) \/ Subscribe(p) \/ Hear(p) \/ HearNothing(p)
    \/ (\E s \in Socket : RelayOne(p, s)) \/ EndRelay(p) \/ RelayFails(p)

PushStep(d) == StartPush(d) \/ (\E s \in Socket : PushOne(d, s)) \/ EndPush(d)

\* Requests, readers and everything around them, with the sockets at rest.
MessagesNext ==
    \/ Change \/ Reads
    \/ \E d \in Desk : SendStep(d) \/ SendFails(d)
    \/ \E d \in Desk, from, to \in User, key \in Key \cup {NoKey} :
          Begin(d, from, to, key) \/ StorageFails(d, key)

RelayNext ==
    \/ MessagesNext /\ UNCHANGED relayVars
    \/ \E d \in Desk : PushStep(d) \/ AckFails(d)
    \/ \E p \in Process : RelayStep(p) \/ Crash(p) \/ LinkBreaks(p) \/ Reconnects(p)
    \/ \E s \in Socket, p \in Process, u \in User : Connect(s, p, u) \/ Disconnect(s)

RelaySpec ==
    MessagesInit /\ RelayInit /\ [][RelayNext]_<<messageVars, relayVars>>
-----------------------------------------------------------------------------
Proc == [at : {"top", "asking", "get", "sending"}, link : {"none", "live", "broken"},
         pending : SUBSET User, subscribed : SUBSET User, channels : SUBSET User,
         asked : SUBSET User, inbox : Seq(Id \X User), delivered : Seq(Id),
         evicted : SUBSET Id, pass : Pass \cup {<<>>}]

RelayTypeOK ==
    /\ \A s \in Socket : Live(s) => sockets[s] \in Connection
    /\ \A p \in Process : procs[p] \in Proc /\ Len(procs[p].delivered) <= CacheSize
    /\ \A d \in Desk : Pushing(d) => pushes[d] \in Push

TypeOK == MessagesTypeOK /\ RelayTypeOK

Times(s, i) == Cardinality({k \in DOMAIN sockets[s].got : sockets[s].got[k] = i})

\* A socket is never sent the same message by its process's own push and again
\* by its relay, unless so many pushes came between that the id fell out of the
\* delivered ids before its frame came back.
TwiceOnlyIfEvicted ==
    \A s \in Socket : Live(s) =>
        \A i \in Id \ procs[sockets[s].proc].evicted : Times(s, i) <= 1

\* Whatever a socket was sent is a committed message to the user who signed in
\* on it: a push overtakes no commit, and no frame strays to another channel.
FramesAreCommitted ==
    \A s \in Socket : Live(s) =>
        \A k \in DOMAIN sockets[s].got :
            /\ sockets[s].got[k] \in DOMAIN messages
            /\ Recipient(messages[sockets[s].got[k]]) = sockets[s].user

\* No connected user is forgotten: the process of a registered socket hears its
\* user's channel, or knows that it has to ask for it, or has a broken link and
\* will find out; connecting and disconnecting while it asks changes nothing.
NobodyForgotten ==
    \A p \in Process, u \in User : Connected(p, u) =>
        /\ u \in procs[p].pending
        /\ u \in procs[p].subscribed => u \in procs[p].channels

\* As long as user u stays connected, process p comes to hear the channel,
\* however often the link breaks, if Redis does not refuse it for ever.
IsHeard(p, u) == Connected(p, u) ~> ~Connected(p, u) \/ Hears(procs[p], u)

Awaits(p, s, i) ==
    /\ Live(s) /\ sockets[s].at = "open" /\ sockets[s].proc = p
    /\ procs[p].link = "live"
    /\ Contains(procs[p].inbox, <<i, sockets[s].user>>)
    /\ ~Contains(procs[p].delivered, i)

\* A frame that reached process p reaches each socket registered there, or the
\* socket is dropped or closed, or the link breaks first.
IsBrought(p, s, i) ==
    Awaits(p, s, i) ~> \/ ~Live(s) \/ sockets[s].at = "stale"
                       \/ procs[p].link # "live"
                       \/ Contains(sockets[s].got, i)
=============================================================================
