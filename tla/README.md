# A formal model of proj-cc

proj-cc is a subscription platform for creators: subscribers pay monthly
through a creator's own payment gateways (Stripe, PayPal, Wompi, or a mock),
gateways report by webhook, and access to posts, stories, media and direct
messages follows from the subscription row. The back end is FastAPI on
PostgreSQL (gunicorn with two processes, sync handlers in a thread pool), with
a Celery worker, Redis, and a TypeScript client.

This directory holds TLA+ modules of the parts whose correctness depends on
order, concurrency and failure, TLC runs that check them on small instances,
and proofs, checked by TLAPS, that the main properties hold for every instance.

## Inventory

| Component | State | Operations | Hard part |
|---|---|---|---|
| Subscription lifecycle (`services/subscriptions.py`, `routers/subscriptions.py`) | one `subscription` row per (subscriber, creator) | subscribe, cancel, reconcile a webhook, hourly expiry | handlers read, call a gateway or compute, and commit; others commit in between |
| Payment providers (`payments/`) | the gateways' own records | open checkout, stop renewing, normalize an event | five event kinds with different references, periods and payers; redelivery, reordering |
| Idempotency and revenue ledger (`models.py`) | `processed_webhook_event`, `payment` | mark and book in the reconciler's transaction | concurrent delivery, crash before the answer |
| Creator blocks (`routers/creator_blocks.py`) | `blocked_user` | block (cancels and detaches the subscription), unblock | payments in flight |
| Access levels (`access.py`) | none | follower and block rule shared by all gates | must agree with the lifecycle |
| Scheduled tasks (`tasks.py`, `celery_app.py`) | broker queue | expire, notify, purge stories | at-most-once notices, sweep against renewal |
| One-time unlocks (`services/broadcasts.py`, `services/paid_messages.py`) | `paid_unlock`, `paid_message_unlock` | open link, paid, refunded, buy again | late refunds, replaced references |
| Webhook routing (`routers/webhooks.py`) | none | verify, choose unlock or subscription reconciler | events that fall through to the wrong one |
| Direct messages (`services/messages.py`, `routers/messages.py`) | `conversation`, `message` | send, list, read, unlock | two first messages at once, the DM gate |
| Realtime relay (`realtime.py`, `routers/realtime.py`) | sockets, channel sets, delivered ids | connect, send, relay, recover | loss and duplication across processes and outages |
| Auth, tokens (`routers/auth.py`, `token_store.py`) | Redis denylist | issue, rotate, log out, reset | concurrent rotation, store away |
| Rate limits, proof of work (`ratelimit.py`, `pow.py`) | Redis counters, used challenges | hit, consume | two-step INCR/EXPIRE, fail-open |
| Posts, stories, media (`routers/posts.py`, `routers/creator_content.py`, `services/stories.py`, `media.py`, `storage.py`, `cache.py`) | rows, private files, cached renditions | upload, serve, delete, purge | files and rows are not one transaction |
| Gateway configuration (`routers/creator.py:373-502`, `services/gateways.py`) | one JSON column per gateway | save, enable, create a billing plan | read-modify-write of one column |
| Dashboard, profiles, landing, admin, legal | single rows | edit, list | none |
| Web client (`frontend/src`) | view state | open a thread, page back, send, receive | pages, frames and unsent bubbles that overlap |

The components meet in the database (every handler is a session of its own),
in the webhook endpoint (gateways to unlocks and subscriptions), in
`access.py` (lifecycle and blocks to every content gate), in Celery
(lifecycle to mail, expiry to lifecycle) and in Redis (tokens, limits, relay,
cache). `PROJECT.json` lists each component with what is and is not modelled,
and the hazards at the lines where they bite, with the properties that cover
them.

What makes each correct, in a sentence:

- lifecycle: a row is active only because a gateway said so; a cancellation is
  never lost and is carried out; a payment reaches the pair it was made for;
- ledger: an event takes effect once;
- blocks: a blocked pair has no access, whatever arrives later;
- unlocks: paid content opens once per payment and closes with its refund;
- routing: every event reaches the one row that owns its reference;
- messages: one conversation per pair, nothing sent past a block;
- relay: a message reaches each live socket, once;
- tokens: a refresh token is used once, a revoked token stays revoked;
- chat page: each message once, none missing from what was read, no bubble
  without its send;
- media: a file exists exactly while a row names it, and is served to viewers
  with access only.

## Modules

| Module | Models |
|---|---|
| `SubscriptionRules` | the decisions that touch no database: status, period, booking, the row a reconciler writes, the columns an UPDATE names |
| `GatewayEvents` | what each gateway opens and sends once normalized by `verify_webhook` |
| `RevenueLedger` | abstract: an event is settled once, with at most one booking |
| `Subscriptions` | the lifecycle: requests, deliveries, commits, sweep, blocks, gateways, clock |
| `Unlocks` | one-time purchases of broadcasts and paid messages: links, payments, refusals, refunds, deletion |
| `WebhookRouting` | the webhook endpoint in front of `Unlocks` and `Subscriptions` |
| `Clock` | seconds in ticks, and a Redis that comes and goes |
| `Sessions` | token pairs: issue, rotate, log out, authenticate, the denylist |
| `Accounts` | register, login's guards, reset and change of passwords, proofs of work, budgets |
| `DirectMessages` | the gate of a send, first contact, uploads, the paged history |
| `Relay` | sockets, push, publish and relay tasks of several processes, on top of `DirectMessages` |
| `Chat` | the client's chat page: threads, pages of history, the socket, sends, unsent bubbles |
| `Media` | posts, stories, files, the sweep, the gates of media, the cache, listings, likes |
| `MCSubscriptions`, `MCMatching`, `MCUnlocks`, `MCWebhookRouting`, `MCBrowser`, `MCMessaging`, `MCMedia` | small instances for TLC |
| `SubscriptionsProofs`, `UnlocksProofs`, `RoutingProofs`, `AccountsProofs`, `MediaProofs`, `MessagesProofs`, `RelayProofs`, `ChatProofs` | the theorems; `RoutingProofs` builds on the two before it, `RelayProofs` on `MessagesProofs`; `AccountsProofs` has those of `Sessions` too |

How they fit together: `SubscriptionRules` and `GatewayEvents` are pure;
`Subscriptions` composes them with the database and the gateways.
`WebhookRouting` EXTENDS `Subscriptions` and takes `Unlocks` by INSTANCE, with
the one ledger of processed events shared. `Subscriptions` and `Unlocks` both
implement `RevenueLedger` (`Account` is the pair for one, the buyer and item
for the other). `Relay` EXTENDS `DirectMessages`: what is pushed is what was
committed there. `Sessions` and `Accounts` share `Clock` and nothing else. `Chat`
stands at the other end of the wire from `Relay` and takes of both back-end
modules what they leave possible: commits out of the order of ids, frames that
come late, twice or never.

### Subscriptions

`row[p]` is the `Subscription` row of a (subscriber, creator) pair, without the
columns nothing decides by (price, consent, period start). `processed` and
`booked` are the two ledgers, `blocked` the block list. `job[w]` is a thread in
the middle of a request, with what it has read. `checkout[c]` and `sent[e]` are
the gateways' side; `acked` the events answered with 200; `notified` the queued
notices; `now` a clock that ticks in subscription periods.

A handler is split where another commit can come between, and only there:

| Code | Actions |
|---|---|
| `subscribe`, `create_subscription` | `SubscribeAdmit` (block check, gateway), `SubscribeExisting` or `SubscribeRead` (the row), `SubscribeCommit` (gateway call and commit) or `SubscribeConflict` (unique constraint) |
| `handle_webhook` | `DeliverDuplicate`, `DeliverUnmatched`, or `DeliverMatched` (lookup) then `ReconcileCommit` or `ReconcileLost`, then `NotifyFailure` |
| `cancel`, `cancel_at_period_end` | `CancelRead`, `CancelTell` or `CancelRejected` (Stripe), `CancelCommit` |
| `block_user`, `unblock_user` | `BlockRead`, `BlockCommit`, `Unblock` |
| `expire_canceled_subscriptions` | `SweepRead`, `SweepCommit` |
| a process that dies, a gateway that errs | `Abort` |
| gateways | `Charge`, `Decline`, `Announce`, `End` |

A commit is the session's UPDATE at PostgreSQL's default isolation: it writes
the columns whose value differs from what the request read (`Flush`). That is
SQLAlchemy's behaviour and the reason why some lost updates cannot happen and
others can. The two unique constraints are `SubscribeConflict` and `Markable`;
a second block of one pair waits for the first one's insert (`BlockRead`).

Events carry `charged`, the pair whose checkout they are about. No handler reads
it: it is what the properties compare the reconciler's choice with. On Wompi's
page the payer types an address, so an event may give any subscriber's or none,
and may name the transaction instead of the link; this is what the email lookup
is there for. Wompi's legacy and flat payloads (`wompi.py:229-315`) may echo the
merchant reference, which pins the creator and makes them recurring, or omit it
and be recurring or not; a reference that is no number counts as none
(`subscriptions.py:357-358`). `AsPaid` has every combination of these.
Stripe's and the mock's lifecycle events carry any status of the service's map.

### Unlocks and webhook routing

`unlock[k]` is the row of a buyer and an item, `booked` and `returned` the
payments of kind `unlock` and those marked refunded, `link[l]` what the gateway
opened a payment link for. `BuyPost`/`BuyMessage` then `LinkCommit` or
`LinkConflict` are `create_unlock`; `DeliverPaidPost`/`DeliverPaidMessage` then
`PaidCommit` or `CommitLost` are `handle_paid`; `DeliverRefund` then
`RefundCommit` is `handle_refunded`; `DeletePost` takes the rows and leaves the
payments. `Relinked` is again the column-wise UPDATE of a row that was
reactivated in place. `ByRef` and `Refunded` are the lookups, per item kind, and
in the order of the router. `Pay`, `Refuse` and `Refund` are the gateways: Wompi
may name the transaction, the mock quotes the link, Stripe's refund quotes the
charge.

`WebhookRouting` adds `FallThrough`: the event no unlock owns, as the
subscription reconciler reads it. Every step of it is one of `Unlocks`
(`UnlockStep`) or of `Subscriptions`, on one ledger of marks and answers, with a
thread that serves one request at a time (`OneRequest`) and events whose ids
are their own (`DistinctIds`). A fallen event is an event of `Subscriptions` from
then on; it may fall while an earlier delivery of it, which still found its
unlock, is at work. `UnlocksUndisturbed` is the refinement that says what this
amounts to: with the marks and answers of events about unlocks, the composition
is `Unlocks`, in which such a step is `DeliverElsewhere`.

### Sessions and accounts

`pair` is the sequence of token pairs issued, `denied[t]` until when the
denylist has token t, `job[w]` a refresh or logout between two calls of the token
store. Tokens expire by whole seconds while Redis drops a key at an instant, so
`Clock` has several ticks to a second. `Refresh`/`RefreshAnswer` is the atomic
claim of the refresh token (`SET NX`), which fails when Redis is away;
`Authenticates` asks the denylist and lets everybody pass when Redis is away.
`Accounts` has `Register`/`RegisterCommit` (two requests for one address or name),
`Forgot`/`Reset`/`Change`/`PasswordCommit`, and `Login` with its three guards in the
order the code asks them.

### Messages and the relay

`jobs[d]` is a send request that reads its gate one query at a time (`Gate`,
`LookUp`, `Follower`, `Policy`), opens or inserts the thread (`Open`, `Insert`,
which waits for an uncommitted insert of the same pair), draws its id (`Write`)
and commits (`Commit`). Its files are saved before (`Begin`) and deleted when it
ends without a row (`Drop`). `Change` is any change of blocks, follows or the
policy. Each job records, for the properties only, what `messages_status`
answered when it came in, whether anything has changed since, and which
conditions held at some instant since. `reader` is somebody paging back through
a thread with the `before` cursor.

`procs[p]` is a worker process: the users connected to it, what its relay
believes it is subscribed to and what Redis really sends it, the frames that
wait, the ids it has pushed itself (a bounded deque), and where its relay task
is. `pushes[d]` is the push of a committed message to the sender's process's own
sockets, one await per socket. `sockets[s].got` is what a client has received.
Links break and reconnect, sends hang and time out, processes crash.

### The chat page

`view` is the page (`frontend/src/pages/chat.ts`): the open thread, the messages
and bubbles it shows, the cursor and whether there is more. A bubble has no id
yet and stands for the negative ones of the code. `loads[s]` is a request for a
page of history, `post` the one send over HTTP, `line` the socket with its frames
both ways and the retry timer.

| Code | Actions |
|---|---|
| `_openThread`, `_loadOlder` | `OpenThread`, `LoadOlder` (the request), `Serve` (the back end's read), `ShowPage`, `ShowOlder` or `LoadFails` (the answer) |
| `_backToInbox` | `BackToInbox` |
| `_openWs` and its callbacks | `Dialed`, `LineOpens`, `LineDrops`, `Redial` |
| `_onWsFrame`, `_ingestMessage`, `_dropLastOptimistic` | `FrameIsRead` with `Ingested`, `WithoutBubble` |
| `_send` | `SendLive`; `SendText`, `SendMedia`, `SendFirst`, then `PostIsSaved`, `PostIsAnswered` or `PostFails` |
| the back end's side | `SendIsHandled`, `FrameComes`, `OthersWrite` |

An answer is taken by whatever view is there when it comes, as the code does:
`stale` marks the request of a view that has been left. `clean`, `due`, `heard`,
`behind` and `unsure` of `view` are for the properties only.

### Media

`rows`, `files`, `work[w]` (an upload or deletion between its files and its
commit), `sweep`, the viewers' standing, `cache`, and `visits[x]`, which reads row,
follow, block, unlock, media row, file and cache one after the other. `astray`
collects the keys of requests that broke off halfway (a failing write, a lost
answer of a commit, a dead worker, a failed delete): what they leave is listed
under "Seen in the models". Visits keep what was listed when they came in and
which conditions held since, for the properties only.

## Runs

| Run | Instance | Shows |
|---|---|---|
| `lifecycle` | one pair: Stripe, 2 workers, 2 checkouts, 2 events, clock 0..1 | one effect per event (`ImplementsLedger`); a cancellation is kept (`CancelIsKept`); a row's page and reference stay of one checkout (`PageKeepsRef`); a failed charge comes to one notice at most (`NoticedOnce`) |
| `matching` | one pair: Stripe and the mock, 2 workers, 3 checkouts, 1 event | types; a row's reference is of the gateway it names, until an overtaken request commits (`GatewayKeepsRef`) |
| | 2 subscribers, 2 creators: Wompi and the mock, 1 worker, 2 checkouts, 1 event | a payment is booked to the pair charged, or through the address given at Wompi, within the creator it pins, once no row stores its reference (`BookedToPayer`); no access without an event that may count for the pair (`AccessEarned`) |
| `liveness` | PayPal, 1 pair, 2 workers, 1 checkout, 1 event, clock 0..1 | every event is acknowledged, every overdue cancellation carried out |
| `unlocks` | 3 gateways, 1 buyer, a post and a message, 2 workers, 2 links, 3 events | nothing opens unpaid (`OpenIsPaid`) or, but for a second refund, without revenue (`OpenIsCounted`); what was acknowledged has opened (`AckedIsOpened`); one effect per event (`ImplementsLedger`) |
| `routing` | Wompi and mock, 1 buyer, a post or a message, 2 workers, 1 checkout, 2 links, 2 events | an event takes effect once, in one reconciler (`EndpointLedger`); unlocks behind the endpoint are `Unlocks` (`UnlocksUndisturbed`); what strays is Wompi's (`StraysAreWompi`) |
| `sessions` | 1 user, 3 pairs, 2 servers; 2 emails, 1 challenge, 1 code; 2 ticks a second, 3 ticks | one pair per refresh token (`RefreshOnce`), no session after logout (`LoggedOutStaysOut`), a challenge once (`ProofOnce`), budgets kept (`BudgetKept`); chat page: 2 threads, 2 requests, ids 1 to 2, pages of 1, one frame each way, 2 bubbles: types; each message once (`ShownOnce`), nothing read goes missing or is another thread's (`PageIsComplete`), no bubble outlives its send (`NoPhantom`) |
| `messaging` | 1 creator, 1 subscriber, 2 desks in 2 processes, 2 sockets, 1 upload, 3 messages, page of 1, deque of 1 | `WrittenByLeave`, `StatusMirrorsGate`, `FilesMatchRows`, `HistoryIsComplete`; `TwiceOnlyIfEvicted`, `FramesAreCommitted`, `NobodyForgotten`; `EventuallyHeard`, `FramesArrive` |
| `media` | 2 items, 2 pictures, 2 viewers and the owner, 2 workers, 2 visits | `DiskMatchesRows`, `ServedByLeave`, `ListingsTellTheTruth`, `LikeIsKept`; `ExpiredGoesAway` |
| `flag`, `block`, `months`, `crosscredit` | as small as shows it | four statements of comments and documents the code does not keep |

Bounds. Two workers, desks or visits give every pair of concurrent handlers, and
every property is about at most two handlers meeting on one row. `Unlocks` has
one state that takes three (under "Seen in the models"); its theorems hold for
any number of workers.

- `lifecycle`: two checkouts let a pair be subscribed, ended and subscribed again,
  so that an old event meets a new row. Two events let a renewal, failure or end
  follow a first payment; one event may be delivered any number of times. The
  clock passes the end of a first period. `TierPeriod` is one tick.
- `matching`: with two gateways it takes a third checkout for a request that read
  a row to be overtaken. Which row a payment finds is decided in one read, and
  rows change in between by blocking and subscribing again, so one handler at a
  time and one event, from Wompi, are enough for two pairs; cancellations, which no
  lookup asks about, are left to the one pair. Nothing here depends on the clock,
  which stands.
- `routing`: two links and two events let a payment lose its link to a
  re-purchase before it is delivered, and be delivered again. The buyer goes for
  the post or for the message, not both (`OneItem` in `MCWebhookRouting`;
  `unlocks` has both at once). Of the requests of `Subscriptions` only purchases
  and deliveries run (`Buys`): the others meet the webhooks in the runs above,
  and the theorems of `RoutingProofs` are about all of them. Subscriptions' own
  events say only what `PlainlySaid` lets them; stray ones pin no creator and give
  any address.
- `unlocks`: two links let an item be bought, refunded and bought again while the
  first link's events are still under way; three events are a payment of each
  link and a refund.
- `sessions`: three pairs are a sign-in and two rotations of it or of its
  successor; tokens, challenges and codes live one second, so that three ticks
  reach the second in which code and Redis disagree about expiry. For the chat
  page, two messages and a page of one are the fewest that page back, and two
  threads the fewest that can be confused. It is explored either reading, with
  two requests under way, or also sending, with one; while it reads others
  write, while it sends what else appears is a send that got through without
  its socket.
- `messaging`: ids 1 to 3 let a page be cut by a message committed later under
  a smaller id; a deque of one is the smallest that evicts, two processes the
  fewest that relay.
- `media`: two pictures let a request fail between files, two items let a sweep and
  a deletion take different and the same stories.

`sessions`, `messaging` and `media` have a variable `part` that is
chosen at the start and never changes: each behaviour lets one group of the
surroundings move (for `messaging`: access, a reader, clients and pushes, or the
other process's relay; for `sessions`: tokens, accounts, or the chat page). The
groups touch disjoint state, or state a property of another group does not
mention, and their product is beyond TLC. `matching` has two instances of one
module, the lines of the table, in a state constraint. The restrictions are
written out in `Within`, `Begins`, `Clients`, `Works`, `Looks`, `Reading`, `Sending` of the MC
modules; the component modules have none.

Deadlock checking is on in every run but `unlocks` and `media`: there, links, events
and items are used up, and a behaviour in which everything was bought or
deleted may rightly have nothing left to do. Symmetry is declared where no
definition tells the values apart and no liveness is checked.

### Fairness

`liveness` assumes that gateways redeliver what was not answered and the sweep
is scheduled again and again (`SF` on `Deliver` and `SweepRead`: both need a free
thread, and threads come and go), that a started request ends (`WF` per worker,
where ending may be dying), and that not every attempt dies (`SF` on the
commits). This is Celery beat's schedule (`celery_app.py`), the gateways' retry
rule, and a server that is up often enough. Nothing is assumed of users, of
gateways charging, or of the clock.

`messaging` assumes that the relay task of a process gets its turns (`WF` of
`RelayStep`; asyncio runs what is ready, and every await in it has a timeout), and
that a Redis asked again and again to subscribe answers some time (`SF` of
`Subscribe`; the loop in `realtime.py` retries for ever). Not that links hold,
frames arrive, or clients stay.

`media` assumes that beat starts the sweep and the worker runs it (`WF` of
`SweepStep`), and that sweeps do not fail for ever (`<>[][~SweepFails]`): a weaker
assumption would let every sweep die after its first file. Single files may
fail to be deleted for ever.

### Disagreements found

- `flag`: re-subscribing reactivates the terminal row without clearing
  `cancel_at_period_end`, so a subscription that was canceled, ended by the
  gateway and bought again is swept at its first period end
  (`services/subscriptions.py:175-188`, `models.py:133-136`).
- `block`: the block detaches the row "so that a late webhook can never find and
  reactivate" it, but a reconciler that read it before the block commits after
  it (`creator_blocks.py:194-196`). The block list still denies access; lifting
  the block would restore it.
- `months`: "each payment buys one month" of a gateway that dates no periods
  (`services/subscriptions.py:404-418`), but the handler takes no lock and writes
  an end computed from the row it read: two payments handled at once are both
  booked, and the row gains one month.
- `crosscredit`: a one-time purchase "must never be reconciled against a
  subscription row" (`services/subscriptions.py:331-334`), but a Wompi notice that
  does not quote its unlock's link falls through, passes for recurring, and
  books a monthly payment on the buyer's subscription.

### Seen in the models, without a run

Subscriptions. An event without a row is left unmarked for "a later redelivery",
but is answered 200 (`services/subscriptions.py:362-366`, `webhooks.py:140-145`),
after which a gateway need not deliver it again: a Stripe payment that comes
before the event that teaches the row its subscription id is never booked.

The notice of a failed renewal is queued "exactly once, on the transition into
past_due" (`README.md:938-941`, `services/subscriptions.py:483-489`), but the
transition is told from the status the handler read before its commit: two
failed charges handled at once both come to a notice. `NoticedOnce` is what is
left: one notice per charge at most.

A row can end with the reference of one checkout and the page of another. A
handler of Stripe's finished checkout that reads the row by its session id, an
earlier event having cleared the page, adopts the subscription id its event
brings (`services/subscriptions.py:309-319`) and leaves the page column alone; if a
block and a new purchase come between its read and its commit, the id it writes
lands beside the new purchase's page. `PageKeepsRef` states that such a late adoption
(`LateAdoption`) is the only step that can part them; that it is the only one is
a theorem.

In the same way a row can name one gateway and store the reference of another,
and the payments of that checkout then find no row. It takes two purchases that
overlap: both read a row that one gateway's checkout left, the first commits
another gateway's, and the second, whose gateway is the one it read, writes its
reference without its name, since a commit writes what differs from what was
read. A late adoption does it too. `GatewayKeepsRef` states that only a request
that was overtaken by a change of gateway can.

The email lookup can credit a payment to another creator. A Wompi event that
does not pin the creator, because its payload is a legacy one with `idSuscripcion`
alone, omits the merchant reference or garbles it, goes to the payer's latest row
that is not terminal, whoever's it is. The code accepts this
(`services/subscriptions.py:335-337`) for a payer with several such rows; in the
model one is enough, of another creator, when the row charged for was blocked or
has ended meanwhile. `Creditable` therefore holds an event to the creator only
where it pins one. What is left, and `BookedToPayer` states, is that nothing but
such an address takes a payment to another pair, and never one whose link a row
stores when it is looked up, or at any later time.
`AccessEarned` means access earned in the same sense.

A sweep that has selected a row commits what it has read: if the row was renewed,
or ended and bought again without a flag, it is canceled all the same.

Unlocks. Stripe reports a finished one-time checkout as
`checkout.session.completed`, which is normalized to `subscription_created` and
only marked, so the item does not open (against `stripe.py:241-242`); PayPal's
`PAYMENT.CAPTURE.COMPLETED` is not in its event map at all (against
`paypal.py:351-352`). Their refunds quote the charge, so the router takes them for
paid messages and the lookup by metadata in `broadcasts.py` is not reached. A
re-purchase that overlaps another keeps the last link only: a payment of the
other one opens nothing. `AckedIsOpened` is therefore about the link a row
stores, and `OpenIsPaid` about any link opened for it. A refund by metadata on a
row that is being paid leaves a completed payment. With three handlers at once
the mock's refunds, which are found by metadata, go further: a late payment marks
a refunded row paid, a second refund that read the row before marks that payment
and closes nothing, and a purchase that also read it before clears
`refunded_at`. The item is then open with every payment returned, so
`OpenIsCounted` excepts an item two refunds of which took effect. Where the code
takes the oldest of several payments to mark refunded, the model takes any.

Sessions and accounts. A refresh token or a challenge can be presented again in
the last second of its life, when its key is gone and its `exp` is not
(`RefreshOnce` and `ProofOnce` say so). A refresh that overlaps the logout of its
own pair leaves the new pair alive. A reset code works until it expires, and
sessions survive a reset. A change of password that was verified against the
old row can overwrite a reset (`auth.py:410`). Of two registrations for one user
name the loser is told that the email exists (`auth.py:191-203`). With the defaults
an access token lives longer than the refresh token it comes with.

Messages and relay. The frame pushed for a message sent over HTTP carries the
sender's own unlock state. A refresh that fails after the commit deletes the
committed message's files, and a second file that cannot be stored leaves the
first. A failed acknowledgement or a crash after the commit means no push; so
does a socket that connects between the local push and the relay's. A socket
that timed out gets no further frames. Frames may arrive out of the order of
ids. The chat page does not poll, so what no frame brings is missing until the
thread is opened again.

Chat page. `README.md:886-888` and `realtime.py:20-23` rely on the client to fetch
what the socket missed, but a page that reconnects asks for nothing: messages
committed while the socket was down, or between the read of the page and the
opening of the socket, are not there until the thread is reopened. The answer of
`_openThread` is taken whichever thread is open by then, so a slow answer shows
one thread's messages under another's name; one of `_loadOlder` adds a page to
the wrong thread and sets its cursor. `loadingOlder` is not reset, so a thread
opened meanwhile cannot page back until the old answer is in. A thread opened
again while its socket is up loses the frames that come before its page. A
message that comes by a frame when the cursor is past its id is shown again with
the older page, which is not compared with what is there (`behind` in
`ShownOnce`). `_dropLastOptimistic` says "most recent" and drops the first bubble;
an acknowledgement drops all of them; a bubble whose socket is lost stays
(`unsure` in `NoPhantom`), against the comment at `chat.ts:1183-1184`.

Media. Likes ask for the subscription only, so blocks do not stop them, although
`access.py:169-171` lists engagement; a like of a post deleted meanwhile is
answered as done; a write that fails halfway leaves its bytes; deletions remove
files before the commit that may fail; the sweep passes over files it cannot
delete and removes their row.

## Proofs

`SubscriptionsProofs` proves, for any sets of subscribers, creators, gateways,
checkouts, workers and events, any clock bound and period:

- `TypeCorrect`: `Spec => []TypeOK`. The inductive invariant `TypeInv` adds that
  an opened checkout has a pair and a gateway and that a handler's event was
  sent; without these a gateway's next event would have no type.
- `LedgerImplemented`: `Spec => ImplementsLedger`, and `BookedOnce`: an event books
  at most once and to one pair. Needs `BooksMarked` (what is booked is marked):
  an unmarked event has booked nothing, so the one booking at its mark is the
  first.
- `CancellationKept`: `Spec => CancelIsKept`. Lemma `RowEffects` says what each of
  the seven kinds of commit may do to flag and status; a reconciler, a renewal
  or a re-subscription never assigns the flag, so the column-wise update keeps
  whatever is there. Needs `CancelsFound`, because a row's insert does assign it.
- `PaymentsOwned`: `Spec => []BookedToPayer`. The invariant `OwnInv` follows a
  payment's identity: a checkout keeps the pair and the gateway it was opened for,
  a row's reference is always of a checkout of its own pair (`RowsOwned`), an event
  names only its own checkout's ids, a creator it pins is that checkout's, and only
  Wompi's are recurring (`EventsOwned`). So a lookup by reference or session finds
  the pair charged, and one by address a pair the event may count for (`JobsOwned`,
  lemma `MatchOwned`). That the payment passes no row which stores its reference
  needs more: `JobsElsewhere` for handlers at work, and `UnstoredStays`, that a
  reference of Wompi's which left its row never returns, since a purchase writes
  the reference of a checkout just opened and an adoption Stripe's.
- `AccessIsEarned`: `Spec => []AccessEarned`. A row's access is earned by the
  events that are marked and may count for its pair (`MarksGrow`: they only grow), so
  what has to be shown is that no commit but a reconciler's, under its mark, makes
  a row active (`StatusEffects`).
- `PageKept`: `Spec => PageKeepsRef`. `PagesOpened` says that a page on a row was
  opened with the reference beside it or for the pair; `PageEffects` what each
  commit may do to the two columns. That they always agree, which the small
  instance suggests, is false (see above); the attempt to prove it showed where.
- `GatewayKept`: `Spec => GatewayKeepsRef`. `EventsOwned` follows a checkout's gateway
  to the events about it, `GatewayInv` to the rows that handlers have read; with
  `PagesOpened` they say what a purchase or an adoption may write while no other
  gateway has come between.
- `NoticesOnce`: `Spec => []NoticedOnce`, with `NotifiedMarked`: what was announced is
  marked, and the commit that comes to a notice marks its event first.

`UnlocksProofs` proves, for any posts, messages, buyers, gateways, workers, links
and events:

- `UnlockTypes`: the type invariant.
- `UnlockLedger`: `Spec => ImplementsLedger`: a handler books under the mark of its
  event, and never an event that is marked.
- `OpenOnlyPaid`: `Spec => []OpenIsPaid`. The strengthening is `Owned`: a row
  stores a link that was opened for it, an event names the link, buyer and item
  it is about, a handler works on the row its event is about, and payment rows
  belong to their event's item. Both lookups of the router then find the same
  row, whichever succeeds (`FoundIsOwned`).
- `OpenCounted`: `Spec => []OpenIsCounted`, from `CountedInv`: a row is covered while
  open, a refunded row has its refund, and a purchase that read the row refunded
  clears the mark only of a row that is unpaid or covered (`BuyerCovered`).
- `AckedOpened`: `Spec => []AckedIsOpened`, from `AckedInv`: an answered payment
  stays settled by its row while the row keeps the link, and a purchase that
  replaces the link leaves nothing that matches.

`RoutingProofs` proves, for any posts, messages, links, owners and everything
`Subscriptions` and `Unlocks` are parameterised by, of the two behind one endpoint:

- `UnlocksGoOn`: `RSpec => UnlocksUndisturbed`, a refinement step by step. A step of
  `Unlocks` is one (`UnlockRefines`); a step of `Subscriptions` must leave the
  unlocks' part of the ledger alone, or mark or answer an event that no unlock
  owns at that time (`SubscriptionsRefine`), long after it was routed. That needs
  `Strays`: an event of an unlock that has fallen through finds no row, then and
  later, since a row that is refunded and bought again takes a new link, and an
  event is of a link that is open already (`ByRefStays`).
- `OnlyWompiStrays`: `RSpec => []StraysAreWompi`. `Known`, `RefKinds` and `JobsElsewhere`
  say what a handler of `Subscriptions` can have made of such an event: it has no
  session and its reference is no row's, so only the email lookup finds a row,
  and only for what passes for recurring.
- `EndpointSettlesOnce`: `RSpec => EndpointLedger`. The bookings of both tables are
  one abstract ledger; one mark stands for both.
- `UnlocksKept`: by the refinement, `OpenIsPaid`, `OpenIsCounted` and `AckedIsOpened`
  hold here as they were proved of `Unlocks` alone.
- `SubscriptionsKept`: `RSpec => CancelIsKept /\ []NoticedOnce`. `Subscriptions` itself
  cannot be refined here, an event that strays is one no gateway of it sends; but
  the parts of its invariant that do not ask where an event is from
  (`SubscriptionsInv`) are kept by the steps of both.

The inductive invariant of all five is `RInv`: `SubscriptionsInv`, the `Owned` of
`UnlocksProofs`, and `StrayInv`.

`AccountsProofs` proves of `Sessions`, for any users, servers, lifetimes, clock
resolution and bounds:

- `SessionTypes`: the type invariant.
- `RotatedOnce`: `SessionsSpec => []RefreshOnce`. The inductive invariant is
  `IInv`: `TypesOK`, `UsedAreGone` (a token a pair was issued for is on the
  denylist until the second its `exp` names), `JobsAreSound` and `RefreshOnce`
  itself. The arithmetic is one lemma: a key set for the whole seconds left
  outlives every tick before that second, whatever fraction of a second has
  passed.
- `LogoutStands`: `SessionsSpec => []LoggedOutStaysOut`, from `LoggedOutAreGone`,
  the same bound for the tokens a logout named; it needs that a later
  revocation of a token never shortens an earlier one's life below its `exp`.

and of `Accounts`, for any emails, challenges, codes, handlers, budgets,
windows, lifetimes and clock resolution:

- `AccountsTypes`: the type invariant, with `CodesOK` and `FormsOK`: whoever has a
  code or a form for a new password has an account.
- `ProofTakenOnce`: `AccountsSpec => []ProofOnce`. The strengthening is `ClaimInv`:
  the key that claims a challenge lives from the claim, which is never before
  the challenge was issued, so it outlives the challenge but for the last second.
- `BudgetIsKept`: `AccountsSpec => []BudgetKept`. The strengthening is `CountInv`: a
  counter's key outlives the window it counts, and has counted what was let by.

`MediaProofs` proves, for any items, pictures, viewers, workers and visits, from
one inductive invariant, `MediaInv`:

- `MediaTypes`: the type invariant.
- `DiskMatches`: `MediaSpec => []DiskMatchesRows`. The statement itself does not
  survive a step: a deletion that has removed its files must be the only one that
  can still commit a row with them. `OwnRows`, `OwnUploads`, `OwnDeletions` and
  `OwnSweep` say who may touch which key: an upload's item is new and its own, a
  deletion's and the sweep's items are `Settled` and can only go.
- `ServedOnlyByLeave`: `MediaSpec => []ServedByLeave`. A visit reads its gate one
  query at a time, so the invariant `Passed` says, per stage, which conditions
  held at some instant since it came in; `CacheOK` that a cached rendition carries
  the mark it was asked under.
- `ListingsTruthful`, `LikesAreKept`: `[]ListingsTellTheTruth`, `[]LikeIsKept`, from
  `Watched` (what held is what holds, while nothing changed), `Ends` and `Liked`.

`MessagesProofs` proves, for any users, desks, uploads and page size, under
`Relay`'s specification:

- `MessagesTypes`, and `FilesMatch`: `[]FilesMatchRows`. `OwnIds` says that an id is one
  request's and new until its commit, `OwnKeys` that an upload is one request's.
- `WrittenOnlyByLeave` and `StatusMirrors`: `[]WrittenByLeave`, `[]StatusMirrorsGate`,
  from `GateInv`: what a request has read, by its stage (`Asked`), against what held
  at some instant since it came in and, if nothing changed, holds (`Watched`).
- `HistoryComplete`: `[]HistoryIsComplete`, from `Scrolled`: everything due from the
  cursor on has been shown, in order and once. That one page takes the newest
  below the cursor is lemmas on `Page`, for every page size.

`RelayProofs` proves, for any processes, sockets, homes of desks and size of the
deque, from `RelayInv`, which says where a frame can be at every moment:

- `MessagingTypes`: the type invariant of both modules.
- `FramesCommitted`: `RelaySpec => []FramesAreCommitted` (`FramesInv`: a frame in an
  inbox, a pass or a push is a committed row addressed to its reader).
- `NobodyIsForgotten`: `RelaySpec => []NobodyForgotten` (`Books`).
- `TwiceOnly`: `RelaySpec => []TwiceOnlyIfEvicted`. A message goes from its request
  (`UnsentInv`: it is nowhere else) to the push (`PushedInv`: only at the sockets
  already passed) to the channels (`HeardInv`: once per process), and a socket
  that has it belongs to a process that remembers it or has evicted it
  (`OnceInv`). Most steps are `Quiet`, they bring no frame anywhere, and one lemma
  serves them; the five that do (`StartPush`, `PushOne`, `EndPush`, `Hear`,
  `RelayOne`) have a lemma each.

The assumptions are those of the modules: gateways are among the four the code
knows, periods, lifetimes, page and deque sizes are positive, NULL and the other
markers of absence are not values of anything else (`None \notin Status` is written
out because the provers do not know strings apart from other values), a user is
either a creator or a subscriber, the owner is not one of the viewers, every desk
runs in a process, and there are finitely many users. Of the endpoint: every item
has an owner, items and creators are told apart, there is a worker and a
checkout, and NULL is no link or record of an unlock. TLC evaluates them on every
run.

`ChatProofs` proves, for any threads, number of requests under way, ids, length of
a page and bounds, from `ChatInv`, whose parts build on one another:

- `ChatTypes`: the type invariant, with `LogInv` (an id is one message's) and
  `WireInv` (an answer tells of a message that is there).
- `MessagesShownOnce` and `NothingMissing`: `ChatSpec => []ShownOnce` and
  `[]PageIsComplete`. `LoadsInv` says that of the requests under way one at most is the
  present view's and `Cut` what the back end put into its page; `PageInv` and
  `OlderInv` that the cursor divides what is shown from what the next older page
  brings. What the handlers do to the page is nine cases (`Steps`), each with a
  lemma; `Serve` takes the newest below the cursor by `PageCut`, for every length.
- `NoBubbleStays`: `[]NoPhantom`. Bubbles on the page are counted against sends,
  answers and the request that can still take them away (`Counts`); every step is
  shown to take no more from the second count than from the first (`Balance`).

Only model-checked are: the liveness properties (`EventuallyAcked`,
`EventuallySwept`, `EventuallyHeard`, `FramesArrive`, `ExpiredGoesAway`), since the
prover does not reach liveness under fairness nor ENABLED, and the four
disagreements, which are counterexamples. Every other property of every run is a
theorem. The type invariants of `Sessions`, `Accounts`, `Unlocks` and `Media` are only
proved: a run adds nothing to them.

## Not modelled

- Payment: signatures and the choice among several credential sets, amounts and
  currencies, refunds of subscriptions (the code has none), customer records,
  charges of stored cards (no router calls them), events without an id. Stripe's
  two success events for one invoice are one event.
- Rows are read and written whole by primary key; a request's reads are one
  snapshot where nothing it decides lies between them.
- Gateway configuration: saving is a read-modify-write of one JSON column
  (`routers/creator.py:373-502`), so concurrent saves lose one another's fields,
  and a billing plan is merged into the configuration read before the gateway
  was called. Nothing modelled reads it but the set of enabled gateways.
- The watermark is pixel arithmetic; the model keeps whose mark bytes carry.
  Comments and the view counter are one statement each. Profile images have one
  fixed key per kind and creator, in a public store without a gate.
- The websocket's token is checked at the handshake only, and the budgets of the
  endpoints other than login repeat one function; both are left out. A lost
  EXPIRE leaves one counter behind whose key no later window uses.
- Dashboards, profiles, start-up, logging and mail: single-row edits and reads.
- Of the web client everything but the chat page: the checkout's polling, the
  feed, the editors. Of the chat page, the inbox's previews, the composer's gate
  (`messages_status`, which `DirectMessages` has) and the unlock of paid messages,
  which leaves the page and comes back to a thread opened anew.

## Plan

What could come next:

1. The months of payments that find a past-due or lapsed row, and of periods the
   gateways date themselves.
2. Concurrent saves of gateway configuration against checkouts that read it.
3. The client's checkout polling.
