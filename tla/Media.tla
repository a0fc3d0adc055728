------------------------------- MODULE Media -------------------------------
(***************************************************************************)
(* A creator's posts and stories, the originals behind them, and who gets  *)
(* to see them (routers/posts.py, creator_content.py, stories.py,          *)
(* content.py, media_public.py, engagement.py; media.py, cache.py,         *)
(* storage.py, services/stories.py, access.py).                            *)
(*                                                                         *)
(* Rows live in the database and files on disk, so nothing makes the two   *)
(* change together: uploads write files before their row is committed,     *)
(* deletions and the sweep of expired stories remove files before the row  *)
(* goes, and commits fail, or succeed unheard, in between.  A visit reads  *)
(* its gate one query at a time while all of that, and the viewer's        *)
(* standing, changes.                                                      *)
(***************************************************************************)
EXTENDS FiniteSets

CONSTANTS
    Item,            \* ids of posts and stories, each used once
    Photo,           \* the pictures one upload may have
    Viewer, Owner,   \* the users, and the creator whose items these are
    Worker,          \* places where the creator's requests are handled
    Visit            \* places where visits are handled

ASSUME OwnerAssumption == Owner \notin Viewer

VARIABLES
    rows,            \* the posts and stories committed, by item
    used,            \* items that have been drawn
    files,           \* originals on disk
    astray,          \* keys of requests and sweeps that broke off halfway
    work,            \* what each worker does for the creator
    sweep,           \* the periodic sweep of expired stories
    follows, blocked, unlocked,    \* standing of the viewers
    likes,           \* pairs <<user, post>>
    cache,           \* rendered bytes in Redis
    visits           \* what each visit is at

standing == <<follows, blocked, unlocked>>
content == <<rows, used, files, astray, work, sweep>>
mediaVars == <<content, standing, likes, cache, visits>>

User == Viewer \cup {Owner}
Key == Item \X Photo      \* storage keys: one drawn for every picture of an item
Gone == [kind |-> "none"]
Row == [kind : {"post", "story"}, keys : (SUBSET Key) \ {{}},
        visible : BOOLEAN, paid : BOOLEAN, expired : BOOLEAN]

Idle == [at |-> "idle"]
Exists(i) == rows[i] # Gone
Stored == UNION {rows[i].keys : i \in {j \in Item : Exists(j)}}
Working(w, stage) == work[w] # Idle /\ work[w].at = stage
Saving == {w \in Worker : Working(w, "saving")}
Written == UNION {work[w].written : w \in Saving}
Deleting == UNION {work[w].keys : w \in {x \in Worker : Working(x, "deleting")}}
-----------------------------------------------------------------------------
(* What a visit depends on, observed while it is under way.                *)

Condition == {"there", "visible", "live", "follower", "unblocked", "unlocked", "liked"}

Holding(v, i, rs, f, b, u, l) ==
    {c \in Condition :
        CASE c = "there" -> rs[i] # Gone
          [] c = "visible" -> rs[i] # Gone /\ rs[i].visible
          [] c = "live" -> rs[i] # Gone /\ ~rs[i].expired
          [] c = "follower" -> v \in f
          [] c = "unblocked" -> v \notin b
          [] c = "unlocked" -> rs[i] # Gone /\ (rs[i].paid => <<v, i>> \in u)
          [] c = "liked" -> <<v, i>> \in l}

Now(v, i) == Holding(v, i, rows, follows, blocked, unlocked, likes)

Visiting(x) == visits[x] # Idle
At(x, stage) == Visiting(x) /\ visits[x].at = stage

\* Every visit in flight has its conditions observed as they change.
Observed(rs, f, b, u, l, vs) ==
    [x \in Visit |->
        IF vs[x] = Idle THEN Idle
        ELSE LET h == Holding(vs[x].user, vs[x].item, rs, f, b, u, l) IN
             [vs[x] EXCEPT !.held = @ \cup h,
                           !.steady = @ /\ h = Now(vs[x].user, vs[x].item)]]

\* Likes and unlocks go with their post.
RowsBecome(rs) ==
    /\ rows' = rs
    /\ likes' = {p \in likes : rs[p[2]] # Gone}
    /\ unlocked' = {p \in unlocked : rs[p[2]] # Gone}
    /\ visits' = Observed(rs, follows, blocked, unlocked', likes', visits)
    /\ UNCHANGED <<follows, blocked, cache>>

RowsStay == UNCHANGED <<rows, standing, likes, cache, visits>>
-----------------------------------------------------------------------------
(* Publishing a post or a story.                                           *)

\* Everything is validated before anything is stored.
BeginUpload(w, i, row) ==
    /\ work[w] = Idle /\ i \notin used
    /\ row.keys # {} /\ row.keys \subseteq {i} \X Photo
    /\ used' = used \cup {i}
    /\ work' = [work EXCEPT ![w] =
                   [at |-> "saving", item |-> i, row |-> row, written |-> {}]]
    /\ UNCHANGED <<files, astray, sweep>> /\ RowsStay

SaveOne(w, k) ==
    /\ Working(w, "saving") /\ k \in work[w].row.keys \ work[w].written
    /\ files' = files \cup {k}
    /\ work' = [work EXCEPT ![w].written = @ \cup {k}]
    /\ UNCHANGED <<used, astray, sweep>> /\ RowsStay

\* The rollback deletes what it knows to be written.
Undo(w) == files' = files \ work[w].written /\ work' = [work EXCEPT ![w] = Idle]

\* Storing k fails; what was already written of it nobody will delete.
SaveFails(w, k) ==
    /\ Working(w, "saving") /\ k \in work[w].row.keys \ work[w].written
    /\ \E rest \in SUBSET {k} : files' = (files \ work[w].written) \cup rest
    /\ astray' = astray \cup {k}
    /\ work' = [work EXCEPT ![w] = Idle]
    /\ UNCHANGED <<used, sweep>> /\ RowsStay

AllWritten(w) == Working(w, "saving") /\ work[w].written = work[w].row.keys

CommitUpload(w) ==
    /\ AllWritten(w)
    /\ work' = [work EXCEPT ![w] = Idle]
    /\ UNCHANGED <<used, files, astray, sweep>>
    /\ RowsBecome([rows EXCEPT ![work[w].item] = work[w].row])

\* MUTANT: the handler rolls back and forgets the files.
MutCommitFails(w) ==
    /\ AllWritten(w) /\ work' = [work EXCEPT ![w] = Idle]
    /\ UNCHANGED <<used, files, astray, sweep>> /\ RowsStay

CommitFails(w) ==
    /\ AllWritten(w) /\ Undo(w)
    /\ UNCHANGED <<used, astray, sweep>> /\ RowsStay

\* The commit took place and its answer was lost.
CommitUnheard(w) ==
    /\ AllWritten(w) /\ Undo(w)
    /\ astray' = astray \cup work[w].written
    /\ UNCHANGED <<used, sweep>>
    /\ RowsBecome([rows EXCEPT ![work[w].item] = work[w].row])

WorkerDies(w) ==
    /\ work[w] # Idle
    /\ astray' = astray \cup (IF Working(w, "saving") THEN work[w].written
                              ELSE work[w].keys)
    /\ work' = [work EXCEPT ![w] = Idle]
    /\ UNCHANGED <<used, files, sweep>> /\ RowsStay
-----------------------------------------------------------------------------
(* Editing and deleting; time.                                             *)

SetVisible(i) ==
    /\ Exists(i) /\ rows[i].kind = "post"
    /\ UNCHANGED <<used, files, astray, work, sweep>>
    /\ RowsBecome([rows EXCEPT ![i].visible = ~@])

\* Files first, the row in a transaction after them.
BeginDelete(w, i) ==
    /\ work[w] = Idle /\ Exists(i)
    /\ files' = files \ rows[i].keys
    /\ work' = [work EXCEPT ![w] =
                   [at |-> "deleting", item |-> i, keys |-> rows[i].keys]]
    /\ UNCHANGED <<used, astray, sweep>> /\ RowsStay

CommitDelete(w) ==
    /\ Working(w, "deleting")
    /\ work' = [work EXCEPT ![w] = Idle]
    /\ UNCHANGED <<used, files, astray, sweep>>
    /\ RowsBecome([rows EXCEPT ![work[w].item] = Gone])

DeleteFails(w) ==
    /\ Working(w, "deleting")
    /\ work' = [work EXCEPT ![w] = Idle]
    /\ astray' = astray \cup work[w].keys
    /\ UNCHANGED <<used, files, sweep>> /\ RowsStay

\* A story's 24 hours are over.
Expire(i) ==
    /\ Exists(i) /\ rows[i].kind = "story" /\ ~rows[i].expired
    /\ UNCHANGED <<used, files, astray, work, sweep>>
    /\ RowsBecome([rows EXCEPT ![i].expired = TRUE])

Expired == {i \in Item : Exists(i) /\ rows[i].kind = "story" /\ rows[i].expired}

\* MUTANT: the sweep takes the stories whose files it finds.
MutBeginSweep ==
    LET found == {i \in Expired : rows[i].keys \subseteq files} IN
    /\ sweep = Idle /\ found # {}
    /\ sweep' = [at |-> "files", items |-> found,
                 left |-> UNION {rows[i].keys : i \in found},
                 keys |-> UNION {rows[i].keys : i \in found}]
    /\ UNCHANGED <<used, files, astray, work>> /\ RowsStay

BeginSweep ==
    /\ sweep = Idle /\ Expired # {}
    /\ sweep' = [at |-> "files", items |-> Expired,
                 left |-> UNION {rows[i].keys : i \in Expired},
                 keys |-> UNION {rows[i].keys : i \in Expired}]
    /\ UNCHANGED <<used, files, astray, work>> /\ RowsStay

\* A file that cannot be deleted is left behind.
SweepFile(k) ==
    /\ sweep # Idle /\ k \in sweep.left
    /\ sweep' = [sweep EXCEPT !.left = @ \ {k}]
    /\ \/ files' = files \ {k} /\ astray' = astray
       \/ files' = files /\ astray' = astray \cup {k}
    /\ UNCHANGED <<used, work>> /\ RowsStay

\* One transaction for all of them; rows someone else deleted do not matter.
CommitSweep ==
    /\ sweep # Idle /\ sweep.left = {}
    /\ sweep' = Idle
    /\ UNCHANGED <<used, files, astray, work>>
    /\ RowsBecome([i \in Item |-> IF i \in sweep.items THEN Gone ELSE rows[i]])

SweepFails ==
    /\ sweep # Idle /\ sweep' = Idle
    /\ astray' = astray \cup sweep.keys
    /\ UNCHANGED <<used, files, work>> /\ RowsStay
-----------------------------------------------------------------------------
(* What the listings show: real urls, or only previews.                    *)

Follower(v) == v \in follows /\ v \notin blocked

FeedShows(v, i) ==
    LET locked == rows[i].paid /\ <<v, i>> \notin unlocked /\ v # Owner IN
    /\ Exists(i) /\ rows[i].kind = "post" /\ rows[i].visible
    /\ Follower(v) \/ v = Owner
    /\ ~locked

\* MUTANT: the gallery asks for the subscription and not for blocks.
MutGalleryShows(v, i) ==
    LET teaser == ~(v \in follows \/ v = Owner)
        locked == rows[i].paid /\ <<v, i>> \notin unlocked /\ v # Owner IN
    /\ Exists(i) /\ rows[i].kind = "post" /\ rows[i].visible
    /\ ~locked /\ ~teaser

GalleryShows(v, i) ==
    LET teaser == ~(Follower(v) \/ v = Owner)
        locked == rows[i].paid /\ <<v, i>> \notin unlocked /\ v # Owner IN
    /\ Exists(i) /\ rows[i].kind = "post" /\ rows[i].visible
    /\ ~locked /\ ~teaser

StoryShown(v, i) ==
    /\ Exists(i) /\ rows[i].kind = "story" /\ ~rows[i].expired
    /\ Follower(v) \/ v = Owner
-----------------------------------------------------------------------------
(* Visits: a post's or a story's media, the blurred preview, a like or its *)
(* removal.                                                                *)

Kind == {"post", "story", "preview", "like", "unlike"}
Stage == {"row", "follow", "block", "unlock", "media", "cache", "read", "look",
          "insert", "remove", "served", "liked", "unliked", "refused", "missing"}

\* mark: whose identity the bytes to be sent carry ("preview" for the blurred).
NoMark == "none"

Listed(v, i) ==
    {l \in {"feed", "gallery", "stories"} :
        CASE l = "feed" -> FeedShows(v, i)
          [] l = "gallery" -> GalleryShows(v, i)
          [] l = "stories" -> StoryShown(v, i)}

BeginVisit(x, kind, v, i) ==
    /\ visits[x] = Idle /\ i \in used
    /\ visits' = [visits EXCEPT ![x] =
           [at |-> "row", kind |-> kind, user |-> v, item |-> i,
            paid |-> FALSE, key |-> <<>>, mark |-> NoMark,
            shown |-> Listed(v, i), steady |-> TRUE, held |-> Now(v, i)]]
    /\ UNCHANGED <<content, standing, likes, cache>>

Goto(x, stage) ==
    /\ visits' = [visits EXCEPT ![x].at = stage]
    /\ UNCHANGED <<content, standing, likes, cache>>

\* The row, if it is there for this kind of visit and this user.
Found(kind, v, i) ==
    /\ Exists(i)
    /\ (rows[i].kind = "story") = (kind = "story")
    /\ kind = "story" => ~rows[i].expired
    /\ kind # "story" => rows[i].visible \/ (kind = "post" /\ v = Owner)

\* What comes after the gate.
Granted(kind) ==
    CASE kind = "like" -> "look" [] kind = "unlike" -> "remove" [] OTHER -> "media"

ReadRow(x) ==
    LET j == visits[x] IN
    /\ At(x, "row")
    /\ visits' = [visits EXCEPT
           ![x].at = IF ~Found(j.kind, j.user, j.item) THEN "refused"
                     ELSE IF j.kind = "preview" \/ j.user = Owner THEN Granted(j.kind)
                     ELSE "follow",
           ![x].paid = Exists(j.item) /\ rows[j.item].paid]
    /\ UNCHANGED <<content, standing, likes, cache>>

\* A like asks whether its user follows, and nothing about blocks.
ReadFollow(x) ==
    LET j == visits[x] IN
    /\ At(x, "follow")
    /\ Goto(x, IF j.user \notin follows THEN "refused"
               ELSE IF j.kind \in {"like", "unlike"} THEN Granted(j.kind) ELSE "block")

ReadBlock(x) ==
    LET j == visits[x] IN
    /\ At(x, "block")
    /\ Goto(x, IF j.user \in blocked THEN "refused"
               ELSE IF j.kind = "post" THEN "unlock" ELSE "media")

\* Posts without a price are never locked; a price never changes, and the unlocks
\* of a post that has gone have gone with it.
ReadUnlock(x) ==
    LET j == visits[x] IN
    /\ At(x, "unlock")
    /\ Goto(x, IF j.paid /\ <<j.user, j.item>> \notin unlocked THEN "refused" ELSE "media")

ReadMedia(x, k) ==
    LET i == visits[x].item IN
    /\ At(x, "media") /\ Exists(i) /\ k \in rows[i].keys
    /\ visits' = [visits EXCEPT ![x].at = IF k \in files THEN "cache" ELSE "missing",
                                ![x].key = k]
    /\ UNCHANGED <<content, standing, likes, cache>>

NoMedia(x) == At(x, "media") /\ ~Exists(visits[x].item) /\ Goto(x, "missing")

\* MUTANT: one cache entry for all viewers of a picture.
MutRef(j) == IF j.kind = "preview" THEN "preview" ELSE "viewer"

\* Whom the cached bytes are for.
Ref(j) == IF j.kind = "preview" THEN "preview" ELSE j.user
Entry(ref, key, mark) == [ref |-> ref, key |-> key, mark |-> mark]

Hit(x, e) ==
    /\ At(x, "cache") /\ e \in cache
    /\ e.ref = Ref(visits[x]) /\ e.key = visits[x].key
    /\ visits' = [visits EXCEPT ![x].at = "served", ![x].mark = e.mark]
    /\ UNCHANGED <<content, standing, likes, cache>>

\* Not cached, or Redis does not answer.
Miss(x) == At(x, "cache") /\ Goto(x, "read")

Reply(j) == IF j.kind = "preview" THEN "preview" ELSE j.user

\* The original is read and rendered for this viewer; the file may have gone
\* since it was looked for.  The cache takes the bytes if Redis answers.
Render(x) ==
    LET j == visits[x] IN
    /\ At(x, "read")
    /\ IF j.key \in files
       THEN /\ visits' = [visits EXCEPT ![x].at = "served", ![x].mark = Reply(j)]
            /\ cache' \in {cache, {e \in cache : e.ref # Ref(j) \/ e.key # j.key}
                                      \cup {Entry(Ref(j), j.key, Reply(j))}}
       ELSE visits' = [visits EXCEPT ![x].at = "missing"] /\ cache' = cache
    /\ UNCHANGED <<content, standing, likes>>

\* The ttl runs out.
Evict(e) ==
    /\ e \in cache /\ cache' = cache \ {e}
    /\ UNCHANGED <<content, standing, likes, visits>>

LookForLike(x) ==
    LET j == visits[x] IN
    /\ At(x, "look")
    /\ Goto(x, IF <<j.user, j.item>> \in likes THEN "liked" ELSE "insert")

\* MUTANT: the like is added to the session and never committed.
MutInsertLike(x) ==
    /\ At(x, "insert")
    /\ visits' = [visits EXCEPT ![x].at = "liked"]
    /\ UNCHANGED <<content, standing, likes, cache>>

\* An insert that meets the same like, or no post, is taken for done.
InsertLike(x) ==
    LET j == visits[x]
        l == likes \cup (IF Exists(j.item) THEN {<<j.user, j.item>>} ELSE {}) IN
    /\ At(x, "insert")
    /\ likes' = l
    /\ visits' = Observed(rows, follows, blocked, unlocked, l,
                          [visits EXCEPT ![x].at = "liked"])
    /\ UNCHANGED <<content, standing, cache>>

RemoveLike(x) ==
    LET j == visits[x]
        l == likes \ {<<j.user, j.item>>} IN
    /\ At(x, "remove")
    /\ likes' = l
    /\ visits' = Observed(rows, follows, blocked, unlocked, l,
                          [visits EXCEPT ![x].at = "unliked"])
    /\ UNCHANGED <<content, standing, cache>>

EndVisit(x) ==
    /\ Visiting(x) /\ visits[x].at \in {"served", "liked", "unliked", "refused", "missing"}
    /\ visits' = [visits EXCEPT ![x] = Idle]
    /\ UNCHANGED <<content, standing, likes, cache>>

Toggle(set, e) == (set \ {e}) \cup ({e} \ set)

\* A subscription starts or ends, a block is set or lifted, an unlock paid or
\* refunded.
ChangeStanding(v) ==
    /\ \/ follows' = Toggle(follows, v) /\ UNCHANGED <<blocked, unlocked>>
       \/ blocked' = Toggle(blocked, v) /\ UNCHANGED <<follows, unlocked>>
       \/ /\ \E i \in Item : /\ Exists(i) /\ rows[i].paid
                            /\ unlocked' = Toggle(unlocked, <<v, i>>)
          /\ UNCHANGED <<follows, blocked>>
    /\ visits' = Observed(rows, follows', blocked', unlocked', likes, visits)
    /\ UNCHANGED <<content, likes, cache>>

VisitStep(x) ==
    \/ ReadRow(x) \/ ReadFollow(x) \/ ReadBlock(x) \/ ReadUnlock(x)
    \/ (\E k \in Key : ReadMedia(x, k)) \/ NoMedia(x)
    \/ (\E e \in cache : Hit(x, e)) \/ Miss(x) \/ Render(x)
    \/ LookForLike(x) \/ InsertLike(x) \/ RemoveLike(x) \/ EndVisit(x)

WorkStep(w) ==
    \/ (\E k \in Key : SaveOne(w, k)) \/ CommitUpload(w)
    \/ (\E i \in Item : BeginDelete(w, i)) \/ CommitDelete(w)

WorkFails(w) ==
    \/ (\E k \in Key : SaveFails(w, k)) \/ CommitFails(w) \/ CommitUnheard(w)
    \/ DeleteFails(w) \/ WorkerDies(w)

SweepStep == BeginSweep \/ (\E k \in Key : SweepFile(k)) \/ CommitSweep

MediaInit ==
    /\ rows = [i \in Item |-> Gone] /\ used = {} /\ files = {} /\ astray = {}
    /\ work = [w \in Worker |-> Idle] /\ sweep = Idle
    /\ follows = Viewer /\ blocked = {} /\ unlocked = {}
    /\ likes = {} /\ cache = {}
    /\ visits = [x \in Visit |-> Idle]

\* What an upload may ask for, pictures or none: it is shown at once, and
\* stories have no price.
Asked ==
    {r \in [kind : {"post", "story"}, keys : SUBSET Key, visible : {TRUE},
            paid : BOOLEAN, expired : {FALSE}] : r.kind = "story" => ~r.paid}

MediaNext ==
    \/ \E w \in Worker : \/ WorkStep(w) \/ WorkFails(w)
                         \/ \E i \in Item, r \in Asked : BeginUpload(w, i, r)
    \/ SweepStep \/ SweepFails
    \/ \E i \in Item : SetVisible(i) \/ Expire(i)
    \/ \E x \in Visit : VisitStep(x)
    \/ \E x \in Visit, k \in Kind, v \in User, i \in Item : BeginVisit(x, k, v, i)
    \/ (\E v \in Viewer : ChangeStanding(v)) \/ (\E e \in cache : Evict(e))

MediaSpec == MediaInit /\ [][MediaNext]_mediaVars
-----------------------------------------------------------------------------
MediaTypeOK ==
    /\ \A i \in Item : Exists(i) => i \in used /\ rows[i] \in Row
    /\ used \subseteq Item /\ files \subseteq Key /\ astray \subseteq Key
    /\ follows \subseteq Viewer /\ blocked \subseteq Viewer
    /\ unlocked \subseteq Viewer \X Item /\ likes \subseteq User \X Item
    /\ \A w \in Worker : work[w] # Idle => work[w].at \in {"saving", "deleting"}
    /\ sweep # Idle => sweep.left \subseteq sweep.keys /\ sweep.items \subseteq Item
    /\ \A e \in cache : e.key \in Key
    /\ \A x \in Visit : Visiting(x) => visits[x].at \in Stage /\ visits[x].kind \in Kind

\* Disk and database tell the same story whatever fails in between: apart from
\* the keys of requests and sweeps that broke off halfway, a file belongs to a
\* row or to an upload under way, and a row's file is there unless a deletion
\* under way has just removed it.
DiskMatchesRows ==
    \A k \in Key \ astray :
        /\ k \in files => k \in Stored \cup Written
        /\ k \in Stored => \/ k \in files \cup Deleting
                           \/ sweep # Idle /\ k \in sweep.keys

\* Nobody is sent bytes that were never theirs to see: whatever a served visit
\* read while blocks, follows, unlocks, hiding, expiry and deletion went on, each
\* thing it needed held at some instant of the visit, and the bytes, cached or
\* fresh, carry this viewer's mark.
ServedByLeave ==
    \A x \in Visit : At(x, "served") =>
        LET j == visits[x] IN
        /\ j.mark = (IF j.kind = "preview" THEN "preview" ELSE j.user)
        /\ {"there"} \subseteq j.held
        /\ j.kind = "story" => "live" \in j.held
        /\ j.kind = "preview" => "visible" \in j.held
        /\ j.kind \in {"post", "story"} /\ j.user # Owner =>
               {"follower", "unblocked", "visible", "unlocked"} \subseteq j.held

\* The feed, the gallery and the stories bar show a viewer real urls exactly of
\* what the media endpoints would serve: while nothing changes, a visit to
\* something shown is not refused, and one to something withheld is.
ListingsTellTheTruth ==
    \A x \in Visit :
        Visiting(x) /\ visits[x].steady /\ visits[x].user # Owner =>
            LET j == visits[x]
                lists == CASE j.kind = "post" -> {"feed", "gallery"}
                           [] j.kind = "story" -> {"stories"}
                           [] OTHER -> {} IN
            /\ At(x, "refused") => lists \cap j.shown = {}
            /\ At(x, "served") => lists \subseteq j.shown

\* A like answered as done was there at some instant of the request, unless the
\* post went meanwhile: two tabs, a retry or an unlike in between lose nothing.
LikeIsKept ==
    \A x \in Visit : At(x, "liked") =>
        "liked" \in visits[x].held \/ ~Exists(visits[x].item)

\* An expired story goes, row and all, though sweeps fail and files are missing.
ExpiredGoes(i) == i \in Expired ~> i \notin Expired
=============================================================================
