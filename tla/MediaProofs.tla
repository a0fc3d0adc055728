---------------------------- MODULE MediaProofs ----------------------------
(***************************************************************************)
(* Theorems about Media, for every set of items, pictures, viewers,        *)
(* workers and visits.                                                     *)
(***************************************************************************)
EXTENDS Media, TLAPS

(* What the variables hold. *)

Saver == [at : {"saving"}, item : Item, row : Asked \cap Row, written : SUBSET Key]
Deleter == [at : {"deleting"}, item : Item, keys : SUBSET Key]
Sweeper == [at : {"files"}, items : SUBSET Item, left : SUBSET Key, keys : SUBSET Key]
Journey == [at : Stage, kind : Kind, user : User, item : Item, paid : BOOLEAN,
            key : Key \cup {<<>>}, mark : User \cup {"preview", NoMark},
            shown : SUBSET {"feed", "gallery", "stories"},
            steady : BOOLEAN, held : SUBSET Condition]
Rendition == [ref : User \cup {"preview"}, key : Key, mark : User \cup {"preview"}]

ContentTypes ==
    /\ rows \in [Item -> Row \cup {Gone}]
    /\ used \subseteq Item /\ files \subseteq Key /\ astray \subseteq Key
    /\ work \in [Worker -> Saver \cup Deleter \cup {Idle}]
    /\ sweep \in Sweeper \cup {Idle}

\* Likes and unlocks are of posts that are there.
StandingTypes ==
    /\ follows \subseteq Viewer /\ blocked \subseteq Viewer
    /\ unlocked \subseteq Viewer \X Item /\ likes \subseteq User \X Item
    /\ \A p \in unlocked \cup likes : Exists(p[2])

\* Cached bytes carry the mark of those they are for.
CacheOK == cache \subseteq Rendition /\ \A e \in cache : e.mark = e.ref

VisitTypes == visits \in [Visit -> Journey \cup {Idle}]
-----------------------------------------------------------------------------
(* Rows, files, and who is at work on which item.                          *)

\* An item that was drawn and is not being uploaded can only ever go.
Settled(i) == i \in used /\ \A w \in Worker : Working(w, "saving") => work[w].item # i

OwnRows ==
    \A i \in Item : Exists(i) =>
        /\ i \in used
        /\ \A k \in rows[i].keys : k[1] = i
        /\ rows[i].kind = "story" => rows[i].visible /\ ~rows[i].paid

\* An item has one upload, which comes before its row.
OwnUploads ==
    \A w \in Worker : Working(w, "saving") =>
        /\ work[w].item \in used /\ ~Exists(work[w].item)
        /\ \A k \in work[w].row.keys : k[1] = work[w].item
        /\ work[w].written \subseteq work[w].row.keys /\ work[w].written \subseteq files
        /\ \A v \in Worker : Working(v, "saving") /\ work[v].item = work[w].item => v = w

\* A deletion has removed the files of its row.
OwnDeletions ==
    \A w \in Worker : Working(w, "deleting") =>
        /\ Settled(work[w].item)
        /\ \A k \in work[w].keys : k[1] = work[w].item
        /\ work[w].keys \cap files = {}
        /\ Exists(work[w].item) => rows[work[w].item].keys = work[w].keys

\* The sweep knows the files of its stories, and has been through some of them.
OwnSweep ==
    sweep # Idle =>
        /\ \A i \in sweep.items : Settled(i) /\ (Exists(i) => rows[i].keys \subseteq sweep.keys)
        /\ sweep.left \subseteq sweep.keys
        /\ \A k \in sweep.keys : k[1] \in sweep.items
                                 /\ (k \in files => k \in sweep.left \cup astray)

ContentInv ==
    /\ ContentTypes /\ OwnRows /\ OwnUploads /\ OwnDeletions /\ OwnSweep
    /\ DiskMatchesRows
-----------------------------------------------------------------------------
(* What a visit knows, by how far it has come.                             *)

\* The conditions that hold are among those that held; of a steady visit they
\* are the same, and so is what the listings showed of its item.
Watched(j) ==
    /\ Now(j.user, j.item) \subseteq j.held
    /\ j.steady => j.held = Now(j.user, j.item)
    /\ j.steady /\ j.user # Owner => j.shown = Listed(j.user, j.item)

PastRow == Stage \ {"row", "refused"}
PastFollow == {"block", "unlock", "media", "cache", "read", "served"}
PastBlock == PastFollow \ {"block"}
PastUnlock == PastBlock \ {"unlock"}
Gated(j) == j.kind \in {"post", "story"} /\ j.user # Owner

\* Each query passed says what held at that instant.
Passed(j) ==
    /\ j.at \in PastRow =>
          /\ "there" \in j.held
          /\ j.kind = "story" => "live" \in j.held /\ ~j.paid
          /\ j.kind # "story" /\ (j.kind # "post" \/ j.user # Owner) => "visible" \in j.held
          /\ Gated(j) => "visible" \in j.held
          /\ ~j.paid => "unlocked" \in j.held
    /\ Gated(j) /\ j.at \in PastFollow => "follower" \in j.held
    /\ Gated(j) /\ j.at \in PastBlock => "unblocked" \in j.held
    /\ Gated(j) /\ j.at \in PastUnlock => "unlocked" \in j.held
    /\ j.at \in {"follow", "block", "unlock"} => j.user # Owner /\ j.kind # "preview"
    /\ j.at = "unlock" => j.kind = "post"
    /\ j.at \in {"block", "media", "cache", "read", "served"} => j.kind \notin {"like", "unlike"}

\* The row that was read is the row there is, if there is one.
Remembers(j) ==
    j.at \in PastRow =>
        /\ Settled(j.item)
        /\ Exists(j.item) => /\ rows[j.item].paid = j.paid
                             /\ (rows[j.item].kind = "story") = (j.kind = "story")

Lists(j) ==
    CASE j.kind = "post" -> {"feed", "gallery"} [] j.kind = "story" -> {"stories"}
      [] OTHER -> {}

\* How a visit ends.
Ends(j) ==
    /\ j.at \in {"cache", "read"} => j.key \in Key
    /\ j.at = "served" => j.mark = Reply(j)
    /\ j.at = "refused" /\ j.steady /\ j.user # Owner => Lists(j) \cap j.shown = {}

Liked(j) == j.at = "liked" => "liked" \in j.held \/ ~Exists(j.item)

JourneyOK(j) == j.item \in used /\ Watched(j) /\ Passed(j) /\ Remembers(j) /\ Ends(j)

VisitsInv ==
    /\ VisitTypes
    /\ \A x \in Visit : \A j \in {visits[x]} \ {Idle} : JourneyOK(j) /\ Liked(j)

MediaInv == ContentInv /\ StandingTypes /\ CacheOK /\ VisitsInv
-----------------------------------------------------------------------------
(* Who holds which key.                                                    *)

\* No kind of record is taken for another.
LEMMA Distinct ==
    /\ Gone \notin Row
    /\ Idle \notin Saver /\ Idle \notin Deleter /\ Idle \notin Sweeper /\ Idle \notin Journey
    /\ \A s \in Saver : s.at = "saving"
    /\ \A d \in Deleter : d.at = "deleting"
BY DEF Gone, Row, Idle, Saver, Deleter, Sweeper, Journey, Stage

\* Reading the definitions of the sets of keys, before and after a step.
LEMMA KeySets ==
    ASSUME NEW k
    PROVE  /\ k \in Stored <=> \E i \in Item : Exists(i) /\ k \in rows[i].keys
           /\ k \in Stored' <=> \E i \in Item : Exists(i)' /\ k \in rows'[i].keys
           /\ k \in Written <=> \E w \in Worker : Working(w, "saving") /\ k \in work[w].written
           /\ k \in Written' <=> \E w \in Worker : Working(w, "saving")' /\ k \in work'[w].written
           /\ k \in Deleting <=> \E w \in Worker : Working(w, "deleting") /\ k \in work[w].keys
           /\ k \in Deleting' <=> \E w \in Worker : Working(w, "deleting")' /\ k \in work'[w].keys
BY DEF Stored, Written, Deleting, Saving

\* The workers' records.
LEMMA WorkTypes ==
    ASSUME ContentTypes, NEW w \in Worker
    PROVE  /\ Working(w, "saving") <=> work[w] \in Saver
           /\ Working(w, "deleting") <=> work[w] \in Deleter
           /\ work[w] # Idle => Working(w, "saving") \/ Working(w, "deleting")
           /\ Working(w, "saving") =>
                 /\ work[w].item \in Item /\ work[w].row \in Asked /\ work[w].row \in Row
                 /\ work[w].row.keys \subseteq Key /\ work[w].written \subseteq Key
           /\ Working(w, "deleting") => work[w].item \in Item /\ work[w].keys \subseteq Key
<1>1. work[w] \in Saver \cup Deleter \cup {Idle}
  BY DEF ContentTypes
<1>2. ASSUME work[w] \in Saver
      PROVE  work[w].item \in Item /\ work[w].row \in Asked /\ work[w].written \subseteq Key
             /\ work[w].row \in Row /\ work[w].row.keys \subseteq Key
  BY <1>2 DEF Saver, Asked, Row
<1>3. ASSUME work[w] \in Deleter
      PROVE  work[w].item \in Item /\ work[w].keys \subseteq Key
  BY <1>3 DEF Deleter
<1>4. QED
  BY <1>1, <1>2, <1>3, Distinct DEF Working, Idle

\* The rows.
LEMMA RowTypes ==
    ASSUME ContentTypes, NEW i \in Item
    PROVE  /\ Exists(i) <=> rows[i] \in Row
           /\ Exists(i) => rows[i].keys \subseteq Key /\ rows[i].kind \in {"post", "story"}
                           /\ rows[i].visible \in BOOLEAN /\ rows[i].paid \in BOOLEAN
                           /\ rows[i].expired \in BOOLEAN
<1>1. rows[i] \in Row \cup {Gone}
  BY DEF ContentTypes
<1>2. QED
  BY <1>1, Distinct DEF Exists, Row
-----------------------------------------------------------------------------
(* The actions on rows and files keep the types.                           *)

\* What a request asks for is well formed.
LEMMA BeginUploadTypes ==
    ASSUME ContentTypes, NEW w \in Worker, NEW i \in Item, NEW r \in Asked,
           BeginUpload(w, i, r)
    PROVE  ContentTypes'
<1>1. r \in Row
  <2>1. r.keys # {}
    BY DEF BeginUpload
  <2>2. r \in [kind : {"post", "story"}, keys : SUBSET Key, visible : {TRUE},
               paid : BOOLEAN, expired : {FALSE}]
    BY DEF Asked
  <2>3. r = [kind |-> r.kind, keys |-> r.keys, visible |-> r.visible,
             paid |-> r.paid, expired |-> r.expired]
    BY <2>2
  <2>4. /\ r.kind \in {"post", "story"} /\ r.keys \in SUBSET Key
        /\ r.visible \in {TRUE} /\ r.paid \in BOOLEAN /\ r.expired \in {FALSE}
    BY <2>2
  <2>5. r.visible \in BOOLEAN /\ r.expired \in BOOLEAN
    BY <2>4, Zenon
  <2>6. QED
    BY <2>1, <2>3, <2>4, <2>5 DEF Row
<1>2. [at |-> "saving", item |-> i, row |-> r, written |-> {}] \in Saver
  BY <1>1 DEF Saver
<1>3. QED
  BY <1>2 DEF ContentTypes, BeginUpload, RowsStay

\* Saving one more file leaves the request as it was.
LEMMA SaveOneTypes ==
    ASSUME ContentTypes, NEW w \in Worker, NEW k \in Key, SaveOne(w, k)
    PROVE  /\ ContentTypes'
           /\ work' = [work EXCEPT ![w] =
                          [at |-> "saving", item |-> work[w].item, row |-> work[w].row,
                           written |-> work[w].written \cup {k}]]
<1>1. work[w] \in Saver
  BY WorkTypes DEF SaveOne
<1>2. [work[w] EXCEPT !.written = @ \cup {k}] =
         [at |-> "saving", item |-> work[w].item, row |-> work[w].row,
          written |-> work[w].written \cup {k}]
  BY <1>1 DEF Saver
<1>3. [work[w] EXCEPT !.written = @ \cup {k}] \in Saver
  BY <1>1, <1>2 DEF Saver
<1>4. QED
  BY <1>2, <1>3 DEF ContentTypes, SaveOne, RowsStay
\* A worker that is done leaves the others as they are.
LEMMA FreeTypes ==
    ASSUME ContentTypes, NEW w \in Worker, work' = [work EXCEPT ![w] = Idle]
    PROVE  /\ work' \in [Worker -> Saver \cup Deleter \cup {Idle}]
           /\ work'[w] = Idle
           /\ \A v \in Worker : v # w => work'[v] = work[v]
           /\ ~Working(w, "saving")' /\ ~Working(w, "deleting")'
           /\ \A v \in Worker : v # w =>
                 /\ Working(v, "saving")' = Working(v, "saving")
                 /\ Working(v, "deleting")' = Working(v, "deleting")
BY DEF ContentTypes, Working

\* What a step does to items that are settled: they stay so, and their rows
\* keep kind and price, or go.
RowStep ==
    \A i \in Item : Settled(i) =>
        /\ Settled(i)'
        /\ Exists(i)' => /\ Exists(i)
                         /\ rows'[i].kind = rows[i].kind /\ rows'[i].paid = rows[i].paid
-----------------------------------------------------------------------------
(* The actions on rows and files keep the invariant.                       *)

\* A new upload claims keys nobody has.
LEMMA BeginUploadKeeps ==
    ASSUME ContentInv, NEW w \in Worker, NEW i \in Item, NEW r \in Asked,
           BeginUpload(w, i, r)
    PROVE  ContentInv' /\ RowStep
<1> DEFINE rec == [at |-> "saving", item |-> i, row |-> r, written |-> {}]
<1>1. ContentTypes'
  BY BeginUploadTypes DEF ContentInv
<1>2. /\ rows' = rows /\ files' = files /\ astray' = astray /\ sweep' = sweep
      /\ used' = used \cup {i} /\ i \notin used /\ work[w] = Idle
      /\ work'[w] = rec /\ \A v \in Worker : v # w => work'[v] = work[v]
  BY DEF BeginUpload, RowsStay, ContentInv, ContentTypes
<1>3. /\ Working(w, "saving")' /\ ~Working(w, "deleting")'
      /\ ~Working(w, "saving") /\ ~Working(w, "deleting")
      /\ \A v \in Worker : v # w => /\ Working(v, "saving")' = Working(v, "saving")
                                    /\ Working(v, "deleting")' = Working(v, "deleting")
  BY <1>2 DEF Working, Idle
<1>4. \A k \in r.keys : k[1] = i
  BY DEF BeginUpload
<1>5. \A x \in Item : Settled(x) => Settled(x)'
  BY <1>2, <1>3 DEF Settled
<1>6. RowStep
  BY <1>2, <1>5 DEF RowStep, Exists
<1>7. OwnRows'
  BY <1>2 DEF OwnRows, ContentInv, Exists
<1>8. OwnUploads'
  BY <1>2, <1>3, <1>4, WorkTypes DEF OwnUploads, OwnRows, ContentInv, Exists
<1>9. OwnDeletions'
  BY <1>2, <1>3, <1>5, WorkTypes DEF OwnDeletions, ContentInv, Exists
<1>10. OwnSweep'
  BY <1>2, <1>5 DEF OwnSweep, ContentInv, Exists, ContentTypes, Sweeper
<1>11. DiskMatchesRows'
  BY <1>2, <1>3, KeySets DEF DiskMatchesRows, ContentInv, Exists
<1>12. QED
  BY <1>1, <1>6, <1>7, <1>8, <1>9, <1>10, <1>11 DEF ContentInv

\* A file is written by the request that owns its key.
LEMMA SaveOneKeeps ==
    ASSUME ContentInv, NEW w \in Worker, NEW k \in Key, SaveOne(w, k)
    PROVE  ContentInv' /\ RowStep
<1>1. ContentTypes'
  BY SaveOneTypes DEF ContentInv
<1>0. /\ rows' = rows /\ files' = files \cup {k} /\ astray' = astray /\ sweep' = sweep
      /\ used' = used /\ Working(w, "saving") /\ k \in work[w].row.keys
  BY DEF SaveOne, RowsStay
<1>2. /\ work'[w] = [at |-> "saving", item |-> work[w].item, row |-> work[w].row,
                     written |-> work[w].written \cup {k}]
      /\ \A v \in Worker : v # w => work'[v] = work[v]
  <2>1. work \in [Worker -> Saver \cup Deleter \cup {Idle}]
    BY DEF ContentInv, ContentTypes
  <2>2. QED
    BY <2>1, SaveOneTypes DEF ContentInv
<1>3. /\ Working(w, "saving")' /\ ~Working(w, "deleting")'
      /\ ~Working(w, "deleting") /\ work'[w].item = work[w].item
      /\ work'[w].row = work[w].row /\ work'[w].written = work[w].written \cup {k}
      /\ \A v \in Worker : v # w => /\ Working(v, "saving")' = Working(v, "saving")
                                    /\ Working(v, "deleting")' = Working(v, "deleting")
  BY <1>0, <1>2 DEF Working, Idle
<1>4. k[1] = work[w].item /\ ~Settled(k[1])
  BY <1>0 DEF OwnUploads, ContentInv, Settled
<1>5. \A x \in Item : Settled(x) => Settled(x)'
  BY <1>0, <1>2, <1>3 DEF Settled
<1>6. RowStep
  BY <1>0, <1>2, <1>5 DEF RowStep, Exists
<1>7. OwnRows'
  BY <1>0 DEF OwnRows, ContentInv, Exists
<1>8. OwnUploads'
  BY <1>0, <1>2, <1>3 DEF OwnUploads, ContentInv, Exists
<1>9. OwnDeletions'
  BY <1>0, <1>2, <1>3, <1>4, <1>5, WorkTypes DEF OwnDeletions, ContentInv, Exists
<1>10. OwnSweep'
  BY <1>0, <1>2, <1>4, <1>5 DEF OwnSweep, ContentInv, Exists, ContentTypes, Sweeper
<1>11. DiskMatchesRows'
  BY <1>0, <1>2, <1>3, KeySets DEF DiskMatchesRows, ContentInv, Exists
<1>12. QED
  BY <1>1, <1>6, <1>7, <1>8, <1>9, <1>10, <1>11 DEF ContentInv
\* An upload that does not become a row: what is left of it is astray.
LEMMA UploadDropped ==
    ASSUME ContentInv, NEW w \in Worker, Working(w, "saving"),
           work' = [work EXCEPT ![w] = Idle],
           rows' = rows, used' = used, sweep' = sweep,
           astray \subseteq astray', astray' \subseteq Key,
           files \ work[w].written \subseteq files',
           files' \subseteq files \cup (astray' \cap work[w].row.keys),
           files' \cap work[w].written \subseteq astray'
    PROVE  ContentInv' /\ RowStep
<1>1. /\ work' \in [Worker -> Saver \cup Deleter \cup {Idle}]
      /\ ~Working(w, "saving")' /\ ~Working(w, "deleting")'
      /\ ~Working(w, "deleting")
      /\ \A v \in Worker : v # w => /\ work'[v] = work[v]
                                    /\ Working(v, "saving")' = Working(v, "saving")
                                    /\ Working(v, "deleting")' = Working(v, "deleting")
  BY FreeTypes DEF ContentInv, Working
<1>2. \A k \in Key : k \in work[w].row.keys \cup work[w].written =>
         k[1] = work[w].item /\ ~Settled(k[1]) /\ ~Exists(k[1])
  BY DEF OwnUploads, ContentInv, Settled
<1>3. work[w].row.keys \subseteq Key /\ work[w].written \subseteq Key
  BY WorkTypes DEF ContentInv
<1>4. ContentTypes'
  BY <1>1, <1>3 DEF ContentInv, ContentTypes
<1>5. \A x \in Item : Settled(x) => Settled(x)'
  BY <1>1 DEF Settled
<1>6. RowStep
  BY <1>5 DEF RowStep, Exists
<1>7. OwnRows'
  BY DEF OwnRows, ContentInv, Exists
<1>8. OwnUploads'
  <2> SUFFICES ASSUME NEW v \in Worker, Working(v, "saving")'
               PROVE  /\ work[v].item \in used /\ ~Exists(work[v].item)
                      /\ \A k \in work[v].row.keys : k[1] = work[v].item
                      /\ work[v].written \subseteq work[v].row.keys
                      /\ work[v].written \subseteq files'
                      /\ \A u \in Worker : Working(u, "saving") /\ work[u].item = work[v].item => u = v
    BY <1>1 DEF OwnUploads, Exists
  <2>1. v # w /\ Working(v, "saving")
    BY <1>1
  <2>2. \A k \in work[v].written : k \notin work[w].written
    BY <2>1 DEF OwnUploads, ContentInv
  <2>3. QED
    BY <2>1, <2>2 DEF OwnUploads, ContentInv
<1>9. OwnDeletions'
  BY <1>1, <1>2, <1>3, <1>5, WorkTypes DEF OwnDeletions, ContentInv, Exists
<1>10. OwnSweep'
  BY <1>1, <1>2, <1>3, <1>5 DEF OwnSweep, ContentInv, Exists, ContentTypes, Sweeper
<1>11. DiskMatchesRows'
  <2> SUFFICES ASSUME NEW k \in Key, k \notin astray'
               PROVE  /\ k \in files' => k \in Stored' \cup Written'
                      /\ k \in Stored' => \/ k \in files' \cup Deleting'
                                          \/ sweep # Idle /\ k \in sweep.keys
    BY DEF DiskMatchesRows
  <2>1. (k \in Stored' <=> k \in Stored) /\ (k \in Deleting' <=> k \in Deleting)
    BY <1>1, KeySets DEF Exists
  <2>2. k \in files' => k \in files /\ k \notin work[w].written
    OBVIOUS
  <2>3. k \in Written /\ k \notin work[w].written => k \in Written'
    BY <1>1, KeySets
  <2>4. k \in Stored => k \notin work[w].written
    BY <1>2, KeySets DEF OwnRows, ContentInv
  <2>5. QED
    BY <2>1, <2>2, <2>3, <2>4 DEF DiskMatchesRows, ContentInv
<1>12. QED
  BY <1>4, <1>6, <1>7, <1>8, <1>9, <1>10, <1>11 DEF ContentInv

\* An upload that becomes a row, whether or not its handler hears of it.
LEMMA UploadPublished ==
    ASSUME ContentInv, NEW w \in Worker, AllWritten(w), NEW i, i = work[w].item,
           work' = [work EXCEPT ![w] = Idle],
           rows' = [rows EXCEPT ![work[w].item] = work[w].row],
           used' = used, sweep' = sweep,
           astray \subseteq astray', astray' \subseteq Key,
           files \ work[w].written \subseteq files', files' \subseteq files,
           work[w].written \ files' \subseteq astray'
    PROVE  ContentInv' /\ RowStep
<1>0. /\ Working(w, "saving") /\ work[w].written = work[w].row.keys
      /\ work[w].row.keys \subseteq files
  BY DEF AllWritten, OwnUploads, ContentInv
<1>1. /\ work' \in [Worker -> Saver \cup Deleter \cup {Idle}]
      /\ ~Working(w, "saving")' /\ ~Working(w, "deleting")'
      /\ ~Working(w, "deleting")
      /\ \A v \in Worker : v # w => /\ work'[v] = work[v]
                                    /\ Working(v, "saving")' = Working(v, "saving")
                                    /\ Working(v, "deleting")' = Working(v, "deleting")
  BY <1>0, FreeTypes DEF ContentInv, Working
<1>2. /\ i \in used /\ i \in Item /\ ~Exists(i) /\ ~Settled(i)
      /\ \A k \in work[w].row.keys : k[1] = i
      /\ work[w].row \in Row /\ work[w].row \in Asked
      /\ \A v \in Worker : v # w /\ Working(v, "saving") => work[v].item # i
  BY <1>0, WorkTypes DEF OwnUploads, ContentInv, Settled
<1>3. /\ rows' \in [Item -> Row \cup {Gone}]
      /\ rows'[i] = work[w].row /\ Exists(i)'
      /\ \A x \in Item : x # i => rows'[x] = rows[x] /\ (Exists(x)' <=> Exists(x))
  <2>1. rows \in [Item -> Row \cup {Gone}]
    BY DEF ContentInv, ContentTypes
  <2>2. /\ rows' \in [Item -> Row \cup {Gone}]
        /\ rows'[i] = work[w].row /\ \A x \in Item : x # i => rows'[x] = rows[x]
    BY <1>2, <2>1
  <2>3. QED
    BY <1>2, <2>2, Distinct DEF Exists
<1>4. ContentTypes'
  BY <1>1, <1>3 DEF ContentInv, ContentTypes
<1>5. \A x \in Item : Settled(x) => Settled(x)' /\ x # i
  BY <1>1, <1>2 DEF Settled
<1>6. RowStep
  BY <1>3, <1>5 DEF RowStep
<1>7. OwnRows'
  BY <1>2, <1>3 DEF OwnRows, ContentInv, Asked
<1>8. OwnUploads'
  <2> SUFFICES ASSUME NEW v \in Worker, Working(v, "saving")'
               PROVE  /\ work[v].item \in used /\ ~Exists(work[v].item)'
                      /\ \A k \in work[v].row.keys : k[1] = work[v].item
                      /\ work[v].written \subseteq work[v].row.keys
                      /\ work[v].written \subseteq files'
                      /\ \A u \in Worker : Working(u, "saving") /\ work[u].item = work[v].item => u = v
    BY <1>1 DEF OwnUploads
  <2>1. v # w /\ Working(v, "saving") /\ work[v].item # i /\ work[v].item \in Item
    BY <1>1, <1>2, WorkTypes DEF ContentInv
  <2>2. \A k \in work[v].written : k \notin work[w].written
    BY <1>0, <2>1 DEF OwnUploads, ContentInv
  <2>3. QED
    BY <1>3, <2>1, <2>2 DEF OwnUploads, ContentInv
<1>9. OwnDeletions'
  BY <1>1, <1>3, <1>5, WorkTypes DEF OwnDeletions, ContentInv
<1>10. OwnSweep'
  BY <1>1, <1>3, <1>5 DEF OwnSweep, ContentInv, ContentTypes, Sweeper
<1>11. DiskMatchesRows'
  <2> SUFFICES ASSUME NEW k \in Key, k \notin astray'
               PROVE  /\ k \in files' => k \in Stored' \cup Written'
                      /\ k \in Stored' => \/ k \in files' \cup Deleting'
                                          \/ sweep # Idle /\ k \in sweep.keys
    BY DEF DiskMatchesRows
  <2>1. /\ k \in Stored' <=> k \in Stored \/ k \in work[w].written
        /\ k \in Deleting' <=> k \in Deleting
    <3>1. k \in Stored' => k \in Stored \/ k \in work[w].written
      BY <1>0, <1>3, KeySets
    <3>2. k \in work[w].written => k \in Stored'
      BY <1>0, <1>2, <1>3, KeySets
    <3>3. k \in Stored => k \in Stored'
      BY <1>2, <1>3, KeySets
    <3>4. k \in Deleting' <=> k \in Deleting
      BY <1>1, KeySets
    <3>5. QED
      BY <3>1, <3>2, <3>3, <3>4
  <2>2. k \in work[w].written => k \in files'
    OBVIOUS
  <2>3. k \in Written /\ k \notin work[w].written => k \in Written'
    BY <1>1, KeySets
  <2>4. QED
    BY <2>1, <2>2, <2>3 DEF DiskMatchesRows, ContentInv
<1>12. QED
  BY <1>4, <1>6, <1>7, <1>8, <1>9, <1>10, <1>11 DEF ContentInv

\* A deletion that is over: its row is gone, or its keys are astray.
LEMMA DeletionOver ==
    ASSUME ContentInv, NEW w \in Worker, Working(w, "deleting"), NEW i, i = work[w].item,
           work' = [work EXCEPT ![w] = Idle],
           used' = used, sweep' = sweep, files' = files,
           \/ rows' = rows /\ astray' = astray \cup work[w].keys
           \/ rows' = [rows EXCEPT ![work[w].item] = Gone] /\ astray' = astray
    PROVE  ContentInv' /\ RowStep
<1>1. /\ work' \in [Worker -> Saver \cup Deleter \cup {Idle}]
      /\ ~Working(w, "saving")' /\ ~Working(w, "deleting")'
      /\ ~Working(w, "saving")
      /\ \A v \in Worker : v # w => /\ work'[v] = work[v]
                                    /\ Working(v, "saving")' = Working(v, "saving")
                                    /\ Working(v, "deleting")' = Working(v, "deleting")
  BY FreeTypes DEF ContentInv, Working
<1>2. /\ Settled(i) /\ i \in Item /\ work[w].keys \subseteq Key
      /\ \A k \in work[w].keys : k[1] = i
      /\ work[w].keys \cap files = {}
      /\ Exists(i) => rows[i].keys = work[w].keys
  BY WorkTypes DEF OwnDeletions, ContentInv
<1>3. /\ rows' \in [Item -> Row \cup {Gone}]
      /\ \A x \in Item : Exists(x)' => Exists(x) /\ rows'[x] = rows[x]
      /\ \A x \in Item : x # i => rows'[x] = rows[x] /\ (Exists(x)' <=> Exists(x))
      /\ Exists(i)' => rows' = rows /\ astray' = astray \cup work[w].keys
  <2>1. rows \in [Item -> Row \cup {Gone}]
    BY DEF ContentInv, ContentTypes
  <2>2. CASE rows' = rows /\ astray' = astray \cup work[w].keys
    BY <2>1, <2>2 DEF Exists
  <2>3. CASE rows' = [rows EXCEPT ![i] = Gone]
    <3>1. /\ rows' \in [Item -> Row \cup {Gone}] /\ rows'[i] = Gone
          /\ \A x \in Item : x # i => rows'[x] = rows[x]
      BY <1>2, <2>1, <2>3
    <3>2. QED
      BY <3>1 DEF Exists
  <2>4. QED
    BY <2>2, <2>3
<1>4. ContentTypes'
  BY <1>1, <1>2, <1>3 DEF ContentInv, ContentTypes
<1>5. \A x \in Item : Settled(x) => Settled(x)'
  BY <1>1 DEF Settled
<1>6. RowStep
  BY <1>3, <1>5 DEF RowStep
<1>7. OwnRows'
  BY <1>3 DEF OwnRows, ContentInv
<1>8. OwnUploads'
  BY <1>1, <1>3, WorkTypes DEF OwnUploads, ContentInv
<1>9. OwnDeletions'
  BY <1>1, <1>3, <1>5, WorkTypes DEF OwnDeletions, ContentInv
<1>10. OwnSweep'
  BY <1>1, <1>3, <1>5 DEF OwnSweep, ContentInv, ContentTypes, Sweeper
<1>11. DiskMatchesRows'
  <2> SUFFICES ASSUME NEW k \in Key, k \notin astray'
               PROVE  /\ k \in files => k \in Stored' \cup Written'
                      /\ k \in Stored' => \/ k \in files \cup Deleting'
                                          \/ sweep # Idle /\ k \in sweep.keys
    BY DEF DiskMatchesRows
  <2>1. /\ k \in Stored' => k \in Stored /\ k \notin work[w].keys
        /\ k \in Stored => k \in Stored' \/ k \in work[w].keys
    <3>1. ASSUME NEW x \in Item, Exists(x), k \in rows[x].keys
          PROVE  k[1] = x
      BY <3>1 DEF OwnRows, ContentInv
    <3>2. ASSUME k \in Stored' PROVE k \in Stored /\ (k \notin work[w].keys \/ k \in astray')
      <4>1. PICK x \in Item : Exists(x)' /\ k \in rows'[x].keys
        BY <3>2, KeySets
      <4>2. Exists(x) /\ k \in rows[x].keys /\ k[1] = x
        BY <1>3, <3>1, <4>1
      <4>3. QED
        BY <1>2, <1>3, <4>1, <4>2, KeySets
    <3>3. ASSUME k \in Stored, k \notin work[w].keys PROVE k \in Stored'
      <4>1. PICK x \in Item : Exists(x) /\ k \in rows[x].keys
        BY <3>3, KeySets
      <4>2. Exists(x)' /\ k \in rows'[x].keys
        BY <1>2, <1>3, <3>3, <4>1
      <4>3. QED
        BY <4>2, KeySets
    <3>4. QED
      BY <3>2, <3>3
  <2>2. (k \in Written <=> k \in Written') /\ (k \in Deleting => k \in Deleting' \/ k \in work[w].keys)
    BY <1>1, KeySets
  <2>3. QED
    BY <1>2, <2>1, <2>2 DEF DiskMatchesRows, ContentInv
<1>12. QED
  BY <1>4, <1>6, <1>7, <1>8, <1>9, <1>10, <1>11 DEF ContentInv
\* A deletion takes a row and its files in one request.
LEMMA BeginDeleteKeeps ==
    ASSUME ContentInv, NEW w \in Worker, NEW i \in Item, BeginDelete(w, i)
    PROVE  ContentInv' /\ RowStep
<1> DEFINE rec == [at |-> "deleting", item |-> i, keys |-> rows[i].keys]
<1>1. /\ Exists(i) /\ rows[i].keys \subseteq Key /\ rec \in Deleter
      /\ \A k \in rows[i].keys : k[1] = i
  BY RowTypes DEF BeginDelete, ContentInv, OwnRows, Deleter
<1>2. /\ rows' = rows /\ files' = files \ rows[i].keys /\ astray' = astray
      /\ sweep' = sweep /\ used' = used /\ work[w] = Idle
      /\ work' = [work EXCEPT ![w] = rec]
  BY DEF BeginDelete, RowsStay
<1>3. /\ work' \in [Worker -> Saver \cup Deleter \cup {Idle}]
      /\ work'[w] = rec
      /\ \A v \in Worker : v # w => work'[v] = work[v]
  BY <1>1, <1>2 DEF ContentInv, ContentTypes
<1>4. /\ ~Working(w, "saving")' /\ Working(w, "deleting")' /\ ~Working(w, "saving")
      /\ ~Working(w, "deleting")
      /\ \A v \in Worker : v # w => /\ Working(v, "saving")' = Working(v, "saving")
                                    /\ Working(v, "deleting")' = Working(v, "deleting")
  BY <1>2, <1>3 DEF Working, Idle
<1>5. Settled(i) /\ \A x \in Item : Settled(x) => Settled(x)'
  BY <1>1, <1>2, <1>3, <1>4 DEF Settled, OwnRows, OwnUploads, ContentInv
<1>6. RowStep
  BY <1>2, <1>5 DEF RowStep, Exists
<1>7. ContentTypes'
  BY <1>2, <1>3 DEF ContentInv, ContentTypes
<1>8. OwnRows'
  BY <1>2 DEF OwnRows, ContentInv, Exists
<1>9. OwnUploads'
  <2> SUFFICES ASSUME NEW v \in Worker, Working(v, "saving")'
               PROVE  /\ work[v].item \in used /\ ~Exists(work[v].item)
                      /\ \A k \in work[v].row.keys : k[1] = work[v].item
                      /\ work[v].written \subseteq work[v].row.keys
                      /\ work[v].written \subseteq files'
                      /\ \A u \in Worker : Working(u, "saving") /\ work[u].item = work[v].item => u = v
    BY <1>2, <1>3, <1>4 DEF OwnUploads, Exists
  <2>1. v # w /\ Working(v, "saving") /\ work[v].item # i
    BY <1>4, <1>1 DEF OwnUploads, ContentInv
  <2>2. \A k \in work[v].written : k \notin rows[i].keys
    BY <1>1, <2>1 DEF OwnUploads, ContentInv
  <2>3. QED
    BY <1>2, <2>1, <2>2 DEF OwnUploads, ContentInv
<1>10. OwnDeletions'
  <2> SUFFICES ASSUME NEW v \in Worker, Working(v, "deleting")'
               PROVE  /\ Settled(work[v].item)'
                      /\ \A k \in work'[v].keys : k[1] = work'[v].item
                      /\ work'[v].keys \cap files' = {}
                      /\ Exists(work[v].item)' => rows[work'[v].item].keys = work'[v].keys
    BY <1>2 DEF OwnDeletions
  <2>1. CASE v = w
    <3>1. work'[v] = rec
      BY <1>3, <2>1
    <3>2. Settled(work[v].item)'
      BY <1>5, <3>1 DEF Settled
    <3>3. QED
      BY <1>1, <1>2, <3>1, <3>2 DEF Exists
  <2>2. CASE v # w
    <3>1. Working(v, "deleting") /\ work'[v] = work[v] /\ work[v].item \in Item
      BY <1>3, <1>4, <2>2, WorkTypes DEF ContentInv
    <3>2. Settled(work[v].item) /\ Settled(work[v].item)'
      BY <1>5, <3>1 DEF OwnDeletions, ContentInv, Settled
    <3>3. QED
      BY <1>2, <3>1, <3>2 DEF OwnDeletions, ContentInv, Exists
  <2>3. QED
    BY <2>1, <2>2
<1>11. OwnSweep'
  BY <1>2, <1>5 DEF OwnSweep, ContentInv, Exists, ContentTypes, Sweeper
<1>12. DiskMatchesRows'
  <2> SUFFICES ASSUME NEW k \in Key, k \notin astray
               PROVE  /\ k \in files' => k \in Stored' \cup Written'
                      /\ k \in Stored' => \/ k \in files' \cup Deleting'
                                          \/ sweep # Idle /\ k \in sweep.keys
    BY <1>2 DEF DiskMatchesRows
  <2>1. (k \in Stored' <=> k \in Stored) /\ (k \in Written' <=> k \in Written)
    BY <1>2, <1>3, <1>4, KeySets DEF Exists
  <2>2. k \in Deleting \/ k \in rows[i].keys => k \in Deleting'
    BY <1>3, <1>4, KeySets
  <2>3. QED
    BY <1>2, <2>1, <2>2 DEF DiskMatchesRows, ContentInv
<1>13. QED
  BY <1>6, <1>7, <1>8, <1>9, <1>10, <1>11, <1>12 DEF ContentInv

\* Hiding a post, showing it again, or the end of a story's day.
LEMMA RowEdited ==
    ASSUME ContentInv, NEW i \in Item, SetVisible(i) \/ Expire(i)
    PROVE  ContentInv' /\ RowStep
<1>1. /\ used' = used /\ files' = files /\ astray' = astray /\ work' = work /\ sweep' = sweep
      /\ Exists(i)
      /\ \/ rows[i].kind = "post" /\ rows' = [rows EXCEPT ![i].visible = ~@]
         \/ rows[i].kind = "story" /\ rows' = [rows EXCEPT ![i].expired = TRUE]
  BY DEF SetVisible, Expire, RowsBecome
<1>2. /\ rows'[i] \in Row /\ rows'[i].keys = rows[i].keys /\ rows'[i].kind = rows[i].kind
      /\ rows'[i].paid = rows[i].paid
      /\ rows[i].kind = "story" => rows'[i].visible = rows[i].visible
      /\ rows' \in [Item -> Row \cup {Gone}]
      /\ \A x \in Item : x # i => rows'[x] = rows[x]
  <2>1. rows \in [Item -> Row \cup {Gone}]
    BY DEF ContentInv, ContentTypes
  <2>2. rows[i] \in Row
    BY <1>1, RowTypes DEF ContentInv
  <2>3. CASE rows[i].kind = "post" /\ rows' = [rows EXCEPT ![i].visible = ~@]
    <3>1. [rows[i] EXCEPT !.visible = ~@] \in Row
      BY <2>2 DEF Row
    <3>2. QED
      BY <2>1, <2>2, <2>3, <3>1 DEF Row
  <2>4. CASE rows[i].kind = "story" /\ rows' = [rows EXCEPT ![i].expired = TRUE]
    <3>1. [rows[i] EXCEPT !.expired = TRUE] \in Row
      BY <2>2 DEF Row
    <3>2. QED
      BY <2>1, <2>2, <2>4, <3>1 DEF Row
  <2>5. QED
    BY <1>1, <2>3, <2>4
<1>3. /\ \A x \in Item : (Exists(x)' <=> Exists(x))
      /\ \A x \in Item : /\ rows'[x].kind = rows[x].kind /\ rows'[x].paid = rows[x].paid
                         /\ rows'[x].keys = rows[x].keys
  BY <1>1, <1>2, Distinct DEF Exists
<1>4. ContentTypes'
  BY <1>1, <1>2 DEF ContentInv, ContentTypes
<1>5. \A x : (Settled(x)' <=> Settled(x)) /\ \A s : \A w \in Worker : Working(w, s)' = Working(w, s)
  BY <1>1 DEF Settled, Working
<1>6. RowStep
  BY <1>3, <1>5 DEF RowStep
<1>7. OwnRows'
  BY <1>1, <1>2, <1>3 DEF OwnRows, ContentInv
<1>8. OwnUploads'
  BY <1>1, <1>3, <1>5, WorkTypes DEF OwnUploads, ContentInv
<1>9. OwnDeletions'
  BY <1>1, <1>3, <1>5, WorkTypes DEF OwnDeletions, ContentInv
<1>10. OwnSweep'
  BY <1>1, <1>3, <1>5 DEF OwnSweep, ContentInv, ContentTypes, Sweeper
<1>11. DiskMatchesRows'
  <2>1. \A k : /\ k \in Stored' <=> k \in Stored
               /\ k \in Written' <=> k \in Written
               /\ k \in Deleting' <=> k \in Deleting
    BY <1>1, <1>3, <1>5, KeySets
  <2>2. QED
    BY <1>1, <2>1 DEF DiskMatchesRows, ContentInv
<1>12. QED
  BY <1>4, <1>6, <1>7, <1>8, <1>9, <1>10, <1>11 DEF ContentInv
\* A row that is there is settled.
LEMMA RowsAreSettled ==
    ASSUME ContentInv, NEW i \in Item, Exists(i)
    PROVE  Settled(i)
BY DEF ContentInv, OwnRows, OwnUploads, Settled

\* The sweep's books, as long as one runs.
LEMMA SweepTypes ==
    ASSUME ContentTypes, sweep # Idle
    PROVE  /\ sweep.items \subseteq Item /\ sweep.left \subseteq Key /\ sweep.keys \subseteq Key
           /\ sweep = [at |-> "files", items |-> sweep.items, left |-> sweep.left,
                       keys |-> sweep.keys]
BY DEF ContentTypes, Sweeper

\* Nobody at work on an item, nor its row, notices the sweep's record.
LEMMA SweepAside ==
    ASSUME ContentInv, rows' = rows, used' = used, work' = work
    PROVE  /\ RowStep /\ OwnRows'
           /\ \A x : Settled(x)' <=> Settled(x)
           /\ files' \subseteq files => OwnDeletions'
           /\ \A k : /\ k \in Stored' <=> k \in Stored
                     /\ k \in Written' <=> k \in Written
                     /\ k \in Deleting' <=> k \in Deleting
<1>1. \A x : (Settled(x)' <=> Settled(x)) /\ (Exists(x)' <=> Exists(x))
             /\ \A s : \A w \in Worker : Working(w, s)' <=> Working(w, s)
  BY DEF Settled, Working, Exists
<1>2. RowStep
  BY <1>1 DEF RowStep
<1>3. OwnRows'
  BY <1>1 DEF OwnRows, ContentInv
<1>4. files' \subseteq files => OwnDeletions'
  BY <1>1 DEF OwnDeletions, ContentInv
<1>5. \A k : /\ k \in Stored' <=> k \in Stored
             /\ k \in Written' <=> k \in Written
             /\ k \in Deleting' <=> k \in Deleting
  BY <1>1, KeySets
<1>6. QED
  BY <1>1, <1>2, <1>3, <1>4, <1>5

\* The sweep starts with the rows that expired.
LEMMA BeginSweepKeeps ==
    ASSUME ContentInv, BeginSweep
    PROVE  ContentInv' /\ RowStep
<1> DEFINE ks == UNION {rows[i].keys : i \in Expired}
<1>1. /\ rows' = rows /\ used' = used /\ files' = files /\ astray' = astray /\ work' = work
      /\ sweep' = [at |-> "files", items |-> Expired, left |-> ks, keys |-> ks]
  BY DEF BeginSweep, RowsStay
<1>2. /\ Expired \subseteq Item /\ \A i \in Expired : Exists(i) /\ Settled(i)
      /\ \A i \in Expired : rows[i].keys \subseteq Key /\ \A k \in rows[i].keys : k[1] = i
  BY RowTypes, RowsAreSettled DEF Expired, OwnRows, ContentInv
<1>3. /\ ks \subseteq Key /\ \A i \in Expired : rows[i].keys \subseteq ks
      /\ \A k \in ks : k[1] \in Expired
  BY <1>2
<1>4. sweep' \in Sweeper /\ sweep'.items = Expired /\ sweep'.left = ks /\ sweep'.keys = ks
  BY <1>1, <1>2, <1>3 DEF Sweeper
<1>5. ContentTypes'
  BY <1>1, <1>4 DEF ContentInv, ContentTypes
<1>6. OwnUploads'
  BY <1>1 DEF OwnUploads, ContentInv, Working, Exists
<1>7. OwnSweep'
  <2>1. \A i \in Expired : Settled(i)' /\ rows'[i].keys \subseteq ks
    BY <1>1, <1>2, <1>3, SweepAside
  <2>2. QED
    BY <1>3, <1>4, <2>1 DEF OwnSweep
<1>8. DiskMatchesRows'
  <2> SUFFICES ASSUME NEW k \in Key, k \notin astray
               PROVE  /\ k \in files => k \in Stored' \cup Written'
                      /\ k \in Stored' => \/ k \in files \cup Deleting'
                                          \/ sweep' # Idle /\ k \in sweep'.keys
    BY <1>1 DEF DiskMatchesRows
  <2>1. sweep # Idle => FALSE
    BY DEF BeginSweep
  <2>2. QED
    BY <1>1, <2>1, SweepAside DEF DiskMatchesRows, ContentInv
<1>9. QED
  BY <1>1, <1>5, <1>6, <1>7, <1>8, SweepAside DEF ContentInv

\* A file the sweep takes is one it owns, or already gone.
LEMMA SweepFileKeeps ==
    ASSUME ContentInv, NEW k \in Key, SweepFile(k)
    PROVE  ContentInv' /\ RowStep
<1>1. /\ rows' = rows /\ used' = used /\ work' = work /\ sweep # Idle /\ k \in sweep.left
      /\ \/ files' = files \ {k} /\ astray' = astray
         \/ files' = files /\ astray' = astray \cup {k}
      /\ files' \subseteq files
  BY DEF SweepFile, RowsStay
<1>2. /\ sweep' = [at |-> "files", items |-> sweep.items, left |-> sweep.left \ {k},
                   keys |-> sweep.keys]
      /\ sweep' \in Sweeper
  BY SweepTypes DEF SweepFile, ContentInv, Sweeper
<1>3. /\ sweep'.items = sweep.items /\ sweep'.left = sweep.left \ {k}
      /\ sweep'.keys = sweep.keys /\ sweep' # Idle
  BY <1>2, Distinct
<1>4. Settled(k[1]) /\ k \in sweep.keys
  BY <1>1 DEF OwnSweep, ContentInv
<1>5. ContentTypes'
  BY <1>1, <1>2 DEF ContentInv, ContentTypes
<1>6. OwnUploads'
  <2>1. \A w \in Worker : Working(w, "saving") => k \notin work[w].written
    BY <1>4 DEF OwnUploads, ContentInv, Settled
  <2>2. QED
    BY <1>1, <2>1 DEF OwnUploads, ContentInv, Working, Exists
<1>7. OwnSweep'
  <2>1. \A i \in sweep.items :
           Settled(i)' /\ (Exists(i)' => rows'[i].keys \subseteq sweep.keys)
    BY <1>1, SweepAside DEF OwnSweep, ContentInv, Exists
  <2>2. QED
    BY <1>1, <1>3, <2>1 DEF OwnSweep, ContentInv
<1>8. DiskMatchesRows'
  <2> SUFFICES ASSUME NEW l \in Key, l \notin astray'
               PROVE  /\ l \in files' => l \in Stored' \cup Written'
                      /\ l \in Stored' => l \in files' \cup Deleting' \/ l \in sweep.keys
    BY <1>3 DEF DiskMatchesRows
  <2>1. QED
    BY <1>1, <1>4, SweepAside DEF DiskMatchesRows, ContentInv
<1>9. QED
  BY <1>1, <1>5, <1>6, <1>7, <1>8, SweepAside DEF ContentInv

\* A sweep that dies leaves what it had not come to, its rows included.
LEMMA SweepFailsKeeps ==
    ASSUME ContentInv, SweepFails
    PROVE  ContentInv' /\ RowStep
<1>1. /\ rows' = rows /\ used' = used /\ work' = work /\ files' = files
      /\ astray' = astray \cup sweep.keys /\ sweep' = Idle /\ sweep.keys \subseteq Key
  BY SweepTypes DEF SweepFails, RowsStay, ContentInv
<1>2. ContentTypes'
  BY <1>1 DEF ContentInv, ContentTypes
<1>3. OwnUploads'
  BY <1>1 DEF OwnUploads, ContentInv, Working, Exists
<1>4. OwnSweep'
  BY <1>1 DEF OwnSweep, Idle
<1>5. DiskMatchesRows'
  <2> SUFFICES ASSUME NEW k \in Key, k \notin astray'
               PROVE  /\ k \in files => k \in Stored' \cup Written'
                      /\ k \in Stored' => k \in files \cup Deleting'
    BY <1>1 DEF DiskMatchesRows
  <2>1. QED
    BY <1>1, SweepAside DEF DiskMatchesRows, ContentInv
<1>6. QED
  BY <1>1, <1>2, <1>3, <1>4, <1>5, SweepAside DEF ContentInv

\* The sweep's rows go, with the files it left behind astray.
LEMMA CommitSweepKeeps ==
    ASSUME ContentInv, CommitSweep
    PROVE  ContentInv' /\ RowStep
<1>1. /\ used' = used /\ work' = work /\ files' = files /\ astray' = astray
      /\ rows' = [i \in Item |-> IF i \in sweep.items THEN Gone ELSE rows[i]]
      /\ sweep # Idle /\ sweep.left = {} /\ sweep' = Idle
  BY DEF CommitSweep, RowsBecome
<1>2. /\ rows' \in [Item -> Row \cup {Gone}]
      /\ \A i \in Item : /\ i \in sweep.items => ~Exists(i)'
                         /\ i \notin sweep.items => rows'[i] = rows[i] /\ (Exists(i)' <=> Exists(i))
      /\ \A i \in Item : Exists(i)' => Exists(i) /\ rows'[i] = rows[i]
  BY <1>1 DEF ContentInv, ContentTypes, Exists, Gone
<1>3. ContentTypes'
  BY <1>1, <1>2 DEF ContentInv, ContentTypes
<1>4. \A x : (Settled(x)' <=> Settled(x)) /\ \A s : \A w \in Worker : Working(w, s)' <=> Working(w, s)
  BY <1>1 DEF Settled, Working
<1>5. RowStep
  BY <1>2, <1>4 DEF RowStep
<1>6. OwnRows'
  BY <1>1, <1>2 DEF OwnRows, ContentInv
<1>7. OwnUploads'
  BY <1>1, <1>2, <1>4, WorkTypes DEF OwnUploads, ContentInv
<1>8. OwnDeletions'
  BY <1>1, <1>2, <1>4, WorkTypes DEF OwnDeletions, ContentInv
<1>9. OwnSweep'
  BY <1>1 DEF OwnSweep, Idle
<1>10. DiskMatchesRows'
  <2> SUFFICES ASSUME NEW k \in Key, k \notin astray
               PROVE  /\ k \in files => k \in Stored' \cup Written'
                      /\ k \in Stored' => k \in files \cup Deleting'
    BY <1>1 DEF DiskMatchesRows
  <2>1. k \in files => k \notin sweep.keys
    BY <1>1 DEF OwnSweep, ContentInv
  <2>2. ASSUME k \in Stored, k \notin sweep.keys PROVE k \in Stored'
    <3>1. PICK i \in Item : Exists(i) /\ k \in rows[i].keys
      BY <2>2, KeySets
    <3>2. i \notin sweep.items
      BY <1>1, <2>2, <3>1 DEF OwnSweep, ContentInv
    <3>3. QED
      BY <1>2, <3>1, <3>2, KeySets
  <2>3. ASSUME k \in Stored' PROVE k \in Stored /\ k \notin sweep.keys
    <3>1. PICK i \in Item : Exists(i)' /\ k \in rows'[i].keys
      BY <2>3, KeySets
    <3>2. Exists(i) /\ k \in rows[i].keys /\ i \notin sweep.items /\ k[1] = i
      BY <1>2, <3>1 DEF OwnRows, ContentInv
    <3>3. QED
      BY <1>1, <3>2, KeySets DEF OwnSweep, ContentInv
  <2>4. (k \in Written' <=> k \in Written) /\ (k \in Deleting' <=> k \in Deleting)
    BY <1>1, <1>4, KeySets
  <2>5. QED
    BY <2>1, <2>2, <2>3, <2>4 DEF DiskMatchesRows, ContentInv
<1>11. QED
  BY <1>3, <1>5, <1>6, <1>7, <1>8, <1>9, <1>10 DEF ContentInv

\* Whatever the creator's requests, time and the sweep do.
ContentStep ==
    \/ \E w \in Worker : \/ WorkStep(w) \/ WorkFails(w)
                         \/ \E i \in Item, r \in Asked : BeginUpload(w, i, r)
    \/ SweepStep \/ SweepFails
    \/ \E i \in Item : SetVisible(i) \/ Expire(i)

\* Whoever writes or deletes, rows, files and requests stay in step.
LEMMA ContentKeeps ==
    ASSUME ContentInv, ContentStep
    PROVE  ContentInv' /\ RowStep
<1>1. ASSUME NEW w \in Worker, WorkStep(w) PROVE ContentInv' /\ RowStep
  <2>1. ASSUME CommitUpload(w) PROVE ContentInv' /\ RowStep
    <3>1. /\ AllWritten(w) /\ work' = [work EXCEPT ![w] = Idle]
          /\ rows' = [rows EXCEPT ![work[w].item] = work[w].row]
          /\ used' = used /\ sweep' = sweep /\ files' = files /\ astray' = astray
      BY <2>1 DEF CommitUpload, RowsBecome
    <3>2. astray \subseteq Key /\ work[w].written \subseteq files
      BY <3>1 DEF ContentInv, ContentTypes, OwnUploads, AllWritten
    <3>3. QED
      BY <3>1, <3>2, UploadPublished
  <2>2. ASSUME CommitDelete(w) PROVE ContentInv' /\ RowStep
    BY <2>2, DeletionOver DEF CommitDelete, RowsBecome
  <2>3. QED
    BY <1>1, <2>1, <2>2, SaveOneKeeps, BeginDeleteKeeps DEF WorkStep
<1>2. ASSUME NEW w \in Worker, WorkFails(w) PROVE ContentInv' /\ RowStep
  <2>1. astray \subseteq Key
    BY DEF ContentInv, ContentTypes
  <2>2. ASSUME NEW k \in Key, SaveFails(w, k) PROVE ContentInv' /\ RowStep
    <3>1. /\ Working(w, "saving") /\ k \in work[w].row.keys /\ k \notin work[w].written
          /\ work' = [work EXCEPT ![w] = Idle] /\ rows' = rows /\ used' = used
          /\ sweep' = sweep /\ astray' = astray \cup {k}
      BY <2>2 DEF SaveFails, RowsStay
    <3>2. PICK rest \in SUBSET {k} : files' = (files \ work[w].written) \cup rest
      BY <2>2 DEF SaveFails
    <3>3. QED
      BY <2>1, <3>1, <3>2, UploadDropped
  <2>3. ASSUME CommitFails(w) PROVE ContentInv' /\ RowStep
    <3>1. /\ Working(w, "saving") /\ work' = [work EXCEPT ![w] = Idle] /\ rows' = rows
          /\ used' = used /\ sweep' = sweep /\ astray' = astray
          /\ files' = files \ work[w].written
      BY <2>3 DEF CommitFails, AllWritten, Undo, RowsStay
    <3>2. QED
      BY <2>1, <3>1, UploadDropped
  <2>4. ASSUME CommitUnheard(w) PROVE ContentInv' /\ RowStep
    <3>1. /\ AllWritten(w) /\ work' = [work EXCEPT ![w] = Idle]
          /\ rows' = [rows EXCEPT ![work[w].item] = work[w].row]
          /\ used' = used /\ sweep' = sweep /\ files' = files \ work[w].written
          /\ astray' = astray \cup work[w].written
      BY <2>4 DEF CommitUnheard, Undo, RowsBecome
    <3>2. work[w].written \subseteq Key
      BY <3>1, WorkTypes DEF AllWritten, ContentInv
    <3>3. QED
      BY <2>1, <3>1, <3>2, UploadPublished
  <2>5. ASSUME DeleteFails(w) PROVE ContentInv' /\ RowStep
    BY <2>5, DeletionOver DEF DeleteFails, RowsStay
  <2>6. ASSUME WorkerDies(w), Working(w, "saving") PROVE ContentInv' /\ RowStep
    <3>1. /\ work' = [work EXCEPT ![w] = Idle] /\ rows' = rows
          /\ used' = used /\ sweep' = sweep /\ astray' = astray \cup work[w].written
          /\ files' = files
      BY <2>6 DEF WorkerDies, RowsStay
    <3>2. work[w].written \subseteq Key
      BY <2>6, WorkTypes DEF ContentInv
    <3>3. QED
      BY <2>1, <2>6, <3>1, <3>2, UploadDropped
  <2>7. ASSUME WorkerDies(w), Working(w, "deleting") PROVE ContentInv' /\ RowStep
    <3>1. ~Working(w, "saving")
      BY <2>7 DEF Working
    <3>2. QED
      BY <2>7, <3>1, DeletionOver DEF WorkerDies, RowsStay
  <2>8. QED
    BY <1>2, <2>2, <2>3, <2>4, <2>5, <2>6, <2>7, WorkTypes DEF WorkFails, WorkerDies, ContentInv
<1>3. QED
  BY <1>1, <1>2, BeginUploadKeeps, RowEdited, BeginSweepKeeps, SweepFileKeeps, SweepFailsKeeps,
     CommitSweepKeeps DEF ContentStep, SweepStep
-----------------------------------------------------------------------------
(* What the conditions of a visit say, and how they are observed.          *)

\* The conditions that hold, one by one.
LEMMA HoldingIs ==
    ASSUME NEW v, NEW i, NEW rs, NEW f, NEW b, NEW u, NEW l
    PROVE  /\ Holding(v, i, rs, f, b, u, l) \subseteq Condition
           /\ "there" \in Holding(v, i, rs, f, b, u, l) <=> rs[i] # Gone
           /\ "visible" \in Holding(v, i, rs, f, b, u, l) <=> rs[i] # Gone /\ rs[i].visible
           /\ "live" \in Holding(v, i, rs, f, b, u, l) <=> rs[i] # Gone /\ ~rs[i].expired
           /\ "follower" \in Holding(v, i, rs, f, b, u, l) <=> v \in f
           /\ "unblocked" \in Holding(v, i, rs, f, b, u, l) <=> v \notin b
           /\ "unlocked" \in Holding(v, i, rs, f, b, u, l) <=>
                 rs[i] # Gone /\ (rs[i].paid => <<v, i>> \in u)
           /\ "liked" \in Holding(v, i, rs, f, b, u, l) <=> <<v, i>> \in l
BY DEF Holding, Condition

\* The conditions that hold now, one by one.
LEMMA NowIs ==
    ASSUME NEW v, NEW i
    PROVE  /\ Now(v, i) \subseteq Condition
           /\ "there" \in Now(v, i) <=> Exists(i)
           /\ "visible" \in Now(v, i) <=> Exists(i) /\ rows[i].visible
           /\ "live" \in Now(v, i) <=> Exists(i) /\ ~rows[i].expired
           /\ "follower" \in Now(v, i) <=> v \in follows
           /\ "unblocked" \in Now(v, i) <=> v \notin blocked
           /\ "unlocked" \in Now(v, i) <=> Exists(i) /\ (rows[i].paid => <<v, i>> \in unlocked)
           /\ "liked" \in Now(v, i) <=> <<v, i>> \in likes
BY HoldingIs DEF Now, Exists

\* The conditions that hold after a step.
LEMMA NextNowIs ==
    ASSUME NEW v, NEW i
    PROVE  /\ Now(v, i)' = Holding(v, i, rows', follows', blocked', unlocked', likes')
           /\ "there" \in Now(v, i)' <=> Exists(i)'
           /\ "visible" \in Now(v, i)' <=> Exists(i)' /\ rows'[i].visible
           /\ "live" \in Now(v, i)' <=> Exists(i)' /\ ~rows'[i].expired
           /\ "follower" \in Now(v, i)' <=> v \in follows'
           /\ "unblocked" \in Now(v, i)' <=> v \notin blocked'
           /\ "unlocked" \in Now(v, i)' <=> Exists(i)' /\ (rows'[i].paid => <<v, i>> \in unlocked')
           /\ "liked" \in Now(v, i)' <=> <<v, i>> \in likes'
<1>1. Now(v, i)' = Holding(v, i, rows', follows', blocked', unlocked', likes')
  BY DEF Now, Holding
<1>2. QED
  BY <1>1, HoldingIs DEF Exists

\* What the listings show a viewer, in terms of the conditions.
ListedBy(v, i, there, kind, h) ==
    {l \in {"feed", "gallery", "stories"} :
        IF l = "stories"
        THEN there /\ kind = "story" /\ {"live", "follower", "unblocked"} \subseteq h
        ELSE there /\ kind = "post"
             /\ {"visible", "follower", "unblocked", "unlocked"} \subseteq h}

\* What a listing shows of an item, by the conditions that hold.
LEMMA ListedIs ==
    ASSUME NEW v, NEW i, v # Owner
    PROVE  /\ Listed(v, i) = ListedBy(v, i, Exists(i), rows[i].kind, Now(v, i))
           /\ Listed(v, i)' = ListedBy(v, i, Exists(i)', rows'[i].kind, Now(v, i)')
<1>1. Listed(v, i) = ListedBy(v, i, Exists(i), rows[i].kind, Now(v, i))
  <2>1. FeedShows(v, i) <=> Exists(i) /\ rows[i].kind = "post"
           /\ {"visible", "follower", "unblocked", "unlocked"} \subseteq Now(v, i)
    BY NowIs DEF FeedShows, Follower
  <2>2. GalleryShows(v, i) <=> Exists(i) /\ rows[i].kind = "post"
           /\ {"visible", "follower", "unblocked", "unlocked"} \subseteq Now(v, i)
    BY NowIs DEF GalleryShows, Follower
  <2>3. StoryShown(v, i) <=> Exists(i) /\ rows[i].kind = "story"
           /\ {"live", "follower", "unblocked"} \subseteq Now(v, i)
    BY NowIs DEF StoryShown, Follower
  <2>4. QED
    BY <2>1, <2>2, <2>3 DEF Listed, ListedBy
<1>2. Listed(v, i)' = ListedBy(v, i, Exists(i)', rows'[i].kind, Now(v, i)')
  BY NextNowIs DEF Listed, FeedShows, GalleryShows, StoryShown, Follower, ListedBy
<1>3. QED
  BY <1>1, <1>2

\* While the conditions stay, so does what the listings show.
LEMMA ListedStays ==
    ASSUME ContentInv, RowStep, NEW v, NEW i \in Item, v # Owner, Now(v, i)' = Now(v, i)
    PROVE  Listed(v, i)' = Listed(v, i)
<1>1. Exists(i)' <=> Exists(i)
  BY NowIs, NextNowIs
<1>2. CASE Exists(i)
  <2>1. rows'[i].kind = rows[i].kind
    BY <1>1, <1>2, RowsAreSettled DEF RowStep
  <2>2. QED
    BY <1>1, <2>1, ListedIs DEF ListedBy
<1>3. CASE ~Exists(i)
  BY <1>1, <1>3, ListedIs DEF ListedBy
<1>4. QED
  BY <1>2, <1>3

\* Two records of one visit, apart from what it observed.
SameVisit(j, o) ==
    /\ o.at = j.at /\ o.kind = j.kind /\ o.user = j.user /\ o.item = j.item
    /\ o.paid = j.paid /\ o.key = j.key /\ o.mark = j.mark /\ o.shown = j.shown

\* Observed changes what the properties compare with, and nothing else.
LEMMA ObservedIs ==
    ASSUME NEW rs, NEW f, NEW b, NEW u, NEW l,
           NEW vs \in [Visit -> Journey \cup {Idle}], NEW x \in Visit,
           NEW o, o = Observed(rs, f, b, u, l, vs)
    PROVE  /\ vs[x] = Idle => o[x] = Idle
           /\ vs[x] # Idle =>
                 /\ o[x] \in Journey /\ SameVisit(vs[x], o[x])
                 /\ o[x].held = vs[x].held \cup Holding(vs[x].user, vs[x].item, rs, f, b, u, l)
                 /\ o[x].steady => /\ vs[x].steady
                                   /\ Holding(vs[x].user, vs[x].item, rs, f, b, u, l)
                                         = Now(vs[x].user, vs[x].item)
<1> DEFINE h == Holding(vs[x].user, vs[x].item, rs, f, b, u, l)
           s == (vs[x].steady /\ h = Now(vs[x].user, vs[x].item))
           j == [vs[x] EXCEPT !.held = @ \cup h, !.steady = @ /\ h = Now(vs[x].user, vs[x].item)]
<1>1. o[x] = IF vs[x] = Idle THEN Idle ELSE j
  BY DEF Observed
<1>2. ASSUME vs[x] # Idle
      PROVE  j \in Journey /\ SameVisit(vs[x], j) /\ j.held = vs[x].held \cup h /\ j.steady = s
  <2>1. h \subseteq Condition
    BY DEF Holding
  <2>2. s \in BOOLEAN
    OBVIOUS
  <2>3. vs[x] \in Journey
    BY <1>2
  <2> HIDE DEF h
  <2>4. QED
    BY <2>1, <2>2, <2>3 DEF Journey, SameVisit
<1>3. QED
  BY <1>1, <1>2

\* A visit whose record only gained what it observed goes on as it was.
LEMMA JourneyKept ==
    ASSUME ContentInv, RowStep, used \subseteq used',
           NEW j \in Journey, NEW o \in Journey, SameVisit(j, o), JourneyOK(j),
           o.held = j.held \cup Now(j.user, j.item)',
           o.steady => j.steady /\ Now(j.user, j.item)' = Now(j.user, j.item)
    PROVE  JourneyOK(o)'
<1>1. j.item \in Item
  BY DEF Journey
<1>2. o.item \in used'
  BY DEF JourneyOK, SameVisit
<1>3. Watched(o)'
  <2>1. o.steady => j.steady /\ o.held = j.held /\ j.held = Now(j.user, j.item)'
    BY DEF JourneyOK, Watched
  <2>2. o.steady /\ o.user # Owner => o.shown = Listed(j.user, j.item)'
    BY <1>1, ListedStays DEF JourneyOK, Watched, SameVisit
  <2>3. QED
    BY <2>1, <2>2 DEF Watched, SameVisit
<1>4. Passed(o)'
  BY DEF Passed, JourneyOK, SameVisit, Gated
<1>5. Remembers(o)'
  <2> SUFFICES ASSUME o.at \in PastRow
               PROVE  /\ Settled(o.item)'
                      /\ Exists(o.item)' => /\ rows'[o.item].paid = o.paid
                                            /\ (rows'[o.item].kind = "story") = (o.kind = "story")
    BY DEF Remembers, PastRow
  <2>1. /\ Settled(j.item)
        /\ Exists(j.item) => /\ rows[j.item].paid = j.paid
                             /\ (rows[j.item].kind = "story") = (j.kind = "story")
        /\ o.item = j.item /\ o.paid = j.paid /\ o.kind = j.kind
    BY DEF JourneyOK, Remembers, SameVisit
  <2>2. QED
    BY <1>1, <2>1 DEF RowStep
<1>6. Ends(o)'
  BY DEF Ends, JourneyOK, SameVisit, Reply, Lists
<1>7. QED
  BY <1>2, <1>3, <1>4, <1>5, <1>6 DEF JourneyOK
-----------------------------------------------------------------------------
(* Steps that visits observe.                                              *)

\* All visits observe a step; those of vs may have moved by it.
LEMMA ObservedKeeps ==
    ASSUME ContentInv, RowStep, used \subseteq used',
           NEW vs \in [Visit -> Journey \cup {Idle}],
           \A x \in Visit : \A j \in {vs[x]} \ {Idle} : JourneyOK(j),
           visits' = Observed(rows', follows', blocked', unlocked', likes', vs)
    PROVE  /\ VisitTypes'
           /\ \A x \in Visit : \A o \in {visits'[x]} \ {Idle} :
                 /\ vs[x] # Idle /\ SameVisit(vs[x], o)
                 /\ o.held = vs[x].held \cup Now(vs[x].user, vs[x].item)'
                 /\ JourneyOK(o)'
<1>1. \A x \in Visit :
         /\ vs[x] = Idle => visits'[x] = Idle
         /\ vs[x] # Idle =>
               /\ visits'[x] \in Journey /\ SameVisit(vs[x], visits'[x])
               /\ visits'[x].held = vs[x].held \cup Now(vs[x].user, vs[x].item)'
               /\ visits'[x].steady => /\ vs[x].steady
                                       /\ Now(vs[x].user, vs[x].item)' = Now(vs[x].user, vs[x].item)
  <2> SUFFICES ASSUME NEW x \in Visit
               PROVE  /\ vs[x] = Idle => visits'[x] = Idle
                      /\ vs[x] # Idle =>
                            /\ visits'[x] \in Journey /\ SameVisit(vs[x], visits'[x])
                            /\ visits'[x].held = vs[x].held \cup Now(vs[x].user, vs[x].item)'
                            /\ visits'[x].steady =>
                                  /\ vs[x].steady
                                  /\ Now(vs[x].user, vs[x].item)' = Now(vs[x].user, vs[x].item)
    OBVIOUS
  <2>1. Now(vs[x].user, vs[x].item)' =
           Holding(vs[x].user, vs[x].item, rows', follows', blocked', unlocked', likes')
    BY NextNowIs
  <2>2. QED
    BY <2>1, ObservedIs
<1>2. VisitTypes'
  <2>1. visits' = [x \in Visit |-> visits'[x]]
    BY DEF Observed
  <2>2. QED
    BY <1>1, <2>1 DEF VisitTypes
<1>3. ASSUME NEW x \in Visit, NEW o \in {visits'[x]} \ {Idle}
      PROVE  /\ vs[x] # Idle /\ SameVisit(vs[x], o)
             /\ o.held = vs[x].held \cup Now(vs[x].user, vs[x].item)'
             /\ JourneyOK(o)'
  <2> DEFINE j == vs[x]
  <2>1. /\ j # Idle /\ j \in Journey /\ o \in Journey /\ SameVisit(j, o) /\ JourneyOK(j)
        /\ o.held = j.held \cup Now(j.user, j.item)'
        /\ o.steady => j.steady /\ Now(j.user, j.item)' = Now(j.user, j.item)
    BY <1>1, <1>3
  <2>2. JourneyOK(o)'
    BY <2>1, JourneyKept
  <2>3. QED
    BY <2>1, <2>2
<1>4. QED
  BY <1>2, <1>3

\* A like that was there, or whose post went, is no less done afterwards.
LEMMA LikedKept ==
    ASSUME RowStep, NEW j \in Journey, NEW o, SameVisit(j, o), j.held \subseteq o.held,
           JourneyOK(j), Liked(j)
    PROVE  Liked(o)'
<1> SUFFICES ASSUME o.at = "liked", "liked" \notin o.held
             PROVE  ~Exists(o.item)'
  BY DEF Liked
<1>1. o.item = j.item /\ j.item \in Item /\ ~Exists(j.item) /\ Settled(j.item)
  BY DEF SameVisit, Liked, JourneyOK, Remembers, PastRow, Stage, Journey
<1>2. QED
  BY <1>1 DEF RowStep

\* Nothing a visit depends on changes.
LEMMA Unmoved ==
    ASSUME UNCHANGED <<content, standing, likes>>, NEW j
    PROVE  /\ JourneyOK(j)' <=> JourneyOK(j)
           /\ Liked(j)' <=> Liked(j)
<1>1. /\ rows' = rows /\ used' = used /\ work' = work /\ follows' = follows
      /\ blocked' = blocked /\ unlocked' = unlocked /\ likes' = likes
  BY DEF content, standing
<1>2. \A v, i : Now(v, i)' = Now(v, i) /\ Listed(v, i)' = Listed(v, i)
  BY <1>1 DEF Now, Listed, FeedShows, GalleryShows, StoryShown, Follower, Exists
<1>3. Watched(j)' <=> Watched(j)
  BY <1>2 DEF Watched
<1>4. Passed(j)' <=> Passed(j)
  BY DEF Passed
<1>5. Remembers(j)' <=> Remembers(j)
  BY <1>1 DEF Remembers, Settled, Exists, Working
<1>6. Ends(j)' <=> Ends(j)
  BY DEF Ends
<1>7. Liked(j)' <=> Liked(j)
  BY <1>1 DEF Liked, Exists
<1>8. QED
  BY <1>1, <1>3, <1>4, <1>5, <1>6, <1>7 DEF JourneyOK

\* A change of the content finds visits midway and is observed by them.
LEMMA ContentStepVisits ==
    ASSUME MediaInv, ContentStep
    PROVE  VisitsInv' /\ StandingTypes' /\ CacheOK'
<1>1. ContentInv /\ ContentInv' /\ RowStep
  BY ContentKeeps DEF MediaInv
<1>2. used \subseteq used'
  BY DEF ContentStep, WorkStep, WorkFails, SweepStep, BeginUpload, SaveOne, CommitUpload,
         BeginDelete, CommitDelete, SaveFails, CommitFails, CommitUnheard, DeleteFails,
         WorkerDies, BeginSweep, SweepFile, CommitSweep, SweepFails, SetVisible, Expire
<1>3. RowsStay \/ RowsBecome(rows')
  BY ZenonT(40) DEF ContentStep, WorkStep, WorkFails, SweepStep, BeginUpload, SaveOne, CommitUpload,
         BeginDelete, CommitDelete, SaveFails, CommitFails, CommitUnheard, DeleteFails,
         WorkerDies, BeginSweep, SweepFile, CommitSweep, SweepFails, SetVisible, Expire,
         RowsBecome
<1>4. CASE RowsStay
  <2>1. /\ rows' = rows /\ follows' = follows /\ blocked' = blocked /\ unlocked' = unlocked
        /\ likes' = likes /\ cache' = cache /\ visits' = visits
    BY <1>4 DEF RowsStay, standing
  <2>2. StandingTypes' /\ CacheOK' /\ VisitTypes'
    BY <2>1 DEF MediaInv, StandingTypes, CacheOK, VisitTypes, VisitsInv, Exists
  <2>3. ASSUME NEW x \in Visit, NEW j \in {visits'[x]} \ {Idle}
        PROVE  JourneyOK(j)' /\ Liked(j)'
    <3>1. j \in Journey /\ JourneyOK(j) /\ Liked(j) /\ SameVisit(j, j)
      BY <2>1, <2>3 DEF MediaInv, VisitsInv, VisitTypes, SameVisit
    <3>2. Now(j.user, j.item)' = Now(j.user, j.item)
      BY <2>1 DEF Now
    <3>3. Now(j.user, j.item) \subseteq j.held
      BY <3>1 DEF JourneyOK, Watched
    <3>4. j.held = j.held \cup Now(j.user, j.item)'
      BY <3>2, <3>3
    <3>5. JourneyOK(j)'
      BY <1>1, <1>2, <3>1, <3>2, <3>4, JourneyKept
    <3>6. QED
      BY <1>1, <3>1, <3>5, LikedKept
  <2>4. QED
    BY <2>2, <2>3 DEF VisitsInv
<1>5. CASE RowsBecome(rows')
  <2>1. /\ likes' = {p \in likes : rows'[p[2]] # Gone}
        /\ unlocked' = {p \in unlocked : rows'[p[2]] # Gone}
        /\ visits' = Observed(rows', follows', blocked', unlocked', likes', visits)
        /\ follows' = follows /\ blocked' = blocked /\ cache' = cache
    BY <1>5 DEF RowsBecome
  <2>2. StandingTypes' /\ CacheOK'
    BY <2>1 DEF MediaInv, StandingTypes, CacheOK, Exists
  <2>0. PICK vs : vs = visits
    OBVIOUS
  <2>3. /\ vs \in [Visit -> Journey \cup {Idle}]
        /\ \A x \in Visit : \A j \in {vs[x]} \ {Idle} : JourneyOK(j) /\ Liked(j)
    BY <2>0 DEF MediaInv, VisitsInv, VisitTypes
  <2>4. /\ VisitTypes'
        /\ \A x \in Visit : \A o \in {visits'[x]} \ {Idle} :
              /\ vs[x] # Idle /\ SameVisit(vs[x], o)
              /\ o.held = vs[x].held \cup Now(vs[x].user, vs[x].item)'
              /\ JourneyOK(o)'
    BY <1>1, <1>2, <2>0, <2>1, <2>3, ObservedKeeps
  <2>5. ASSUME NEW x \in Visit, NEW o \in {visits'[x]} \ {Idle}
        PROVE  Liked(o)'
    BY <1>1, <2>3, <2>4, LikedKept
  <2>6. QED
    BY <2>2, <2>4, <2>5 DEF VisitsInv
<1>6. QED
  BY <1>3, <1>4, <1>5
-----------------------------------------------------------------------------
(* The steps of a visit.                                                   *)

\* Two records of one visit, apart from how far it has come.
SameErrand(j, o) ==
    /\ o.kind = j.kind /\ o.user = j.user /\ o.item = j.item
    /\ o.shown = j.shown /\ o.steady = j.steady /\ o.held = j.held

\* A visit at a stage of its own, and what is known of it.
LEMMA VisitKnown ==
    ASSUME MediaInv, NEW x \in Visit, Visiting(x)
    PROVE  /\ visits[x] \in Journey /\ JourneyOK(visits[x]) /\ Liked(visits[x])
           /\ visits[x].item \in Item
BY DEF MediaInv, VisitsInv, VisitTypes, Visiting, Journey

\* A step of one visit, which changes nothing the others depend on.
LEMMA VisitMoves ==
    ASSUME MediaInv, NEW x \in Visit, Visiting(x), NEW o \in Journey,
           UNCHANGED <<content, standing, likes>>,
           visits' = [visits EXCEPT ![x] = o],
           SameErrand(visits[x], o), Passed(o), Remembers(o), Ends(o), Liked(o)
    PROVE  VisitsInv' /\ StandingTypes'
<1>1. JourneyOK(visits[x])
  BY VisitKnown
<1>2. Watched(o) /\ o.item \in used
  BY <1>1 DEF JourneyOK, Watched, SameErrand
<1>3. JourneyOK(o) /\ Liked(o)
  BY <1>2 DEF JourneyOK
<1>4. VisitTypes'
  BY DEF MediaInv, VisitsInv, VisitTypes
<1>5. ASSUME NEW y \in Visit, NEW j \in {visits'[y]} \ {Idle} PROVE JourneyOK(j)' /\ Liked(j)'
  <2>1. JourneyOK(j) /\ Liked(j)
    BY <1>3, <1>5 DEF MediaInv, VisitsInv, VisitTypes
  <2>2. QED
    BY <2>1, Unmoved
<1>6. StandingTypes'
  BY DEF MediaInv, StandingTypes, content, standing, Exists
<1>7. QED
  BY <1>4, <1>5, <1>6 DEF VisitsInv

\* Going to another stage and nothing more.
LEMMA Going ==
    ASSUME NEW j \in Journey, NEW s \in Stage, NEW o, o = [j EXCEPT !.at = s]
    PROVE  /\ o \in Journey /\ SameErrand(j, o) /\ o.at = s
           /\ o.paid = j.paid /\ o.key = j.key /\ o.mark = j.mark
BY DEF Journey, SameErrand

\* A visit goes on; what it compares with stays.
LEMMA GotoMoves ==
    ASSUME MediaInv, NEW x \in Visit, Visiting(x), NEW s \in Stage, Goto(x, s),
           NEW j, j = visits[x], NEW o, o = [j EXCEPT !.at = s],
           Passed(o), Remembers(o), Ends(o), Liked(o)
    PROVE  VisitsInv' /\ StandingTypes' /\ CacheOK' /\ UNCHANGED content
<1>1. j \in Journey
  BY VisitKnown
<1>2. visits' = [visits EXCEPT ![x] = o]
  BY DEF Goto, MediaInv, VisitsInv, VisitTypes
<1>3. UNCHANGED <<content, standing, likes>> /\ cache' = cache
  BY DEF Goto
<1>4. VisitsInv' /\ StandingTypes'
  BY <1>1, <1>2, <1>3, Going, VisitMoves
<1>5. QED
  BY <1>3, <1>4 DEF MediaInv, CacheOK

\* A visit to what is not there, or not for it, was shown nothing of it.
LEMMA RefusedRightly ==
    ASSUME ContentInv, NEW j \in Journey, JourneyOK(j), j.steady, j.user # Owner,
           \/ ~Found(j.kind, j.user, j.item)
           \/ "follower" \notin Now(j.user, j.item)
           \/ "unblocked" \notin Now(j.user, j.item)
           \/ j.kind = "post" /\ "unlocked" \notin Now(j.user, j.item)
    PROVE  Lists(j) \cap j.shown = {}
<1> DEFINE h == Now(j.user, j.item)
<1>1. j.item \in Item /\ j.kind \in Kind
  BY DEF Journey
<1>2. j.shown = ListedBy(j.user, j.item, Exists(j.item), rows[j.item].kind, h)
  BY ListedIs DEF JourneyOK, Watched
<1>3. CASE j.kind = "post"
  <2>1. Lists(j) = {"feed", "gallery"}
    BY <1>3 DEF Lists
  <2>2. ~(Exists(j.item) /\ rows[j.item].kind = "post"
          /\ {"visible", "follower", "unblocked", "unlocked"} \subseteq h)
    BY <1>3, NowIs DEF Found
  <2>3. QED
    BY <1>2, <2>1, <2>2 DEF ListedBy
<1>4. CASE j.kind = "story"
  <2>1. Lists(j) = {"stories"}
    BY <1>4 DEF Lists
  <2>2. ~(Exists(j.item) /\ rows[j.item].kind = "story"
          /\ {"live", "follower", "unblocked"} \subseteq h)
    BY <1>4, NowIs DEF Found
  <2>3. QED
    BY <1>2, <2>1, <2>2 DEF ListedBy
<1>5. QED
  BY <1>3, <1>4 DEF Lists
\* A visit that goes on passes what it knew on.
LEMMA StillKnown ==
    ASSUME NEW j \in Journey, NEW o, SameErrand(j, o), o.paid = j.paid, JourneyOK(j),
           j.at \in PastRow
    PROVE  /\ Remembers(o)
           /\ "there" \in o.held
           /\ o.kind = "story" => "live" \in o.held /\ ~o.paid
           /\ o.kind # "story" /\ (o.kind # "post" \/ o.user # Owner) => "visible" \in o.held
           /\ Gated(o) => "visible" \in o.held
           /\ ~o.paid => "unlocked" \in o.held
BY DEF SameErrand, JourneyOK, Passed, Remembers, Gated, PastRow

\* The read of the follow: a follower goes on.
LEMMA ReadFollowMoves ==
    ASSUME MediaInv, NEW x \in Visit, ReadFollow(x)
    PROVE  VisitsInv' /\ StandingTypes' /\ CacheOK' /\ UNCHANGED content
<1> DEFINE s == IF visits[x].user \notin follows THEN "refused"
                ELSE IF visits[x].kind \in {"like", "unlike"} THEN Granted(visits[x].kind)
                ELSE "block"
<1> PICK j : j = visits[x]
  OBVIOUS
<1> PICK o : o = [j EXCEPT !.at = s]
  OBVIOUS
<1>1. /\ Visiting(x) /\ j.at = "follow" /\ j \in Journey /\ JourneyOK(j) /\ Goto(x, s)
  BY VisitKnown DEF ReadFollow, At
<1>2. /\ s \in {"refused", "block", "look", "remove"} /\ s \in Stage
      /\ s = "refused" => j.user \notin follows
      /\ s # "refused" => j.user \in follows
      /\ s = "block" => j.kind \notin {"like", "unlike"}
  BY DEF Granted, Stage
<1> HIDE DEF s
<1>3. /\ o \in Journey /\ SameErrand(j, o) /\ o.at = s
      /\ o.paid = j.paid /\ o.key = j.key /\ o.mark = j.mark
  BY <1>1, <1>2, Going
<1>4. Now(j.user, j.item) \subseteq j.held /\ j.user # Owner /\ j.kind # "preview"
  BY <1>1 DEF JourneyOK, Watched, Passed
<1>5. Remembers(o) /\ Passed(o)
  <2>1. s = "block" => "follower" \in o.held
    BY <1>2, <1>3, <1>4, NowIs DEF SameErrand
  <2>2. j.at \in PastRow
    BY <1>1 DEF PastRow, Stage
  <2>3. QED
    BY <1>1, <1>2, <1>3, <1>4, <2>1, <2>2, StillKnown
       DEF Passed, PastFollow, PastBlock, PastUnlock, SameErrand
<1>6. Ends(o)
  <2>1. s = "refused" /\ j.steady => Lists(j) \cap j.shown = {}
    BY <1>1, <1>2, <1>4, NowIs, RefusedRightly DEF MediaInv
  <2>2. QED
    BY <1>2, <1>3, <2>1 DEF Ends, SameErrand, Lists
<1>7. Liked(o)
  BY <1>2, <1>3 DEF Liked
<1>8. QED
  BY <1>1, <1>2, <1>5, <1>6, <1>7, GotoMoves

\* The read of the block list: an unblocked viewer goes on.
LEMMA ReadBlockMoves ==
    ASSUME MediaInv, NEW x \in Visit, ReadBlock(x)
    PROVE  VisitsInv' /\ StandingTypes' /\ CacheOK' /\ UNCHANGED content
<1> DEFINE s == IF visits[x].user \in blocked THEN "refused"
                ELSE IF visits[x].kind = "post" THEN "unlock" ELSE "media"
<1> PICK j : j = visits[x]
  OBVIOUS
<1> PICK o : o = [j EXCEPT !.at = s]
  OBVIOUS
<1>1. /\ Visiting(x) /\ j.at = "block" /\ j \in Journey /\ JourneyOK(j) /\ Goto(x, s)
  BY VisitKnown DEF ReadBlock, At
<1>2. /\ s \in {"refused", "unlock", "media"} /\ s \in Stage
      /\ s = "refused" => j.user \in blocked
      /\ s # "refused" => j.user \notin blocked
      /\ s = "unlock" => j.kind = "post"
      /\ s = "media" => j.kind # "post"
  BY DEF Stage
<1> HIDE DEF s
<1>3. /\ o \in Journey /\ SameErrand(j, o) /\ o.at = s
      /\ o.paid = j.paid /\ o.key = j.key /\ o.mark = j.mark
  BY <1>1, <1>2, Going
<1>4. /\ Now(j.user, j.item) \subseteq j.held /\ j.user # Owner /\ j.kind # "preview"
      /\ j.kind \notin {"like", "unlike"} /\ j.kind \in Kind
      /\ Gated(j) => "follower" \in j.held
  BY <1>1 DEF JourneyOK, Watched, Passed, PastFollow, Journey
<1>5. Remembers(o) /\ Passed(o)
  <2>1. s # "refused" => "unblocked" \in o.held
    BY <1>2, <1>3, <1>4, NowIs DEF SameErrand
  <2>2. j.at \in PastRow
    BY <1>1 DEF PastRow, Stage
  <2>3. /\ Gated(o) => "follower" \in o.held
        /\ s = "media" => o.kind = "story"
    BY <1>2, <1>3, <1>4 DEF SameErrand, Gated, Kind
  <2>4. QED
    BY <1>1, <1>2, <1>3, <1>4, <2>1, <2>2, <2>3, StillKnown
       DEF Passed, PastFollow, PastBlock, PastUnlock, SameErrand
<1>6. Ends(o)
  <2>1. s = "refused" /\ j.steady => Lists(j) \cap j.shown = {}
    BY <1>1, <1>2, <1>4, NowIs, RefusedRightly DEF MediaInv
  <2>2. QED
    BY <1>2, <1>3, <2>1 DEF Ends, SameErrand, Lists
<1>7. Liked(o)
  BY <1>2, <1>3 DEF Liked
<1>8. QED
  BY <1>1, <1>2, <1>5, <1>6, <1>7, GotoMoves

\* The read of the unlock: a buyer goes on.
LEMMA ReadUnlockMoves ==
    ASSUME MediaInv, NEW x \in Visit, ReadUnlock(x)
    PROVE  VisitsInv' /\ StandingTypes' /\ CacheOK' /\ UNCHANGED content
<1> DEFINE s == IF visits[x].paid /\ <<visits[x].user, visits[x].item>> \notin unlocked
                THEN "refused" ELSE "media"
<1> PICK j : j = visits[x]
  OBVIOUS
<1> PICK o : o = [j EXCEPT !.at = s]
  OBVIOUS
<1>1. /\ Visiting(x) /\ j.at = "unlock" /\ j \in Journey /\ JourneyOK(j) /\ Goto(x, s)
      /\ j.item \in Item
  BY VisitKnown DEF ReadUnlock, At
<1>2. /\ s \in {"refused", "media"} /\ s \in Stage
      /\ s = "refused" => j.paid /\ <<j.user, j.item>> \notin unlocked
      /\ s = "media" => ~j.paid \/ <<j.user, j.item>> \in unlocked
  BY DEF Stage
<1> HIDE DEF s
<1>3. /\ o \in Journey /\ SameErrand(j, o) /\ o.at = s
      /\ o.paid = j.paid /\ o.key = j.key /\ o.mark = j.mark
  BY <1>1, <1>2, Going
<1>4. /\ Now(j.user, j.item) \subseteq j.held /\ j.user # Owner /\ j.kind = "post"
      /\ "follower" \in j.held /\ "unblocked" \in j.held
      /\ ~j.paid => "unlocked" \in j.held
      /\ Exists(j.item) => rows[j.item].paid = j.paid
  BY <1>1 DEF JourneyOK, Watched, Passed, PastFollow, PastBlock, PastRow, Stage, Gated, Remembers
<1>5. Remembers(o) /\ Passed(o)
  <2>1. <<j.user, j.item>> \in unlocked => Exists(j.item)
    BY DEF MediaInv, StandingTypes
  <2>2. s = "media" => "unlocked" \in o.held
    BY <1>2, <1>3, <1>4, <2>1, NowIs DEF SameErrand
  <2>3. j.at \in PastRow
    BY <1>1 DEF PastRow, Stage
  <2>4. QED
    BY <1>1, <1>2, <1>3, <1>4, <2>2, <2>3, StillKnown
       DEF Passed, PastFollow, PastBlock, PastUnlock, SameErrand
<1>6. Ends(o)
  <2>1. s = "refused" => "unlocked" \notin Now(j.user, j.item)
    BY <1>2, <1>4, NowIs
  <2>2. s = "refused" /\ j.steady => Lists(j) \cap j.shown = {}
    BY <1>1, <1>4, <2>1, RefusedRightly DEF MediaInv
  <2>3. QED
    BY <1>2, <1>3, <2>2 DEF Ends, SameErrand, Lists
<1>7. Liked(o)
  BY <1>2, <1>3 DEF Liked
<1>8. QED
  BY <1>1, <1>2, <1>5, <1>6, <1>7, GotoMoves

\* A media row that is gone ends the visit.
LEMMA NoMediaMoves ==
    ASSUME MediaInv, NEW x \in Visit, NoMedia(x)
    PROVE  VisitsInv' /\ StandingTypes' /\ CacheOK' /\ UNCHANGED content
<1> PICK j : j = visits[x]
  OBVIOUS
<1> PICK o : o = [j EXCEPT !.at = "missing"]
  OBVIOUS
<1>1. /\ Visiting(x) /\ j.at = "media" /\ j \in Journey /\ JourneyOK(j) /\ Goto(x, "missing")
      /\ "missing" \in Stage /\ j.at \in PastRow
  BY VisitKnown DEF NoMedia, At, Stage, PastRow
<1>2. /\ o \in Journey /\ SameErrand(j, o) /\ o.at = "missing" /\ o.paid = j.paid
  BY <1>1, Going
<1>3. Remembers(o) /\ Passed(o)
  BY <1>1, <1>2, StillKnown DEF Passed, PastFollow, PastBlock, PastUnlock
<1>4. Ends(o) /\ Liked(o)
  BY <1>2 DEF Ends, Liked
<1>5. QED
  BY <1>1, <1>3, <1>4, GotoMoves

\* Nothing cached: on to the file.
LEMMA MissMoves ==
    ASSUME MediaInv, NEW x \in Visit, Miss(x)
    PROVE  VisitsInv' /\ StandingTypes' /\ CacheOK' /\ UNCHANGED content
<1> PICK j : j = visits[x]
  OBVIOUS
<1> PICK o : o = [j EXCEPT !.at = "read"]
  OBVIOUS
<1>1. /\ Visiting(x) /\ j.at = "cache" /\ j \in Journey /\ JourneyOK(j) /\ Goto(x, "read")
      /\ "read" \in Stage /\ j.at \in PastRow
  BY VisitKnown DEF Miss, At, Stage, PastRow
<1>2. /\ o \in Journey /\ SameErrand(j, o) /\ o.at = "read"
      /\ o.paid = j.paid /\ o.key = j.key
  BY <1>1, Going
<1>3. Remembers(o) /\ Passed(o)
  <2>1. /\ Gated(o) => {"follower", "unblocked", "unlocked"} \subseteq o.held
        /\ o.kind \notin {"like", "unlike"}
    BY <1>1, <1>2 DEF JourneyOK, Passed, PastFollow, PastBlock, PastUnlock, SameErrand, Gated
  <2>2. QED
    BY <1>1, <1>2, <2>1, StillKnown DEF Passed, PastFollow, PastBlock, PastUnlock
<1>4. Ends(o) /\ Liked(o)
  BY <1>1, <1>2 DEF Ends, Liked, JourneyOK
<1>5. QED
  BY <1>1, <1>3, <1>4, GotoMoves

\* The read of the like decides whether to insert one.
LEMMA LookForLikeMoves ==
    ASSUME MediaInv, NEW x \in Visit, LookForLike(x)
    PROVE  VisitsInv' /\ StandingTypes' /\ CacheOK' /\ UNCHANGED content
<1> DEFINE s == IF <<visits[x].user, visits[x].item>> \in likes THEN "liked" ELSE "insert"
<1> PICK j : j = visits[x]
  OBVIOUS
<1> PICK o : o = [j EXCEPT !.at = s]
  OBVIOUS
<1>1. /\ Visiting(x) /\ j.at = "look" /\ j \in Journey /\ JourneyOK(j) /\ Goto(x, s)
      /\ j.at \in PastRow
  BY VisitKnown DEF LookForLike, At, Stage, PastRow
<1>2. /\ s \in {"liked", "insert"} /\ s \in Stage
      /\ s = "liked" => <<j.user, j.item>> \in likes
  BY DEF Stage
<1> HIDE DEF s
<1>3. /\ o \in Journey /\ SameErrand(j, o) /\ o.at = s /\ o.paid = j.paid
  BY <1>1, <1>2, Going
<1>4. Remembers(o) /\ Passed(o)
  BY <1>1, <1>2, <1>3, StillKnown DEF Passed, PastFollow, PastBlock, PastUnlock
<1>5. Ends(o)
  BY <1>2, <1>3 DEF Ends
<1>6. Liked(o)
  BY <1>1, <1>2, <1>3, NowIs DEF Liked, JourneyOK, Watched, SameErrand
<1>7. QED
  BY <1>1, <1>2, <1>4, <1>5, <1>6, GotoMoves
\* The read of the row: only what is there, live and visible goes on.
LEMMA ReadRowMoves ==
    ASSUME MediaInv, NEW x \in Visit, ReadRow(x)
    PROVE  VisitsInv' /\ StandingTypes' /\ CacheOK' /\ UNCHANGED content
<1> DEFINE s == IF ~Found(visits[x].kind, visits[x].user, visits[x].item) THEN "refused"
                ELSE IF visits[x].kind = "preview" \/ visits[x].user = Owner
                     THEN Granted(visits[x].kind) ELSE "follow"
           p == Exists(visits[x].item) /\ rows[visits[x].item].paid
<1> PICK j : j = visits[x]
  OBVIOUS
<1> PICK o : o = [j EXCEPT !.at = s, !.paid = p]
  OBVIOUS
<1>1. /\ Visiting(x) /\ j.at = "row" /\ j \in Journey /\ JourneyOK(j) /\ j.item \in Item
      /\ UNCHANGED <<content, standing, likes, cache>>
      /\ visits' = [visits EXCEPT ![x].at = s, ![x].paid = p]
  BY VisitKnown DEF ReadRow, At
<1>2. visits' = [visits EXCEPT ![x] = o]
  BY <1>1 DEF MediaInv, VisitsInv, VisitTypes
<1>3. p \in BOOLEAN /\ (Exists(j.item) => rows[j.item].paid = p)
  BY <1>1, RowTypes DEF MediaInv, ContentInv
<1>4. /\ s \in {"refused", "follow", "look", "remove", "media"} /\ s \in Stage
      /\ s # "refused" => Found(j.kind, j.user, j.item)
      /\ s = "refused" => ~Found(j.kind, j.user, j.item)
      /\ s = "follow" => j.user # Owner /\ j.kind # "preview"
      /\ s = "media" => /\ j.kind = "preview" \/ j.user = Owner
                        /\ j.kind \notin {"like", "unlike"}
  BY DEF Granted, Stage
<1> HIDE DEF s, p
<1>5. /\ o \in Journey /\ SameErrand(j, o) /\ o.at = s
      /\ o.paid = p /\ o.key = j.key /\ o.mark = j.mark
  BY <1>1, <1>3, <1>4 DEF Journey, SameErrand
<1>6. Now(j.user, j.item) \subseteq j.held /\ j.kind \in Kind
  BY <1>1 DEF JourneyOK, Watched, Journey
<1>7. ASSUME s # "refused"
      PROVE  /\ Exists(j.item) /\ Settled(j.item)
             /\ (rows[j.item].kind = "story") = (j.kind = "story")
             /\ j.kind = "story" => ~rows[j.item].expired /\ rows[j.item].visible /\ ~p
             /\ j.kind # "story" => rows[j.item].visible \/ (j.kind = "post" /\ j.user = Owner)
  BY <1>1, <1>3, <1>4, <1>7, RowsAreSettled DEF Found, MediaInv, ContentInv, OwnRows
<1>8. Remembers(o)
  BY <1>3, <1>5, <1>7 DEF Remembers, SameErrand, PastRow
<1>9. Passed(o)
  <2>1. o.at \in PastRow =>
          /\ "there" \in o.held
          /\ o.kind = "story" => "live" \in o.held /\ ~o.paid
          /\ o.kind # "story" /\ (o.kind # "post" \/ o.user # Owner) => "visible" \in o.held
          /\ Gated(o) => "visible" \in o.held
          /\ ~o.paid => "unlocked" \in o.held
    <3> SUFFICES ASSUME s # "refused"
                 PROVE  /\ "there" \in j.held
                        /\ j.kind = "story" => "live" \in j.held /\ ~p
                        /\ j.kind # "story" /\ (j.kind # "post" \/ j.user # Owner) => "visible" \in j.held
                        /\ Gated(j) => "visible" \in j.held
                        /\ ~p => "unlocked" \in j.held
      BY <1>5 DEF SameErrand, PastRow, Gated
    <3>1. QED
      BY <1>3, <1>6, <1>7, NowIs DEF Gated
  <2>2. s = "media" => ~Gated(o) /\ o.kind \notin {"like", "unlike"}
    BY <1>4, <1>5 DEF Gated, SameErrand
  <2>3. s = "follow" => o.user # Owner /\ o.kind # "preview"
    BY <1>4, <1>5 DEF SameErrand
  <2>4. QED
    BY <1>4, <1>5, <2>1, <2>2, <2>3 DEF Passed, PastFollow, PastBlock, PastUnlock
<1>10. Ends(o)
  <2>1. s = "refused" /\ j.steady /\ j.user # Owner => Lists(j) \cap j.shown = {}
    BY <1>1, <1>4, RefusedRightly DEF MediaInv
  <2>2. QED
    BY <1>4, <1>5, <2>1 DEF Ends, SameErrand, Lists
<1>11. Liked(o)
  BY <1>4, <1>5 DEF Liked
<1>12. VisitsInv' /\ StandingTypes'
  BY <1>1, <1>2, <1>5, <1>8, <1>9, <1>10, <1>11, VisitMoves
<1>13. QED
  BY <1>1, <1>12 DEF MediaInv, CacheOK

\* The read of the media row gives the key.
LEMMA ReadMediaMoves ==
    ASSUME MediaInv, NEW x \in Visit, NEW k \in Key, ReadMedia(x, k)
    PROVE  VisitsInv' /\ StandingTypes' /\ CacheOK' /\ UNCHANGED content
<1> DEFINE s == IF k \in files THEN "cache" ELSE "missing"
<1> PICK j : j = visits[x]
  OBVIOUS
<1> PICK o : o = [j EXCEPT !.at = s, !.key = k]
  OBVIOUS
<1>1. /\ Visiting(x) /\ j.at = "media" /\ j \in Journey /\ JourneyOK(j) /\ j.at \in PastRow
      /\ UNCHANGED <<content, standing, likes, cache>>
      /\ visits' = [visits EXCEPT ![x].at = s, ![x].key = k]
  BY VisitKnown DEF ReadMedia, At, PastRow, Stage
<1>2. visits' = [visits EXCEPT ![x] = o]
  BY <1>1 DEF MediaInv, VisitsInv, VisitTypes
<1>3. s \in {"cache", "missing"} /\ s \in Stage
  BY DEF Stage
<1> HIDE DEF s
<1>4. /\ o \in Journey /\ SameErrand(j, o) /\ o.at = s
      /\ o.paid = j.paid /\ o.key = k /\ o.mark = j.mark
  BY <1>1, <1>3 DEF Journey, SameErrand
<1>5. Remembers(o) /\ Passed(o)
  <2>1. Gated(o) => {"follower", "unblocked", "unlocked"} \subseteq o.held
    BY <1>1, <1>4 DEF JourneyOK, Passed, PastFollow, PastBlock, PastUnlock, SameErrand, Gated
  <2>2. o.kind \notin {"like", "unlike"}
    BY <1>1, <1>4 DEF JourneyOK, Passed, SameErrand
  <2>3. QED
    BY <1>1, <1>3, <1>4, <2>1, <2>2, StillKnown DEF Passed, PastFollow, PastBlock, PastUnlock
<1>6. Ends(o) /\ Liked(o)
  BY <1>3, <1>4 DEF Ends, Liked
<1>7. VisitsInv' /\ StandingTypes'
  BY <1>1, <1>2, <1>4, <1>5, <1>6, VisitMoves
<1>8. QED
  BY <1>1, <1>7 DEF MediaInv, CacheOK

\* A visit whose bytes are on their way.
LEMMA Serving ==
    ASSUME MediaInv, NEW x \in Visit, NEW j, j = visits[x], Visiting(x),
           j.at \in {"cache", "read"}, NEW o, o = [j EXCEPT !.at = "served", !.mark = Reply(j)],
           UNCHANGED <<content, standing, likes>>,
           visits' = [visits EXCEPT ![x].at = "served", ![x].mark = Reply(j)]
    PROVE  VisitsInv' /\ StandingTypes'
<1>1. /\ j \in Journey /\ JourneyOK(j) /\ j.at \in PastRow /\ "served" \in Stage
  BY VisitKnown DEF PastRow, Stage
<1>2. visits' = [visits EXCEPT ![x] = o]
  BY <1>1 DEF MediaInv, VisitsInv, VisitTypes
<1>3. Reply(j) \in User \cup {"preview", NoMark}
  BY <1>1 DEF Reply, Journey
<1>4. /\ o \in Journey /\ SameErrand(j, o) /\ o.at = "served"
      /\ o.paid = j.paid /\ o.key = j.key /\ o.mark = Reply(j)
  BY <1>1, <1>3 DEF Journey, SameErrand
<1>5. Remembers(o) /\ Passed(o)
  <2>1. /\ Gated(o) => {"follower", "unblocked", "unlocked"} \subseteq o.held
        /\ o.kind \notin {"like", "unlike"}
    BY <1>1, <1>4 DEF JourneyOK, Passed, PastFollow, PastBlock, PastUnlock, SameErrand, Gated
  <2>2. QED
    BY <1>1, <1>4, <2>1, StillKnown DEF Passed, PastFollow, PastBlock, PastUnlock
<1>6. Ends(o) /\ Liked(o)
  BY <1>4 DEF Ends, Liked, Reply, SameErrand
<1>7. QED
  BY <1>1, <1>2, <1>4, <1>5, <1>6, VisitMoves

\* What the cache has was rendered for this viewer.
LEMMA HitMoves ==
    ASSUME MediaInv, NEW x \in Visit, NEW e \in cache, Hit(x, e)
    PROVE  VisitsInv' /\ StandingTypes' /\ CacheOK' /\ UNCHANGED content
<1> PICK j : j = visits[x]
  OBVIOUS
<1>1. e.mark = Reply(j)
  BY DEF Hit, MediaInv, CacheOK, Ref, Reply
<1>2. /\ Visiting(x) /\ j.at = "cache" /\ UNCHANGED <<content, standing, likes, cache>>
      /\ visits' = [visits EXCEPT ![x].at = "served", ![x].mark = Reply(j)]
  BY <1>1 DEF Hit, At
<1>3. VisitsInv' /\ StandingTypes'
  BY <1>2, Serving
<1>4. QED
  BY <1>2, <1>3 DEF MediaInv, CacheOK

\* What is rendered and cached carries the viewer's mark.
LEMMA RenderMoves ==
    ASSUME MediaInv, NEW x \in Visit, Render(x)
    PROVE  VisitsInv' /\ StandingTypes' /\ CacheOK' /\ UNCHANGED content
<1> PICK j : j = visits[x]
  OBVIOUS
<1>1. /\ Visiting(x) /\ j.at = "read" /\ j \in Journey /\ JourneyOK(j) /\ j.at \in PastRow
      /\ UNCHANGED <<content, standing, likes>>
  BY VisitKnown DEF Render, At, PastRow, Stage
<1>2. CASE j.key \in files
  <2>1. /\ visits' = [visits EXCEPT ![x].at = "served", ![x].mark = Reply(j)]
        /\ cache' \in {cache, {e \in cache : e.ref # Ref(j) \/ e.key # j.key}
                                  \cup {Entry(Ref(j), j.key, Reply(j))}}
    BY <1>2 DEF Render
  <2>2. Entry(Ref(j), j.key, Reply(j)) \in Rendition
    BY <1>1 DEF Entry, Ref, Reply, Rendition, JourneyOK, Ends, Journey
  <2>3. Entry(Ref(j), j.key, Reply(j)).mark = Entry(Ref(j), j.key, Reply(j)).ref
    BY DEF Entry, Ref, Reply
  <2>4. CacheOK'
    BY <2>1, <2>2, <2>3 DEF MediaInv, CacheOK
  <2>5. QED
    BY <1>1, <2>1, <2>4, Serving
<1>3. CASE j.key \notin files
  <2> PICK o : o = [j EXCEPT !.at = "missing"]
    OBVIOUS
  <2>1. Goto(x, "missing")
    BY <1>3 DEF Render, Goto
  <2>2. "missing" \in Stage
    BY DEF Stage
  <2>3. /\ o \in Journey /\ SameErrand(j, o) /\ o.at = "missing" /\ o.paid = j.paid
    BY <1>1, <2>2, Going
  <2>4. Remembers(o) /\ Passed(o)
    BY <1>1, <2>3, StillKnown DEF Passed, PastFollow, PastBlock, PastUnlock
  <2>5. Ends(o) /\ Liked(o)
    BY <2>3 DEF Ends, Liked
  <2>6. QED
    BY <1>1, <2>1, <2>2, <2>4, <2>5, GotoMoves
<1>4. QED
  BY <1>2, <1>3
\* A like or its removal commits, and all visits observe it.
LEMMA LikesChange ==
    ASSUME MediaInv, NEW x \in Visit, NEW j, j = visits[x], Visiting(x),
           NEW s \in {"liked", "unliked"}, j.at \in PastRow,
           UNCHANGED <<content, standing>>,
           visits' = Observed(rows, follows, blocked, unlocked, likes',
                              [visits EXCEPT ![x].at = s]),
           likes' \subseteq User \X Item, \A p \in likes' : Exists(p[2]),
           s = "liked" /\ Exists(j.item) => <<j.user, j.item>> \in likes'
    PROVE  VisitsInv' /\ StandingTypes'
<1> PICK o : o = [j EXCEPT !.at = s]
  OBVIOUS
<1> PICK vs : vs = [visits EXCEPT ![x] = o]
  OBVIOUS
<1>1. /\ rows' = rows /\ used' = used /\ work' = work /\ follows' = follows
      /\ blocked' = blocked /\ unlocked' = unlocked
  BY DEF content, standing
<1>2. /\ j \in Journey /\ JourneyOK(j) /\ s \in Stage /\ visits \in [Visit -> Journey \cup {Idle}]
      /\ j.item \in Item
  BY VisitKnown DEF Stage, MediaInv, VisitsInv, VisitTypes
<1>3. /\ o \in Journey /\ SameErrand(j, o) /\ o.at = s /\ o.paid = j.paid
  BY <1>2, Going
<1>4. JourneyOK(o)
  <2>1. Remembers(o) /\ Passed(o)
    BY <1>2, <1>3, StillKnown DEF Passed, PastFollow, PastBlock, PastUnlock
  <2>2. Watched(o) /\ o.item \in used
    BY <1>2, <1>3 DEF Watched, JourneyOK, SameErrand
  <2>3. QED
    BY <1>3, <2>1, <2>2 DEF JourneyOK, Ends
<1>5. /\ vs \in [Visit -> Journey \cup {Idle}] /\ vs[x] = o
      /\ \A y \in Visit : y # x => vs[y] = visits[y]
      /\ visits' = Observed(rows', follows', blocked', unlocked', likes', vs)
  BY <1>1, <1>2, <1>3
<1>6. RowStep
  BY <1>1 DEF RowStep, Settled, Exists, Working
<1>7. \A y \in Visit : \A i \in {vs[y]} \ {Idle} : JourneyOK(i)
  BY <1>4, <1>5 DEF MediaInv, VisitsInv
<1>8. /\ VisitTypes'
      /\ \A y \in Visit : \A i \in {visits'[y]} \ {Idle} :
            /\ vs[y] # Idle /\ SameVisit(vs[y], i)
            /\ i.held = vs[y].held \cup Now(vs[y].user, vs[y].item)'
            /\ JourneyOK(i)'
  BY <1>1, <1>5, <1>6, <1>7, ObservedKeeps DEF MediaInv
<1>9. ASSUME NEW y \in Visit, NEW i \in {visits'[y]} \ {Idle} PROVE Liked(i)'
  <2>1. CASE y = x
    <3>0. SameVisit(o, i) /\ i.held = o.held \cup Now(o.user, o.item)'
      <4>1. SameVisit(vs[y], i) /\ i.held = vs[y].held \cup Now(vs[y].user, vs[y].item)'
        BY <1>8, <1>9
      <4>2. QED
        BY <1>5, <2>1, <4>1
    <3>1. SameVisit(o, i) /\ Now(j.user, j.item)' \subseteq i.held
      BY <1>3, <3>0 DEF SameErrand
    <3>2. i.item = j.item /\ i.at = s
      BY <1>3, <3>1 DEF SameVisit, SameErrand
    <3>3. s = "liked" /\ Exists(j.item)' => "liked" \in i.held
      BY <1>1, <3>1, NextNowIs DEF Exists
    <3>4. QED
      BY <1>1, <3>2, <3>3 DEF Liked, Exists
  <2>2. CASE y # x
    <3>1. /\ vs[y] \in Journey /\ JourneyOK(vs[y]) /\ Liked(vs[y])
          /\ SameVisit(vs[y], i) /\ vs[y].held \subseteq i.held
      <4>1. /\ vs[y] # Idle /\ SameVisit(vs[y], i)
            /\ i.held = vs[y].held \cup Now(vs[y].user, vs[y].item)'
        BY <1>8, <1>9
      <4>2. vs[y] = visits[y]
        BY <1>5, <2>2
      <4>3. vs[y] \in Journey /\ JourneyOK(vs[y]) /\ Liked(vs[y])
        BY <4>1, <4>2, VisitKnown DEF Visiting
      <4>4. QED
        BY <4>1, <4>3
    <3>2. QED
      BY <1>6, <3>1, LikedKept
  <2>3. QED
    BY <2>1, <2>2
<1>10. StandingTypes'
  BY <1>1 DEF MediaInv, StandingTypes, Exists
<1>11. QED
  BY <1>8, <1>9, <1>10 DEF VisitsInv

\* An insert leaves the like there, whoever inserted it first.
LEMMA InsertLikeMoves ==
    ASSUME MediaInv, NEW x \in Visit, InsertLike(x)
    PROVE  VisitsInv' /\ StandingTypes' /\ CacheOK' /\ UNCHANGED content
<1> PICK j : j = visits[x]
  OBVIOUS
<1>1. /\ Visiting(x) /\ j.at = "insert" /\ j.at \in PastRow
      /\ likes' = likes \cup (IF Exists(j.item) THEN {<<j.user, j.item>>} ELSE {})
      /\ UNCHANGED <<content, standing, cache>>
      /\ visits' = Observed(rows, follows, blocked, unlocked, likes',
                            [visits EXCEPT ![x].at = "liked"])
  BY DEF InsertLike, At, PastRow, Stage
<1>2. j.user \in User /\ j.item \in Item
  BY <1>1, VisitKnown DEF Journey
<1>3. likes' \subseteq User \X Item /\ \A p \in likes' : Exists(p[2])
  BY <1>1, <1>2 DEF MediaInv, StandingTypes
<1>4. VisitsInv' /\ StandingTypes'
  BY <1>1, <1>3, LikesChange
<1>5. QED
  BY <1>1, <1>4 DEF MediaInv, CacheOK

\* An unlike takes the viewer's own like only.
LEMMA RemoveLikeMoves ==
    ASSUME MediaInv, NEW x \in Visit, RemoveLike(x)
    PROVE  VisitsInv' /\ StandingTypes' /\ CacheOK' /\ UNCHANGED content
<1> PICK j : j = visits[x]
  OBVIOUS
<1>1. /\ Visiting(x) /\ j.at = "remove" /\ j.at \in PastRow
      /\ likes' = likes \ {<<j.user, j.item>>}
      /\ UNCHANGED <<content, standing, cache>>
      /\ visits' = Observed(rows, follows, blocked, unlocked, likes',
                            [visits EXCEPT ![x].at = "unliked"])
  BY DEF RemoveLike, At, PastRow, Stage
<1>2. likes' \subseteq User \X Item /\ \A p \in likes' : Exists(p[2])
  BY <1>1 DEF MediaInv, StandingTypes
<1>3. VisitsInv' /\ StandingTypes'
  BY <1>1, <1>2, LikesChange
<1>4. QED
  BY <1>1, <1>3 DEF MediaInv, CacheOK

\* An answered visit is over.
LEMMA EndVisitMoves ==
    ASSUME MediaInv, NEW x \in Visit, EndVisit(x)
    PROVE  VisitsInv' /\ StandingTypes' /\ CacheOK' /\ UNCHANGED content
<1>1. UNCHANGED <<content, standing, likes, cache>> /\ visits' = [visits EXCEPT ![x] = Idle]
  BY DEF EndVisit
<1>2. VisitTypes'
  BY <1>1 DEF MediaInv, VisitsInv, VisitTypes
<1>3. ASSUME NEW y \in Visit, NEW j \in {visits'[y]} \ {Idle} PROVE JourneyOK(j)' /\ Liked(j)'
  <2>1. JourneyOK(j) /\ Liked(j)
    BY <1>1, <1>3 DEF MediaInv, VisitsInv, VisitTypes
  <2>2. QED
    BY <1>1, <2>1, Unmoved
<1>4. StandingTypes' /\ CacheOK'
  BY <1>1 DEF MediaInv, StandingTypes, CacheOK, content, standing, Exists
<1>5. QED
  BY <1>1, <1>2, <1>3, <1>4 DEF VisitsInv

\* A visit records what was listed when it came in.
LEMMA BeginVisitMoves ==
    ASSUME MediaInv, NEW x \in Visit, NEW k \in Kind, NEW v \in User, NEW i \in Item,
           BeginVisit(x, k, v, i)
    PROVE  VisitsInv' /\ StandingTypes' /\ CacheOK' /\ UNCHANGED content
<1> PICK o : o = [at |-> "row", kind |-> k, user |-> v, item |-> i,
                  paid |-> FALSE, key |-> <<>>, mark |-> NoMark,
                  shown |-> Listed(v, i), steady |-> TRUE, held |-> Now(v, i)]
  OBVIOUS
<1>1. UNCHANGED <<content, standing, likes, cache>> /\ visits' = [visits EXCEPT ![x] = o]
      /\ i \in used
  BY DEF BeginVisit
<1>2. o \in Journey
  <2>1. Listed(v, i) \subseteq {"feed", "gallery", "stories"} /\ Now(v, i) \subseteq Condition
    BY NowIs DEF Listed
  <2>2. QED
    BY <2>1 DEF Journey, Stage
<1>3. JourneyOK(o) /\ Liked(o)
  BY <1>1 DEF JourneyOK, Liked, Watched, Passed, Remembers, Ends, PastRow, PastFollow,
              PastBlock, PastUnlock
<1>4. VisitTypes'
  BY <1>1, <1>2 DEF MediaInv, VisitsInv, VisitTypes
<1>5. ASSUME NEW y \in Visit, NEW j \in {visits'[y]} \ {Idle} PROVE JourneyOK(j)' /\ Liked(j)'
  <2>1. JourneyOK(j) /\ Liked(j)
    BY <1>1, <1>3, <1>5 DEF MediaInv, VisitsInv, VisitTypes
  <2>2. QED
    BY <1>1, <2>1, Unmoved
<1>6. StandingTypes' /\ CacheOK'
  BY <1>1 DEF MediaInv, StandingTypes, CacheOK, content, standing, Exists
<1>7. QED
  BY <1>1, <1>4, <1>5, <1>6 DEF VisitsInv

\* A viewer's standing changes and every visit observes it.
LEMMA ChangeStandingMoves ==
    ASSUME MediaInv, NEW v \in Viewer, ChangeStanding(v)
    PROVE  VisitsInv' /\ StandingTypes' /\ CacheOK' /\ UNCHANGED content
<1>1. /\ UNCHANGED <<content, likes, cache>>
      /\ rows' = rows /\ used' = used /\ work' = work /\ likes' = likes
      /\ visits' = Observed(rows', follows', blocked', unlocked', likes', visits)
  BY DEF ChangeStanding, content
<1>2. StandingTypes'
  BY <1>1 DEF ChangeStanding, Toggle, MediaInv, StandingTypes, Exists
<1>3. RowStep
  BY <1>1 DEF RowStep, Settled, Exists, Working
<1> PICK vs : vs = visits
  OBVIOUS
<1>4. /\ vs \in [Visit -> Journey \cup {Idle}]
      /\ \A x \in Visit : \A j \in {vs[x]} \ {Idle} : JourneyOK(j) /\ Liked(j)
  BY DEF MediaInv, VisitsInv, VisitTypes
<1>5. /\ VisitTypes'
      /\ \A x \in Visit : \A o \in {visits'[x]} \ {Idle} :
            /\ vs[x] # Idle /\ SameVisit(vs[x], o)
            /\ o.held = vs[x].held \cup Now(vs[x].user, vs[x].item)'
            /\ JourneyOK(o)'
  BY <1>1, <1>3, <1>4, ObservedKeeps DEF MediaInv
<1>6. ASSUME NEW x \in Visit, NEW o \in {visits'[x]} \ {Idle} PROVE Liked(o)'
  BY <1>3, <1>4, <1>5, LikedKept
<1>7. QED
  BY <1>1, <1>2, <1>5, <1>6 DEF VisitsInv, MediaInv, CacheOK

\* The cache may lose what it has.
LEMMA EvictMoves ==
    ASSUME MediaInv, NEW e \in cache, Evict(e)
    PROVE  VisitsInv' /\ StandingTypes' /\ CacheOK' /\ UNCHANGED content
<1>1. UNCHANGED <<content, standing, likes, visits>> /\ cache' = cache \ {e}
  BY DEF Evict
<1>2. ASSUME NEW y \in Visit, NEW j \in {visits'[y]} \ {Idle} PROVE JourneyOK(j)' /\ Liked(j)'
  BY <1>1, <1>2, Unmoved DEF MediaInv, VisitsInv
<1>3. StandingTypes' /\ CacheOK' /\ VisitTypes'
  BY <1>1 DEF MediaInv, StandingTypes, CacheOK, content, standing, Exists, VisitsInv, VisitTypes
<1>4. QED
  BY <1>1, <1>2, <1>3 DEF VisitsInv

\* Visits, standing and the cache leave rows and files alone.
LEMMA ContentUntouched ==
    ASSUME ContentInv, UNCHANGED content
    PROVE  ContentInv'
<1>1. /\ rows' = rows /\ used' = used /\ files' = files /\ astray' = astray
      /\ work' = work /\ sweep' = sweep
  BY DEF content
<1>2. QED
  BY <1>1 DEF ContentInv, ContentTypes, OwnRows, OwnUploads, OwnDeletions, OwnSweep,
              DiskMatchesRows, Stored, Written, Deleting, Saving, Working, Settled, Exists
-----------------------------------------------------------------------------
(* The theorems.                                                           *)

\* The invariant holds at first.
LEMMA MediaInitOK == ASSUME MediaInit PROVE MediaInv
<1>1. \A i \in Item : rows[i] = Gone /\ ~Exists(i)
  BY DEF MediaInit, Exists
<1>2. \A w \in Worker : work[w] = Idle /\ \A s : ~Working(w, s)
  BY DEF MediaInit, Working
<1>3. /\ used = {} /\ files = {} /\ astray = {} /\ sweep = Idle /\ follows = Viewer
      /\ blocked = {} /\ unlocked = {} /\ likes = {} /\ cache = {}
      /\ visits = [x \in Visit |-> Idle] /\ rows = [i \in Item |-> Gone]
      /\ work = [w \in Worker |-> Idle]
  BY DEF MediaInit
<1>4. ContentTypes /\ StandingTypes /\ CacheOK /\ VisitsInv
  BY <1>3 DEF ContentTypes, StandingTypes, CacheOK, VisitsInv, VisitTypes
<1>5. OwnRows /\ OwnUploads /\ OwnDeletions /\ OwnSweep
  BY <1>1, <1>2, <1>3 DEF OwnRows, OwnUploads, OwnDeletions, OwnSweep
<1>6. DiskMatchesRows
  BY <1>1, <1>3, KeySets DEF DiskMatchesRows
<1>7. QED
  BY <1>4, <1>5, <1>6 DEF MediaInv, ContentInv

\* Every step keeps the invariant.
LEMMA MediaStepOK == ASSUME MediaInv, [MediaNext]_mediaVars PROVE MediaInv'
<1>1. ASSUME ContentStep PROVE MediaInv'
  BY <1>1, ContentKeeps, ContentStepVisits DEF MediaInv
<1>2. ASSUME VisitsInv' /\ StandingTypes' /\ CacheOK' /\ UNCHANGED content PROVE MediaInv'
  BY <1>2, ContentUntouched DEF MediaInv
<1>3. ASSUME NEW x \in Visit, VisitStep(x) PROVE MediaInv'
  BY <1>2, <1>3, ReadRowMoves, ReadFollowMoves, ReadBlockMoves, ReadUnlockMoves,
     ReadMediaMoves, NoMediaMoves, HitMoves, MissMoves, RenderMoves, LookForLikeMoves,
     InsertLikeMoves, RemoveLikeMoves, EndVisitMoves DEF VisitStep
<1>4. ASSUME NEW x \in Visit, NEW k \in Kind, NEW v \in User, NEW i \in Item,
             BeginVisit(x, k, v, i)
      PROVE  MediaInv'
  BY <1>2, <1>4, BeginVisitMoves
<1>5. ASSUME NEW v \in Viewer, ChangeStanding(v) PROVE MediaInv'
  BY <1>2, <1>5, ChangeStandingMoves
<1>6. ASSUME NEW e \in cache, Evict(e) PROVE MediaInv'
  BY <1>2, <1>6, EvictMoves
<1>7. ASSUME UNCHANGED mediaVars PROVE MediaInv'
  <2>1. UNCHANGED <<content, standing, likes, visits>> /\ cache' = cache
    BY <1>7 DEF mediaVars
  <2>2. ASSUME NEW y \in Visit, NEW j \in {visits'[y]} \ {Idle} PROVE JourneyOK(j)' /\ Liked(j)'
    BY <2>1, <2>2, Unmoved DEF MediaInv, VisitsInv
  <2>3. StandingTypes' /\ CacheOK' /\ VisitTypes'
    BY <2>1 DEF MediaInv, StandingTypes, CacheOK, content, standing, Exists, VisitsInv, VisitTypes
  <2>4. QED
    BY <1>2, <2>1, <2>2, <2>3 DEF VisitsInv
<1>8. QED
  BY <1>1, <1>3, <1>4, <1>5, <1>6, <1>7 DEF MediaNext, ContentStep

\* The inductive invariant: uploads, deletions and the sweep own the keys they
\* touch, the cache holds only what it was asked to mark, and a visit has seen
\* each condition it passed hold at some instant since it came in.
THEOREM MediaInvariant == MediaSpec => []MediaInv
BY MediaInitOK, MediaStepOK, PTL DEF MediaSpec

\* Rows, files, requests, the cache and visits keep their types.
THEOREM MediaTypes == MediaSpec => []MediaTypeOK
<1>1. ASSUME MediaInv PROVE MediaTypeOK
  <2>1. \A i \in Item : Exists(i) => i \in used /\ rows[i] \in Row
    BY <1>1, RowTypes DEF MediaInv, ContentInv, OwnRows
  <2>2. /\ used \subseteq Item /\ files \subseteq Key /\ astray \subseteq Key
        /\ follows \subseteq Viewer /\ blocked \subseteq Viewer
        /\ unlocked \subseteq Viewer \X Item /\ likes \subseteq User \X Item
    BY <1>1 DEF MediaInv, ContentInv, ContentTypes, StandingTypes
  <2>3. \A w \in Worker : work[w] # Idle => work[w].at \in {"saving", "deleting"}
    BY <1>1, WorkTypes DEF MediaInv, ContentInv, Working
  <2>4. sweep # Idle => sweep.left \subseteq sweep.keys /\ sweep.items \subseteq Item
    BY <1>1, SweepTypes DEF MediaInv, ContentInv, OwnSweep
  <2>5. \A e \in cache : e.key \in Key
    BY <1>1 DEF MediaInv, CacheOK, Rendition
  <2>6. \A x \in Visit : Visiting(x) => visits[x].at \in Stage /\ visits[x].kind \in Kind
    BY <1>1, VisitKnown DEF Journey
  <2>7. QED
    BY <2>1, <2>2, <2>3, <2>4, <2>5, <2>6 DEF MediaTypeOK
<1>2. QED
  BY <1>1, MediaInvariant, PTL

\* A file is on disk exactly if a row, an upload or a deletion in flight names
\* it, apart from what broke off halfway: posts, stories and the sweep remove and
\* write files in one order and commit in another.
THEOREM DiskMatches == MediaSpec => []DiskMatchesRows
<1>1. ASSUME MediaInv PROVE DiskMatchesRows
  BY <1>1 DEF MediaInv, ContentInv
<1>2. QED
  BY <1>1, MediaInvariant, PTL

\* The media endpoints serve bytes only under the viewer's own mark and only if
\* every condition of their gate held at some instant of the request.
THEOREM ServedOnlyByLeave == MediaSpec => []ServedByLeave
<1>1. ASSUME MediaInv PROVE ServedByLeave
  <2> SUFFICES ASSUME NEW x \in Visit, At(x, "served"), NEW j, j = visits[x]
               PROVE  /\ j.mark = (IF j.kind = "preview" THEN "preview" ELSE j.user)
                      /\ {"there"} \subseteq j.held
                      /\ j.kind = "story" => "live" \in j.held
                      /\ j.kind = "preview" => "visible" \in j.held
                      /\ j.kind \in {"post", "story"} /\ j.user # Owner =>
                             {"follower", "unblocked", "visible", "unlocked"} \subseteq j.held
    BY DEF ServedByLeave
  <2>1. JourneyOK(j) /\ j.at = "served" /\ j.at \in PastRow
    BY <1>1, VisitKnown DEF At, PastRow, Stage
  <2>2. j.mark = (IF j.kind = "preview" THEN "preview" ELSE j.user)
    BY <2>1 DEF JourneyOK, Ends, Reply
  <2>3. QED
    BY <2>1, <2>2 DEF JourneyOK, Passed, Gated, PastFollow, PastBlock, PastUnlock
<1>2. QED
  BY <1>1, MediaInvariant, PTL

\* Feed, gallery and stories list what the media endpoints serve and nothing
\* else, as long as nothing changes between the listing and the request.
THEOREM ListingsTruthful == MediaSpec => []ListingsTellTheTruth
<1>1. ASSUME MediaInv PROVE ListingsTellTheTruth
  <2> SUFFICES ASSUME NEW x \in Visit, Visiting(x), NEW j, j = visits[x],
                      j.steady, j.user # Owner
               PROVE  /\ j.at = "refused" => Lists(j) \cap j.shown = {}
                      /\ j.at = "served" => Lists(j) \subseteq j.shown
    BY DEF ListingsTellTheTruth, Lists, At
  <2>1. j \in Journey /\ JourneyOK(j) /\ j.item \in Item
    BY <1>1, VisitKnown
  <2>2. j.at = "refused" => Lists(j) \cap j.shown = {}
    BY <2>1 DEF JourneyOK, Ends
  <2>3. ASSUME j.at = "served" PROVE Lists(j) \subseteq j.shown
    <3>1. j.at \in PastRow /\ j.held = Now(j.user, j.item)
      BY <2>1, <2>3 DEF PastRow, Stage, JourneyOK, Watched
    <3>2. j.shown = ListedBy(j.user, j.item, Exists(j.item), rows[j.item].kind, j.held)
      BY <2>1, <3>1, ListedIs DEF JourneyOK, Watched
    <3>3. Exists(j.item)
      BY <2>1, <3>1, NowIs DEF JourneyOK, Passed
    <3>4. /\ (rows[j.item].kind = "story") = (j.kind = "story")
          /\ rows[j.item].kind \in {"post", "story"}
      BY <1>1, <2>1, <3>1, <3>3, RowTypes DEF JourneyOK, Remembers, MediaInv, ContentInv
    <3>5. CASE j.kind = "post"
      <4>1. {"visible", "follower", "unblocked", "unlocked"} \subseteq j.held
        BY <2>1, <2>3, <3>1, <3>5 DEF JourneyOK, Passed, Gated, PastFollow, PastBlock, PastUnlock
      <4>2. QED
        BY <3>2, <3>3, <3>4, <3>5, <4>1 DEF ListedBy, Lists
    <3>6. CASE j.kind = "story"
      <4>1. {"live", "follower", "unblocked"} \subseteq j.held
        BY <2>1, <2>3, <3>1, <3>6 DEF JourneyOK, Passed, Gated, PastFollow, PastBlock, PastUnlock
      <4>2. QED
        BY <3>2, <3>3, <3>4, <3>6, <4>1 DEF ListedBy, Lists
    <3>7. QED
      BY <3>5, <3>6 DEF Lists
  <2>4. QED
    BY <2>2, <2>3
<1>2. QED
  BY <1>1, MediaInvariant, PTL

\* A like answered as done was there at some instant of the request, or its post
\* went meanwhile, however likes, unlikes and deletions overlap.
THEOREM LikesAreKept == MediaSpec => []LikeIsKept
<1>1. ASSUME MediaInv PROVE LikeIsKept
  BY <1>1, VisitKnown DEF LikeIsKept, At, Liked
<1>2. QED
  BY <1>1, MediaInvariant, PTL
=============================================================================
