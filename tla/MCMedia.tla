------------------------------ MODULE MCMedia ------------------------------
(***************************************************************************)
(* Small instances of Media for TLC.  Each behaviour moves one part of the *)
(* system: the creator and the sweep, with nobody looking; visitors to one *)
(* item while everything about it changes; or likes from two tabs.         *)
(***************************************************************************)
EXTENDS Media

CONSTANTS v1, x1, w1, m1, i1, o1

VARIABLE part   \* what moves

vars == <<mediaVars, part>>

Part == {"files", "views", "likes"}

Init == MediaInit /\ part \in Part

\* The uploads asked for: posts of one or two pictures, and one picture where
\* visitors come; only visitors care for prices.
AskedOf(i) ==
    {r \in Asked :
        /\ r.keys \subseteq {i} \X Photo
        /\ r.paid => part = "views"
        /\ part # "files" => i = i1 /\ r.keys \subseteq {<<i1, m1>>}
        /\ part = "likes" => r.kind = "post"}

Works ==
    \/ \E w \in Worker, i \in Item :
          /\ part # "files" => w = w1
          /\ WorkStep(w) \/ (\E r \in AskedOf(i) : BeginUpload(w, i, r))
    \/ \E w \in Worker : part = "files" /\ WorkFails(w)
    \/ part = "files" /\ (SweepStep \/ SweepFails)
    \/ \E i \in Item : Expire(i)
    \/ \E i \in Item : part # "files" /\ SetVisible(i)

\* Two likers at once, and one reader after another.
Looks ==
    \/ \E x \in Visit, k \in Kind, v \in User, i \in Item :
          /\ IF k \in {"like", "unlike"} THEN part = "likes" /\ v \in {v1, o1}
             ELSE part = "views" /\ x = x1
          /\ BeginVisit(x, k, v, i)
    \/ \E x \in Visit : VisitStep(x)

Next ==
    /\ part' = part
    /\ \/ Works
       \/ part \in {"views", "likes"} /\ Looks
       \/ part = "views" /\ (ChangeStanding(v1) \/ (\E e \in cache : Evict(e)))

\* Beat starts sweep after sweep, and they do not fail for ever: some time the
\* database takes what is asked of it and the worker stays up.
Fairness == WF_mediaVars(SweepStep) /\ <>[][~SweepFails]_mediaVars

Spec == Init /\ [][Next]_vars /\ Fairness

ExpiredGoesAway == ExpiredGoes(i1)
=============================================================================
