--------------------------- MODULE AccountsProofs ---------------------------
(***************************************************************************)
(* Theorems about signing in: Sessions first, then Accounts, for any       *)
(* lifetimes, budgets, windows, clock and number of requests.  What they   *)
(* share is Redis: their guards are keys that lapse, and each proof is the *)
(* arithmetic of whole seconds and ticks that says when.                   *)
(*                                                                         *)
(* Sessions keeps its types, rotates a refresh token once and honours a    *)
(* logout.  The argument is that of the denylist's ttl: a key written at   *)
(* now for the token's remaining whole seconds, at least one, is there     *)
(* until exp (RevokeLasts), so a token whose key has lapsed is in its last *)
(* second or past it.                                                      *)
(*                                                                         *)
(* Accounts keeps its types, takes a proof of work once and keeps every    *)
(* budget of requests.  A claim lasts PowLife from its own instant, which  *)
(* is never before the challenge's, so it outlives the challenge           *)
(* (ClaimInv).  A counter lasts one Span from the first request of its     *)
(* window, so it outlives the window (CountInv) and reads what it counted  *)
(* for as long as it is asked.                                             *)
(***************************************************************************)
EXTENDS Sessions, Accounts, FiniteSetTheorems, TLAPS

K == TicksPerSecond

----------------------------------------------------------------------------
(* Seconds and ticks.                                                      *)

LEMMA SecondFloor ==
    ASSUME NEW t \in Nat
    PROVE  Second(t) \in Nat /\ Second(t) * K <= t /\ t < (Second(t) + 1) * K
BY ClockAssumption, Z3 DEF Second, K

LEMMA SecondAtLeast ==
    ASSUME NEW t \in Nat, NEW e \in Nat, e * K <= t
    PROVE  e <= Second(t)
<1>1. SUFFICES ASSUME Second(t) + 1 <= e PROVE FALSE
  BY SecondFloor
<1>2. (Second(t) + 1) * K <= e * K
  BY <1>1, SecondFloor, ClockAssumption, Z3 DEF K
<1> QED
  BY <1>2, SecondFloor, ClockAssumption DEF K

LEMMA SecondMono ==
    ASSUME NEW s \in Nat, NEW t \in Nat, s <= t
    PROVE  Second(s) <= Second(t)
<1>1. Second(s) * K <= t
  BY SecondFloor, ClockAssumption DEF K
<1> QED
  BY <1>1, SecondFloor, SecondAtLeast

----------------------------------------------------------------------------
(* The inductive invariant.                                                *)

\* Token t can no more be used before its exp: its key lasts until then, or
\* it does not decode any more.
Gone(t) == denied[t] >= Exp(t) * K \/ Second(now) > Exp(t)

\* The token of a pair's refresh, of a request and of a logout was issued,
\* and is gone once it was used or revoked.
UsedAreGone ==
    \A p \in DOMAIN pair :
        pair[p].from # None =>
            /\ Issued(pair[p].from) /\ pair[p].from[2] = "refresh"
            /\ Gone(pair[p].from)

JobsAreSound ==
    \A w \in Server :
        /\ job[w].op = "refresh" =>
               Issued(job[w].token) /\ job[w].token[2] = "refresh"
        /\ job[w].op = "logout" =>
               job[w].pair \in DOMAIN pair /\ Gone(<<job[w].pair, "refresh">>)

LoggedOutAreGone == \A t \in loggedOut : Issued(t) /\ Gone(t)

TypesOK == ClockTypeOK /\ SessionsTypeOK

IInv == TypesOK /\ UsedAreGone /\ JobsAreSound /\ LoggedOutAreGone /\ RefreshOnce

----------------------------------------------------------------------------
(* Lemmas.                                                                 *)

LEMMA ExpType ==
    ASSUME TypesOK, NEW t \in Token, Issued(t)
    PROVE  Exp(t) \in Nat /\ pair[t[1]].at \in Nat
<1>1. pair[t[1]] \in Issue
  BY DEF TypesOK, SessionsTypeOK, Issued
<1>2. pair[t[1]].at \in Nat
  BY <1>1, ClockAssumption DEF Issue, Time
<1> QED
  BY <1>2, SecondFloor, LifeAssumption DEF Exp

LEMMA RevokeLasts ==
    ASSUME TypesOK, NEW t \in Token, Issued(t)
    PROVE  Until(RemainingTtl(t)) \in Nat /\ Until(RemainingTtl(t)) >= Exp(t) * K
<1> DEFINE r == RemainingTtl(t)
<1>1. now \in Nat /\ Exp(t) \in Nat
  BY ExpType, ClockAssumption DEF TypesOK, ClockTypeOK, Time
<1>2. r \in Nat /\ Exp(t) <= Second(now) + r
  BY <1>1, SecondFloor DEF RemainingTtl
<1>3. Second(now) * K <= now /\ Second(now) \in Nat
  BY <1>1, SecondFloor
<1>4. Exp(t) * K <= (Second(now) + r) * K
  BY <1>1, <1>2, <1>3, ClockAssumption, Z3 DEF K
<1>5. (Second(now) + r) * K = Second(now) * K + r * K
  BY <1>2, <1>3, ClockAssumption, Z3 DEF K
<1>6. r * K \in Nat /\ Exp(t) * K \in Nat /\ Second(now) * K \in Nat
  BY <1>1, <1>2, <1>3, ClockAssumption, Z3 DEF K
<1>7. Until(r) = now + r * K
  BY DEF Until, K
<1> QED
  BY <1>1, <1>3, <1>4, <1>5, <1>6, <1>7

\* A token that is gone and still passes is in the second of its exp.
LEMMA GoneStaysOut ==
    ASSUME TypesOK, NEW t \in Token, Issued(t), Gone(t), denied[t] <= now
    PROVE  Second(now) >= Exp(t)
<1>1. now \in Nat /\ Exp(t) \in Nat /\ denied[t] \in Nat
  BY ExpType, ClockAssumption DEF TypesOK, ClockTypeOK, SessionsTypeOK, Time
<1>2. CASE denied[t] >= Exp(t) * K
  <2>1. Exp(t) * K \in Nat
    BY <1>1, ClockAssumption, Z3 DEF K
  <2>2. Exp(t) * K <= now
    BY <1>1, <1>2, <2>1
  <2> QED
    BY <1>1, <2>2, SecondAtLeast, SecondFloor
<1>3. CASE Second(now) > Exp(t)
  BY <1>1, <1>3, SecondFloor
<1> QED
  BY <1>2, <1>3 DEF Gone

----------------------------------------------------------------------------
(* What a step does.                                                       *)

Persist == \A p \in DOMAIN pair : p \in DOMAIN pair' /\ pair'[p] = pair[p]

LEMMA IssueSteps ==
    ASSUME TypesOK, NEW u \in User, NEW t \in Token \cup {None}, IssuePair(u, t)
    PROVE  /\ pair' \in Seq(Issue) /\ Len(pair') <= MaxPairs
           /\ Len(pair') = Len(pair) + 1
           /\ pair'[Len(pair')] = [user |-> u, at |-> now, from |-> t]
           /\ Persist
<1> DEFINE i == [user |-> u, at |-> now, from |-> t]
<1>1. pair \in Seq(Issue) /\ i \in Issue /\ Len(pair) \in Nat
  BY DEF TypesOK, SessionsTypeOK, ClockTypeOK, Issue
<1>2. pair' = Append(pair, i) /\ Len(pair) < MaxPairs
  BY DEF IssuePair
<1> QED
  BY <1>1, <1>2, BoundAssumption DEF Persist

LEMMA RevokeSteps ==
    ASSUME TypesOK, NEW t \in Token, Issued(t), Revoke(t)
    PROVE  /\ denied' \in [Token -> Nat]
           /\ denied'[t] >= Exp(t) * K
           /\ \A x \in Token : x # t => denied'[x] = denied[x]
<1>1. denied \in [Token -> Nat]
  BY DEF TypesOK, SessionsTypeOK
<1> QED
  BY <1>1, RevokeLasts DEF Revoke

LEMMA TypesStep ==
    ASSUME IInv, [SessionsNext]_<<clock, sessionVars>>
    PROVE  TypesOK'
<1>t. TypesOK /\ ClockTypeOK /\ SessionsTypeOK
  BY DEF IInv, TypesOK
<1>j. job \in [Server -> Job]
  BY <1>t DEF SessionsTypeOK
<1>b. \A w \in Server, j \in Job : Begin(w, j) => job' \in [Server -> Job]
  BY <1>j DEF Begin
<1>e. \A w \in Server : End(w) => job' \in [Server -> Job]
  BY <1>j DEF End, Idle, Job
<1>1. ASSUME NEW u \in User, SignIn(u) PROVE TypesOK'
  BY <1>t, <1>1, IssueSteps DEF SignIn, clock, TypesOK, ClockTypeOK, SessionsTypeOK
<1>2. ASSUME NEW w \in Server, NEW t \in Token, Refresh(w, t) PROVE TypesOK'
  <2>1. [op |-> "refresh", token |-> t] \in Job
    BY DEF Job
  <2> QED
    BY <1>t, <1>b, <1>2, <2>1 DEF Refresh, clock, TypesOK, ClockTypeOK, SessionsTypeOK
<1>3. ASSUME NEW w \in Server, NEW p \in Pair, NEW bearer \in BOOLEAN, Logout(w, p, bearer)
      PROVE  TypesOK'
  <2>1. [op |-> "logout", pair |-> p, bearer |-> bearer] \in Job
    BY DEF Job
  <2>2. <<p, "refresh">> \in Token /\ Issued(<<p, "refresh">>)
    BY <1>3 DEF Token, Issued, Logout
  <2>3. denied' \in [Token -> Nat]
    BY <1>t, <1>3, <2>2, RevokeSteps DEF Logout, SessionsTypeOK
  <2> QED
    BY <1>t, <1>b, <1>3, <2>1, <2>3 DEF Logout, clock, TypesOK, ClockTypeOK, SessionsTypeOK
<1>4. ASSUME NEW w \in Server, RefreshAnswer(w) PROVE TypesOK'
  <2> DEFINE t == job[w].token
  <2>1. t \in Token /\ Issued(t)
    BY <1>4, <1>j DEF RefreshAnswer, IInv, JobsAreSound, Job
  <2>2. pair[t[1]].user \in User
    <3>1. pair[t[1]] \in Issue
      BY <1>t, <2>1 DEF SessionsTypeOK, Issued
    <3> QED
      BY <3>1 DEF Issue
  <2>3. pair' \in Seq(Issue) /\ Len(pair') <= MaxPairs /\ denied' \in [Token -> Nat]
    <3>1. CASE Unused(t)
      BY <1>t, <1>4, <2>1, <2>2, <3>1, IssueSteps, RevokeSteps DEF RefreshAnswer
    <3>2. CASE ~Unused(t)
      BY <1>t, <1>4, <3>2 DEF RefreshAnswer, SessionsTypeOK
    <3> QED
      BY <3>1, <3>2
  <2> QED
    BY <1>t, <1>e, <1>4, <2>3
    DEF RefreshAnswer, clock, TypesOK, ClockTypeOK, SessionsTypeOK
<1>5. ASSUME NEW w \in Server, LogoutAnswer(w) PROVE TypesOK'
  <2> DEFINE p == job[w].pair
             a == <<p, "access">>
  <2>1. p \in Pair /\ p \in DOMAIN pair
    BY <1>5, <1>j DEF LogoutAnswer, IInv, JobsAreSound, Job
  <2>2. a \in Token /\ <<p, "refresh">> \in Token /\ Issued(a)
    BY <2>1 DEF Token, Issued
  <2>3. denied' \in [Token -> Nat]
    BY <1>t, <1>5, <2>2, RevokeSteps DEF LogoutAnswer, SessionsTypeOK
  <2>4. loggedOut' \subseteq Token
    BY <1>t, <1>5, <2>2 DEF LogoutAnswer, SessionsTypeOK
  <2> QED
    BY <1>t, <1>e, <1>5, <2>3, <2>4
    DEF LogoutAnswer, clock, TypesOK, ClockTypeOK, SessionsTypeOK
<1>6. ASSUME NEW w \in Server, Fail(w) PROVE TypesOK'
  BY <1>t, <1>e, <1>6 DEF Fail, clock, TypesOK, ClockTypeOK, SessionsTypeOK
<1>7. ASSUME Tick \/ Outage, UNCHANGED sessionVars PROVE TypesOK'
  <2>1. SessionsTypeOK'
    BY <1>t, <1>7 DEF sessionVars, SessionsTypeOK
  <2>2. now' \in Time
    BY <1>t, <1>7, ClockAssumption DEF Tick, Outage, ClockTypeOK, Time
  <2>3. up' \in BOOLEAN
    BY <1>t, <1>7, Zenon DEF Tick, Outage, ClockTypeOK
  <2> QED
    BY <2>1, <2>2, <2>3 DEF TypesOK, ClockTypeOK
<1>8. ASSUME UNCHANGED <<clock, sessionVars>> PROVE TypesOK'
  BY <1>t, <1>8 DEF clock, sessionVars, TypesOK, ClockTypeOK, SessionsTypeOK
<1> QED
  BY <1>1, <1>2, <1>3, <1>4, <1>5, <1>6, <1>7, <1>8 DEF SessionsNext, SessionsStep

\* A token that is gone stays gone unless its key is moved before its exp.
LEMMA StaysGone ==
    ASSUME TypesOK, TypesOK', Persist, now <= now',
           NEW t \in Token, Issued(t), Gone(t),
           denied'[t] = denied[t] \/ denied'[t] >= Exp(t) * K
    PROVE  Issued(t)' /\ Exp(t)' = Exp(t) /\ Gone(t)'
<1>1. Issued(t)' /\ Exp(t)' = Exp(t)
  BY DEF Persist, Issued, Exp, Second
<1>2. now \in Nat /\ now' \in Nat
  BY ClockAssumption DEF TypesOK, ClockTypeOK, Time
<1>3. Second(now) <= Second(now') /\ Second(now) \in Nat /\ Second(now') \in Nat
  BY <1>2, SecondMono, SecondFloor
<1>4. Second(now)' = Second(now')
  BY DEF Second
<1>5. Exp(t) \in Nat
  BY ExpType
<1> QED
  BY <1>1, <1>3, <1>4, <1>5 DEF Gone, K

LEMMA StepFacts ==
    ASSUME IInv, [SessionsNext]_<<clock, sessionVars>>
    PROVE  /\ Persist
           /\ now <= now'
           /\ \A t \in Token : Issued(t) =>
                  denied'[t] = denied[t] \/ denied'[t] >= Exp(t) * K
<1>t. TypesOK /\ SessionsTypeOK /\ now \in Nat
  BY ClockAssumption DEF IInv, TypesOK, ClockTypeOK, Time
<1> DEFINE Facts ==
      /\ Persist
      /\ now <= now'
      /\ \A t \in Token : Issued(t) =>
             denied'[t] = denied[t] \/ denied'[t] >= Exp(t) * K
<1>p. pair' = pair => Persist
  BY DEF Persist
<1>d. denied' = denied => \A t \in Token : denied'[t] = denied[t]
  OBVIOUS
<1>1. ASSUME NEW u \in User, SignIn(u) PROVE Facts
  <2>1. IssuePair(u, None) /\ now' = now /\ denied' = denied
    BY <1>1 DEF SignIn, clock
  <2>2. Persist
    BY <1>t, <2>1, IssueSteps
  <2> QED
    BY <1>t, <1>d, <2>1, <2>2
<1>2. ASSUME NEW w \in Server, NEW t \in Token, Refresh(w, t) PROVE Facts
  BY <1>t, <1>p, <1>d, <1>2 DEF Refresh, clock
<1>3. ASSUME NEW w \in Server, NEW p \in Pair, NEW bearer \in BOOLEAN, Logout(w, p, bearer)
      PROVE  Facts
  <2> DEFINE r == <<p, "refresh">>
  <2>1. r \in Token /\ Issued(r)
    BY <1>3 DEF Token, Issued, Logout
  <2>2. Revoke(r) \/ denied' = denied
    BY <1>3 DEF Logout
  <2> QED
    BY <1>t, <1>p, <1>d, <1>3, <2>1, <2>2, RevokeSteps DEF Logout, clock
<1>4. ASSUME NEW w \in Server, RefreshAnswer(w) PROVE Facts
  <2> DEFINE t == job[w].token
  <2>1. t \in Token /\ Issued(t) /\ pair[t[1]] \in Issue
    <3>1. job[w] \in Job /\ job[w].op = "refresh"
      BY <1>t, <1>4 DEF RefreshAnswer, SessionsTypeOK
    <3>2. t \in Token /\ Issued(t)
      BY <3>1 DEF IInv, JobsAreSound, Job
    <3> QED
      BY <1>t, <3>2 DEF SessionsTypeOK, Issued
  <2>2. pair[t[1]].user \in User
    BY <2>1 DEF Issue
  <2>3. CASE Unused(t)
    <3>1. Revoke(t) /\ IssuePair(pair[t[1]].user, t) /\ now' = now
      BY <1>4, <2>3 DEF RefreshAnswer, clock
    <3>2. Persist
      BY <1>t, <2>1, <2>2, <3>1, IssueSteps
    <3>3. denied'[t] >= Exp(t) * K /\ \A x \in Token : x # t => denied'[x] = denied[x]
      BY <1>t, <2>1, <3>1, RevokeSteps
    <3>4. \A x \in Token : denied'[x] = denied[x] \/ denied'[x] >= Exp(x) * K
      BY <3>3
    <3>5. now <= now'
      BY <1>t, <3>1
    <3> HIDE DEF t
    <3> QED
      BY <3>2, <3>4, <3>5
  <2>4. CASE ~Unused(t)
    BY <1>t, <1>4, <1>p, <1>d, <2>4 DEF RefreshAnswer, clock
  <2> QED
    BY <2>3, <2>4
<1>5. ASSUME NEW w \in Server, LogoutAnswer(w) PROVE Facts
  <2> DEFINE a == <<job[w].pair, "access">>
  <2>1. a \in Token /\ Issued(a)
    BY <1>t, <1>5
    DEF LogoutAnswer, IInv, JobsAreSound, Job, SessionsTypeOK, Token, Issued
  <2>2. Revoke(a) \/ denied' = denied
    BY <1>5 DEF LogoutAnswer
  <2> QED
    BY <1>t, <1>p, <1>d, <1>5, <2>1, <2>2, RevokeSteps DEF LogoutAnswer, clock
<1>6. ASSUME NEW w \in Server, Fail(w) PROVE Facts
  BY <1>t, <1>p, <1>d, <1>6 DEF Fail, clock
<1>7. ASSUME Tick \/ Outage, UNCHANGED sessionVars PROVE Facts
  BY <1>t, <1>p, <1>d, <1>7 DEF Tick, Outage, sessionVars
<1>8. ASSUME UNCHANGED <<clock, sessionVars>> PROVE Facts
  BY <1>t, <1>p, <1>d, <1>8 DEF clock, sessionVars
<1> QED
  BY <1>1, <1>2, <1>3, <1>4, <1>5, <1>6, <1>7, <1>8 DEF SessionsNext, SessionsStep

LEMMA StepLength ==
    ASSUME IInv, [SessionsNext]_<<clock, sessionVars>>
    PROVE  Len(pair') <= Len(pair) + 1
<1>t. TypesOK /\ SessionsTypeOK /\ Len(pair) \in Nat
  BY DEF IInv, TypesOK, SessionsTypeOK
<1>1. pair' = pair \/ \E u, t : IssuePair(u, t)
  BY DEF SessionsNext, SessionsStep, SignIn, Refresh, RefreshAnswer, Logout,
         LogoutAnswer, Fail, sessionVars
<1>2. ASSUME NEW u, NEW t, IssuePair(u, t) PROVE Len(pair') = Len(pair) + 1
  BY <1>t, <1>2 DEF IssuePair, SessionsTypeOK
<1> QED
  BY <1>t, <1>1, <1>2

\* Only a sign-in and a rotation issue a pair; a rotation's token is gone
\* from then on, and if it was gone before its last second has come.
LEMMA NewPairs ==
    ASSUME IInv, [SessionsNext]_<<clock, sessionVars>>,
           NEW q \in DOMAIN pair', q \notin DOMAIN pair, pair'[q].from # None
    PROVE  \E t \in Token :
              /\ pair'[q] = [user |-> pair[t[1]].user, at |-> now, from |-> t]
              /\ t[2] = "refresh" /\ Issued(t)
              /\ denied[t] <= now /\ denied'[t] >= Exp(t) * K
<1>t. TypesOK /\ SessionsTypeOK
  BY DEF IInv, TypesOK
<1>p. pair' # pair
  OBVIOUS
<1>l. Len(pair) \in Nat /\ DOMAIN pair = 1 .. Len(pair)
  BY <1>t DEF SessionsTypeOK
<1>n. ASSUME Len(pair') = Len(pair) + 1, pair' \in Seq(Issue) PROVE q = Len(pair')
  BY <1>l, <1>n
<1>1. ASSUME NEW u \in User, SignIn(u) PROVE FALSE
  <2>1. IssuePair(u, None)
    BY <1>1 DEF SignIn
  <2>2. pair'[q] = [user |-> u, at |-> now, from |-> None]
    BY <1>t, <1>n, <2>1, IssueSteps
  <2> QED
    BY <2>2
<1>2. ASSUME NEW w \in Server, RefreshAnswer(w)
      PROVE  \E t \in Token :
              /\ pair'[q] = [user |-> pair[t[1]].user, at |-> now, from |-> t]
              /\ t[2] = "refresh" /\ Issued(t)
              /\ denied[t] <= now /\ denied'[t] >= Exp(t) * K
  <2> DEFINE t == job[w].token
  <2>1. t \in Token /\ Issued(t) /\ t[2] = "refresh" /\ pair[t[1]] \in Issue
    <3>1. job[w] \in Job /\ job[w].op = "refresh"
      BY <1>t, <1>2 DEF RefreshAnswer, SessionsTypeOK
    <3>2. t \in Token /\ Issued(t) /\ t[2] = "refresh"
      BY <3>1 DEF IInv, JobsAreSound, Job
    <3> QED
      BY <1>t, <3>2 DEF SessionsTypeOK, Issued
  <2>2. pair[t[1]].user \in User
    BY <2>1 DEF Issue
  <2>3. Unused(t) /\ Revoke(t) /\ IssuePair(pair[t[1]].user, t)
    BY <1>2, <1>p DEF RefreshAnswer
  <2>4. pair'[q] = [user |-> pair[t[1]].user, at |-> now, from |-> t]
    BY <1>t, <1>n, <2>1, <2>2, <2>3, IssueSteps
  <2>5. denied[t] <= now /\ denied'[t] >= Exp(t) * K
    BY <1>t, <2>1, <2>3, RevokeSteps DEF Unused
  <2> QED
    BY <2>1, <2>4, <2>5
<1> QED
  BY <1>p, <1>1, <1>2
  DEF SessionsNext, SessionsStep, Refresh, Logout, LogoutAnswer, Fail, sessionVars

----------------------------------------------------------------------------
(* The invariant is inductive.                                             *)

LEMMA UsedStep ==
    ASSUME IInv, [SessionsNext]_<<clock, sessionVars>>
    PROVE  UsedAreGone' /\ RefreshOnce'
<1>t. TypesOK /\ TypesOK' /\ Persist /\ now <= now'
  BY TypesStep, StepFacts DEF IInv
<1>k. ASSUME NEW t \in Token, Issued(t), Gone(t)
      PROVE  Issued(t)' /\ Exp(t)' = Exp(t) /\ Gone(t)'
  BY <1>t, <1>k, StepFacts, StaysGone
<1>d. /\ pair \in Seq(Issue) /\ pair' \in Seq(Issue)
      /\ DOMAIN pair = 1 .. Len(pair) /\ Len(pair) \in Nat
      /\ DOMAIN pair' = 1 .. Len(pair') /\ Len(pair') \in Nat
  BY <1>t DEF TypesOK, SessionsTypeOK
<1>o. ASSUME NEW p \in DOMAIN pair, pair[p].from # None
      PROVE  /\ pair'[p] = pair[p]
             /\ pair[p].from \in Token /\ pair[p].from[2] = "refresh"
             /\ Issued(pair[p].from) /\ Gone(pair[p].from)
  <2>1. pair[p] \in Issue
    BY <1>d
  <2> QED
    BY <1>t, <1>o, <2>1 DEF Issue, Persist, IInv, UsedAreGone
<1>1. ASSUME NEW q \in DOMAIN pair', pair'[q].from # None
      PROVE  (/\ Issued(pair[q].from) /\ pair[q].from[2] = "refresh"
              /\ Gone(pair[q].from))'
  <2>1. CASE q \in DOMAIN pair
    <3> DEFINE t == pair[q].from
    <3>1. pair'[q] = pair[q]
      BY <1>t, <2>1 DEF Persist
    <3>2. t \in Token /\ t[2] = "refresh" /\ Issued(t) /\ Gone(t)
      BY <1>1, <1>o, <2>1, <3>1
    <3>3. PICK x \in Token : x = t
      BY <3>2
    <3>4. Issued(x)' /\ Gone(x)'
      BY <1>k, <3>2, <3>3
    <3> QED
      BY <3>1, <3>2, <3>3, <3>4 DEF Issued, Gone, Exp, K
  <2>2. CASE q \notin DOMAIN pair
    <3>1. PICK t \in Token :
             /\ pair'[q] = [user |-> pair[t[1]].user, at |-> now, from |-> t]
             /\ t[2] = "refresh" /\ Issued(t)
             /\ denied[t] <= now /\ denied'[t] >= Exp(t) * K
      BY <1>1, <2>2, NewPairs
    <3>2. Issued(t)' /\ Exp(t)' = Exp(t)
      BY <1>t, <3>1 DEF Persist, Issued, Exp, Second
    <3>3. Gone(t)'
      BY <3>1, <3>2 DEF Gone, K
    <3> QED
      BY <3>1, <3>2, <3>3 DEF Issued, Gone, Exp, K
  <2> QED
    BY <2>1, <2>2
<1>2. ASSUME NEW p \in DOMAIN pair', NEW q \in DOMAIN pair', p < q,
             pair'[p].from = pair'[q].from, pair'[q].from # None
      PROVE  (Second(pair[q].at) >= Exp(pair[q].from))'
  <2>1. CASE q \in DOMAIN pair
    <3>1. p \in DOMAIN pair
      BY <1>d, <1>2, <2>1
    <3>2. pair'[p] = pair[p] /\ pair'[q] = pair[q]
      BY <1>t, <2>1, <3>1 DEF Persist
    <3>3. Second(pair[q].at) >= Exp(pair[q].from)
      BY <1>2, <2>1, <3>1, <3>2 DEF IInv, RefreshOnce
    <3>4. PICK x \in Token : x = pair[q].from
      BY <1>o, <1>2, <2>1, <3>2
    <3>5. Exp(x)' = Exp(x)
      BY <1>k, <1>o, <1>2, <2>1, <3>2, <3>4
    <3> QED
      BY <3>2, <3>3, <3>4, <3>5 DEF Exp, Second
  <2>2. CASE q \notin DOMAIN pair
    <3>1. PICK t \in Token :
             /\ pair'[q] = [user |-> pair[t[1]].user, at |-> now, from |-> t]
             /\ t[2] = "refresh" /\ Issued(t)
             /\ denied[t] <= now /\ denied'[t] >= Exp(t) * K
      BY <1>2, <2>2, NewPairs
    <3>2. p \in DOMAIN pair
      <4>1. CASE p \notin DOMAIN pair
        <5>1. Len(pair') <= Len(pair) + 1
          BY StepLength
        <5> QED
          BY <1>d, <1>2, <2>2, <4>1, <5>1
      <4> QED
        BY <4>1
    <3>3. pair[p].from = t
      BY <1>t, <1>2, <3>1, <3>2 DEF Persist
    <3>4. Gone(t)
      BY <1>o, <3>2, <3>3, <3>1, <1>2
    <3>5. Second(now) >= Exp(t)
      BY <1>t, <3>1, <3>4, GoneStaysOut
    <3>6. Exp(t)' = Exp(t)
      BY <1>k, <3>1, <3>4
    <3> QED
      BY <3>1, <3>5, <3>6 DEF Exp, Second
  <2> QED
    BY <2>1, <2>2
<1>3. UsedAreGone'
  BY <1>1 DEF UsedAreGone
<1>4. RefreshOnce'
  BY <1>2 DEF RefreshOnce, Second
<1> QED
  BY <1>3, <1>4

LEMMA JobsStep ==
    ASSUME IInv, [SessionsNext]_<<clock, sessionVars>>
    PROVE  JobsAreSound' /\ LoggedOutAreGone'
<1>t. TypesOK /\ TypesOK' /\ Persist /\ now <= now'
  BY TypesStep, StepFacts DEF IInv
<1>s. job \in [Server -> Job] /\ loggedOut \subseteq Token /\ DOMAIN pair \subseteq Pair
  BY <1>t, BoundAssumption DEF TypesOK, SessionsTypeOK, Pair
<1>k. ASSUME NEW t \in Token, Issued(t), Gone(t) PROVE Issued(t)' /\ Gone(t)'
  BY <1>t, <1>k, StepFacts, StaysGone
<1>i. ASSUME NEW t \in Token, Issued(t) PROVE Issued(t)'
  BY <1>t, <1>i DEF Persist, Issued
<1> DEFINE R(p) == <<p, "refresh">>
           A(p) == <<p, "access">>
           Sound(w) == /\ job[w].op = "refresh" =>
                              Issued(job[w].token) /\ job[w].token[2] = "refresh"
                       /\ job[w].op = "logout" =>
                              job[w].pair \in DOMAIN pair /\ Gone(R(job[w].pair))
\* A job that stays is as sound as it was.
<1>a. ASSUME NEW w \in Server, job'[w] = job[w] PROVE Sound(w)'
  <2>1. Sound(w) /\ job[w] \in Job
    BY <1>s DEF IInv, JobsAreSound
  <2>2. ASSUME job[w].op = "refresh"
        PROVE  (Issued(job[w].token) /\ job[w].token[2] = "refresh")'
    <3>1. PICK t \in Token : t = job[w].token
      BY <2>1, <2>2 DEF Job
    <3>2. Issued(t)' /\ t[2] = "refresh"
      BY <1>i, <2>1, <2>2, <3>1
    <3> QED
      BY <1>a, <3>1, <3>2 DEF Issued
  <2>3. ASSUME job[w].op = "logout"
        PROVE  (job[w].pair \in DOMAIN pair /\ Gone(R(job[w].pair)))'
    <3>1. PICK p \in DOMAIN pair : p = job[w].pair
      BY <2>1, <2>3
    <3>2. R(p) \in Token /\ Issued(R(p)) /\ Gone(R(p))
      BY <1>s, <2>1, <2>3, <3>1 DEF Token, Issued
    <3>3. p \in DOMAIN pair' /\ Gone(R(p))'
      BY <1>k, <1>t, <3>2 DEF Persist
    <3> QED
      BY <1>a, <3>1, <3>3 DEF Gone, Exp, K
  <2> QED
    BY <1>a, <2>2, <2>3
<1>n. ASSUME NEW w \in Server, job'[w] = Idle PROVE Sound(w)'
  BY <1>n DEF Idle
<1>b. ASSUME NEW w \in Server, NEW j, Begin(w, j), NEW v \in Server
      PROVE  job'[v] = IF v = w THEN j ELSE job[v]
  BY <1>s, <1>b DEF Begin
<1>e. ASSUME NEW w \in Server, End(w), NEW v \in Server
      PROVE  job'[v] = IF v = w THEN Idle ELSE job[v]
  BY <1>s, <1>e DEF End
<1>l. ASSUME NEW t \in loggedOut PROVE Issued(t)' /\ Gone(t)'
  BY <1>k, <1>s DEF IInv, LoggedOutAreGone
<1>m. loggedOut' = loggedOut => LoggedOutAreGone'
  BY <1>l DEF LoggedOutAreGone
<1> DEFINE Goal == (\A w \in Server : Sound(w)') /\ LoggedOutAreGone'
\* Every action but a request's first step leaves jobs as they are or idle.
<1>f. (\A v \in Server : job'[v] = job[v] \/ job'[v] = Idle)
          => \A v \in Server : Sound(v)'
  BY <1>a, <1>n
<1>g. \A w \in Server : End(w) => \A v \in Server : job'[v] = job[v] \/ job'[v] = Idle
  BY <1>e
<1>1. ASSUME NEW w \in Server, NEW t \in Token, Refresh(w, t) PROVE Goal
  <2> DEFINE j == [op |-> "refresh", token |-> t]
  <2>1. Begin(w, j) /\ Issued(t) /\ t[2] = "refresh" /\ loggedOut' = loggedOut
    BY <1>1 DEF Refresh, Decodes
  <2>2. job'[w] = j /\ \A v \in Server \ {w} : job'[v] = job[v]
    BY <1>b, <2>1
  <2>3. Sound(w)'
    <3>1. Issued(t)'
      BY <1>i, <2>1
    <3> QED
      BY <2>1, <2>2, <3>1 DEF Issued
  <2> QED
    BY <1>a, <1>m, <2>1, <2>2, <2>3
<1>2. ASSUME NEW w \in Server, NEW p \in Pair, NEW bearer \in BOOLEAN, Logout(w, p, bearer)
      PROVE  Goal
  <2> DEFINE j == [op |-> "logout", pair |-> p, bearer |-> bearer]
  <2>1. Begin(w, j) /\ p \in DOMAIN pair /\ loggedOut' = loggedOut /\ pair' = pair
        /\ now' = now
    BY <1>2 DEF Logout, clock
  <2>2. job'[w] = j /\ \A v \in Server \ {w} : job'[v] = job[v]
    BY <1>b, <2>1
  <2>3. R(p) \in Token /\ Issued(R(p))
    BY <2>1 DEF Token, Issued
  <2>4. Gone(R(p))'
    <3>1. CASE Decodes(R(p))
      <4>1. denied'[R(p)] >= Exp(R(p)) * K
        BY <1>2, <1>t, <2>3, <3>1, RevokeSteps DEF Logout
      <4> QED
        BY <2>1, <4>1 DEF Gone, Exp, Second, K
    <3>2. CASE ~Decodes(R(p))
      <4>1. Exp(R(p)) \in Nat /\ now \in Nat /\ Second(now) \in Nat
        BY <1>t, <2>3, ExpType, SecondFloor, ClockAssumption
        DEF TypesOK, ClockTypeOK, Time
      <4>2. Second(now) > Exp(R(p))
        BY <2>3, <3>2, <4>1 DEF Decodes
      <4> QED
        BY <2>1, <4>2 DEF Gone, Exp, Second
    <3> QED
      BY <3>1, <3>2
  <2>5. Sound(w)'
    BY <2>1, <2>2, <2>4 DEF Gone, Exp, K
  <2> QED
    BY <1>a, <1>m, <2>1, <2>2, <2>5
<1>3. ASSUME NEW w \in Server, LogoutAnswer(w) PROVE Goal
  <2>1. PICK p \in DOMAIN pair : p = job[w].pair /\ Gone(R(p)) /\ p \in Pair
    BY <1>3, <1>s DEF LogoutAnswer, IInv, JobsAreSound
  <2>2. R(p) \in Token /\ A(p) \in Token /\ Issued(R(p)) /\ Issued(A(p))
    BY <2>1 DEF Token, Issued
  <2>3. End(w) /\ now' = now /\ pair' = pair
    BY <1>3 DEF LogoutAnswer, clock
  <2>4. loggedOut' \subseteq loggedOut \cup {R(p)}
                  \cup (IF job[w].bearer THEN {A(p)} ELSE {})
    BY <1>3, <2>1 DEF LogoutAnswer
  <2>5. ASSUME job[w].bearer PROVE Gone(A(p))'
    <3>1. CASE Decodes(A(p))
      <4>1. denied'[A(p)] >= Exp(A(p)) * K
        BY <1>3, <1>t, <2>1, <2>2, <2>5, <3>1, RevokeSteps DEF LogoutAnswer
      <4> QED
        BY <2>3, <4>1 DEF Gone, Exp, Second, K
    <3>2. CASE ~Decodes(A(p))
      <4>1. Exp(A(p)) \in Nat /\ now \in Nat /\ Second(now) \in Nat
        BY <1>t, <2>2, ExpType, SecondFloor, ClockAssumption
        DEF TypesOK, ClockTypeOK, Time
      <4>2. Second(now) > Exp(A(p))
        BY <2>2, <3>2, <4>1 DEF Decodes
      <4> QED
        BY <2>3, <4>2 DEF Gone, Exp, Second
    <3> QED
      BY <3>1, <3>2
  <2>6. ASSUME NEW t \in loggedOut' PROVE Issued(t)' /\ Gone(t)'
    <3>1. CASE t \in loggedOut
      BY <1>l, <3>1
    <3>2. CASE t = R(p)
      BY <1>k, <2>1, <2>2, <3>2
    <3>3. CASE job[w].bearer /\ t = A(p)
      BY <1>i, <2>2, <2>5, <3>3
    <3> QED
      BY <2>4, <2>6, <3>1, <3>2, <3>3
  <2>7. LoggedOutAreGone'
    BY <2>6 DEF LoggedOutAreGone
  <2> QED
    BY <1>f, <1>g, <2>3, <2>7
<1>4. ASSUME NEW w \in Server, RefreshAnswer(w) \/ Fail(w) PROVE Goal
  BY <1>4, <1>f, <1>g, <1>m DEF RefreshAnswer, Fail
<1>5. ASSUME NEW u \in User, SignIn(u) PROVE Goal
  BY <1>5, <1>f, <1>m DEF SignIn
<1>6. ASSUME UNCHANGED sessionVars PROVE Goal
  BY <1>6, <1>f, <1>m DEF sessionVars
<1>7. Goal
  BY <1>1, <1>2, <1>3, <1>4, <1>5, <1>6 DEF SessionsNext, SessionsStep
<1> QED
  BY <1>7 DEF JobsAreSound

LEMMA Initial == ClockInit /\ SessionsInit => IInv
<1> SUFFICES ASSUME ClockInit, SessionsInit PROVE IInv
  OBVIOUS
<1>1. TypesOK
  BY ClockAssumption, BoundAssumption
  DEF ClockInit, SessionsInit, TypesOK, ClockTypeOK, SessionsTypeOK, Time, Idle, Job
<1>2. DOMAIN pair = {} /\ loggedOut = {} /\ \A w \in Server : job[w].op = "idle"
  BY DEF SessionsInit, Idle
<1> QED
  BY <1>1, <1>2 DEF IInv, UsedAreGone, JobsAreSound, LoggedOutAreGone, RefreshOnce

LEMMA Invariance == SessionsSpec => []IInv
<1>1. IInv /\ [SessionsNext]_<<clock, sessionVars>> => IInv'
  BY TypesStep, UsedStep, JobsStep DEF IInv
<1> QED
  BY <1>1, Initial, PTL DEF SessionsSpec

----------------------------------------------------------------------------
(* The theorems.                                                           *)

\* Tokens, keys and requests keep their types.
THEOREM SessionTypes == SessionsSpec => [](ClockTypeOK /\ SessionsTypeOK)
<1>1. IInv => ClockTypeOK /\ SessionsTypeOK
  BY DEF IInv, TypesOK
<1> QED
  BY <1>1, Invariance, PTL

\* POST /auth/refresh: a refresh token is worth one pair until the second its
\* exp names, for any number of concurrent requests.
THEOREM RotatedOnce == SessionsSpec => []RefreshOnce
<1>1. IInv => RefreshOnce
  BY DEF IInv
<1> QED
  BY <1>1, Invariance, PTL

\* POST /auth/logout: a token it named is of no use until the second its exp
\* names while the denylist can be read.
THEOREM LogoutStands == SessionsSpec => []LoggedOutStaysOut
<1>1. ASSUME IInv, NEW t \in loggedOut, up, Authenticates(t) \/ Rotates(t)
      PROVE  Second(now) >= Exp(t)
  <2>1. TypesOK /\ t \in Token /\ Issued(t) /\ Gone(t)
    BY <1>1 DEF IInv, TypesOK, SessionsTypeOK, LoggedOutAreGone
  <2>2. denied[t] <= now
    BY <1>1 DEF Authenticates, Rotates, Unused
  <2> QED
    BY <2>1, <2>2, GoneStaysOut
<1>2. IInv => LoggedOutStaysOut
  BY <1>1 DEF LoggedOutStaysOut
<1> QED
  BY <1>2, Invariance, PTL

----------------------------------------------------------------------------
(* Accounts: types and invariants.                                         *)

Profile == [name : Name, password : Password]
ResetCode == [email : Email, at : Time]

\* Who has a code, or is changing a password, has an account.
CodesOK == \A k \in Code : code[k] # Nothing => account[code[k].email] \in Profile
FormsOK ==
    \A w \in Handler : form[w].op \in {"reset", "change"} =>
        account[form[w].email] \in Profile

AccountTypes == ClockTypeOK /\ AccountsTypeOK /\ CodesOK /\ FormsOK

\* An accepted proof's claim outlives its challenge.
ClaimInv ==
    \A c \in Challenge :
        /\ challenge[c] # Nothing => challenge[c] \in Time /\ challenge[c] <= now
        /\ Len(accepted[c]) > 0 =>
              /\ challenge[c] # Nothing
              /\ challenge[c] + PowLife * K <= claimed[c]

\* A counter that counted outlives its window, and counts what it let by.
CountInv ==
    \A b \in Bucket :
        /\ admitted[b] <= bucket[b].count
        /\ admitted[b] <= Budget[b[1]]
        /\ bucket[b].count > 0 => (b[2] + 1) * Span[b[1]] * K <= bucket[b].until

AccountsInv == AccountTypes /\ ClaimInv /\ ProofOnce /\ CountInv

----------------------------------------------------------------------------
(* Instants, windows and keys.                                             *)

\* A key set now for so many seconds is there for that many ticks.
LEMMA UntilIs ==
    ASSUME ClockTypeOK, NEW n \in Nat
    PROVE  Until(n) \in Nat /\ n * K \in Nat /\ Until(n) = now + n * K
<1>1. now \in Nat
  BY ClockAssumption DEF ClockTypeOK, Time
<1>2. n * K \in Nat
  BY ClockAssumption, Z3 DEF K
<1> QED
  BY <1>1, <1>2 DEF Until, K

\* The window that is open now is one of the log's, it began and is not over.
LEMMA WindowIsOpen ==
    ASSUME ClockTypeOK, NEW s \in Scope
    PROVE  /\ Current(s) \in Bucket /\ Current(s)[1] = s
           /\ Current(s)[2] * Span[s] * K <= now
           /\ now < (Current(s)[2] + 1) * Span[s] * K
<1> DEFINE t == Second(now)
<1> DEFINE k == t \div Span[s]
<1>1. now \in Nat /\ Horizon \in Nat /\ now <= Horizon
  BY ClockAssumption DEF ClockTypeOK, Time
<1>2. Span[s] \in Nat \ {0} /\ K \in Nat \ {0}
  BY BudgetAssumption, ClockAssumption DEF K
<1>3. /\ t \in Nat /\ t <= Second(Horizon) /\ Second(Horizon) \in Nat
      /\ t * K <= now /\ now < (t + 1) * K
  BY <1>1, SecondFloor, SecondMono
<1> HIDE DEF t
<1>4. k \in Nat /\ k * Span[s] <= t /\ t < (k + 1) * Span[s] /\ k <= t
  BY <1>2, <1>3, Z3
<1> HIDE DEF k
<1>5. k * Span[s] \in Nat /\ (k + 1) * Span[s] \in Nat
  BY <1>2, <1>4, Z3
<1>6. (k * Span[s]) * K <= t * K /\ (t + 1) * K <= ((k + 1) * Span[s]) * K
  BY <1>2, <1>3, <1>4, <1>5, Z3
<1>7. /\ (k * Span[s]) * K \in Nat /\ t * K \in Nat /\ (t + 1) * K \in Nat
      /\ ((k + 1) * Span[s]) * K \in Nat
  BY <1>2, <1>3, <1>4, <1>5, Z3
<1>8. Current(s) = <<s, k>>
  BY DEF Current, Window, k, t
<1>9. k \in 0 .. Second(Horizon)
  BY <1>3, <1>4
<1> QED
  BY <1>1, <1>3, <1>6, <1>7, <1>8, <1>9 DEF Bucket

\* A number of the first email's, if there is an email at all.
LEMMA OneIsAName ==
    ASSUME NEW e \in Email
    PROVE  1 \in Name
<1>1. Cardinality(Email) \in Nat /\ Cardinality(Email) # 0
  BY SeededAssumption, FS_CardinalityType, FS_EmptySet
<1> QED
  BY <1>1 DEF Name

----------------------------------------------------------------------------
(* Types.                                                                  *)

\* What a handler's form is, by its kind.
LEMMA FormIs ==
    ASSUME AccountTypes, NEW w \in Handler
    PROVE  /\ form[w].op \in {"reset", "change", "register"} =>
                 form[w].email \in Email /\ form[w].password \in Password
           /\ form[w].op = "register" => form[w].name \in Name
<1>1. form[w] \in Form
  BY DEF AccountTypes, AccountsTypeOK
<1> QED
  BY <1>1 DEF Form

\* An account written leaves every other, and its own, an account.
LEMMA AccountWritten ==
    ASSUME AccountTypes, NEW e \in Email, NEW a \in Profile,
           account' = [account EXCEPT ![e] = a], code' = code,
           NEW w \in Handler, form' = [form EXCEPT ![w] = Blank],
           UNCHANGED <<clock, challenge, claims, counters>>
    PROVE  AccountTypes'
<1>1. account' \in [Email -> Profile \cup {Nothing}]
  BY DEF AccountTypes, AccountsTypeOK, Profile
<1>2. \A d \in Email : account[d] \in Profile => account'[d] \in Profile
  BY DEF AccountTypes, AccountsTypeOK
<1>3. \A v \in Handler : form'[v] = form[v] \/ form'[v].op = "idle"
  BY DEF AccountTypes, AccountsTypeOK, Blank
<1>4. form' \in [Handler -> Form]
  BY DEF AccountTypes, AccountsTypeOK, Form, Blank
<1>5. CodesOK'
  <2> SUFFICES ASSUME NEW k \in Code, code[k] # Nothing
               PROVE  account'[code[k].email] \in Profile
    BY DEF CodesOK
  <2>1. code[k].email \in Email
    BY DEF AccountTypes, AccountsTypeOK
  <2> QED
    BY <1>2, <2>1 DEF AccountTypes, CodesOK
<1>6. FormsOK'
  <2> SUFFICES ASSUME NEW v \in Handler, form'[v].op \in {"reset", "change"}
               PROVE  account'[form'[v].email] \in Profile
    BY DEF FormsOK
  <2>1. form'[v] = form[v]
    BY <1>3
  <2>2. form[v].email \in Email
    BY <2>1, FormIs
  <2> QED
    BY <1>2, <2>1, <2>2 DEF AccountTypes, FormsOK
<1> QED
  BY <1>1, <1>4, <1>5, <1>6
  DEF AccountTypes, AccountsTypeOK, ClockTypeOK, clock, claims, counters, Profile

\* A form opened for an account leaves everything well typed.
LEMMA FormOpened ==
    ASSUME AccountTypes, NEW w \in Handler, NEW f \in Form, Open(w, f),
           f.op \in {"reset", "change"} => account[f.email] \in Profile,
           ClockTypeOK', account' = account, code' = code, challenge' = challenge,
           claimed' \in [Challenge -> Nat], accepted' \in [Challenge -> Seq(Time)],
           UNCHANGED counters
    PROVE  AccountTypes'
<1>1. form' = [form EXCEPT ![w] = f]
  BY DEF Open
<1>2. form' \in [Handler -> Form]
  BY <1>1 DEF AccountTypes, AccountsTypeOK
<1>3. FormsOK'
  BY <1>1 DEF AccountTypes, AccountsTypeOK, FormsOK
<1> QED
  BY <1>2, <1>3 DEF AccountTypes, AccountsTypeOK, CodesOK, counters

\* Claiming a proof keeps the types of both logs.
LEMMA ClaimTypes ==
    ASSUME AccountTypes, NEW c \in Challenge, Claim(c)
    PROVE  claimed' \in [Challenge -> Nat] /\ accepted' \in [Challenge -> Seq(Time)]
<1>1. CASE up
  <2>1. Until(PowLife) \in Nat /\ now \in Time
    BY UntilIs, GuardAssumption DEF AccountTypes, ClockTypeOK
  <2>2. accepted[c] \in Seq(Time)
    BY DEF AccountTypes, AccountsTypeOK
  <2>3. Append(accepted[c], now) \in Seq(Time)
    BY <2>1, <2>2
  <2> QED
    BY <1>1, <2>1, <2>3 DEF Claim, AccountTypes, AccountsTypeOK
<1>2. CASE ~up
  BY <1>2 DEF Claim, claims, AccountTypes, AccountsTypeOK
<1> QED
  BY <1>1, <1>2

\* Asking budgets keeps the types of the counters.
LEMMA HitTypes ==
    ASSUME AccountTypes, NEW S \in SUBSET Scope, HitAll(S)
    PROVE  bucket' \in [Bucket -> [count : Nat, until : Nat]] /\ admitted' \in [Bucket -> Nat]
<1>1. CASE up
  <2>1. ASSUME NEW b \in Bucket
        PROVE  Hit(b) \in [count : Nat, until : Nat]
    <3>1. bucket[b] \in [count : Nat, until : Nat] /\ b[1] \in Scope
      BY DEF AccountTypes, AccountsTypeOK, Bucket
    <3>2. Until(Span[b[1]]) \in Nat
      BY <3>1, UntilIs, BudgetAssumption DEF AccountTypes
    <3>3. Counted(b) \in Nat
      BY <3>1 DEF Counted
    <3> QED
      BY <3>1, <3>2, <3>3 DEF Hit
  <2>2. bucket' \in [Bucket -> [count : Nat, until : Nat]]
    BY <1>1, <2>1 DEF HitAll, AccountTypes, AccountsTypeOK
  <2>3. admitted' \in [Bucket -> Nat]
    <3>1. admitted' = [b \in Bucket |->
              IF \E s \in S : b = Current(s) /\ Admits(s)
              THEN admitted[b] + 1 ELSE admitted[b]]
      BY <1>1 DEF HitAll
    <3>2. \A b \in Bucket : admitted[b] \in Nat /\ admitted[b] + 1 \in Nat
      BY DEF AccountTypes, AccountsTypeOK
    <3> QED
      BY <3>1, <3>2
  <2> QED
    BY <2>2, <2>3
<1>2. CASE ~up
  BY <1>2 DEF HitAll, counters, AccountTypes, AccountsTypeOK
<1> QED
  BY <1>1, <1>2

LEMMA AccountTypesInit == ClockInit /\ AccountsInit => AccountTypes
<1> SUFFICES ASSUME ClockInit, AccountsInit PROVE AccountTypes
  OBVIOUS
<1>1. ClockTypeOK
  BY ClockAssumption DEF ClockInit, ClockTypeOK, Time
<1>2. account \in [Email -> Profile \cup {Nothing}]
  BY OneIsAName DEF AccountsInit, Profile
<1>3. form \in [Handler -> Form] /\ FormsOK
  BY DEF AccountsInit, Form, Blank, FormsOK
<1>4. CodesOK
  BY DEF AccountsInit, CodesOK
<1> QED
  BY <1>1, <1>2, <1>3, <1>4 DEF AccountsInit, AccountTypes, AccountsTypeOK, Profile

LEMMA AccountTypesStep == AccountTypes /\ [AccountsNext]_<<clock, accountVars>> => AccountTypes'
<1> SUFFICES ASSUME AccountTypes, [AccountsNext]_<<clock, accountVars>>
             PROVE  AccountTypes'
  OBVIOUS
<1> USE DEF claims, counters, clock
<1>1. ASSUME NEW c \in Challenge, IssueChallenge(c)
      PROVE  AccountTypes'
  BY <1>1 DEF IssueChallenge, AccountTypes, AccountsTypeOK, ClockTypeOK, CodesOK, FormsOK
<1>2. ASSUME NEW c \in Challenge, Login(c)
      PROVE  AccountTypes'
  <2>1. claimed' \in [Challenge -> Nat] /\ accepted' \in [Challenge -> Seq(Time)]
    BY <1>2, ClaimTypes DEF Login, AccountTypes, AccountsTypeOK
  <2>2. bucket' \in [Bucket -> [count : Nat, until : Nat]] /\ admitted' \in [Bucket -> Nat]
    <3>1. {"login"} \in SUBSET Scope
      BY DEF Scope
    <3> QED
      BY <1>2, <3>1, HitTypes DEF Login
  <2> QED
    BY <1>2, <2>1, <2>2
    DEF Login, AccountTypes, AccountsTypeOK, ClockTypeOK, CodesOK, FormsOK
<1>3. ASSUME NEW e \in Email, NEW c \in Challenge, Forgot(e, c)
      PROVE  AccountTypes'
  <2>1. claimed' \in [Challenge -> Nat] /\ accepted' \in [Challenge -> Seq(Time)]
    BY <1>3, ClaimTypes DEF Forgot
  <2>2. code' \in [Code -> ResetCode \cup {Nothing}] /\ CodesOK'
    <3>1. CASE Registered(e)
      <4>1. PICK k \in Code : code' = [code EXCEPT ![k] = [email |-> e, at |-> now]]
        BY <1>3, <3>1 DEF Forgot
      <4>2. [email |-> e, at |-> now] \in ResetCode
        BY DEF ResetCode, AccountTypes, ClockTypeOK
      <4>3. account[e] \in Profile /\ account' = account
        BY <1>3, <3>1 DEF Registered, Forgot, AccountTypes, AccountsTypeOK, Profile
      <4>4. code' \in [Code -> ResetCode \cup {Nothing}]
        BY <4>1, <4>2 DEF AccountTypes, AccountsTypeOK, ResetCode
      <4>5. \A l \in Code : code'[l] = code[l] \/ code'[l].email = e
        BY <4>1 DEF AccountTypes, AccountsTypeOK
      <4> QED
        BY <4>3, <4>4, <4>5 DEF AccountTypes, CodesOK
    <3>2. CASE ~Registered(e)
      BY <1>3, <3>2 DEF Forgot, AccountTypes, AccountsTypeOK, CodesOK, ResetCode
    <3> QED
      BY <3>1, <3>2
  <2> QED
    BY <1>3, <2>1, <2>2
    DEF Forgot, AccountTypes, AccountsTypeOK, ClockTypeOK, FormsOK, ResetCode
<1>4. ASSUME NEW w \in Handler, NEW e \in Email, NEW x \in Password, NEW c \in Challenge,
             Register(w, e, x, c)
      PROVE  AccountTypes'
  <2>1. /\ claimed' \in [Challenge -> Nat] /\ accepted' \in [Challenge -> Seq(Time)]
        /\ ClockTypeOK' /\ account' = account /\ code' = code /\ challenge' = challenge
        /\ UNCHANGED counters
    BY <1>4, ClaimTypes DEF Register, AccountTypes, ClockTypeOK
  <2>2. CASE Registered(e)
    BY <1>4, <2>1, <2>2
    DEF Register, AccountTypes, AccountsTypeOK, CodesOK, FormsOK
  <2>3. CASE ~Registered(e)
    <3>1. PICK n \in Name : Open(w, [op |-> "register", email |-> e, name |-> n,
                                    password |-> x])
      BY <1>4, <2>3 DEF Register
    <3>2. PICK f : f = [op |-> "register", email |-> e, name |-> n, password |-> x]
      OBVIOUS
    <3>3. f \in Form /\ f.op = "register" /\ Open(w, f)
      BY <3>1, <3>2 DEF Form
    <3> QED
      BY <2>1, <3>3, FormOpened
  <2> QED
    BY <2>2, <2>3
<1>5. ASSUME NEW w \in Handler, NEW k \in Code, NEW x \in Password, Reset(w, k, x)
      PROVE  AccountTypes'
  <2>1. PICK f : f = [op |-> "reset", email |-> code[k].email, password |-> x]
    OBVIOUS
  <2>2. code[k] # Nothing /\ code[k].email \in Email
    BY <1>5 DEF Reset, Live, AccountTypes, AccountsTypeOK
  <2>3. f \in Form /\ Open(w, f) /\ account[f.email] \in Profile
    BY <1>5, <2>1, <2>2 DEF Reset, Form, AccountTypes, CodesOK
  <2> QED
    BY <1>5, <2>3, FormOpened DEF Reset, AccountTypes, AccountsTypeOK, ClockTypeOK
<1>6. ASSUME NEW w \in Handler, NEW e \in Email, NEW x \in Password, NEW y \in Password,
             Change(w, e, x, y)
      PROVE  AccountTypes'
  <2>1. PICK f : f = [op |-> "change", email |-> e, password |-> y]
    OBVIOUS
  <2>2. f \in Form /\ Open(w, f) /\ account[f.email] \in Profile
    BY <1>6, <2>1
    DEF Change, Registered, Form, AccountTypes, AccountsTypeOK, Profile
  <2> QED
    BY <1>6, <2>2, FormOpened DEF Change, AccountTypes, AccountsTypeOK, ClockTypeOK
<1>7. ASSUME NEW w \in Handler, RegisterCommit(w)
      PROVE  AccountTypes'
  <2>1. /\ form[w].email \in Email /\ form[w].password \in Password
        /\ form[w].name \in Name
    BY <1>7, FormIs DEF RegisterCommit
  <2>2. CASE Registered(form[w].email) \/ Taken(form[w].name)
    <3>1. account' = account
      BY <1>7, <2>2 DEF RegisterCommit
    <3>2. form' \in [Handler -> Form] /\ FormsOK'
      BY <1>7, <3>1
      DEF RegisterCommit, Close, Blank, Form, AccountTypes, AccountsTypeOK, FormsOK
    <3> QED
      BY <1>7, <3>1, <3>2
      DEF RegisterCommit, AccountTypes, AccountsTypeOK, ClockTypeOK, CodesOK
  <2>3. CASE ~(Registered(form[w].email) \/ Taken(form[w].name))
    <3>1. PICK a : a = [name |-> form[w].name, password |-> form[w].password]
      OBVIOUS
    <3>2. a \in Profile /\ account' = [account EXCEPT ![form[w].email] = a]
      BY <1>7, <2>1, <2>3, <3>1 DEF RegisterCommit, Profile
    <3> QED
      BY <1>7, <2>1, <3>2, AccountWritten DEF RegisterCommit, Close
  <2> QED
    BY <2>2, <2>3
<1>8. ASSUME NEW w \in Handler, PasswordCommit(w)
      PROVE  AccountTypes'
  <2>1. form[w].email \in Email /\ form[w].password \in Password
    BY <1>8, FormIs DEF PasswordCommit
  <2>2. account[form[w].email] \in Profile
    BY <1>8 DEF PasswordCommit, AccountTypes, FormsOK
  <2>3. PICK a : a = [account[form[w].email] EXCEPT !.password = form[w].password]
    OBVIOUS
  <2>4. a \in Profile /\ account' = [account EXCEPT ![form[w].email] = a]
    BY <1>8, <2>1, <2>2, <2>3 DEF PasswordCommit, Profile
  <2>5. /\ form' = [form EXCEPT ![w] = Blank] /\ code' = code
        /\ UNCHANGED <<clock, challenge, claims, counters>>
    BY <1>8 DEF PasswordCommit, Close
  <2>6. PICK e \in Email : e = form[w].email
    BY <2>1
  <2>7. account' = [account EXCEPT ![e] = a]
    BY <2>4, <2>6
  <2> QED
    BY <2>4, <2>5, <2>7, AccountWritten
<1>9. CASE (Tick \/ Outage) /\ UNCHANGED accountVars
  <2>1. ClockTypeOK'
    <3>1. now \in 0 .. Horizon /\ Horizon \in Nat
      BY ClockAssumption DEF AccountTypes, ClockTypeOK, Time
    <3>2. now' \in 0 .. Horizon
      BY <1>9, <3>1 DEF Tick, Outage
    <3>3. up \in BOOLEAN
      BY DEF AccountTypes, ClockTypeOK
    <3>4. up' \in BOOLEAN
      <4>1. up' = up \/ up' = ~up
        BY <1>9 DEF Tick, Outage
      <4> QED
        BY <3>3, <4>1, Zenon
    <3> QED
      BY <3>2, <3>4 DEF ClockTypeOK, Time
  <2> QED
    BY <1>9, <2>1 DEF accountVars, AccountTypes, AccountsTypeOK, CodesOK, FormsOK
<1>10. CASE UNCHANGED <<clock, accountVars>>
  BY <1>10 DEF accountVars, AccountTypes, AccountsTypeOK, ClockTypeOK, CodesOK, FormsOK
<1>11. CASE AccountsStep
  BY <1>1, <1>2, <1>3, <1>4, <1>5, <1>6, <1>7, <1>8, <1>11 DEF AccountsStep
<1> QED
  BY <1>9, <1>10, <1>11 DEF AccountsNext

\* Every account, code, form and key is what its table or Redis can hold.
THEOREM AccountsTypes == AccountsSpec => [](ClockTypeOK /\ AccountsTypeOK)
<1>1. AccountTypes => ClockTypeOK /\ AccountsTypeOK
  BY DEF AccountTypes
<1> QED
  BY <1>1, AccountTypesInit, AccountTypesStep, PTL DEF AccountsSpec
----------------------------------------------------------------------------
(* Proofs of work.                                                         *)

\* What Fresh says, in numbers.
LEMMA FreshIs ==
    ASSUME AccountTypes, ClaimInv, NEW c \in Challenge, Fresh(c)
    PROVE  /\ challenge[c] # Nothing /\ challenge[c] \in Nat /\ challenge[c] <= now
           /\ now \in Nat /\ Second(now) \in Nat /\ Second(challenge[c]) \in Nat
           /\ Second(now) <= Second(challenge[c]) + PowLife
<1>1. now \in Nat
  BY ClockAssumption DEF AccountTypes, ClockTypeOK, Time
<1>2. challenge[c] # Nothing /\ challenge[c] \in Nat /\ challenge[c] <= now
  BY ClockAssumption DEF Fresh, ClaimInv, Time
<1>3. Second(now) \in Nat /\ Second(challenge[c]) \in Nat
  BY <1>1, <1>2, SecondFloor
<1> QED
  BY <1>1, <1>2, <1>3, GuardAssumption DEF Fresh

\* A proof taken again is in the last second of its challenge.
LEMMA TakenAgain ==
    ASSUME AccountTypes, ClaimInv, NEW c \in Challenge, Fresh(c), claimed[c] <= now,
           Len(accepted[c]) > 0
    PROVE  Second(now) = Second(challenge[c]) + PowLife
<1> DEFINE t == challenge[c]
<1>1. /\ t \in Nat /\ now \in Nat /\ Second(now) \in Nat /\ Second(t) \in Nat
      /\ Second(now) <= Second(t) + PowLife
  BY FreshIs
<1>2. t + PowLife * K <= claimed[c] /\ claimed[c] \in Nat
  BY DEF ClaimInv, AccountTypes, AccountsTypeOK
<1>3. Second(t) * K <= t
  BY <1>1, SecondFloor
<1> HIDE DEF t
<1>4. (Second(t) + PowLife) * K <= now
  BY <1>1, <1>2, <1>3, GuardAssumption, ClockAssumption, Z3 DEF K
<1>5. Second(t) + PowLife <= Second(now)
  BY <1>1, <1>4, SecondAtLeast, GuardAssumption
<1> QED
  BY <1>1, <1>5, GuardAssumption DEF t

\* Claiming a proof that proves keeps the claims ahead of the challenges.
LEMMA ClaimKeeps ==
    ASSUME AccountTypes, ClaimInv, ProofOnce, NEW c \in Challenge, Proves(c), Claim(c),
           challenge' = challenge, now' = now
    PROVE  ClaimInv' /\ ProofOnce'
<1>1. CASE ~up
  BY <1>1 DEF Claim, claims, ClaimInv, ProofOnce
<1>2. CASE up
  <2>1. Fresh(c) /\ claimed[c] <= now
    BY <1>2 DEF Proves
  <2>2. /\ claimed' = [claimed EXCEPT ![c] = Until(PowLife)]
        /\ accepted' = [accepted EXCEPT ![c] = Append(@, now)]
    BY <1>2 DEF Claim
  <2>3. /\ accepted[c] \in Seq(Time) /\ now \in Time
        /\ \A d \in Challenge : d # c => accepted'[d] = accepted[d] /\ claimed'[d] = claimed[d]
        /\ accepted'[c] = Append(accepted[c], now) /\ claimed'[c] = Until(PowLife)
    <3>1. accepted[c] \in Seq(Time) /\ now \in Time
      BY DEF AccountTypes, AccountsTypeOK, ClockTypeOK
    <3>2. /\ \A d \in Challenge : d # c => accepted'[d] = accepted[d]
          /\ accepted'[c] = Append(accepted[c], now)
      BY <2>2 DEF AccountTypes, AccountsTypeOK
    <3>3. /\ \A d \in Challenge : d # c => claimed'[d] = claimed[d]
          /\ claimed'[c] = Until(PowLife)
      BY <2>2 DEF AccountTypes, AccountsTypeOK
    <3> QED
      BY <3>1, <3>2, <3>3
  <2>4. challenge[c] + PowLife * K <= claimed'[c]
    <3>1. ClockTypeOK /\ PowLife \in Nat
      BY GuardAssumption DEF AccountTypes
    <3>2. PowLife * K \in Nat /\ Until(PowLife) = now + PowLife * K
      BY <3>1, UntilIs
    <3>3. challenge[c] \in Nat /\ now \in Nat /\ challenge[c] <= now
      BY <2>1, FreshIs
    <3> QED
      BY <2>3, <3>2, <3>3
  <2>5. ClaimInv'
    BY <2>1, <2>3, <2>4 DEF ClaimInv, Fresh
  <2>6. ASSUME NEW d \in Challenge, NEW i \in 2 .. Len(accepted'[d])
        PROVE  Second(accepted'[d][i]) = Second(challenge[d]) + PowLife
    <3>1. CASE d # c \/ i <= Len(accepted[c])
      BY <2>3, <2>6, <3>1 DEF ProofOnce
    <3>2. CASE d = c /\ i > Len(accepted[c])
      <4>1. accepted'[d][i] = now /\ Len(accepted[c]) > 0
        BY <2>3, <2>6, <3>2
      <4> QED
        BY <2>1, <3>2, <4>1, TakenAgain
    <3> QED
      BY <2>3, <2>6, <3>1, <3>2
  <2>7. ProofOnce'
    BY <2>6 DEF ProofOnce
  <2> QED
    BY <2>5, <2>7
<1> QED
  BY <1>1, <1>2

LEMMA ClaimStep ==
    AccountTypes /\ ClaimInv /\ ProofOnce /\ [AccountsNext]_<<clock, accountVars>>
        => ClaimInv' /\ ProofOnce'
<1> SUFFICES ASSUME AccountTypes, ClaimInv, ProofOnce,
                    [AccountsNext]_<<clock, accountVars>>
             PROVE  ClaimInv' /\ ProofOnce'
  OBVIOUS
<1>1. ASSUME NEW c \in Challenge, IssueChallenge(c)
      PROVE  ClaimInv' /\ ProofOnce'
  <2>1. /\ \A d \in Challenge : d # c => challenge'[d] = challenge[d]
        /\ challenge'[c] = now /\ challenge[c] = Nothing
        /\ claimed' = claimed /\ accepted' = accepted /\ now' = now
    BY <1>1 DEF IssueChallenge, AccountTypes, AccountsTypeOK, claims, clock
  <2>2. now \in Time /\ now \in Nat
    BY ClockAssumption DEF AccountTypes, ClockTypeOK, Time
  <2>3. ~(Len(accepted[c]) > 0) /\ Len(accepted[c]) \in Nat
    BY <2>1 DEF ClaimInv, AccountTypes, AccountsTypeOK
  <2>4. ClaimInv'
    BY <2>1, <2>2, <2>3 DEF ClaimInv
  <2>5. ProofOnce'
    BY <2>1, <2>3 DEF ProofOnce
  <2> QED
    BY <2>4, <2>5
<1>2. ASSUME NEW c \in Challenge, Proves(c), Claim(c), challenge' = challenge, now' = now
      PROVE  ClaimInv' /\ ProofOnce'
  BY <1>2, ClaimKeeps
<1>3. ASSUME UNCHANGED <<challenge, claims>>, now' \in Nat, now <= now'
      PROVE  ClaimInv' /\ ProofOnce'
  <2>1. \A c \in Challenge : challenge[c] \in Time => challenge[c] \in Nat
    BY ClockAssumption DEF Time
  <2>2. now \in Nat
    BY ClockAssumption DEF AccountTypes, ClockTypeOK, Time
  <2> QED
    BY <1>3, <2>1, <2>2 DEF claims, ClaimInv, ProofOnce
<1>4. now \in Nat
  BY ClockAssumption DEF AccountTypes, ClockTypeOK, Time
<1>5. CASE AccountsStep
  <2>1. ASSUME NEW c \in Challenge, IssueChallenge(c) \/ Login(c)
        PROVE  ClaimInv' /\ ProofOnce'
    BY <1>1, <1>2, <1>3, <1>4, <2>1 DEF Login, clock
  <2>2. ASSUME NEW e \in Email, NEW c \in Challenge, Forgot(e, c)
        PROVE  ClaimInv' /\ ProofOnce'
    BY <1>2, <2>2 DEF Forgot, clock
  <2>3. ASSUME NEW w \in Handler, NEW e \in Email, NEW x \in Password, NEW c \in Challenge,
               Register(w, e, x, c)
        PROVE  ClaimInv' /\ ProofOnce'
    BY <1>2, <2>3 DEF Register, clock
  <2>4. ASSUME NEW w \in Handler,
               \/ \E e \in Email, x, y \in Password : Change(w, e, x, y)
               \/ \E k \in Code, x \in Password : Reset(w, k, x)
               \/ RegisterCommit(w) \/ PasswordCommit(w)
        PROVE  ClaimInv' /\ ProofOnce'
    <3>1. UNCHANGED <<clock, challenge, claims>>
      BY <2>4 DEF Change, Reset, RegisterCommit, PasswordCommit
    <3> QED
      BY <1>3, <1>4, <3>1 DEF clock
  <2> QED
    BY <1>5, <2>1, <2>2, <2>3, <2>4 DEF AccountsStep
<1>6. CASE (Tick \/ Outage) /\ UNCHANGED accountVars
  BY <1>3, <1>4, <1>6 DEF Tick, Outage, accountVars
<1>7. CASE UNCHANGED <<clock, accountVars>>
  BY <1>3, <1>4, <1>7 DEF clock, accountVars
<1> QED
  BY <1>5, <1>6, <1>7 DEF AccountsNext
----------------------------------------------------------------------------
(* Budgets.                                                                *)

\* The counter of an open window is there, whatever it counted.
LEMMA CountedIs ==
    ASSUME AccountTypes, CountInv, NEW s \in Scope
    PROVE  /\ Counted(Current(s)) = bucket[Current(s)].count
           /\ bucket[Current(s)].count \in Nat
<1> DEFINE b == Current(s)
<1>1. /\ b \in Bucket /\ b[1] = s /\ now < (b[2] + 1) * Span[s] * K
  BY WindowIsOpen DEF AccountTypes
<1>2. bucket[b] \in [count : Nat, until : Nat]
  BY <1>1 DEF AccountTypes, AccountsTypeOK
<1>3. b[2] \in Nat
  BY <1>1, ClockAssumption, SecondFloor DEF Bucket
<1> HIDE DEF b
<1>4. now \in Nat /\ Span[s] \in Nat /\ K \in Nat
  BY BudgetAssumption, ClockAssumption DEF AccountTypes, ClockTypeOK, Time, K
<1>5. (b[2] + 1) * Span[s] * K \in Nat
  BY <1>3, <1>4, Z3
<1>6. bucket[b].count > 0 => bucket[b].until > now
  <2>1. bucket[b].count > 0 => (b[2] + 1) * Span[s] * K <= bucket[b].until
    BY <1>1 DEF CountInv
  <2> QED
    BY <1>1, <1>2, <1>4, <1>5, <2>1
<1> QED
  BY <1>2, <1>6 DEF Counted, b

\* A counter set in its window outlives it.
LEMMA HitOutlives ==
    ASSUME AccountTypes, NEW s \in Scope
    PROVE  /\ Until(Span[s]) \in Nat
           /\ (Current(s)[2] + 1) * Span[s] * K <= Until(Span[s])
<1>1. Current(s)[2] * Span[s] * K <= now /\ Current(s) \in Bucket
  BY WindowIsOpen DEF AccountTypes
<1>2. Current(s)[2] \in Nat
  BY <1>1, ClockAssumption, SecondFloor DEF Bucket
<1>3. Span[s] \in Nat /\ ClockTypeOK /\ now \in Nat /\ K \in Nat
  BY BudgetAssumption, ClockAssumption DEF AccountTypes, ClockTypeOK, Time, K
<1>4. /\ Until(Span[s]) \in Nat /\ Span[s] * K \in Nat
      /\ Until(Span[s]) = now + Span[s] * K
  BY <1>3, UntilIs
<1> DEFINE k == Current(s)[2]
<1> HIDE DEF k
<1>5. k \in Nat /\ k * Span[s] * K <= now
  BY <1>1, <1>2 DEF k
<1>6. /\ (k + 1) * Span[s] * K = k * Span[s] * K + Span[s] * K
      /\ k * Span[s] * K \in Nat
  BY <1>3, <1>5, Z3
<1> QED
  BY <1>3, <1>4, <1>5, <1>6 DEF k

\* Asking budgets that count keeps the counters ahead of what they let by.
LEMMA HitKeeps ==
    ASSUME AccountTypes, CountInv, NEW S \in SUBSET Scope, HitAll(S)
    PROVE  CountInv'
<1>1. CASE ~up
  BY <1>1 DEF HitAll, counters, CountInv
<1>2. CASE up
  <2> SUFFICES ASSUME NEW b \in Bucket
               PROVE  /\ admitted'[b] <= bucket'[b].count
                      /\ admitted'[b] <= Budget[b[1]]
                      /\ bucket'[b].count > 0 =>
                            (b[2] + 1) * Span[b[1]] * K <= bucket'[b].until
    BY DEF CountInv
  <2>1. /\ admitted[b] \in Nat /\ bucket[b] \in [count : Nat, until : Nat]
        /\ b[1] \in Scope /\ Budget[b[1]] \in Nat
    BY BudgetAssumption DEF AccountTypes, AccountsTypeOK, Bucket
  <2>2. /\ admitted[b] <= bucket[b].count /\ admitted[b] <= Budget[b[1]]
        /\ bucket[b].count > 0 => (b[2] + 1) * Span[b[1]] * K <= bucket[b].until
    BY DEF CountInv
  <2>3. /\ bucket'[b] = IF b \in {Current(s) : s \in S} THEN Hit(b) ELSE bucket[b]
        /\ admitted'[b] = IF \E s \in S : b = Current(s) /\ Admits(s)
                          THEN admitted[b] + 1 ELSE admitted[b]
    BY <1>2 DEF HitAll
  <2>4. CASE b \notin {Current(s) : s \in S}
    BY <2>2, <2>3, <2>4
  <2>5. ASSUME NEW s \in S, b = Current(s)
        PROVE  /\ admitted'[b] <= bucket'[b].count
               /\ admitted'[b] <= Budget[b[1]]
               /\ bucket'[b].count > 0 =>
                     (b[2] + 1) * Span[b[1]] * K <= bucket'[b].until
    <3>1. b[1] = s /\ s \in Scope
      BY <2>5, WindowIsOpen DEF AccountTypes
    <3>2. Counted(b) = bucket[b].count
      BY <2>5, <3>1, CountedIs
    <3>3. (b[2] + 1) * Span[s] * K <= Until(Span[s])
      BY <2>5, <3>1, HitOutlives
    <3>4. /\ bucket'[b].count = IF bucket[b].count > Budget[s] THEN bucket[b].count
                                ELSE bucket[b].count + 1
          /\ bucket'[b].until = IF bucket[b].count = 0 THEN Until(Span[s])
                                ELSE bucket[b].until
      BY <2>3, <2>5, <3>1, <3>2 DEF Hit
    <3>5. /\ \/ admitted'[b] = admitted[b]
             \/ admitted'[b] = admitted[b] + 1 /\ bucket[b].count < Budget[s]
      <4>1. (\E r \in S : b = Current(r) /\ Admits(r)) => bucket[b].count < Budget[s]
        <5> SUFFICES ASSUME NEW r \in S, b = Current(r), Admits(r)
                     PROVE  bucket[b].count < Budget[s]
          OBVIOUS
        <5>1. r = s
          BY <3>1, WindowIsOpen DEF AccountTypes
        <5> QED
          BY <1>2, <3>2, <5>1 DEF Admits
      <4> QED
        BY <2>3, <4>1
    <3>6. admitted'[b] <= bucket'[b].count /\ admitted'[b] <= Budget[b[1]]
      BY <2>1, <2>2, <3>1, <3>4, <3>5
    <3>7. bucket'[b].count > 0 => (b[2] + 1) * Span[b[1]] * K <= bucket'[b].until
      BY <2>1, <2>2, <3>1, <3>3, <3>4
    <3> QED
      BY <3>6, <3>7
  <2> QED
    BY <2>4, <2>5
<1> QED
  BY <1>1, <1>2

LEMMA CountStep ==
    AccountTypes /\ CountInv /\ [AccountsNext]_<<clock, accountVars>> => CountInv'
<1> SUFFICES ASSUME AccountTypes, CountInv, [AccountsNext]_<<clock, accountVars>>
             PROVE  CountInv'
  OBVIOUS
<1>1. ASSUME NEW c \in Challenge, Login(c)
      PROVE  CountInv'
  <2>1. Scope \in SUBSET Scope /\ {"login"} \in SUBSET Scope
    BY DEF Scope
  <2> QED
    BY <1>1, <2>1, HitKeeps DEF Login
<1>2. CASE UNCHANGED counters
  BY <1>2 DEF counters, CountInv
<1>3. CASE AccountsStep
  <2>1. ASSUME \/ \E c \in Challenge : IssueChallenge(c)
               \/ \E e \in Email, c \in Challenge : Forgot(e, c)
               \/ \E w \in Handler :
                     \/ \E e \in Email, x \in Password :
                           \/ \E c \in Challenge : Register(w, e, x, c)
                           \/ \E y \in Password : Change(w, e, x, y)
                     \/ \E k \in Code, x \in Password : Reset(w, k, x)
                     \/ RegisterCommit(w) \/ PasswordCommit(w)
        PROVE  UNCHANGED counters
    BY <2>1
    DEF IssueChallenge, Forgot, Register, Change, Reset, RegisterCommit, PasswordCommit
  <2> QED
    BY <1>1, <1>2, <1>3, <2>1 DEF AccountsStep
<1> QED
  BY <1>2, <1>3 DEF AccountsNext, accountVars

----------------------------------------------------------------------------
(* What follows.                                                           *)

LEMMA AccountsInvInit == ClockInit /\ AccountsInit => AccountsInv
<1> SUFFICES ASSUME ClockInit, AccountsInit PROVE AccountsInv
  OBVIOUS
<1>1. ClaimInv /\ ProofOnce
  BY DEF AccountsInit, ClaimInv, ProofOnce
<1>2. CountInv
  BY BudgetAssumption DEF AccountsInit, CountInv, Bucket
<1> QED
  BY <1>1, <1>2, AccountTypesInit DEF AccountsInv

THEOREM AccountsInvariant == AccountsSpec => []AccountsInv
<1>1. AccountsInv /\ [AccountsNext]_<<clock, accountVars>> => AccountsInv'
  BY AccountTypesStep, ClaimStep, CountStep DEF AccountsInv
<1> QED
  BY <1>1, AccountsInvInit, PTL DEF AccountsSpec

\* A solved challenge gets one request through, but for the last second of
\* its life, however the clock and Redis go.
THEOREM ProofTakenOnce == AccountsSpec => []ProofOnce
<1>1. AccountsInv => ProofOnce
  BY DEF AccountsInv
<1> QED
  BY <1>1, AccountsInvariant, PTL

\* No window of a scope lets more than its budget by while Redis counts.
THEOREM BudgetIsKept == AccountsSpec => []BudgetKept
<1>1. AccountsInv => BudgetKept
  BY DEF AccountsInv, CountInv, BudgetKept
<1> QED
  BY <1>1, AccountsInvariant, PTL
=============================================================================
