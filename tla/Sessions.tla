------------------------------ MODULE Sessions ------------------------------
(***************************************************************************)
(* Token pairs: login's pair, rotation, logout and the check in front of   *)
(* every protected endpoint (routers/auth.py, security.py, token_store.py, *)
(* deps.py).  Accounts has the guards of login and the passwords.          *)
(***************************************************************************)
EXTENDS Clock, Sequences, FiniteSets

CONSTANTS
    User,
    MaxPairs, MaxSignIns,        \* token pairs, and sign-ins (bounds)
    Server,                      \* API threads (a bound)
    AccessLife, RefreshLife,     \* seconds
    None

ASSUME LifeAssumption == AccessLife \in Nat \ {0} /\ RefreshLife \in Nat \ {0}
ASSUME NoneAssumption == None \notin Nat \X {"access", "refresh"}
ASSUME BoundAssumption == MaxPairs \in Nat /\ MaxSignIns \in Nat

Pair == 1 .. MaxPairs
Token == Pair \X {"access", "refresh"}

VARIABLES
    pair,         \* the pairs issued: whose, when, and for which refresh token
    denied,       \* denied[t]: until when "auth:revoked:<jti>" exists
    job,          \* job[w]: the request server w is in the middle of
    loggedOut     \* tokens whose logout was answered 204

sessionVars == <<pair, denied, job, loggedOut>>

Issue == [user : User, at : Time, from : Token \cup {None}]

Job == [op : {"idle"}]
       \cup [op : {"refresh"}, token : Token]
       \cup [op : {"logout"}, pair : Pair, bearer : BOOLEAN]

Idle == [op |-> "idle"]

SessionsTypeOK ==
    /\ pair \in Seq(Issue) /\ Len(pair) <= MaxPairs
    /\ denied \in [Token -> Nat]
    /\ job \in [Server -> Job]
    /\ loggedOut \subseteq Token

SessionsInit ==
    /\ pair = << >>
    /\ denied = [t \in Token |-> 0]
    /\ job = [w \in Server |-> Idle]
    /\ loggedOut = {}

Begin(w, j) == job[w] = Idle /\ job' = [job EXCEPT ![w] = j]
End(w) == job' = [job EXCEPT ![w] = Idle]

----------------------------------------------------------------------------
(* Tokens.                                                                 *)

Issued(t) == t[1] \in DOMAIN pair

\* The exp claim: whole seconds.
Exp(t) == Second(pair[t[1]].at) + IF t[2] = "access" THEN AccessLife ELSE RefreshLife

\* python-jose refuses a token in the seconds after exp, not in exp itself.
Decodes(t) == Issued(t) /\ Second(now) <= Exp(t)

RemainingTtl(t) == IF Exp(t) > Second(now) THEN Exp(t) - Second(now) ELSE 1

Revoke(t) == denied' = [denied EXCEPT ![t] = Until(RemainingTtl(t))]

\* SET NX: the first to write the key has the token.
Unused(t) == denied[t] <= now

\* Mutant of Authenticates: one of its callers does not ask the denylist.
MutAuthenticates(t) == t[2] = "access" /\ Decodes(t)

\* user_from_access_token: a denylist that cannot be read lets a token pass.
\* The endpoints it guards leave this module's state alone.
Authenticates(t) == t[2] = "access" /\ Decodes(t) /\ (up => denied[t] <= now)

\* What refresh asks of a token before it issues a pair.
Rotates(t) == t[2] = "refresh" /\ Decodes(t) /\ up /\ Unused(t)

IssuePair(u, t) ==
    /\ Len(pair) < MaxPairs
    /\ pair' = Append(pair, [user |-> u, at |-> now, from |-> t])

----------------------------------------------------------------------------
(* Requests.                                                               *)

\* POST /auth/login, once the password is verified.
SignIn(u) ==
    /\ Cardinality({p \in DOMAIN pair : pair[p].from = None}) < MaxSignIns
    /\ IssuePair(u, None)
    /\ UNCHANGED <<clock, denied, job, loggedOut>>

\* POST /auth/refresh up to the token store.
Refresh(w, t) ==
    /\ Decodes(t)
    /\ t[2] = "refresh"
    /\ Begin(w, [op |-> "refresh", token |-> t])
    /\ UNCHANGED <<clock, pair, denied, loggedOut>>

\* Mutant of RefreshAnswer: the denylist is read instead of written.
MutRefreshAnswer(w) ==
    /\ job[w].op = "refresh"
    /\ up
    /\ IF Unused(job[w].token)
       THEN IssuePair(pair[job[w].token[1]].user, job[w].token)
       ELSE UNCHANGED pair
    /\ End(w)
    /\ UNCHANGED <<clock, denied, loggedOut>>

\* The token is consumed and a pair issued; a token used before has none.
RefreshAnswer(w) ==
    /\ job[w].op = "refresh"
    /\ up
    /\ LET t == job[w].token
       IN  IF Unused(t)
           THEN Revoke(t) /\ IssuePair(pair[t[1]].user, t)
           ELSE UNCHANGED <<denied, pair>>
    /\ End(w)
    /\ UNCHANGED <<clock, loggedOut>>

\* POST /auth/logout by the holder of pair p: the refresh token first.
Logout(w, p, bearer) ==
    /\ p \in DOMAIN pair
    /\ IF Decodes(<<p, "refresh">>)
       THEN up /\ Revoke(<<p, "refresh">>)
       ELSE UNCHANGED denied
    /\ Begin(w, [op |-> "logout", pair |-> p, bearer |-> bearer])
    /\ UNCHANGED <<clock, pair, loggedOut>>

\* Then the access token, if it came with the request, and 204.
LogoutAnswer(w) ==
    /\ job[w].op = "logout"
    /\ LET p == job[w].pair
           a == <<p, "access">>
       IN  /\ IF job[w].bearer /\ Decodes(a)
              THEN up /\ Revoke(a)
              ELSE UNCHANGED denied
           /\ loggedOut' = loggedOut \cup {<<p, "refresh">>}
                                     \cup (IF job[w].bearer THEN {a} ELSE {})
    /\ End(w)
    /\ UNCHANGED <<clock, pair>>

\* The token store cannot take the write: 500.
Fail(w) ==
    /\ \/ job[w].op = "refresh"
       \/ job[w].op = "logout" /\ job[w].bearer
    /\ ~up
    /\ End(w)
    /\ UNCHANGED <<clock, pair, denied, loggedOut>>

SessionsStep ==
    \/ \E u \in User : SignIn(u)
    \/ \E w \in Server :
          \/ \E t \in Token : Refresh(w, t)
          \/ \E p \in Pair, bearer \in BOOLEAN : Logout(w, p, bearer)
          \/ RefreshAnswer(w) \/ LogoutAnswer(w) \/ Fail(w)

SessionsNext == SessionsStep \/ ((Tick \/ Outage) /\ UNCHANGED sessionVars)

SessionsSpec == ClockInit /\ SessionsInit /\ [][SessionsNext]_<<clock, sessionVars>>

----------------------------------------------------------------------------
(* Properties.                                                             *)

\* A refresh token is worth one pair, however many requests present it at
\* once: a second is issued only from the second its exp names on, when Redis
\* may have dropped the key while the token still decodes.
RefreshOnce ==
    \A p, q \in DOMAIN pair :
        p < q /\ pair[p].from = pair[q].from /\ pair[q].from # None
            => Second(pair[q].at) >= Exp(pair[q].from)

\* What an answered logout named is of no use before the second its exp
\* names, unless the denylist cannot be read.
LoggedOutStaysOut ==
    \A t \in loggedOut :
        up /\ (Authenticates(t) \/ Rotates(t)) => Second(now) >= Exp(t)
=============================================================================
