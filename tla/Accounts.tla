------------------------------ MODULE Accounts ------------------------------
(***************************************************************************)
(* Accounts, passwords and the guards in front of them: register, login,   *)
(* forgotten and changed passwords (routers/auth.py), the proof of work    *)
(* (pow.py) and the budgets of requests (ratelimit.py).                    *)
(*                                                                         *)
(* The budgets of the endpoints other than login are the same Hit on keys  *)
(* of their own; the honeypot answers without touching anything.           *)
(***************************************************************************)
EXTENDS Clock, Sequences, FiniteSets

CONSTANTS
    Email, Password,
    Seeded,                      \* emails with an account from the start
    Challenge, Code,             \* proofs of work and reset codes (bounds)
    Handler,                     \* API threads (a bound)
    PowLife, CodeLife,           \* seconds
    Budget, Span,                \* max_requests and window_seconds, by scope
    Nothing

Scope == {"login", "login-ip-email"}

ASSUME SeededAssumption == Seeded \subseteq Email /\ IsFiniteSet(Email)
ASSUME GuardAssumption == PowLife \in Nat \ {0} /\ CodeLife \in Nat \ {0}
ASSUME BudgetAssumption == Budget \in [Scope -> Nat] /\ Span \in [Scope -> Nat \ {0}]

VARIABLES
    account,      \* account[u]: the username, a number, and the password
    code,         \* code[k]: whose password reset code, issued when
    challenge,    \* challenge[c]: the tick it was issued
    claimed,      \* claimed[c]: until when "pow:<challenge>" exists
    bucket,       \* bucket[s, k]: the counter of scope s in its kth window
    form,         \* form[w]: the request handler w is in the middle of
    accepted,     \* accepted[c]: when proofs for c passed, Redis agreeing
    admitted      \* admitted[s, k]: requests counted and let through

claims == <<claimed, accepted>>
counters == <<bucket, admitted>>
accountVars == <<account, code, challenge, claims, counters, form>>

Name == 1 .. Cardinality(Email)
Bucket == Scope \X (0 .. Second(Horizon))

Form == [op : {"idle"}]
        \cup [op : {"register"}, email : Email, name : Name, password : Password]
        \cup [op : {"reset", "change"}, email : Email, password : Password]

Blank == [op |-> "idle"]

AccountsTypeOK ==
    /\ account \in [Email -> [name : Name, password : Password] \cup {Nothing}]
    /\ code \in [Code -> [email : Email, at : Time] \cup {Nothing}]
    /\ challenge \in [Challenge -> Time \cup {Nothing}]
    /\ claimed \in [Challenge -> Nat]
    /\ bucket \in [Bucket -> [count : Nat, until : Nat]]
    /\ form \in [Handler -> Form]
    /\ accepted \in [Challenge -> Seq(Time)]
    /\ admitted \in [Bucket -> Nat]

AccountsInit ==
    /\ \E x \in Password :
          account = [e \in Email |-> IF e \in Seeded THEN [name |-> 1, password |-> x]
                                    ELSE Nothing]
    /\ code = [k \in Code |-> Nothing]
    /\ challenge = [c \in Challenge |-> Nothing]
    /\ claimed = [c \in Challenge |-> 0]
    /\ bucket = [b \in Bucket |-> [count |-> 0, until |-> 0]]
    /\ form = [w \in Handler |-> Blank]
    /\ accepted = [c \in Challenge |-> << >>]
    /\ admitted = [b \in Bucket |-> 0]

Open(w, f) == form[w] = Blank /\ form' = [form EXCEPT ![w] = f]
Close(w) == form' = [form EXCEPT ![w] = Blank]

----------------------------------------------------------------------------
(* Proofs of work and budgets.  Without Redis both let everybody pass.     *)

Fresh(c) == challenge[c] # Nothing /\ Second(now) - Second(challenge[c]) <= PowLife

\* Mutant of Proves: the claim is written without NX.
MutProves(c) == Fresh(c)

\* verify: the challenge is fresh, and claimed by nobody while it was.
Proves(c) == Fresh(c) /\ (up => claimed[c] <= now)

Claim(c) ==
    IF up THEN /\ claimed' = [claimed EXCEPT ![c] = Until(PowLife)]
               /\ accepted' = [accepted EXCEPT ![c] = Append(@, now)]
          ELSE UNCHANGED claims

Window(s) == Second(now) \div Span[s]
Current(s) == <<s, Window(s)>>
Counted(b) == IF bucket[b].until > now THEN bucket[b].count ELSE 0
Admits(s) == up => Counted(Current(s)) < Budget[s]

\* Mutant of Hit: every counter lives one second.
MutHit(b) ==
    [count |-> IF Counted(b) > Budget[b[1]] THEN Counted(b) ELSE Counted(b) + 1,
     until |-> IF Counted(b) = 0 THEN Until(1) ELSE bucket[b].until]

\* INCR, and EXPIRE by the first.  One past the budget refuses as well as
\* any number would (a bound).
Hit(b) ==
    [count |-> IF Counted(b) > Budget[b[1]] THEN Counted(b) ELSE Counted(b) + 1,
     until |-> IF Counted(b) = 0 THEN Until(Span[b[1]]) ELSE bucket[b].until]

\* The budgets S are asked in turn; the log has those that let the request by.
HitAll(S) ==
    IF up THEN
        /\ bucket' = [b \in Bucket |->
               IF b \in {Current(s) : s \in S} THEN Hit(b) ELSE bucket[b]]
        /\ admitted' = [b \in Bucket |->
               IF \E s \in S : b = Current(s) /\ Admits(s)
               THEN admitted[b] + 1 ELSE admitted[b]]
    ELSE UNCHANGED counters

----------------------------------------------------------------------------
(* Accounts.                                                               *)

\* GET /auth/pow-challenge: signed, not stored.
IssueChallenge(c) ==
    /\ challenge[c] = Nothing
    /\ challenge' = [challenge EXCEPT ![c] = now]
    /\ UNCHANGED <<clock, account, code, claims, counters, form>>

Registered(e) == account[e] # Nothing
Taken(n) == \E e \in Email : Registered(e) /\ account[e].name = n

\* _unique_username, where everybody asks for the same name.
FreeName(n) == ~Taken(n) /\ \A m \in 1 .. n - 1 : Taken(m)

\* POST /auth/register up to its commit; 409 if the email has an account.
Register(w, e, x, c) ==
    /\ form[w] = Blank
    /\ Proves(c) /\ Claim(c)
    /\ IF Registered(e)
       THEN UNCHANGED form
       ELSE \E n \in Name :
               /\ FreeName(n)
               /\ Open(w, [op |-> "register", email |-> e, name |-> n, password |-> x])
    /\ UNCHANGED <<clock, account, code, challenge, counters>>

\* The unique constraints on email and username let one of two requests
\* insert; the other is told that the email exists, whichever it was.
RegisterCommit(w) ==
    /\ form[w].op = "register"
    /\ LET f == form[w]
       IN  IF Registered(f.email) \/ Taken(f.name)
           THEN UNCHANGED account
           ELSE account' = [account EXCEPT ![f.email] =
                               [name |-> f.name, password |-> f.password]]
    /\ Close(w)
    /\ UNCHANGED <<clock, code, challenge, claims, counters>>

\* POST /auth/login: the budget of the address, the proof, the budget of the
\* address and the email, each paid for when the next one refuses.  A request
\* they all admit has its password compared (401, or Sessions!SignIn).
Login(c) ==
    /\ IF Admits("login") /\ Proves(c)
       THEN HitAll(Scope) /\ Claim(c)
       ELSE HitAll({"login"}) /\ UNCHANGED claims
    /\ UNCHANGED <<clock, account, code, challenge, form>>

\* POST /auth/forgot-password: the answer is the same without an account.
Forgot(e, c) ==
    /\ Proves(c) /\ Claim(c)
    /\ IF Registered(e)
       THEN \E k \in Code : /\ code[k] = Nothing
                           /\ code' = [code EXCEPT ![k] = [email |-> e, at |-> now]]
       ELSE UNCHANGED code
    /\ UNCHANGED <<clock, account, challenge, counters, form>>

Live(k) == code[k] # Nothing /\ Second(now) <= Second(code[k].at) + CodeLife

\* POST /auth/reset-password: the code is checked, then the row is written.
\* The code is not consumed, and the tokens out so far keep working.
Reset(w, k, x) ==
    /\ Live(k)
    /\ Open(w, [op |-> "reset", email |-> code[k].email, password |-> x])
    /\ UNCHANGED <<clock, account, code, challenge, claims, counters>>

\* POST /auth/change-password, by somebody signed in: the current password
\* is compared with the row, then the row is written.
Change(w, e, x, y) ==
    /\ Registered(e) /\ account[e].password = x
    /\ Open(w, [op |-> "change", email |-> e, password |-> y])
    /\ UNCHANGED <<clock, account, code, challenge, claims, counters>>

\* The new password is written, whatever the row says by now.
PasswordCommit(w) ==
    /\ form[w].op \in {"reset", "change"}
    /\ account' = [account EXCEPT ![form[w].email].password = form[w].password]
    /\ Close(w)
    /\ UNCHANGED <<clock, code, challenge, claims, counters>>

AccountsStep ==
    \/ \E c \in Challenge : IssueChallenge(c) \/ Login(c)
    \/ \E e \in Email, c \in Challenge : Forgot(e, c)
    \/ \E w \in Handler :
          \/ \E e \in Email, x \in Password :
                \/ \E c \in Challenge : Register(w, e, x, c)
                \/ \E y \in Password : Change(w, e, x, y)
          \/ \E k \in Code, x \in Password : Reset(w, k, x)
          \/ RegisterCommit(w) \/ PasswordCommit(w)

AccountsNext == AccountsStep \/ ((Tick \/ Outage) /\ UNCHANGED accountVars)

AccountsSpec == ClockInit /\ AccountsInit /\ [][AccountsNext]_<<clock, accountVars>>

----------------------------------------------------------------------------
(* Properties.                                                             *)

\* Between them register, login and forgot-password take a solved challenge
\* once, but for the last second of its life.
ProofOnce ==
    \A c \in Challenge : \A i \in 2 .. Len(accepted[c]) :
        Second(accepted[c][i]) = Second(challenge[c]) + PowLife

\* While Redis counts, no window of a scope lets more than its budget by:
\* the counter of a window outlives it.
BudgetKept == \A b \in Bucket : admitted[b] <= Budget[b[1]]
=============================================================================
