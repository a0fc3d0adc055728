----------------------------- MODULE MCBrowser -----------------------------
(***************************************************************************)
(* Small instances for TLC of what one browser meets: Sessions, Accounts   *)
(* and the chat page.  The first two share the clock and Redis and no      *)
(* other variable, the third shares nothing with them, so instead of their *)
(* product TLC explores each of them beside still other ones; and of the   *)
(* chat page, either reading alone with two requests for pages at once, or *)
(* reading and sending with one.                                           *)
(***************************************************************************)
EXTENDS Sessions, Accounts, Chat, TLC

CONSTANTS o1, o2

VARIABLE part   \* the module whose requests arrive

vars == <<clock, sessionVars, accountVars, chatVars, part>>

MCBudget == [s \in Scope |-> 1]
MCSpan == [s \in Scope |-> IF s = "login" THEN 1 ELSE 2]

Symmetry ==
    Permutations(Server \cup Handler) \cup Permutations(Password)
       \cup Permutations(Thread)

Init ==
    /\ ClockInit /\ SessionsInit /\ AccountsInit /\ ChatInit
    /\ part \in {"sessions", "accounts", "reading", "sending"}
    /\ view.compose # NoThread => part = "sending"

\* While the page reads, others write; while it sends, what they see is a send
\* that got through without its socket.
WritesElsewhere(mine) == \E i \in ChatId, t \in Thread : OthersWrite(i, t, mine)
Reading == Browse \/ Socketry \/ WritesElsewhere(FALSE)

Sending == (Browse \/ Socketry \/ Sends \/ WritesElsewhere(TRUE)) /\ loads'[o2] = NoLoad

Next ==
    /\ part' = part
    /\ \/ /\ part \in {"sessions", "accounts"}
          /\ (Tick \/ Outage) /\ UNCHANGED <<sessionVars, accountVars, chatVars>>
       \/ part = "sessions" /\ SessionsStep /\ UNCHANGED <<accountVars, chatVars>>
       \/ part = "accounts" /\ AccountsStep /\ UNCHANGED <<sessionVars, chatVars>>
       \/ /\ \/ part = "reading" /\ Reading
             \/ part = "sending" /\ Sending
          /\ UNCHANGED <<clock, sessionVars, accountVars>>

Spec == Init /\ [][Next]_vars
=============================================================================
