----------------------------- MODULE MCMessaging -----------------------------
(***************************************************************************)
(* Small instances of DirectMessages and Relay for TLC.  Their product is  *)
(* too large, and most of it is alike: the gate reads blocks, follows and  *)
(* the policy, a reader only messages, the relay only committed messages.  *)
(* So each behaviour lets one of the surroundings move.                    *)
(***************************************************************************)
EXTENDS Relay, TLC

CONSTANTS d1, d2, p1, p2, w1, w2, s1

VARIABLE part   \* what moves around the senders

vars == <<messageVars, relayVars, part>>

MCHome == (d1 :> p1) @@ (d2 :> p2)

Part == {"access", "history", "push", "relay"}

Init ==
    /\ MessagesInit /\ RelayInit /\ part \in Part
    /\ part # "access" => follows = Pair

\* Uploads, and requests of subscribers, at one desk and while access changes;
\* beside the sockets, one request at a time; beside the relay of the other
\* process, a single message.  One of the processes dies.
Begins(d) ==
    \E from, to \in User, key \in Key \cup {NoKey} :
        \/ /\ Begin(d, from, to, key)
           /\ part # "access" \/ d = d2 => key = NoKey /\ from \in Creator
           /\ part \in {"push", "relay"} => d = d1
           /\ part = "relay" => nextId = 1
           /\ part \in {"access", "push"} => nextId < 3
        \/ part = "access" /\ d = d1 /\ StorageFails(d, key)

Clients ==
    \/ \E s \in Socket : Disconnect(s)
    \/ \E s \in Socket : part = "push" /\ Connect(s, p1, s1)
    \/ part = "relay" /\ Connect(w1, p1, s1)
    \/ \E u \in User : part = "relay" /\ Connect(w2, p2, u)

Next ==
    /\ part' = part
    /\ \/ /\ UNCHANGED relayVars
          /\ \/ part = "access" /\ Change
             \/ part = "history" /\ Reads
             \/ \E d \in Desk : Begins(d) \/ SendStep(d)
             \/ \E d \in Desk : part \in {"access", "history"} /\ SendFails(d)
       \/ \E d \in Desk : PushStep(d) \/ AckFails(d)
       \/ Crash(IF part = "relay" THEN p2 ELSE p1)
       \/ part \in {"push", "relay"} /\ Clients
       \/ /\ part \in {"push", "relay"}
          /\ \E p \in Process : RelayStep(p) \/ LinkBreaks(p) \/ Reconnects(p)

moving == <<messageVars, relayVars>>

\* The relay task of a process gets its turns, and a Redis that is asked again
\* and again answers some time.  Nothing else needs to happen.
Fairness == WF_moving(RelayStep(p2)) /\ SF_moving(Subscribe(p2))

Spec == Init /\ [][Next]_vars /\ Fairness

\* Each for one process, socket and message: TLC pays for every instance.
EventuallyHeard == IsHeard(p2, s1)
FramesArrive == IsBrought(p2, w2, 1)
=============================================================================
