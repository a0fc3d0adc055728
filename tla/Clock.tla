------------------------------- MODULE Clock -------------------------------
(***************************************************************************)
(* What Sessions and Accounts share: the clock and Redis, which holds the  *)
(* denylist (token_store.py), the claimed proofs of work and the counters  *)
(* of requests (ratelimit.py).                                             *)
(*                                                                         *)
(* Time passes in ticks, several to a second: the code counts in whole     *)
(* seconds (exp, issued_at, a key's ttl) while Redis drops a key at the    *)
(* very instant its ttl is over, and the difference shows.                 *)
(***************************************************************************)
EXTENDS Integers

CONSTANTS
    TicksPerSecond,
    Horizon                      \* the last tick (a bound)

ASSUME ClockAssumption == TicksPerSecond \in Nat \ {0} /\ Horizon \in Nat

VARIABLES
    now,          \* the clock
    up            \* Redis answers

clock == <<now, up>>

Time == 0 .. Horizon

ClockTypeOK == now \in Time /\ up \in BOOLEAN
ClockInit == now = 0 /\ up = TRUE

Second(tick) == tick \div TicksPerSecond

\* When a key set now for ttl seconds is gone.
Until(ttl) == now + ttl * TicksPerSecond

Tick == now < Horizon /\ now' = now + 1 /\ up' = up

\* Redis goes away, and comes back with its keys (appendonly).
Outage == up' = ~up /\ now' = now
=============================================================================
