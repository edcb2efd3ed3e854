----------------------------- MODULE RateLimit -----------------------------
(***************************************************************************)
(* RateLimitMiddleware: a counter per client key that starts over when its *)
(* window has ended, and the timer that throws ended windows away.  The    *)
(* middleware runs without an await, so an arrival is one step.            *)
(*                                                                         *)
(* The options are those of app.module.ts, which skips no request: the     *)
(* counter is never taken back.                                            *)
(***************************************************************************)
EXTENDS Integers

CONSTANTS
  ClientKeys,   \* what the key generator answers: addresses
  WindowTicks,  \* windowMs
  MaxRequests,
  LastTick,     \* bound: the clock stops there
  MaxArrivals,  \* bound on the requests of one key at one tick
  NoWindow

ASSUME LimitsAreNat ==
  WindowTicks \in Nat \ {0} /\ MaxRequests \in Nat \ {0}
    /\ LastTick \in Nat /\ MaxArrivals \in Nat

ASSUME NoWindowIsNone == NoWindow \notin [count: Nat \ {0}, resetTime: Nat]

VARIABLES
  clock,
  rateLimitStore,  \* the windows, by key
  sweepAt,         \* when the timer of cleanupExpiredEntries fires next
  admitted,        \* history variable: how many requests had got through at the end of each tick
  refused          \* history variable: how many were refused at each tick

limVars == <<clock, rateLimitStore, sweepAt, admitted, refused>>

RateLimitInfo == [count: Nat \ {0}, resetTime: Nat]
Ticks == 0 .. LastTick

LimTypeOK ==
  /\ clock \in Ticks
  /\ rateLimitStore \in [ClientKeys -> RateLimitInfo \cup {NoWindow}]
  /\ sweepAt \in Nat
  /\ admitted \in [ClientKeys -> [Ticks -> Nat]]
  /\ refused \in [ClientKeys -> [Ticks -> Nat]]

Never == [t \in Ticks |-> 0]

LimInit ==
  /\ clock = 0
  /\ rateLimitStore = [k \in ClientKeys |-> NoWindow]
  /\ sweepAt = WindowTicks
  /\ admitted = [k \in ClientKeys |-> Never]
  /\ refused = [k \in ClientKeys |-> Never]

-----------------------------------------------------------------------------
IsOverSoon(info, t) == t + 1 >= info.resetTime
IsOver(info, t) == t >= info.resetTime

NextInfo(info, t) ==
  IF info = NoWindow \/ IsOver(info, t)
    THEN [count |-> 1, resetTime |-> t + WindowTicks]
    ELSE [info EXCEPT !.count = @ + 1]

Exceeds(info) == info.count > MaxRequests

(* One more from this tick on. *)
CountedFrom(total, now) == [t \in Ticks |-> IF t < now THEN total[t] ELSE total[t] + 1]

(* How many requests had got through before tick t, and how many from the  *)
(* tick first to the tick last, going by one key's history.                *)
Before(total, t) == IF t = 0 THEN 0 ELSE total[t - 1]
Through(total, first, last) == total[last] - Before(total, first)

(* use: a request that is refused has counted all the same. *)
Use(k) ==
  /\ Through(admitted[k], clock, clock) + refused[k][clock] < MaxArrivals
  /\ LET info == NextInfo(rateLimitStore[k], clock) IN
       /\ rateLimitStore' = [rateLimitStore EXCEPT ![k] = info]
       /\ IF Exceeds(info)
            THEN refused' = [refused EXCEPT ![k][clock] = @ + 1] /\ UNCHANGED admitted
            ELSE admitted' = [admitted EXCEPT ![k] = CountedFrom(@, clock)] /\ UNCHANGED refused
  /\ UNCHANGED <<clock, sweepAt>>

(* The interval timer; it is never late by more than a tick here. *)
Expired(t) == {k \in ClientKeys : rateLimitStore[k] # NoWindow /\ IsOver(rateLimitStore[k], t)}

CleanupExpiredEntries ==
  /\ clock = sweepAt
  /\ sweepAt' = sweepAt + WindowTicks
  /\ rateLimitStore' =
       [k \in ClientKeys |-> IF k \in Expired(clock) THEN NoWindow ELSE rateLimitStore[k]]
  /\ UNCHANGED <<clock, admitted, refused>>

Passes ==
  /\ clock < LastTick /\ clock < sweepAt
  /\ clock' = clock + 1
  /\ UNCHANGED <<rateLimitStore, sweepAt, admitted, refused>>

(* clearRateLimit, for one key or for all: the history starts over with it. *)
ClearRateLimit(keys) ==
  /\ keys # {}
  /\ rateLimitStore' = [k \in ClientKeys |-> IF k \in keys THEN NoWindow ELSE rateLimitStore[k]]
  /\ admitted' = [k \in ClientKeys |-> IF k \in keys THEN Never ELSE admitted[k]]
  /\ refused' = [k \in ClientKeys |-> IF k \in keys THEN Never ELSE refused[k]]
  /\ UNCHANGED <<clock, sweepAt>>

LimNext ==
  \/ \E k \in ClientKeys : Use(k) \/ ClearRateLimit({k})
  \/ CleanupExpiredEntries
  \/ Passes
  \/ ClearRateLimit(ClientKeys)

LimSpec == LimInit /\ [][LimNext]_limVars

-----------------------------------------------------------------------------
(* What the middleware's documentation promises: a sliding window, with at *)
(* most maxRequests in it wherever it lies (rate-limit.middleware.ts:10,   *)
(* 31).  The code does not keep it: a window that starts over lets its     *)
(* whole share through next to the share of the one before.                *)
SlidingWindow ==
  \A k \in ClientKeys, t \in Ticks :
    t + WindowTicks <= LastTick + 1 =>
      Through(admitted[k], t, t + WindowTicks - 1) <= MaxRequests

(* What it keeps instead: whatever interval of the length of a window one  *)
(* looks at, fewer than twice the configured number of requests of one     *)
(* client got through in it.  It meets two windows at most, and not the    *)
(* request that opened the first of them.  The sweeps of the timer may     *)
(* fall anywhere (rate-limit.middleware.ts:85-107, 137-144).               *)
RateBound ==
  \A k \in ClientKeys, t \in Ticks :
    t + WindowTicks <= LastTick + 1 =>
      Through(admitted[k], t, t + WindowTicks - 1) < 2 * MaxRequests

(* No client is refused unless as many requests of its own as it may make  *)
(* got through during the last window length: refused requests and those   *)
(* of other clients cost it nothing (rate-limit.middleware.ts:103-107).    *)
RefusedOnlyWhenFull ==
  \A k \in ClientKeys, t \in Ticks :
    refused[k][t] > 0 =>
      Through(admitted[k], IF t < WindowTicks THEN 0 ELSE t - WindowTicks + 1, t) >= MaxRequests

(* The rate of fixed windows, from both sides: at most two windows' share  *)
(* gets through in a window's length, less than SlidingWindow asks for,    *)
(* and only a client that has used its share is refused                    *)
(* (RateLimitMiddleware.use).                                              *)
FixedWindowRate == RateBound /\ RefusedOnlyWhenFull
=============================================================================
