---------------------------- MODULE RateLimiter ----------------------------
(***************************************************************************)
(* The per-tier rate limiter of a site (internal/ratelimit/ratelimit.go).  *)
(* Every tier has one token bucket, shared by all its clients; Allow runs  *)
(* under the limiter's mutex, so a call is one step.                       *)
(***************************************************************************)
EXTENDS TokenBucket

CONSTANTS
    Tiers,          \* the tiers a session can have
    Limits,         \* the configured limit of each tier
    Steps,          \* by how many ticks time may move on between two calls
    MaxTime,        \* bound on the clock
    MaxCalls        \* bound on the calls an observer counts

ASSUME LimitsAssumption == Limits \in [Tiers -> LimitSpec]
ASSUME StepsAssumption  == Steps \subseteq Nat
ASSUME BoundsAssumption == MaxTime \in Nat /\ MaxCalls \in Nat

VARIABLES
    now,        \* the monotonic clock
    bucket,     \* Limiter.buckets
    \* History: an observer counts the answers given to one tier.
    watched,    \* the tier it watches
    since,      \* when it began to count
    granted,    \* calls answered true since then
    refused     \* calls answered false since then

window == <<watched, since, granted, refused>>
vars   == <<now, bucket, watched, since, granted, refused>>

-----------------------------------------------------------------------------

Init ==
    /\ now = 0
    /\ bucket  = [t \in Tiers |-> ParseBucket(Limits[t], 0)]
    /\ watched \in Tiers
    /\ since   = 0
    /\ granted = 0
    /\ refused = 0

Elapse(d) ==
    /\ now + d <= MaxTime
    /\ now' = now + d
    /\ UNCHANGED <<bucket, window>>

Allow(t) ==
    /\ bucket' = [bucket EXCEPT ![t] = AfterCall(@, now)]
    /\ IF t # watched THEN UNCHANGED <<granted, refused>>
       ELSE /\ granted + refused < MaxCalls
            /\ IF Grants(bucket[t], now)
               THEN granted' = granted + 1 /\ UNCHANGED refused
               ELSE refused' = refused + 1 /\ UNCHANGED granted
    /\ UNCHANGED <<now, watched, since>>

(* The properties are about any tier and any stretch of time: the observer  *)
(* begins to count at an arbitrary moment.                                  *)
OpenWindow ==
    /\ since'   = now
    /\ granted' = 0
    /\ refused' = 0
    /\ UNCHANGED <<now, bucket, watched>>

Next ==
    \/ \E d \in Steps : Elapse(d)
    \/ \E t \in Tiers : Allow(t)
    \/ OpenWindow

Spec == Init /\ [][Next]_vars

-----------------------------------------------------------------------------
(* Properties *)

(* A bucket holds between nothing and its capacity. *)
TypeOK ==
    /\ now \in Nat
    /\ bucket \in [Tiers -> [count : Nat, period : Nat \ {0}, tokens : Nat, last : Nat]]
    /\ \A t \in Tiers : /\ bucket[t].tokens <= bucket[t].count * bucket[t].period
                        /\ bucket[t].last <= now
    /\ watched \in Tiers
    /\ since \in 0 .. now
    /\ granted \in Nat
    /\ refused \in Nat

Watched == bucket[watched]

(* Over any stretch of time a tier is granted no more than one full burst   *)
(* and what the rate brings in meanwhile, however its clients time their    *)
(* calls (Allow and the cap on the refill).                                 *)
GrantsWithinLimit ==
    Watched.count > 0 =>
        granted * Watched.period
            <= Watched.count * Watched.period + Watched.count * (now - since)

(* A call is only refused to a tier that was granted its full count within  *)
(* the last period: refused calls cost nothing, no refill is lost, and what *)
(* other tiers do does not matter.                                          *)
NoUndueRefusal ==
    [][refused' > refused =>
          /\ Watched.count > 0
          /\ now - since >= Watched.period => granted >= Watched.count]_vars

=============================================================================
