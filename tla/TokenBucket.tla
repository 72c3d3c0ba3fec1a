---------------------------- MODULE TokenBucket ----------------------------
(***************************************************************************)
(* The token bucket of internal/ratelimit/ratelimit.go: how a configured   *)
(* limit becomes a bucket, and what one call of Allow answers and does to  *)
(* the bucket of its tier.                                                 *)
(*                                                                         *)
(* Time is counted in ticks.  The code keeps tokens and the rate as        *)
(* floating point numbers; here a token is worth as many units as the      *)
(* limit's period has ticks, so that a tick brings in exactly `count'      *)
(* units and every amount is an integer.                                   *)
(***************************************************************************)
EXTENDS Integers

CONSTANT TicksPerSecond     \* resolution of the clock

ASSUME TicksAssumption == TicksPerSecond \in Nat \ {0}

(* "60/min" is [count |-> 60, unit |-> "min"].  A count that is no number   *)
(* is 0, and a limit without a slash ("", "unlimited") has the unit "".     *)
LimitSpec == [count : Int, unit : STRING]

Seconds(unit) ==
    CASE unit \in {"sec", "second", "s"} -> 1
      [] unit \in {"min", "minute", "m"} -> 60
      [] unit \in {"hour", "h"}          -> 3600
      [] unit \in {"day", "d"}           -> 86400
      [] OTHER                           -> 0      \* no such unit

Unlimited == [count |-> 0, period |-> 1, tokens |-> 0, last |-> 0]

(* A limit that cannot be understood is no limit. *)
ParseBucket(spec, time) ==
    IF spec.count <= 0 \/ Seconds(spec.unit) = 0 THEN Unlimited
    ELSE LET period == Seconds(spec.unit) * TicksPerSecond
         IN  [count  |-> spec.count,
              period |-> period,
              tokens |-> spec.count * period,
              last   |-> time]

\* Mutant: the bucket grows beyond its capacity while the tier is quiet.
LevelUncapped(b, time) == b.tokens + (time - b.last) * b.count

(* What the bucket holds after the refill at a given time. *)
Level(b, time) ==
    LET refilled == b.tokens + (time - b.last) * b.count
    IN  IF refilled > b.count * b.period THEN b.count * b.period ELSE refilled

\* Mutant: a call is granted on less than a whole token.
GrantsOnFraction(b, time) == b.count = 0 \/ Level(b, time) >= 1

(* The answer of Allow, and the bucket it leaves. *)
Grants(b, time) == b.count = 0 \/ Level(b, time) >= b.period

\* Mutant: a refused call restarts the clock and throws the refill away.
AfterCallForgetful(b, time) ==
    IF b.count = 0 THEN b
    ELSE [b EXCEPT !.last = time,
                   !.tokens = IF Grants(b, time) THEN Level(b, time) - b.period ELSE @]

AfterCall(b, time) ==
    IF b.count = 0 THEN b
    ELSE [b EXCEPT !.last = time,
                   !.tokens = IF Grants(b, time) THEN Level(b, time) - b.period
                              ELSE Level(b, time)]

=============================================================================
