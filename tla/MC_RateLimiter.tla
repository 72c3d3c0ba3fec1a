-------------------------- MODULE MC_RateLimiter --------------------------
(* One tier of every kind: two calls a minute, one call a minute, and a    *)
(* limit nobody can parse.  Time moves on by a third or a half of the      *)
(* period, so that refills bring in fractions of a token.                  *)
EXTENDS RateLimiter

MCTiers == {"anonymous", "identified", "trusted"}
MCLimits == [anonymous  |-> [count |-> 2, unit |-> "min"],
             identified |-> [count |-> 1, unit |-> "minute"],
             trusted    |-> [count |-> 5, unit |-> "fortnight"]]

===========================================================================
