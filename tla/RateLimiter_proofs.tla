------------------------ MODULE RateLimiter_proofs ------------------------
(***************************************************************************)
(* Proofs about RateLimiter, for any tiers, limits, clock resolution and   *)
(* timing of the calls.                                                    *)
(***************************************************************************)
EXTENDS RateLimiter, TLAPS

Bucket == [count : Nat, period : Nat \ {0}, tokens : Nat, last : Nat]

-----------------------------------------------------------------------------
(* Facts about products, which the rest uses without any arithmetic.        *)

LEMMA ProductNat == \A m, n \in Nat : m * n \in Nat
OBVIOUS

LEMMA Distribute == \A m, n, c \in Nat : /\ (m + n) * c = m * c + n * c
                                         /\ c * (m + n) = c * m + c * n
OBVIOUS

LEMMA OneMore == \A m, c \in Nat : (m + 1) * c = m * c + c
OBVIOUS

LEMMA ProductMonotone ==
    ASSUME NEW m \in Nat, NEW n \in Nat, NEW c \in Nat, m <= n
    PROVE  m * c <= n * c /\ c * m <= c * n
<1>1. PICK d \in Nat : n = m + d
  <2>1. n - m \in Nat /\ n = m + (n - m)
    OBVIOUS
  <2>. QED  BY <2>1
<1>2. n * c = m * c + d * c /\ c * n = c * m + c * d
  BY <1>1, Distribute
<1>. QED  BY <1>2, ProductNat

-----------------------------------------------------------------------------
(* Facts about a bucket, for any limit, resolution of the clock and timing  *)
(* of the calls; the proofs about Session use them too.                     *)

WellFormed(b, time) ==
    /\ b \in Bucket
    /\ time \in Nat
    /\ b.last <= time
    /\ b.tokens <= b.count * b.period

(* A fresh bucket is full, or stands for no limit. *)
LEMMA FreshBucket ==
    ASSUME NEW spec \in LimitSpec
    PROVE  WellFormed(ParseBucket(spec, 0), 0)
<1>1. Seconds(spec.unit) \in Nat
  BY DEF Seconds
<1>2. CASE spec.count <= 0 \/ Seconds(spec.unit) = 0
  BY <1>2 DEF ParseBucket, Unlimited, WellFormed, Bucket
<1>3. CASE ~(spec.count <= 0 \/ Seconds(spec.unit) = 0)
  <2>1. spec.count \in Nat
    BY <1>3 DEF LimitSpec
  <2>2. Seconds(spec.unit) * TicksPerSecond \in Nat \ {0}
    BY <1>1, <1>3, TicksAssumption
  <2>3. spec.count * (Seconds(spec.unit) * TicksPerSecond) \in Nat
    BY <2>1, <2>2, ProductNat
  <2>. QED  BY <1>3, <2>1, <2>2, <2>3 DEF ParseBucket, WellFormed, Bucket
<1>. QED  BY <1>2, <1>3

(* The level is a natural number, and never above the capacity. *)
LEMMA LevelBounds ==
    ASSUME NEW b, NEW time, WellFormed(b, time)
    PROVE  /\ Level(b, time) \in Nat
           /\ Level(b, time) <= b.count * b.period
<1>1. (time - b.last) \in Nat /\ (time - b.last) * b.count \in Nat /\ b.count * b.period \in Nat
  BY ProductNat DEF WellFormed, Bucket
<1>. QED  BY <1>1 DEF Level, WellFormed, Bucket

(* While time passes the level rises by what the rate brings in, up to the  *)
(* capacity.                                                                *)
LEMMA LevelRises ==
    ASSUME NEW b, NEW time, WellFormed(b, time), NEW d \in Nat
    PROVE  /\ WellFormed(b, time + d)
           /\ Level(b, time + d) <= Level(b, time) + b.count * d
           /\ \/ Level(b, time + d) = Level(b, time) + b.count * d
              \/ Level(b, time + d) = b.count * b.period
<1>. DEFINE e == time - b.last
<1>1. e \in Nat /\ b.count \in Nat /\ b.period \in Nat /\ b.tokens \in Nat
  BY DEF WellFormed, Bucket
<1>2. (time + d) - b.last = e + d
  BY DEF WellFormed, Bucket
<1>3. (e + d) * b.count = e * b.count + b.count * d
  <2>1. (e + d) * b.count = e * b.count + d * b.count
    BY <1>1, Distribute
  <2>2. d * b.count = b.count * d
    BY <1>1
  <2>. QED  BY <2>1, <2>2
<1>4. e * b.count \in Nat /\ b.count * d \in Nat /\ b.count * b.period \in Nat
  BY <1>1, ProductNat
<1>5. WellFormed(b, time + d)
  BY DEF WellFormed, Bucket
<1>. HIDE DEF e
<1>6. /\ Level(b, time) = IF b.tokens + e * b.count > b.count * b.period
                          THEN b.count * b.period ELSE b.tokens + e * b.count
      /\ Level(b, time + d) =
            IF b.tokens + (e * b.count + b.count * d) > b.count * b.period
            THEN b.count * b.period ELSE b.tokens + (e * b.count + b.count * d)
  BY <1>2, <1>3 DEF Level, e
<1>. QED  BY <1>1, <1>4, <1>5, <1>6

(* A call takes one token from the level when it is granted, else nothing.  *)
LEMMA CallCosts ==
    ASSUME NEW b, NEW time, WellFormed(b, time), b.count > 0
    PROVE  /\ WellFormed(AfterCall(b, time), time)
           /\ AfterCall(b, time).count = b.count
           /\ AfterCall(b, time).period = b.period
           /\ Grants(b, time) =>
                 Level(AfterCall(b, time), time) = Level(b, time) - b.period
           /\ ~Grants(b, time) =>
                 Level(AfterCall(b, time), time) = Level(b, time)
<1>. DEFINE n == AfterCall(b, time)
<1>1. Level(b, time) \in Nat /\ Level(b, time) <= b.count * b.period
  BY LevelBounds
<1>2. b.count \in Nat \ {0} /\ b.period \in Nat \ {0} /\ b.count * b.period \in Nat
  BY ProductNat DEF WellFormed, Bucket
<1>3. /\ n.count = b.count /\ n.period = b.period /\ n.last = time
      /\ n.tokens = IF Grants(b, time) THEN Level(b, time) - b.period ELSE Level(b, time)
      /\ n \in [count : Nat, period : Nat \ {0}, tokens : {n.tokens}, last : Nat]
  BY <1>2 DEF AfterCall, WellFormed, Bucket
<1>4. n.tokens \in Nat /\ n.tokens <= b.count * b.period
  BY <1>1, <1>2, <1>3 DEF Grants
<1>5. WellFormed(n, time)
  BY <1>3, <1>4 DEF WellFormed, Bucket
<1>6. Level(n, time) = n.tokens
  <2>1. (time - n.last) * n.count = 0
    BY <1>2, <1>3 DEF WellFormed
  <2>. QED  BY <1>2, <1>3, <1>4, <2>1 DEF Level
<1>. QED  BY <1>3, <1>5, <1>6

-----------------------------------------------------------------------------
(* The invariant. *)

(* Per period a token is worth `period' units.  What the watched tier was   *)
(* granted since the window opened, and what its bucket would hold now,     *)
(* together stay between what the rate brought in (up to the capacity) and  *)
(* what it brought in on top of a full bucket.                              *)
Account ==
    Watched.count > 0 =>
        /\ granted * Watched.period + Level(Watched, now)
              <= Watched.count * Watched.period + Watched.count * (now - since)
        /\ \/ granted * Watched.period + Level(Watched, now)
                 >= Watched.count * Watched.period
           \/ granted * Watched.period + Level(Watched, now)
                 >= Watched.count * (now - since)

IInv == TypeOK /\ Account

-----------------------------------------------------------------------------

(* The type invariant gives every bucket's well-formedness. *)
LEMMA BucketsWellFormed ==
    ASSUME TypeOK, NEW t \in Tiers
    PROVE  WellFormed(bucket[t], now)
BY DEF TypeOK, WellFormed, Bucket

LEMMA InitIInv == Init => IInv
<1>. SUFFICES ASSUME Init PROVE IInv
  OBVIOUS
<1>1. \A t \in Tiers : WellFormed(bucket[t], now)
  BY FreshBucket, LimitsAssumption DEF Init
<1>2. TypeOK
  <2>1. bucket \in [Tiers -> Bucket]
    BY <1>1 DEF Init, WellFormed
  <2>. QED  BY <1>1, <2>1 DEF Init, TypeOK, WellFormed, Bucket
<1>3. Account
  <2>. SUFFICES ASSUME Watched.count > 0
                PROVE  /\ Level(Watched, 0) <= Watched.count * Watched.period
                       /\ Level(Watched, 0) \in Nat
                       /\ Watched.count * Watched.period \in Nat
                       /\ Watched.count * 0 = 0
                       /\ 0 * Watched.period = 0
    BY DEF Account, Init
  <2>1. WellFormed(Watched, 0)
    BY <1>1 DEF Init, Watched
  <2>. QED  BY <2>1, LevelBounds, ProductNat DEF WellFormed, Bucket
<1>. QED  BY <1>2, <1>3 DEF IInv

(* Time passes. *)
LEMMA ElapseIInv ==
    ASSUME IInv, NEW d \in Steps, Elapse(d)
    PROVE  IInv'
<1>1. d \in Nat /\ now' = now + d /\ UNCHANGED <<bucket, watched, since, granted, refused>>
  BY StepsAssumption DEF Elapse, window
<1>2. TypeOK'
  BY <1>1 DEF IInv, TypeOK
<1>3. Account'
  <2>. SUFFICES ASSUME Watched.count > 0
                PROVE  Account'
    BY <1>1 DEF Account, Watched
  <2>. DEFINE cost == granted * Watched.period
              burst == Watched.count * Watched.period
              earned == Watched.count * (now - since)
              more == Watched.count * d
              was == Level(Watched, now)
              is == Level(Watched, now + d)
  <2>1. WellFormed(Watched, now)
    BY BucketsWellFormed DEF IInv, TypeOK, Watched
  <2>2. /\ is <= was + more
        /\ is = was + more \/ is = burst
        /\ WellFormed(Watched, now + d)
    BY <1>1, <2>1, LevelRises
  <2>3. was \in Nat /\ is \in Nat
    BY <2>1, <2>2, LevelBounds
  <2>4. Watched.count \in Nat /\ Watched.period \in Nat /\ (now - since) \in Nat /\ granted \in Nat
    BY <2>1 DEF IInv, TypeOK, WellFormed, Bucket
  <2>5. cost \in Nat /\ burst \in Nat /\ earned \in Nat /\ more \in Nat
    BY <1>1, <2>4, ProductNat
  <2>6. Watched.count * ((now + d) - since) = earned + more
    <3>1. (now + d) - since = (now - since) + d
      BY <1>1 DEF IInv, TypeOK
    <3>. QED  BY <1>1, <2>4, <3>1, Distribute
  <2>7. /\ cost + was <= burst + earned
        /\ cost + was >= burst \/ cost + was >= earned
    BY DEF IInv, Account
  <2>8. /\ cost + is <= burst + (earned + more)
        /\ cost + is >= burst \/ cost + is >= earned + more
    <3>. HIDE DEF cost, burst, earned, more, was, is
    <3>. QED  BY <2>2, <2>3, <2>5, <2>7
  <2>9. Watched' = Watched
    BY <1>1 DEF Watched
  <2>. QED  BY <1>1, <2>6, <2>8, <2>9 DEF Account
<1>. QED  BY <1>2, <1>3 DEF IInv

(* The observer starts over. *)
LEMMA OpenWindowIInv ==
    ASSUME IInv, OpenWindow
    PROVE  IInv'
<1>1. TypeOK'
  BY DEF IInv, TypeOK, OpenWindow
<1>2. Account'
  <2>1. WellFormed(Watched, now)
    BY BucketsWellFormed DEF IInv, TypeOK, Watched
  <2>2. /\ Level(Watched, now) \in Nat
        /\ Level(Watched, now) <= Watched.count * Watched.period
        /\ Watched.count * Watched.period \in Nat
        /\ Watched.count * (now - now) = 0
        /\ 0 * Watched.period = 0
    BY <2>1, LevelBounds, ProductNat DEF WellFormed, Bucket
  <2>3. Watched' = Watched
    BY DEF OpenWindow, Watched
  <2>. QED  BY <2>2, <2>3 DEF Account, OpenWindow
<1>. QED  BY <1>1, <1>2 DEF IInv

(* A call of any tier. *)
LEMMA AllowIInv ==
    ASSUME IInv, NEW t \in Tiers, Allow(t)
    PROVE  IInv'
<1>1. WellFormed(bucket[t], now)
  BY BucketsWellFormed DEF IInv
<1>2. /\ bucket' = [bucket EXCEPT ![t] = AfterCall(bucket[t], now)]
      /\ UNCHANGED <<now, watched, since>>
  BY DEF Allow
<1>3. WellFormed(AfterCall(bucket[t], now), now)
  <2>1. CASE bucket[t].count > 0
    BY <1>1, <2>1, CallCosts
  <2>2. CASE bucket[t].count = 0
    BY <1>1, <2>2 DEF AfterCall
  <2>. QED  BY <1>1, <2>1, <2>2 DEF WellFormed, Bucket
<1>4. granted' \in Nat /\ refused' \in Nat
  BY DEF Allow, IInv, TypeOK
<1>5. TypeOK'
  <2>1. bucket' \in [Tiers -> Bucket]
    BY <1>2, <1>3 DEF IInv, TypeOK, WellFormed, Bucket
  <2>. QED  BY <1>2, <1>3, <1>4, <2>1 DEF IInv, TypeOK, WellFormed, Bucket
<1>6. Account'
  <2>1. CASE t # watched
    BY <1>2, <2>1 DEF Allow, Account, Watched, IInv, TypeOK
  <2>2. CASE t = watched
    <3>. SUFFICES ASSUME Watched'.count > 0
                  PROVE  Account'
      BY DEF Account
    <3>1. Watched' = AfterCall(Watched, now) /\ Watched = bucket[t]
      BY <1>2, <2>2 DEF Watched, IInv, TypeOK
    <3>2. Watched.count > 0
      BY <3>1 DEF AfterCall
    <3>3. /\ Watched'.count = Watched.count /\ Watched'.period = Watched.period
          /\ Grants(Watched, now) => Level(Watched', now) = Level(Watched, now) - Watched.period
          /\ ~Grants(Watched, now) => Level(Watched', now) = Level(Watched, now)
      BY <1>1, <3>1, <3>2, CallCosts
    <3>4. /\ Grants(Watched, now) => granted' = granted + 1
          /\ ~Grants(Watched, now) => granted' = granted
      BY <2>2, <3>1 DEF Allow
    <3>5. Watched.period \in Nat /\ granted \in Nat /\ Level(Watched, now) \in Nat
      BY <1>1, <3>1, LevelBounds DEF WellFormed, Bucket, IInv, TypeOK
    <3>6. (granted + 1) * Watched.period = granted * Watched.period + Watched.period
      BY <3>5, OneMore
    <3>7. granted * Watched.period \in Nat
      BY <3>5, ProductNat
    <3>8. granted' * Watched'.period + Level(Watched', now)
             = granted * Watched.period + Level(Watched, now)
      BY <3>3, <3>4, <3>5, <3>6, <3>7
    <3>. QED  BY <1>2, <3>2, <3>3, <3>8 DEF Account, IInv
  <2>. QED  BY <2>1, <2>2
<1>. QED  BY <1>5, <1>6 DEF IInv

LEMMA NextIInv == IInv /\ [Next]_vars => IInv'
<1>1. CASE UNCHANGED vars
  BY <1>1 DEF vars, IInv, TypeOK, Account, Watched
<1>. QED  BY <1>1, ElapseIInv, AllowIInv, OpenWindowIInv DEF Next

-----------------------------------------------------------------------------

(* In every reachable state every bucket is between empty and full. *)
THEOREM TypeCorrect == Spec => []TypeOK
<1>1. IInv => TypeOK
  BY DEF IInv
<1>. QED  BY InitIInv, NextIInv, <1>1, PTL DEF Spec

(* No timing of the calls takes more out of a limiter than its limit. *)
THEOREM LimitHolds == Spec => []GrantsWithinLimit
<1>1. IInv => GrantsWithinLimit
  <2>. SUFFICES ASSUME IInv, Watched.count > 0
                PROVE  granted * Watched.period
                          <= Watched.count * Watched.period + Watched.count * (now - since)
    BY DEF GrantsWithinLimit
  <2>1. WellFormed(Watched, now)
    BY BucketsWellFormed DEF IInv, TypeOK, Watched
  <2>2. Level(Watched, now) \in Nat
    BY <2>1, LevelBounds
  <2>3. /\ granted * Watched.period \in Nat
        /\ Watched.count * Watched.period \in Nat
        /\ Watched.count * (now - since) \in Nat
    BY <2>1, ProductNat DEF WellFormed, Bucket, IInv, TypeOK
  <2>. QED  BY <2>2, <2>3 DEF IInv, Account
<1>. QED  BY InitIInv, NextIInv, <1>1, PTL DEF Spec

(* A refusal means the tier really had its full count in the last period. *)
THEOREM RefusalsAreDue == Spec => NoUndueRefusal
<1>. DEFINE Due == refused' > refused =>
                      /\ Watched.count > 0
                      /\ now - since >= Watched.period => granted >= Watched.count
<1>1. IInv /\ [Next]_vars => [Due]_vars
  <2>. SUFFICES ASSUME IInv, Next, refused' > refused
                PROVE  /\ Watched.count > 0
                       /\ now - since >= Watched.period => granted >= Watched.count
    BY DEF vars
  <2>1. refused \in Nat
    BY DEF IInv, TypeOK
  <2>2. PICK t \in Tiers : Allow(t)
    BY <2>1 DEF Next, Elapse, OpenWindow, window
  <2>3. t = watched /\ ~Grants(Watched, now)
    BY <2>1, <2>2 DEF Allow, Watched
  <2>4. WellFormed(Watched, now)
    BY <2>2, <2>3, BucketsWellFormed DEF IInv, Watched
  <2>5. Watched.count > 0 /\ Level(Watched, now) < Watched.period
    BY <2>3, <2>4, LevelBounds DEF Grants, WellFormed, Bucket
  <2>6. ASSUME now - since >= Watched.period, granted < Watched.count
        PROVE  FALSE
    <3>1. /\ Watched.count \in Nat /\ Watched.period \in Nat /\ granted \in Nat
          /\ now - since \in Nat /\ Level(Watched, now) \in Nat
      BY <2>4, LevelBounds DEF WellFormed, Bucket, IInv, TypeOK
    <3>2. Watched.count * Watched.period <= Watched.count * (now - since)
      BY <2>6, <3>1, ProductMonotone
    <3>3. (granted + 1) * Watched.period <= Watched.count * Watched.period
      BY <2>6, <3>1, ProductMonotone
    <3>4. (granted + 1) * Watched.period = granted * Watched.period + Watched.period
      BY <3>1, OneMore
    <3>5. /\ granted * Watched.period \in Nat
          /\ Watched.count * Watched.period \in Nat
          /\ Watched.count * (now - since) \in Nat
      BY <3>1, ProductNat
    <3>6. granted * Watched.period + Level(Watched, now) >= Watched.count * Watched.period
      BY <2>5, <3>1, <3>2, <3>5 DEF IInv, Account
    <3>. QED  BY <2>5, <3>1, <3>3, <3>4, <3>5, <3>6
  <2>. QED  BY <2>5, <2>6, <2>4 DEF IInv, TypeOK, WellFormed, Bucket
<1>. QED  BY InitIInv, NextIInv, <1>1, PTL DEF Spec, NoUndueRefusal

===========================================================================
