--------------------------- MODULE Session_proofs ---------------------------
(***************************************************************************)
(* Proofs about Session, for any number of connections and sessions, any   *)
(* commands, lists, routes and limits, and queues of any size: types,      *)
(* exit statuses, identities, permissions and the limit; and about         *)
(* Decisions, for any commands, auth blocks, routes and paths.             *)
(***************************************************************************)
EXTENDS Session, Decisions, SequenceTheorems, WellFoundedInduction, TLAPS

(* The limiter of the site, without an observer: what RateLimiter_proofs    *)
(* finds out about buckets is about the buckets here.                       *)
Limiter == INSTANCE RateLimiter_proofs
              WITH Steps <- {1}, MaxCalls <- 0,
                   watched <- "anonymous", since <- 0, granted <- 0, refused <- 0

Bucket == [count : Nat, period : Nat \ {0}, tokens : Nat, last : Nat]

WellFormed(b, time) ==
    /\ b \in Bucket
    /\ time \in Nat
    /\ b.last <= time
    /\ b.tokens <= b.count * b.period

-----------------------------------------------------------------------------
(* Who may run what: the decisions of Authorization, for every auth block   *)
(* and every command.                                                       *)

AuthBlock == [Tiers -> SUBSET Entry]

Command == {c \in Seq(Words) : c # <<>>}

(* An entry that allows a command allows it with one more argument.         *)
LEMMA EntryCoversArguments ==
    ASSUME NEW entry \in Entry, NEW cmd \in Command, NEW w \in Words,
           EntryMatches(entry, cmd)
    PROVE  EntryMatches(entry, Append(cmd, w))
<1> DEFINE longer == Append(cmd, w)
<1>1. /\ cmd \in Seq(Words) /\ Len(cmd) > 0
      /\ entry.words \in Seq(Words) /\ entry.star \in BOOLEAN
  BY DEF Command, Entry
<1>2. /\ Len(longer) = Len(cmd) + 1
      /\ \A i \in 1 .. Len(cmd) : longer[i] = cmd[i]
  BY <1>1
<1>3. CASE entry.star
  BY <1>1, <1>2, <1>3 DEF EntryMatches
<1>4. CASE ~entry.star
  <2>1. /\ entry.words # <<>>
        /\ Len(entry.words) <= Len(cmd)
        /\ \A i \in DOMAIN entry.words : entry.words[i] = cmd[i]
    BY <1>4 DEF EntryMatches
  <2>2. \A i \in DOMAIN entry.words : entry.words[i] = longer[i]
    BY <1>1, <1>2, <2>1
  <2>3. Len(entry.words) <= Len(longer)
    BY <1>1, <1>2, <2>1
  <2>. QED  BY <1>4, <2>1, <2>2, <2>3 DEF EntryMatches
<1>. QED  BY <1>3, <1>4

(* Whoever may run a command may run it with any further argument: no       *)
(* argument takes a permission away (IsCommandAllowed).                     *)
THEOREM ArgumentsKeepPermission ==
    ASSUME NEW tier, NEW authCfg \in AuthBlock, NEW cmd \in Command, NEW w \in Words,
           IsCommandAllowed(tier, cmd, authCfg)
    PROVE  IsCommandAllowed(tier, Append(cmd, w), authCfg)
<1>1. PICK entry \in AllowedEntries(tier, authCfg) : EntryMatches(entry, cmd)
  BY DEF IsCommandAllowed
<1>2. AllowedEntries(tier, authCfg) \subseteq Entry
  BY DEF AllowedEntries, AuthBlock, Tiers
<1>3. EntryMatches(entry, Append(cmd, w))
  BY <1>1, <1>2, EntryCoversArguments
<1>. QED  BY <1>1, <1>3 DEF IsCommandAllowed

(* A higher tier may run every command a lower tier may run, whatever the   *)
(* operator puts into the three lists (IsCommandAllowed).                   *)
THEOREM TiersInherit ==
    ASSUME NEW cmd, NEW authCfg
    PROVE  /\ IsCommandAllowed("anonymous", cmd, authCfg)
                 => IsCommandAllowed("identified", cmd, authCfg)
           /\ IsCommandAllowed("identified", cmd, authCfg)
                 => IsCommandAllowed("trusted", cmd, authCfg)
<1>1. AllowedEntries("anonymous", authCfg) \subseteq AllowedEntries("identified", authCfg)
  BY DEF AllowedEntries
<1>2. AllowedEntries("identified", authCfg) \subseteq AllowedEntries("trusted", authCfg)
  BY DEF AllowedEntries
<1>. QED  BY <1>1, <1>2 DEF IsCommandAllowed

(* The manifest never understates nor overstates what a command needs: a    *)
(* tier may run it exactly when it is not below the announced one, provided *)
(* that anybody may run it at all (tierForCommand).                         *)
THEOREM AnnouncedTierIsExact ==
    ASSUME NEW cmd, NEW authCfg, IsCommandAllowed("trusted", cmd, authCfg)
    PROVE  /\ IsCommandAllowed("anonymous", cmd, authCfg)
                 <=> TierForCommand(cmd, authCfg) = "anonymous"
           /\ IsCommandAllowed("identified", cmd, authCfg)
                 <=> TierForCommand(cmd, authCfg) \in {"anonymous", "identified"}
           /\ IsCommandAllowed(TierForCommand(cmd, authCfg), cmd, authCfg)
  BY TiersInherit DEF TierForCommand

-----------------------------------------------------------------------------
(* Which paths a route admits, for patterns and paths of any length.  What  *)
(* holds at every segment is shown by the first at which it would not.      *)

(* A set of numbers has a least one. *)
LEMMA Least ==
    ASSUME NEW T, T \subseteq Nat, T # {}
    PROVE  \E n \in T : \A m \in T : ~(m < n)
<1>. DEFINE R == {ss \in Nat \X Nat : ss[1] < ss[2]}
<1>1. IsWellFoundedOn(R, Nat)
  BY NatLessThanWellFounded DEF OpToRel
<1>2. \E n \in T : \A m \in T : ~(<<m, n>> \in R)
  <2>. HIDE DEF R
  <2>. QED  BY <1>1, WFMin, Zenon
<1>3. \A m, n \in T : m < n => <<m, n>> \in R
  OBVIOUS
<1>. QED  BY <1>2, <1>3, Zenon

LEMMA CatchAllOf ==
    ASSUME NEW S, NEW pattern \in Seq(S), CatchAllIsLast(pattern), pattern # <<>>
    PROVE  FirstCatchAll(pattern) =
               IF pattern[Len(pattern)] \in CatchAlls THEN {Len(pattern)} ELSE {}
<1>1. DOMAIN pattern = 1 .. Len(pattern) /\ Len(pattern) \in Nat /\ Len(pattern) >= 1
  OBVIOUS
<1>2. ASSUME NEW i \in FirstCatchAll(pattern)
      PROVE  i = Len(pattern) /\ pattern[Len(pattern)] \in CatchAlls
  <2>1. i \in 1 .. Len(pattern) /\ pattern[i] \in CatchAlls
    BY <1>1, <1>2, Zenon DEF FirstCatchAll
  <2>2. i = Len(pattern)
    BY <2>1, Zenon DEF CatchAllIsLast
  <2>. QED  BY <2>1, <2>2, Zenon
<1>3. ASSUME pattern[Len(pattern)] \in CatchAlls
      PROVE  Len(pattern) \in FirstCatchAll(pattern)
  <2>1. Len(pattern) \in DOMAIN pattern
    BY <1>1
  <2>2. ASSUME NEW j \in 1 .. Len(pattern) - 1 PROVE pattern[j] \notin CatchAlls
    <3>0. \A k \in Nat : \A i \in 1 .. k - 1 : i \in 1 .. k /\ i # k
      OBVIOUS
    <3>1. j \in 1 .. Len(pattern) /\ j # Len(pattern)
      BY <1>1, <3>0, Zenon
    <3>. QED  BY <3>1 DEF CatchAllIsLast
  <2>. QED  BY <1>3, <2>1, <2>2 DEF FirstCatchAll
<1>4. CASE pattern[Len(pattern)] \in CatchAlls
  BY <1>2, <1>3, <1>4
<1>5. CASE pattern[Len(pattern)] \notin CatchAlls
  BY <1>2, <1>5
<1>. QED  BY <1>4, <1>5

(* Every segment but a catch-all stands for one, so the path is cut at      *)
(* every segment.                                                           *)
LEMMA CutAtEach ==
    ASSUME NEW S, NEW pattern \in Seq(S), CatchAllIsLast(pattern),
           NEW segments \in Seq(S),
           NEW cut \in [1 .. Len(pattern) + 1 -> 0 .. Len(segments)], cut[1] = 0,
           \A i \in 1 .. Len(pattern) : StandsFor(pattern[i], segments, cut[i], cut[i + 1])
    PROVE  \A i \in 1 .. Len(pattern) : cut[i] = i - 1
<1>. DEFINE n == Len(pattern)
            T == {i \in 1 .. n : cut[i] # i - 1}
<1>0. n \in Nat
  OBVIOUS
<1>. SUFFICES ASSUME T # {} PROVE FALSE
  OBVIOUS
<1>1. T \subseteq Nat
  OBVIOUS
<1>2. PICK i \in T : \A m \in T : ~(m < i)
  <2>. HIDE DEF T
  <2>. QED  BY <1>1, Least, Zenon
<1>3. i \in 2 .. n /\ i - 1 \in 1 .. n /\ i - 1 # n /\ i - 1 < i /\ (i - 1) + 1 = i
  BY <1>0, <1>2
<1>4. cut[i - 1] = (i - 1) - 1
  BY <1>2, <1>3
<1>5. pattern[i - 1] \notin CatchAlls
  BY <1>3 DEF CatchAllIsLast
<1>6. StandsFor(pattern[i - 1], segments, cut[i - 1], cut[i])
  BY <1>3
<1>7. cut[i] = cut[i - 1] + 1
  BY <1>5, <1>6, Zenon DEF StandsFor
<1>. QED  BY <1>2, <1>3, <1>4, <1>7

LEMMA MatchedIsGenerated ==
    ASSUME NEW S, NEW pattern \in Seq(S), pattern # <<>>, CatchAllIsLast(pattern),
           NEW path, path.segments \in Seq(S), RouteMatches(pattern, path)
    PROVE  Generates(pattern, path.segments)
<1>. DEFINE n == Len(pattern)
            s == path.segments
            cut == [i \in 1 .. n + 1 |-> IF i = n + 1 THEN Len(s) ELSE i - 1]
<1>0. n \in Nat /\ n >= 1 /\ Len(s) \in Nat /\ DOMAIN s = 1 .. Len(s)
  OBVIOUS
<1>00. \A k \in Nat : k >= 1 => /\ k - 1 \in Nat /\ k \in 1 .. k /\ (k - 1) + 1 = k
                              /\ (k # 1 => k - 1 \in 1 .. k - 1)
  OBVIOUS
<1>01. /\ n - 1 \in Nat /\ n \in 1 .. n /\ (n - 1) + 1 = n
       /\ (n # 1 => n - 1 \in 1 .. n - 1)
  BY <1>0, <1>00, Zenon
<1>1. /\ SegmentsFit(pattern, s, n - 1)
      /\ IF pattern[n] \in CatchAlls THEN n - 1 <= Len(s)
         ELSE n = Len(s) /\ SegmentsFit(pattern, s, n)
  <2>1. CASE pattern = s
    BY <1>0, <2>1 DEF SegmentsFit
  <2>2. CASE pattern # s /\ pattern[n] \in CatchAlls
    <3>1. SegmentsFit(pattern, s, n - 1)
      BY <2>2, CatchAllOf DEF RouteMatches
    <3>2. n - 1 <= Len(s)
      <4>1. CASE n = 1
        BY <1>0, <4>1
      <4>2. CASE n # 1
        <5>1. n - 1 \in 1 .. n - 1
          BY <1>01, <4>2
        <5>2. n - 1 \in DOMAIN s
          BY <3>1, <5>1, Zenon DEF SegmentsFit
        <5>. QED  BY <1>0, <5>2
      <4>. QED  BY <4>1, <4>2
    <3>. QED  BY <2>2, <3>1, <3>2
  <2>3. CASE pattern # s /\ pattern[n] \notin CatchAlls
    <3>1. n = Len(s) /\ SegmentsFit(pattern, s, n)
      BY <2>3, CatchAllOf DEF RouteMatches
    <3>2. SegmentsFit(pattern, s, n - 1)
      BY <1>0, <3>1 DEF SegmentsFit
    <3>. QED  BY <2>3, <3>1, <3>2
  <2>. QED  BY <2>1, <2>2, <2>3
<1>. HIDE DEF n, s
<1>11. n - 1 <= Len(s)
  <2>1. n - 1 <= Len(s) \/ n = Len(s)
    BY <1>1, Zenon
  <2>2. \A k, l \in Nat : k = l => k - 1 <= l
    OBVIOUS
  <2>. QED  BY <1>0, <2>1, <2>2, Zenon
<1>2. /\ cut \in [1 .. n + 1 -> 0 .. Len(s)] /\ cut[1] = 0 /\ cut[n + 1] = Len(s)
      /\ \A i \in 1 .. n : cut[i] = i - 1
      /\ \A i \in 1 .. n - 1 : cut[i + 1] = i
  <2>1. \A i \in 1 .. n + 1 : i # n + 1 => i - 1 \in 0 .. Len(s)
    BY <1>0, <1>11
  <2>2. cut \in [1 .. n + 1 -> 0 .. Len(s)]
    BY <1>0, <2>1
  <2>3. 1 \in 1 .. n + 1 /\ 1 # n + 1 /\ n + 1 \in 1 .. n + 1 /\ 1 - 1 = 0
    BY <1>0
  <2>4. \A i \in 1 .. n : i \in 1 .. n + 1 /\ i # n + 1
    BY <1>0
  <2>5. \A i \in 1 .. n - 1 : i + 1 \in 1 .. n /\ (i + 1) - 1 = i
    BY <1>0
  <2>6. cut[1] = 0 /\ cut[n + 1] = Len(s)
    BY <2>3, Zenon
  <2>7. \A i \in 1 .. n : cut[i] = i - 1
    BY <2>4, Zenon
  <2>. HIDE DEF cut
  <2>. QED  BY <2>2, <2>5, <2>6, <2>7
<1>. HIDE DEF cut
<1>3. ASSUME NEW i \in 1 .. n PROVE StandsFor(pattern[i], s, cut[i], cut[i + 1])
  <2>1. CASE i # n
    <3>1. i \in 1 .. n - 1 /\ (i - 1) + 1 = i
      BY <1>0, <2>1
    <3>2. cut[i] = i - 1 /\ cut[i + 1] = i
      BY <1>2, <3>1
    <3>3. pattern[i] \notin CatchAlls
      BY <2>1 DEF CatchAllIsLast, n
    <3>4. pattern[i] \in Holes \/ pattern[i] = s[i]
      BY <1>1, <3>1 DEF SegmentsFit
    <3>. QED  BY <3>1, <3>2, <3>3, <3>4 DEF StandsFor
  <2>2. CASE i = n /\ pattern[n] \in CatchAlls
    BY <1>1, <1>2, <2>2 DEF StandsFor
  <2>3. CASE i = n /\ pattern[n] \notin CatchAlls
    <3>1. n = Len(s) /\ (pattern[n] \in Holes \/ pattern[n] = s[n])
      <4>1. n = Len(s) /\ SegmentsFit(pattern, s, n) /\ n \in 1 .. n
        BY <1>01, <1>1, <2>3
      <4>. QED  BY <4>1, Zenon DEF SegmentsFit
    <3>2. cut[n] = n - 1 /\ cut[n + 1] = n /\ (n - 1) + 1 = n
      BY <1>0, <1>2, <3>1
    <3>. QED  BY <2>3, <3>1, <3>2 DEF StandsFor
  <2>. QED  BY <2>1, <2>2, <2>3
<1>. QED  BY <1>2, <1>3 DEF Generates, n, s

LEMMA GeneratedMatches ==
    ASSUME NEW S, NEW pattern \in Seq(S), pattern # <<>>, CatchAllIsLast(pattern),
           NEW path, path.segments \in Seq(S), Generates(pattern, path.segments)
    PROVE  RouteMatches(pattern, path)
<1>. DEFINE n == Len(pattern)
            s == path.segments
<1>0. n \in Nat /\ n >= 1 /\ Len(s) \in Nat /\ DOMAIN s = 1 .. Len(s)
  OBVIOUS
<1>00. \A k \in Nat : k >= 1 => /\ k - 1 \in Nat /\ k \in 1 .. k /\ (k - 1) + 1 = k
                              /\ (k # 1 => k - 1 \in 1 .. k - 1)
  OBVIOUS
<1>01. /\ n - 1 \in Nat /\ n \in 1 .. n /\ (n - 1) + 1 = n
       /\ (n # 1 => n - 1 \in 1 .. n - 1)
  BY <1>0, <1>00, Zenon
<1>1. PICK cut \in [1 .. n + 1 -> 0 .. Len(s)] :
          /\ cut[1] = 0 /\ cut[n + 1] = Len(s)
          /\ \A i \in 1 .. n : StandsFor(pattern[i], s, cut[i], cut[i + 1])
  BY DEF Generates
<1>2. \A i \in 1 .. n : cut[i] = i - 1
  BY <1>1, CutAtEach
<1>3. FirstCatchAll(pattern) = IF pattern[n] \in CatchAlls THEN {n} ELSE {}
  BY CatchAllOf
<1>. HIDE DEF n, s
<1>4. cut[n] = n - 1 /\ StandsFor(pattern[n], s, cut[n], Len(s))
  BY <1>0, <1>1, <1>2
<1>5. n - 1 <= Len(s) /\ (pattern[n] \notin CatchAlls => n = Len(s))
  <2>1. IF pattern[n] \in CatchAlls THEN n - 1 <= Len(s) ELSE Len(s) = (n - 1) + 1
    BY <1>4, Zenon DEF StandsFor
  <2>2. pattern[n] \in CatchAlls => n - 1 <= Len(s)
    BY <2>1, Zenon
  <2>3. pattern[n] \notin CatchAlls => Len(s) = n
    BY <1>01, <2>1, Zenon
  <2>4. \A k, l \in Nat : l = k => k - 1 <= l
    OBVIOUS
  <2>. QED  BY <1>0, <2>2, <2>3, <2>4, Zenon
<1>6. ASSUME NEW i \in 1 .. n, pattern[i] \notin CatchAlls
      PROVE  i \in DOMAIN s /\ (pattern[i] \in Holes \/ pattern[i] = s[i])
  <2>1. cut[i] = i - 1 /\ StandsFor(pattern[i], s, cut[i], cut[i + 1])
    BY <1>1, <1>2
  <2>2. cut[i + 1] = i /\ (pattern[i] \in Holes \/ pattern[i] = s[i])
    BY <1>0, <1>6, <2>1 DEF StandsFor
  <2>3. i <= Len(s)
    <3>1. CASE i = n
      BY <1>5, <1>6, <3>1
    <3>2. CASE i # n
      <4>1. i <= n - 1 /\ i \in Nat
        BY <1>0, <3>2
      <4>2. n - 1 \in Nat /\ n - 1 <= Len(s)
        BY <1>01, <1>5, Zenon
      <4>. QED  BY <1>0, <4>1, <4>2
    <3>. QED  BY <3>1, <3>2
  <2>. QED  BY <1>0, <2>2, <2>3
<1>7. \A i \in 1 .. n - 1 : i \in 1 .. n /\ pattern[i] \notin CatchAlls
  BY <1>0 DEF CatchAllIsLast, n
<1>8. SegmentsFit(pattern, s, n - 1)
  BY <1>6, <1>7 DEF SegmentsFit
<1>9. CASE pattern[n] \in CatchAlls
  <2>1. FirstCatchAll(pattern) = {n}
    BY <1>3, <1>9
  <2>. QED  BY <1>8, <2>1 DEF RouteMatches, n, s
<1>10. CASE pattern[n] \notin CatchAlls
  <2>1. FirstCatchAll(pattern) = {} /\ n = Len(s)
    BY <1>3, <1>5, <1>10
  <2>2. \A i \in 1 .. n : pattern[i] \notin CatchAlls
    BY <1>7, <1>10, <1>0
  <2>3. SegmentsFit(pattern, s, n)
    BY <1>6, <2>2 DEF SegmentsFit
  <2>. QED  BY <2>1, <2>3 DEF RouteMatches, n, s
<1>. QED  BY <1>9, <1>10

(* A route admits the paths it generates and no other, with a query and     *)
(* without, whatever their length (routeMatches).                           *)
THEOREM RoutesAdmitWhatTheyGenerate ==
    ASSUME NEW S, NEW pattern \in Seq(S), pattern # <<>>, CatchAllIsLast(pattern),
           NEW path, path.segments \in Seq(S)
    PROVE  RouteMatches(pattern, path) <=> Generates(pattern, path.segments)
BY MatchedIsGenerated, GeneratedMatches

-----------------------------------------------------------------------------
(* The same of the questions of Decisions, whatever it is made of.          *)

(* Whatever is asked, is asked about a command or a route.                  *)
LEMMA Questions == Asking => [](question \in CommandQuestions \cup RouteQuestions)
<1>1. FirstQuestion => question \in CommandQuestions \cup RouteQuestions
  BY DEF FirstQuestion
<1>2. question \in CommandQuestions \cup RouteQuestions /\ [NextQuestion]_question
        => (question \in CommandQuestions \cup RouteQuestions)'
  <2>. SUFFICES ASSUME question \in CommandQuestions \cup RouteQuestions,
                       [NextQuestion]_question
                PROVE  question' \in CommandQuestions \cup RouteQuestions
    BY DEF CommandQuestions, RouteQuestions
  <2>1. CASE AskCommand
    <3>1. question.kind = "command" /\ "command" # "route"
      BY <2>1 DEF AskCommand
    <3>2. question \in CommandQuestions
      BY <3>1 DEF CommandQuestions, RouteQuestions
    <3>3. PICK c \in Asked : question' = [question EXCEPT !.command = c]
      BY <2>1 DEF AskCommand
    <3>4. question' \in CommandQuestions
      BY <3>2, <3>3 DEF CommandQuestions
    <3>. QED  BY <3>4
  <2>2. CASE AskRoute
    <3>1. question.kind = "route" /\ "command" # "route"
      BY <2>2 DEF AskRoute
    <3>2. question \in RouteQuestions
      BY <3>1 DEF CommandQuestions, RouteQuestions
    <3>3. PICK p \in Paths : question' = [question EXCEPT !.path = p]
      BY <2>2 DEF AskRoute
    <3>4. question' \in RouteQuestions
      BY <3>2, <3>3 DEF RouteQuestions
    <3>. QED  BY <3>4
  <2>3. CASE question' = question
    BY <2>3
  <2>. QED  BY <2>1, <2>2, <2>3 DEF NextQuestion
<1>. QED  BY <1>1, <1>2, PTL DEF Asking

LEMMA RankedTiers ==
    /\ DOMAIN Ranks = 1 .. 3
    /\ Ranks[1] = "anonymous" /\ Ranks[2] = "identified" /\ Ranks[3] = "trusted"
BY DEF Ranks

(* A higher tier may do what a lower one may, for every command and all     *)
(* lists (IsCommandAllowed).                                                *)
THEOREM HigherTiersInherit == Asking => []HigherTiersMayDoMore
<1>1. HigherTiersMayDoMore
  <2>. SUFFICES ASSUME NEW i \in 1 .. 3, NEW j \in 1 .. 3, i <= j, May(Ranks[i])
                PROVE  May(Ranks[j])
    BY RankedTiers DEF HigherTiersMayDoMore
  <2>1. (May("anonymous") => May("identified")) /\ (May("identified") => May("trusted"))
    BY TiersInherit DEF May
  <2>2. i = j \/ (i = 1 /\ j = 2) \/ (i = 1 /\ j = 3) \/ (i = 2 /\ j = 3)
    OBVIOUS
  <2>. QED  BY <2>1, <2>2, RankedTiers
<1>. QED  BY <1>1, PTL

(* The tier the manifest announces for a command that somebody may run is   *)
(* the lowest that may, for every command and all lists (tierForCommand).   *)
THEOREM AnnouncedIsLowest == Asking => []AnnouncedTierIsLowest
<1>1. AnnouncedTierIsLowest
  <2>. DEFINE announced == TierForCommand(question.command, question.authCfg)
  <2>1. May("trusted") =>
          /\ May("anonymous") <=> announced = "anonymous"
          /\ May("identified") <=> announced \in {"anonymous", "identified"}
          /\ May(announced)
    BY AnnouncedTierIsExact DEF May
  <2>. SUFFICES ASSUME May("trusted")
                PROVE  /\ May(announced)
                       /\ \A i, j \in 1 .. 3 : Ranks[j] = announced /\ i < j => ~May(Ranks[i])
    BY RankedTiers DEF AnnouncedTierIsLowest
  <2>. HIDE DEF announced
  <2>2. ASSUME NEW i \in 1 .. 3, NEW j \in 1 .. 3, Ranks[j] = announced, i < j
        PROVE  ~May(Ranks[i])
    <3>1. CASE i = 1 /\ j = 2
      BY <2>1, <2>2, <3>1, RankedTiers
    <3>2. CASE i = 1 /\ j = 3
      BY <2>1, <2>2, <3>2, RankedTiers
    <3>3. CASE i = 2 /\ j = 3
      BY <2>1, <2>2, <3>3, RankedTiers
    <3>. QED  BY <2>2, <3>1, <3>2, <3>3
  <2>. QED  BY <2>1, <2>2
<1>. QED  BY <1>1, PTL

(* A path belongs to a route exactly when the route generates it, for       *)
(* routes and paths of any length (routeMatches).                           *)
THEOREM RoutesGenerate == Asking => []RoutesGenerateTheirPaths
<1>1. question \in CommandQuestions \cup RouteQuestions => RoutesGenerateTheirPaths
  <2>. SUFFICES ASSUME question \in CommandQuestions \cup RouteQuestions,
                       question.kind = "route", CatchAllIsLast(question.pattern)
                PROVE  RouteMatches(question.pattern, question.path)
                         <=> Generates(question.pattern, question.path.segments)
    BY DEF RoutesGenerateTheirPaths
  <2>1. question.pattern \in Patterns /\ question.path \in Paths
    <3>1. "route" # "command"
      OBVIOUS
    <3>. QED  BY <3>1 DEF CommandQuestions, RouteQuestions
  <2>2. /\ question.pattern \in Seq(Segments) /\ question.pattern # <<>>
        /\ question.path.segments \in Seq(Segments)
    BY <2>1, PathsAssumption
  <2>. QED  BY <2>2, RoutesAdmitWhatTheyGenerate
<1>. QED  BY <1>1, Questions, PTL

-----------------------------------------------------------------------------
(* What the limiter's buckets do. *)

LEMMA ProductNat == \A m, n \in Nat : m * n \in Nat
OBVIOUS

LEMMA Distribute == \A m, n, c \in Nat : /\ (m + n) * c = m * c + n * c
                                         /\ c * (m + n) = c * m + c * n
OBVIOUS

LEMMA OneMore == \A m, c \in Nat : (m + 1) * c = m * c + c
OBVIOUS

(* What RateLimiter assumes of its constants holds here. *)
LEMMA LimiterFits == /\ TicksPerSecond \in Nat \ {0}
                     /\ Limits \in [Tiers -> Limiter!LimitSpec]
                     /\ {1} \subseteq Nat
                     /\ MaxTime \in Nat /\ 0 \in Nat
BY TicksAssumption, LimitsAssumption, BoundsAssumption DEF LimitSpec, Limiter!LimitSpec

(* The same operators under two names. *)
LEMMA SameBuckets ==
    ASSUME NEW b, NEW time
    PROVE  /\ Limiter!WellFormed(b, time) <=> WellFormed(b, time)
           /\ Limiter!Level(b, time) = Level(b, time)
           /\ Limiter!Grants(b, time) <=> Grants(b, time)
           /\ Limiter!AfterCall(b, time) = AfterCall(b, time)
BY DEF Limiter!WellFormed, WellFormed, Limiter!Bucket, Bucket, Limiter!Level, Level,
       Limiter!Grants, Grants, Limiter!AfterCall, AfterCall

LEMMA FreshBucket ==
    ASSUME NEW spec \in LimitSpec
    PROVE  WellFormed(ParseBucket(spec, 0), 0)
<1>1. Limiter!ParseBucket(spec, 0) = ParseBucket(spec, 0) /\ spec \in Limiter!LimitSpec
  BY DEF Limiter!ParseBucket, ParseBucket, Limiter!Seconds, Seconds, Limiter!Unlimited, Unlimited,
         Limiter!LimitSpec, LimitSpec
<1>. QED  BY <1>1, Limiter!FreshBucket, SameBuckets, LimiterFits

LEMMA LevelBounds ==
    ASSUME NEW b, NEW time, WellFormed(b, time)
    PROVE  /\ Level(b, time) \in Nat
           /\ Level(b, time) <= b.count * b.period
BY Limiter!LevelBounds, SameBuckets, LimiterFits

LEMMA LevelRises ==
    ASSUME NEW b, NEW time, WellFormed(b, time), NEW d \in Nat
    PROVE  /\ WellFormed(b, time + d)
           /\ Level(b, time + d) <= Level(b, time) + b.count * d
           /\ \/ Level(b, time + d) = Level(b, time) + b.count * d
              \/ Level(b, time + d) = b.count * b.period
BY Limiter!LevelRises, SameBuckets, LimiterFits

LEMMA CallCosts ==
    ASSUME NEW b, NEW time, WellFormed(b, time), b.count > 0
    PROVE  /\ WellFormed(AfterCall(b, time), time)
           /\ AfterCall(b, time).count = b.count
           /\ AfterCall(b, time).period = b.period
           /\ Grants(b, time) =>
                 Level(AfterCall(b, time), time) = Level(b, time) - b.period
           /\ ~Grants(b, time) =>
                 Level(AfterCall(b, time), time) = Level(b, time)
BY Limiter!CallCosts, SameBuckets, LimiterFits

-----------------------------------------------------------------------------

(* What a session forwards is its own. *)

\* A value of SSHWEB_PUBKEY that is under way was given by this client.
Own(s, m) == m.type = "env" => m.value \in said[s]

Heard ==
    /\ \A s \in Sessions :
          /\ info[s].tier = perms[ConnOf[s]].tier
          /\ info[s].fingerprint = perms[ConnOf[s]].fingerprint
          /\ info[s].pubkey = perms[ConnOf[s]].pubkey \/ info[s].pubkey \in said[s]
          /\ \A i \in 1 .. Len(queue[s]) : Own(s, queue[s][i])
    /\ \A c \in Conns : held[c] # <<>> => Own(held[c][1], held[c][2])

\* A command that has called out or has an answer was authorized, and an exec
\* reports once, at its end.
Progress(s) ==
    /\ pc[s] = "requests" => mode[s] = "none"
    /\ pc[s] = "exec" => mode[s] = "exec"
    /\ pc[s] \in {"shell", "admit"} => mode[s] = "shell"
    /\ pc[s] \in {"handler", "backend", "mcp", "writing"} => mode[s] # "none"
    /\ pc[s] \in {"admit", "handler", "backend", "mcp", "writing"} => command[s] # <<>>
    /\ pc[s] \in {"backend", "mcp", "writing"} => Authorized(s)
    /\ mode[s] # "exec" \/ pc[s] # "closed" => status[s] = <<>>
    /\ pc[s] = "requests" => CallsOf(s) = {}
    /\ mode[s] = "exec" /\ pc[s] \in {"exec", "handler"} => CallsOf(s) = {}
    /\ mode[s] = "exec" /\ pc[s] = "closed" =>
          /\ Len(status[s]) = 1
          /\ status[s] = <<2>> <=> command[s] = <<>>
          /\ status[s] = <<3>> => CallsOf(s) = {}
          /\ status[s] = <<0>> => Authorized(s)

\* What a tier was granted and what its bucket would hold now are together
\* within a full bucket and what the rate brought in.
Account(t) ==
    bucket[t].count > 0 =>
        ran[t] * bucket[t].period + Level(bucket[t], now)
            <= bucket[t].count * bucket[t].period + bucket[t].count * now

IInv ==
    /\ TypeOK
    /\ Heard
    /\ BackendHearsHandshake
    /\ OnlyAllowedCallsOut
    /\ \A s \in Sessions : Progress(s)
    /\ \A t \in Tiers : Account(t)

-----------------------------------------------------------------------------
(* Facts about messages and queues. *)

LEMMA MessageFields ==
    ASSUME NEW m \in Messages
    PROVE  /\ m.type \in {"env", "exec", "shell", "noise", "line"}
           /\ m.type # "line" => m \in Requests
           /\ m.type = "env" => m.value \in EnvValues
           /\ m.type = "exec" => m.command \in Seq(Words)
           /\ m.type = "line" => m.command \in Seq(Words) /\ m \notin Requests
<1>1. CASE m \in Requests
  BY <1>1, WordsAssumption DEF Requests
<1>2. CASE m \in [type : {"line"}, command : Lines]
  <2>1. m.type = "line" /\ m.command \in Lines
    BY <1>2
  <2>2. m \notin Requests
    BY <2>1 DEF Requests
  <2>. QED  BY <2>1, <2>2, WordsAssumption
<1>. QED  BY <1>1, <1>2 DEF Messages

LEMMA RequestFields ==
    ASSUME NEW m \in Requests
    PROVE  /\ m.type \in {"env", "exec", "shell", "noise"}
           /\ m.type = "env" => m.value \in EnvValues
           /\ m.type = "exec" => m.command \in Seq(Words)
BY MessageFields DEF Messages, Requests

(* A queue of which the head is taken. *)
LEMMA TakeHead ==
    ASSUME NEW S, NEW q \in Seq(S), q # <<>>
    PROVE  /\ Head(q) \in S /\ Head(q) = q[1] /\ 1 \in 1 .. Len(q) /\ Len(q) \in Nat
           /\ Tail(q) \in Seq(S)
           /\ Len(Tail(q)) = Len(q) - 1
           /\ \A i \in 1 .. Len(Tail(q)) : i + 1 \in 1 .. Len(q) /\ Tail(q)[i] = q[i + 1]
OBVIOUS

(* A queue to which an element is added. *)
LEMMA AddLast ==
    ASSUME NEW S, NEW q \in Seq(S), NEW e \in S
    PROVE  /\ Append(q, e) \in Seq(S)
           /\ Len(Append(q, e)) = Len(q) + 1 /\ Len(q) \in Nat
           /\ \A i \in 1 .. Len(Append(q, e)) :
                 \/ i \in 1 .. Len(q) /\ Append(q, e)[i] = q[i]
                 \/ Append(q, e)[i] = e
OBVIOUS

-----------------------------------------------------------------------------
(* What an action leaves alone keeps its part of the invariant. *)

LEMMA BucketsWellFormed ==
    ASSUME TypeOK, NEW t \in Tiers
    PROVE  WellFormed(bucket[t], now)
BY DEF TypeOK, WellFormed, Bucket

LEMMA HeardSame ==
    ASSUME Heard, UNCHANGED <<perms, info, queue, held, said>>
    PROVE  Heard'
BY DEF Heard, Own

(* A client may have given its session more values meanwhile. *)
LEMMA CallsSame ==
    ASSUME TypeOK, BackendHearsHandshake, OnlyAllowedCallsOut,
           UNCHANGED <<perms, calls>>, \A s \in Sessions : said[s] \subseteq said'[s]
    PROVE  BackendHearsHandshake' /\ OnlyAllowedCallsOut'
<1>1. \A c \in calls : c.session \in Sessions
  BY DEF TypeOK
<1>2. BackendHearsHandshake'
  BY <1>1 DEF BackendHearsHandshake
<1>3. OnlyAllowedCallsOut'
  BY DEF OnlyAllowedCallsOut
<1>. QED  BY <1>2, <1>3

LEMMA ProgressSame ==
    ASSUME NEW s \in Sessions, Progress(s),
           pc'[s] = pc[s], mode'[s] = mode[s], command'[s] = command[s],
           status'[s] = status[s], info'[s].tier = info[s].tier, CallsOf(s)' = CallsOf(s)
    PROVE  Progress(s)'
<1>1. Authorized(s)' <=> Authorized(s)
  BY DEF Authorized, Verb
<1>. QED  BY <1>1 DEF Progress

LEMMA AccountSame ==
    ASSUME UNCHANGED <<bucket, ran, now>>, \A t \in Tiers : Account(t)
    PROVE  \A t \in Tiers : Account(t)'
BY DEF Account

-----------------------------------------------------------------------------

LEMMA InitIInv == Init => IInv
<1>. SUFFICES ASSUME Init PROVE IInv
  OBVIOUS
<1>1. \A t \in Tiers : WellFormed(bucket[t], 0)
  BY FreshBucket, LimitsAssumption DEF Init
<1>2. info \in [Sessions -> Identity]
      /\ \A s \in Sessions : info[s] = perms[ConnOf[s]] /\ info[s] \in Perms
  <2>1. \A s \in Sessions : info[s] = perms[ConnOf[s]] /\ info[s] \in Perms
    BY ConnsAssumption DEF Init
  <2>2. Perms \subseteq Identity
    BY PermsAssumption DEF Identity
  <2>3. info = [s \in Sessions |-> perms[ConnOf[s]]]
    BY DEF Init
  <2>. QED  BY <2>1, <2>2, <2>3
<1>3. TypeOK
  <2>1. bucket \in [Tiers -> [count : Nat, period : Nat \ {0}, tokens : Nat, last : Nat]]
        /\ \A t \in Tiers : /\ bucket[t].tokens <= bucket[t].count * bucket[t].period
                            /\ bucket[t].last <= now
    BY <1>1 DEF Init, WellFormed, Bucket
  <2>2. held \in [Conns -> {<<>>} \cup (Sessions \X Requests)]
    BY DEF Init
  <2>3. queue \in [Sessions -> Seq(Requests)] /\ \A s \in Sessions : Len(queue[s]) <= QueueSize
    BY BoundsAssumption DEF Init
  <2>4. input \in [Sessions -> [some : BOOLEAN, words : Seq(Words)]]
    BY DEF Init, NoInput
  <2>5. perms \in [Conns -> Perms] /\ now \in Nat
    BY DEF Init
  <2>6. /\ sent \in [Sessions -> Nat] /\ hungUp \in [Sessions -> BOOLEAN]
        /\ command \in [Sessions -> Seq(Words)] /\ status \in [Sessions -> Seq(0 .. 3)]
        /\ calls = {} /\ ran \in [Tiers -> Nat] /\ said \in [Sessions -> SUBSET EnvValues]
        /\ pc = [s \in Sessions |-> "requests"] /\ mode = [s \in Sessions |-> "none"]
    BY DEF Init
  <2>. QED  BY <1>2, <2>1, <2>2, <2>3, <2>4, <2>5, <2>6 DEF TypeOK
<1>4. Heard
  BY <1>2 DEF Init, Heard
<1>5. BackendHearsHandshake /\ OnlyAllowedCallsOut
  BY DEF Init, BackendHearsHandshake, OnlyAllowedCallsOut
<1>6. \A s \in Sessions : Progress(s)
  BY DEF Init, Progress, CallsOf
<1>7. \A t \in Tiers : Account(t)
  <2>. SUFFICES ASSUME NEW t \in Tiers
                PROVE  0 * bucket[t].period + Level(bucket[t], 0)
                          <= bucket[t].count * bucket[t].period + bucket[t].count * 0
    BY DEF Init, Account
  <2>1. /\ Level(bucket[t], 0) \in Nat /\ Level(bucket[t], 0) <= bucket[t].count * bucket[t].period
        /\ bucket[t].count * bucket[t].period \in Nat
        /\ bucket[t].count * 0 = 0 /\ 0 * bucket[t].period = 0
    BY <1>1, LevelBounds, ProductNat DEF WellFormed, Bucket
  <2>. QED  BY <2>1
<1>. QED  BY <1>3, <1>4, <1>5, <1>6, <1>7 DEF IInv

-----------------------------------------------------------------------------
(* One lemma per action: first what the client and the transport do. *)

(* These leave the sessions' goroutines alone. *)
LEMMA OutsideIInv ==
    ASSUME IInv, TypeOK', Heard',
           UNCHANGED <<perms, pc, mode, info, command, status, calls>>,
           \A s \in Sessions : said[s] \subseteq said'[s],
           \A t \in Tiers : Account(t)'
    PROVE  IInv'
<1>1. BackendHearsHandshake' /\ OnlyAllowedCallsOut'
  BY CallsSame DEF IInv
<1>2. \A s \in Sessions : Progress(s)'
  BY ProgressSame DEF IInv, CallsOf
<1>. QED  BY <1>1, <1>2 DEF IInv

LEMMA SendIInv ==
    ASSUME IInv, NEW s \in Sessions, NEW m \in Messages, Send(s, m)
    PROVE  IInv'
<1>. DEFINE c == ConnOf[s]
<1>1. /\ c \in Conns /\ held[c] = <<>>
      /\ sent' = [sent EXCEPT ![s] = sent[s] + 1]
      /\ said' = IF m.type = "env" THEN [said EXCEPT ![s] = said[s] \cup {m.value}] ELSE said
      /\ now' = now /\ bucket' = bucket /\ perms' = perms /\ hungUp' = hungUp /\ pc' = pc
      /\ mode' = mode /\ info' = info /\ command' = command /\ status' = status
      /\ calls' = calls /\ ran' = ran
  BY ConnsAssumption DEF Send
<1>2. \/ /\ m.type = "line"
         /\ input' = [input EXCEPT ![s] = [some |-> TRUE, words |-> input[s].words \o m.command]]
         /\ queue' = queue /\ held' = held
      \/ /\ m \in Requests /\ Len(queue[s]) < QueueSize
         /\ queue' = [queue EXCEPT ![s] = Append(queue[s], m)]
         /\ held' = held /\ input' = input
      \/ /\ m \in Requests
         /\ held' = [held EXCEPT ![c] = <<s, m>>]
         /\ queue' = queue /\ input' = input
  BY DEF Send
<1>3. /\ said' \in [Sessions -> SUBSET EnvValues]
      /\ \A r \in Sessions : said[r] \subseteq said'[r]
      /\ m.type = "env" => m.value \in said'[s]
  BY <1>1, MessageFields DEF IInv, TypeOK
<1>4. TypeOK'
  <2>0. sent' \in [Sessions -> Nat]
    BY <1>1 DEF IInv, TypeOK
  <2>1. CASE m.type = "line" /\ queue' = queue /\ held' = held
             /\ input' = [input EXCEPT ![s] = [some |-> TRUE, words |-> input[s].words \o m.command]]
    <3>1. input[s].words \o m.command \in Seq(Words)
      BY <2>1, MessageFields, ConcatProperties DEF IInv, TypeOK
    <3>2. input' \in [Sessions -> [some : BOOLEAN, words : Seq(Words)]]
      BY <2>1, <3>1 DEF IInv, TypeOK
    <3>3. queue' = queue /\ held' = held
      BY <2>1
    <3>. QED  BY <1>1, <1>3, <2>0, <3>2, <3>3 DEF IInv, TypeOK
  <2>2. CASE m \in Requests /\ Len(queue[s]) < QueueSize /\ held' = held /\ input' = input
             /\ queue' = [queue EXCEPT ![s] = Append(queue[s], m)]
    <3>1. Append(queue[s], m) \in Seq(Requests) /\ Len(Append(queue[s], m)) <= QueueSize
      BY <2>2, AddLast, BoundsAssumption DEF IInv, TypeOK
    <3>2. queue' \in [Sessions -> Seq(Requests)] /\ \A r \in Sessions : Len(queue'[r]) <= QueueSize
      BY <2>2, <3>1 DEF IInv, TypeOK
    <3>. QED  BY <1>1, <1>3, <2>0, <2>2, <3>2 DEF IInv, TypeOK
  <2>3. CASE m \in Requests /\ held' = [held EXCEPT ![c] = <<s, m>>]
             /\ queue' = queue /\ input' = input
    <3>1. held' \in [Conns -> {<<>>} \cup (Sessions \X Requests)]
      BY <1>1, <2>3 DEF IInv, TypeOK
    <3>. QED  BY <1>1, <1>3, <2>0, <2>3, <3>1 DEF IInv, TypeOK
  <2>. QED  BY <1>2, <2>1, <2>2, <2>3
<1>5. Heard'
  <2>1. \A r \in Sessions : \A n : Own(r, n) => Own(r, n)'
    BY <1>3 DEF Own
  <2>2. Own(s, m)'
    BY <1>3 DEF Own
  <2>3. \A r \in Sessions : \A i \in 1 .. Len(queue'[r]) :
            \/ i \in 1 .. Len(queue[r]) /\ queue'[r][i] = queue[r][i]
            \/ r = s /\ queue'[r][i] = m
    <3>1. CASE queue' = queue
      BY <3>1
    <3>2. CASE m \in Requests /\ queue' = [queue EXCEPT ![s] = Append(queue[s], m)]
      <4>1. queue[s] \in Seq(Requests)
        BY DEF IInv, TypeOK
      <4>2. \A i \in 1 .. Len(Append(queue[s], m)) :
               \/ i \in 1 .. Len(queue[s]) /\ Append(queue[s], m)[i] = queue[s][i]
               \/ Append(queue[s], m)[i] = m
        BY <3>2, <4>1, AddLast
      <4>3. \A r \in Sessions : queue'[r] = IF r = s THEN Append(queue[s], m) ELSE queue[r]
        BY <3>2 DEF IInv, TypeOK
      <4>. QED  BY <4>2, <4>3
    <3>. QED  BY <1>2, <3>1, <3>2
  <2>4. \A r \in Sessions : \A i \in 1 .. Len(queue'[r]) : Own(r, queue[r][i])'
    BY <2>1, <2>2, <2>3 DEF IInv, Heard
  <2>5. \A d \in Conns : held'[d] # <<>> => Own(held[d][1], held[d][2])'
    <3>. SUFFICES ASSUME NEW d \in Conns, held'[d] # <<>> PROVE Own(held[d][1], held[d][2])'
      OBVIOUS
    <3>1. CASE held'[d] = held[d]
      <4>1. held[d] \in Sessions \X Requests
        BY <3>1 DEF IInv, TypeOK
      <4>. QED  BY <2>1, <3>1, <4>1 DEF IInv, Heard
    <3>2. CASE held'[d] = <<s, m>>
      BY <2>2, <3>2
    <3>. QED  BY <1>1, <1>2, <3>1, <3>2 DEF IInv, TypeOK
  <2>. QED  BY <1>1, <1>3, <2>4, <2>5 DEF IInv, Heard
<1>. QED  BY <1>1, <1>3, <1>4, <1>5, AccountSame, OutsideIInv DEF IInv

LEMMA DeliverIInv ==
    ASSUME IInv, NEW c \in Conns, Deliver(c)
    PROVE  IInv'
<1>1. PICK s \in Sessions, m \in Requests :
         /\ held[c] = <<s, m>>
         /\ Len(queue[s]) < QueueSize
         /\ queue' = [queue EXCEPT ![s] = Append(queue[s], m)]
  <2>1. held[c] \in Sessions \X Requests
    BY DEF Deliver, IInv, TypeOK
  <2>2. PICK s \in Sessions, m \in Requests : held[c] = <<s, m>>
    BY <2>1
  <2>3. held[c][1] = s /\ held[c][2] = m
    BY <2>2
  <2>. QED  BY <2>2, <2>3 DEF Deliver
<1>2. /\ held' = [held EXCEPT ![c] = <<>>]
      /\ now' = now /\ bucket' = bucket /\ perms' = perms /\ sent' = sent /\ input' = input
      /\ hungUp' = hungUp /\ pc' = pc /\ mode' = mode /\ info' = info /\ command' = command
      /\ status' = status /\ calls' = calls /\ ran' = ran /\ said' = said
  BY DEF Deliver
<1>3. /\ queue[s] \in Seq(Requests)
      /\ Append(queue[s], m) \in Seq(Requests) /\ Len(Append(queue[s], m)) <= QueueSize
      /\ \A i \in 1 .. Len(Append(queue[s], m)) :
            \/ i \in 1 .. Len(queue[s]) /\ Append(queue[s], m)[i] = queue[s][i]
            \/ Append(queue[s], m)[i] = m
  <2>1. queue[s] \in Seq(Requests)
    BY DEF IInv, TypeOK
  <2>. QED  BY <1>1, <2>1, AddLast, BoundsAssumption
<1>4. TypeOK'
  <2>1. queue' \in [Sessions -> Seq(Requests)] /\ \A r \in Sessions : Len(queue'[r]) <= QueueSize
    BY <1>1, <1>3 DEF IInv, TypeOK
  <2>2. held' \in [Conns -> {<<>>} \cup (Sessions \X Requests)]
    BY <1>2 DEF IInv, TypeOK
  <2>. QED  BY <1>2, <2>1, <2>2 DEF IInv, TypeOK
<1>5. Heard'
  <2>1. \A r \in Sessions : \A n : Own(r, n) <=> Own(r, n)'
    BY <1>2 DEF Own
  <2>2. Own(s, m)
    BY <1>1 DEF IInv, Heard
  <2>3. \A r \in Sessions : queue'[r] = IF r = s THEN Append(queue[s], m) ELSE queue[r]
    BY <1>1 DEF IInv, TypeOK
  <2>4. \A r \in Sessions : \A i \in 1 .. Len(queue'[r]) : Own(r, queue'[r][i])
    BY <1>3, <2>2, <2>3 DEF IInv, Heard
  <2>5. \A d \in Conns : held'[d] # <<>> => held'[d] = held[d] /\ held[d] \in Sessions \X Requests
    BY <1>2 DEF IInv, TypeOK
  <2>6. \A d \in Conns : held'[d] # <<>> => Own(held'[d][1], held'[d][2])
    BY <2>5 DEF IInv, Heard
  <2>. QED  BY <1>2, <2>4, <2>6 DEF IInv, Heard, Own
<1>. QED  BY <1>2, <1>4, <1>5, AccountSame, OutsideIInv DEF IInv

LEMMA HangUpIInv ==
    ASSUME IInv, NEW c \in Conns, HangUp(c)
    PROVE  IInv'
<1>1. /\ hungUp' = [s \in Sessions |-> hungUp[s] \/ ConnOf[s] = c]
      /\ now' = now /\ bucket' = bucket /\ perms' = perms /\ held' = held /\ sent' = sent
      /\ queue' = queue /\ input' = input /\ pc' = pc /\ mode' = mode /\ info' = info
      /\ command' = command /\ status' = status /\ calls' = calls /\ ran' = ran /\ said' = said
  BY DEF HangUp
<1>2. hungUp' \in [Sessions -> BOOLEAN]
  BY <1>1
<1>3. TypeOK'
  BY <1>1, <1>2 DEF IInv, TypeOK
<1>. QED  BY <1>1, <1>3, HeardSame, AccountSame, OutsideIInv DEF IInv

(* Time passes: a bucket gains at most what its rate brings in. *)
LEMMA TickIInv ==
    ASSUME IInv, Tick
    PROVE  IInv'
<1>1. /\ now' = now + 1 /\ now \in Nat
      /\ bucket' = bucket /\ perms' = perms /\ held' = held /\ sent' = sent
      /\ queue' = queue /\ input' = input /\ hungUp' = hungUp /\ pc' = pc /\ mode' = mode
      /\ info' = info /\ command' = command /\ status' = status /\ calls' = calls
      /\ ran' = ran /\ said' = said
  BY DEF Tick, client, IInv, TypeOK
<1>2. TypeOK'
  <2>1. now' \in Nat /\ \A t \in Tiers : bucket[t].last \in Nat /\ bucket[t].last <= now
    BY <1>1 DEF IInv, TypeOK
  <2>2. \A t \in Tiers : bucket[t].last <= now'
    BY <1>1, <2>1
  <2>. QED  BY <1>1, <2>1, <2>2 DEF IInv, TypeOK
<1>3. \A t \in Tiers : Account(t)'
  <2>. SUFFICES ASSUME NEW t \in Tiers, bucket[t].count > 0
                PROVE  ran[t] * bucket[t].period + Level(bucket[t], now + 1)
                          <= bucket[t].count * bucket[t].period + bucket[t].count * (now + 1)
    BY <1>1 DEF Account
  <2>. DEFINE b == bucket[t]
              was == Level(b, now)
              is == Level(b, now + 1)
  <2>1. WellFormed(b, now)
    BY BucketsWellFormed DEF IInv
  <2>2. is <= was + b.count * 1 /\ WellFormed(b, now + 1)
    BY <2>1, LevelRises
  <2>3. was \in Nat /\ is \in Nat
    BY <2>1, <2>2, LevelBounds
  <2>4. b.count \in Nat /\ b.period \in Nat /\ ran[t] \in Nat
    BY <2>1 DEF WellFormed, Bucket, IInv, TypeOK
  <2>5. ran[t] * b.period \in Nat /\ b.count * b.period \in Nat /\ b.count * now \in Nat
    BY <1>1, <2>4, ProductNat
  <2>6. b.count * (now + 1) = b.count * now + b.count * 1 /\ b.count * 1 = b.count
    <3>1. \A n \in Nat : n * (now + 1) = n * now + n * 1
      BY <1>1, Distribute
    <3>2. \A n \in Nat : n * 1 = n
      OBVIOUS
    <3>. QED  BY <2>4, <3>1, <3>2
  <2>7. ran[t] * b.period + was <= b.count * b.period + b.count * now
    BY DEF IInv, Account
  <2>. HIDE DEF b, was, is
  <2>8. ran[t] * b.period + is <= b.count * b.period + b.count * (now + 1)
    BY <2>2, <2>3, <2>4, <2>5, <2>6, <2>7
  <2>. QED  BY <2>8 DEF b, was, is
<1>. QED  BY <1>1, <1>2, <1>3, HeardSame, OutsideIInv DEF IInv

-----------------------------------------------------------------------------
(* The request loop. *)

(* The request the loop takes, and what stays in the queue. *)
LEMMA LoopTakes ==
    ASSUME TypeOK, Heard, NEW s \in Sessions, queue[s] # <<>>,
           queue' = [queue EXCEPT ![s] = Tail(queue[s])]
    PROVE  /\ Head(queue[s]) \in Requests
           /\ Own(s, Head(queue[s]))
           /\ queue' \in [Sessions -> Seq(Requests)]
           /\ \A r \in Sessions : Len(queue'[r]) <= QueueSize
           /\ \A r \in Sessions : \A i \in 1 .. Len(queue'[r]) : Own(r, queue'[r][i])
<1>1. queue[s] \in Seq(Requests)
  BY DEF TypeOK
<1>2. /\ Head(queue[s]) \in Requests /\ Head(queue[s]) = queue[s][1] /\ 1 \in 1 .. Len(queue[s])
      /\ Tail(queue[s]) \in Seq(Requests) /\ Len(queue[s]) \in Nat
      /\ Len(Tail(queue[s])) = Len(queue[s]) - 1
      /\ \A i \in 1 .. Len(Tail(queue[s])) :
            i + 1 \in 1 .. Len(queue[s]) /\ Tail(queue[s])[i] = queue[s][i + 1]
  BY <1>1, TakeHead
<1>3. \A r \in Sessions : queue'[r] = IF r = s THEN Tail(queue[s]) ELSE queue[r]
  BY DEF TypeOK
<1>4. Len(Tail(queue[s])) <= QueueSize
  <2>1. Len(queue[s]) <= QueueSize /\ QueueSize \in Nat
    BY BoundsAssumption DEF TypeOK
  <2>. QED  BY <1>2, <2>1
<1>5. queue' \in [Sessions -> Seq(Requests)] /\ \A r \in Sessions : Len(queue'[r]) <= QueueSize
  BY <1>2, <1>3, <1>4 DEF TypeOK
<1>6. Own(s, Head(queue[s]))
  BY <1>2 DEF Heard
<1>7. \A i \in 1 .. Len(Tail(queue[s])) : Own(s, Tail(queue[s])[i])
  BY <1>2 DEF Heard
<1>8. \A r \in Sessions : \A i \in 1 .. Len(queue'[r]) : Own(r, queue'[r][i])
  BY <1>3, <1>7 DEF Heard
<1>. QED  BY <1>2, <1>5, <1>6, <1>8

LEMMA NoiseIInv ==
    ASSUME IInv, NEW s \in Sessions, Noise(s)
    PROVE  IInv'
<1>1. /\ queue[s] # <<>> /\ queue' = [queue EXCEPT ![s] = Tail(queue[s])]
      /\ now' = now /\ bucket' = bucket /\ perms' = perms /\ held' = held /\ sent' = sent
      /\ input' = input /\ hungUp' = hungUp /\ pc' = pc /\ mode' = mode /\ info' = info
      /\ command' = command /\ status' = status /\ calls' = calls /\ ran' = ran /\ said' = said
  BY DEF Noise
<1>2. /\ queue' \in [Sessions -> Seq(Requests)]
      /\ \A r \in Sessions : Len(queue'[r]) <= QueueSize
      /\ \A r \in Sessions : \A i \in 1 .. Len(queue'[r]) : Own(r, queue'[r][i])
  BY <1>1, LoopTakes DEF IInv
<1>3. TypeOK'
  BY <1>1, <1>2 DEF IInv, TypeOK
<1>4. Heard'
  BY <1>1, <1>2 DEF IInv, Heard, Own
<1>. QED  BY <1>1, <1>3, <1>4, AccountSame, OutsideIInv DEF IInv

LEMMA SetEnvIInv ==
    ASSUME IInv, NEW s \in Sessions, SetEnv(s)
    PROVE  IInv'
<1>. DEFINE value == Head(queue[s]).value
<1>1. /\ pc[s] = "requests" /\ queue[s] # <<>> /\ Head(queue[s]).type = "env"
      /\ queue' = [queue EXCEPT ![s] = Tail(queue[s])]
      /\ info' = [info EXCEPT ![s] = [info[s] EXCEPT !.pubkey = value]]
      /\ now' = now /\ bucket' = bucket /\ perms' = perms /\ held' = held /\ sent' = sent
      /\ input' = input /\ hungUp' = hungUp /\ pc' = pc /\ mode' = mode
      /\ command' = command /\ status' = status /\ calls' = calls /\ ran' = ran /\ said' = said
  BY DEF SetEnv
<1>2. /\ queue' \in [Sessions -> Seq(Requests)]
      /\ \A r \in Sessions : Len(queue'[r]) <= QueueSize
      /\ \A r \in Sessions : \A i \in 1 .. Len(queue'[r]) : Own(r, queue'[r][i])
      /\ value \in EnvValues /\ value \in said[s]
  BY <1>1, LoopTakes, RequestFields DEF IInv, Own
<1>. HIDE DEF value
<1>3. /\ info' \in [Sessions -> Identity]
      /\ \A r \in Sessions : /\ info'[r].tier = info[r].tier
                             /\ info'[r].fingerprint = info[r].fingerprint
                             /\ info'[r].pubkey = IF r = s THEN value ELSE info[r].pubkey
  <2>1. info \in [Sessions -> Identity] /\ value \in STRING
    BY <1>2, WordsAssumption DEF IInv, TypeOK
  <2>2. /\ [info[s] EXCEPT !.pubkey = value] \in Identity
        /\ [info[s] EXCEPT !.pubkey = value].tier = info[s].tier
        /\ [info[s] EXCEPT !.pubkey = value].fingerprint = info[s].fingerprint
        /\ [info[s] EXCEPT !.pubkey = value].pubkey = value
    BY <2>1 DEF Identity
  <2>. QED  BY <1>1, <2>1, <2>2
<1>4. TypeOK'
  BY <1>1, <1>2, <1>3 DEF IInv, TypeOK
<1>5. Heard'
  BY <1>1, <1>2, <1>3 DEF IInv, Heard, Own
<1>6. BackendHearsHandshake' /\ OnlyAllowedCallsOut'
  BY <1>1, CallsSame DEF IInv
<1>7. \A r \in Sessions : Progress(r)'
  BY <1>1, <1>3, ProgressSame DEF IInv, CallsOf
<1>. QED  BY <1>1, <1>4, <1>5, <1>6, <1>7, AccountSame DEF IInv

LEMMA StartIInv ==
    ASSUME IInv, NEW s \in Sessions, Start(s)
    PROVE  IInv'
<1>. DEFINE type == Head(queue[s]).type
<1>1. /\ pc[s] = "requests" /\ queue[s] # <<>> /\ type \in {"exec", "shell"}
      /\ queue' = [queue EXCEPT ![s] = Tail(queue[s])]
      /\ mode' = [mode EXCEPT ![s] = type] /\ pc' = [pc EXCEPT ![s] = type]
      /\ command' = IF type = "exec" THEN [command EXCEPT ![s] = Head(queue[s]).command]
                    ELSE command
      /\ now' = now /\ bucket' = bucket /\ perms' = perms /\ held' = held /\ sent' = sent
      /\ input' = input /\ hungUp' = hungUp /\ info' = info
      /\ status' = status /\ calls' = calls /\ ran' = ran /\ said' = said
  BY DEF Start
<1>2. /\ queue' \in [Sessions -> Seq(Requests)]
      /\ \A r \in Sessions : Len(queue'[r]) <= QueueSize
      /\ \A r \in Sessions : \A i \in 1 .. Len(queue'[r]) : Own(r, queue'[r][i])
      /\ type = "exec" => Head(queue[s]).command \in Seq(Words)
  BY <1>1, LoopTakes, RequestFields DEF IInv
<1>. HIDE DEF type
<1>3. TypeOK'
  <2>1. command' \in [Sessions -> Seq(Words)]
    BY <1>1, <1>2 DEF IInv, TypeOK
  <2>. QED  BY <1>1, <1>2, <2>1 DEF IInv, TypeOK
<1>4. Heard'
  BY <1>1, <1>2 DEF IInv, Heard, Own
<1>5. BackendHearsHandshake' /\ OnlyAllowedCallsOut'
  BY <1>1, CallsSame DEF IInv
<1>6. \A r \in Sessions : Progress(r)'
  <2>. SUFFICES ASSUME NEW r \in Sessions PROVE Progress(r)'
    OBVIOUS
  <2>1. CASE r # s
    BY <1>1, <2>1, ProgressSame DEF IInv, TypeOK, CallsOf
  <2>2. CASE r = s
    <3>1. pc'[s] = type /\ mode'[s] = type
      BY <1>1 DEF IInv, TypeOK
    <3>2. CallsOf(s)' = {} /\ status'[s] = <<>>
      BY <1>1 DEF IInv, Progress, CallsOf
    <3>. QED  BY <1>1, <2>2, <3>1, <3>2 DEF Progress
  <2>. QED  BY <2>1, <2>2
<1>. QED  BY <1>1, <1>3, <1>4, <1>5, <1>6, AccountSame DEF IInv

LEMMA EndIInv ==
    ASSUME IInv, NEW s \in Sessions, EndOfRequests(s) \/ EndOfInput(s)
    PROVE  IInv'
<1>1. /\ pc[s] \in {"requests", "shell"} /\ pc' = [pc EXCEPT ![s] = "closed"]
      /\ now' = now /\ bucket' = bucket /\ perms' = perms /\ held' = held /\ sent' = sent
      /\ queue' = queue /\ input' = input /\ hungUp' = hungUp /\ mode' = mode /\ info' = info
      /\ command' = command /\ status' = status /\ calls' = calls /\ ran' = ran /\ said' = said
  BY DEF EndOfRequests, EndOfInput, client
<1>2. TypeOK'
  BY <1>1 DEF IInv, TypeOK
<1>3. BackendHearsHandshake' /\ OnlyAllowedCallsOut'
  BY <1>1, CallsSame DEF IInv
<1>4. \A r \in Sessions : Progress(r)'
  <2>. SUFFICES ASSUME NEW r \in Sessions PROVE Progress(r)'
    OBVIOUS
  <2>1. CASE r # s
    BY <1>1, <2>1, ProgressSame DEF IInv, TypeOK, CallsOf
  <2>2. CASE r = s
    <3>1. pc'[s] = "closed" /\ mode'[s] # "exec" /\ status'[s] = <<>>
      BY <1>1 DEF IInv, TypeOK, Progress
    <3>. QED  BY <2>2, <3>1 DEF Progress
  <2>. QED  BY <2>1, <2>2
<1>. QED  BY <1>1, <1>2, <1>3, <1>4, HeardSame, AccountSame DEF IInv

-----------------------------------------------------------------------------
(* Commands. *)

LEMMA ReadLineIInv ==
    ASSUME IInv, NEW s \in Sessions, ReadLine(s)
    PROVE  IInv'
<1>. DEFINE line == input[s].words
<1>1. /\ pc[s] = "shell" /\ input' = [input EXCEPT ![s] = NoInput]
      /\ command' = [command EXCEPT ![s] = line]
      /\ now' = now /\ bucket' = bucket /\ perms' = perms /\ held' = held /\ sent' = sent
      /\ queue' = queue /\ hungUp' = hungUp /\ mode' = mode /\ info' = info
      /\ status' = status /\ calls' = calls /\ ran' = ran /\ said' = said
  BY DEF ReadLine
<1>2. \/ pc' = [pc EXCEPT ![s] = "shell"]
      \/ pc' = [pc EXCEPT ![s] = "closed"]
      \/ line # <<>> /\ pc' = [pc EXCEPT ![s] = "admit"]
  <2>1. CASE line = <<>>
    BY <2>1 DEF ReadLine
  <2>2. CASE line # <<>> /\ line \in {<<"quit">>, <<"exit">>}
    BY <2>2 DEF ReadLine
  <2>3. CASE line # <<>> /\ line \notin {<<"quit">>, <<"exit">>}
    BY <2>3 DEF ReadLine
  <2>. QED  BY <2>1, <2>2, <2>3
<1>3. line \in Seq(Words)
  BY DEF IInv, TypeOK
<1>. HIDE DEF line
<1>4. TypeOK'
  <2>1. NoInput \in [some : BOOLEAN, words : Seq(Words)]
    BY DEF NoInput
  <2>2. input' \in [Sessions -> [some : BOOLEAN, words : Seq(Words)]]
    BY <1>1, <2>1 DEF IInv, TypeOK
  <2>3. command' \in [Sessions -> Seq(Words)]
    BY <1>1, <1>3 DEF IInv, TypeOK
  <2>4. pc' \in [Sessions -> {"requests", "exec", "shell", "admit", "handler", "backend",
                              "mcp", "writing", "closed"}]
    BY <1>2 DEF IInv, TypeOK
  <2>. QED  BY <1>1, <2>2, <2>3, <2>4 DEF IInv, TypeOK
<1>5. BackendHearsHandshake' /\ OnlyAllowedCallsOut'
  BY <1>1, CallsSame DEF IInv
<1>6. \A r \in Sessions : Progress(r)'
  <2>. SUFFICES ASSUME NEW r \in Sessions PROVE Progress(r)'
    OBVIOUS
  <2>1. CASE r # s
    <3>1. pc'[r] = pc[r] /\ command'[r] = command[r]
      BY <1>1, <1>2, <2>1 DEF IInv, TypeOK
    <3>. QED  BY <1>1, <3>1, ProgressSame DEF IInv, CallsOf
  <2>2. CASE r = s
    <3>1. mode'[s] = "shell" /\ status'[s] = <<>>
      BY <1>1 DEF IInv, Progress
    <3>2. /\ pc'[s] \in {"shell", "closed", "admit"}
          /\ pc'[s] = "admit" => command'[s] # <<>>
      BY <1>1, <1>2 DEF IInv, TypeOK
    <3>. QED  BY <2>2, <3>1, <3>2 DEF Progress
  <2>. QED  BY <2>1, <2>2
<1>. QED  BY <1>1, <1>4, <1>5, <1>6, HeardSame, AccountSame DEF IInv

(* How a command ends. *)
LEMMA FinishDoes ==
    ASSUME TypeOK, NEW s \in Sessions, NEW code \in 0 .. 3, Finish(s, code)
    PROVE  /\ pc' \in [Sessions -> {"requests", "exec", "shell", "admit", "handler", "backend",
                                    "mcp", "writing", "closed"}]
           /\ status' \in [Sessions -> Seq(0 .. 3)]
           /\ \A r \in Sessions : r # s => pc'[r] = pc[r] /\ status'[r] = status[r]
           /\ mode[s] = "exec" => pc'[s] = "closed" /\ status'[s] = Append(status[s], code)
           /\ mode[s] # "exec" => pc'[s] = "shell" /\ status'[s] = status[s]
<1>1. CASE mode[s] = "exec"
  <2>1. /\ status' = [status EXCEPT ![s] = Append(status[s], code)]
        /\ pc' = [pc EXCEPT ![s] = "closed"]
    BY <1>1 DEF Finish
  <2>2. Append(status[s], code) \in Seq(0 .. 3)
    BY DEF TypeOK
  <2>. QED  BY <1>1, <2>1, <2>2 DEF TypeOK
<1>2. CASE mode[s] # "exec"
  <2>1. pc' = [pc EXCEPT ![s] = "shell"] /\ status' = status
    BY <1>2 DEF Finish
  <2>. QED  BY <1>2, <2>1 DEF TypeOK
<1>. QED  BY <1>1, <1>2

(* A command in progress ends with a status that tells how it went. *)
LEMMA FinishProgress ==
    ASSUME IInv, NEW s \in Sessions, NEW code \in 0 .. 3, Finish(s, code),
           pc[s] \in {"exec", "admit", "handler", "backend", "mcp", "writing"},
           mode' = mode, command' = command, info' = info, calls' = calls,
           code = 2 <=> command[s] = <<>>,
           code = 3 => pc[s] \in {"exec", "admit"},
           code = 0 => Authorized(s)
    PROVE  \A r \in Sessions : Progress(r)'
<1>. SUFFICES ASSUME NEW r \in Sessions PROVE Progress(r)'
  OBVIOUS
<1>1. Progress(s) /\ Progress(r)
  BY DEF IInv
<1>2. /\ \A x \in Sessions : x # s => pc'[x] = pc[x] /\ status'[x] = status[x]
      /\ mode[s] = "exec" => pc'[s] = "closed" /\ status'[s] = Append(status[s], code)
      /\ mode[s] # "exec" => pc'[s] = "shell" /\ status'[s] = status[s]
  BY FinishDoes DEF IInv
<1>3. CASE r # s
  BY <1>1, <1>2, <1>3, ProgressSame DEF CallsOf
<1>4. CASE r = s /\ mode[s] = "exec"
  <2>1. status[s] = <<>> /\ (code = 3 => CallsOf(s) = {})
    BY <1>1, <1>4 DEF Progress
  <2>2. status'[s] = <<code>>
    BY <1>2, <1>4, <2>1
  <2>3. /\ Len(status'[s]) = 1
        /\ \A n \in 0 .. 3 : status'[s] = <<n>> <=> code = n
    BY <2>2
  <2>4. CallsOf(s)' = CallsOf(s) /\ (Authorized(s)' <=> Authorized(s))
    BY DEF CallsOf, Authorized, Verb
  <2>5. pc'[s] = "closed" /\ mode'[s] = "exec" /\ command'[s] = command[s]
    BY <1>2, <1>4
  <2>. QED  BY <1>4, <2>1, <2>3, <2>4, <2>5 DEF Progress
<1>5. CASE r = s /\ mode[s] # "exec"
  <2>1. pc'[s] = "shell" /\ status'[s] = <<>> /\ mode'[s] = "shell"
    BY <1>1, <1>2, <1>5 DEF Progress, IInv, TypeOK
  <2>. QED  BY <1>5, <2>1 DEF Progress
<1>. QED  BY <1>3, <1>4, <1>5

(* A step of a command that takes no token and calls nobody. *)
LEMMA QuietIInv ==
    ASSUME IInv, UNCHANGED <<now, bucket, perms, client, mode, info, command, calls, ran>>,
           pc' \in [Sessions -> {"requests", "exec", "shell", "admit", "handler", "backend",
                                 "mcp", "writing", "closed"}],
           status' \in [Sessions -> Seq(0 .. 3)],
           \A r \in Sessions : Progress(r)'
    PROVE  IInv'
<1>1. TypeOK'
  BY DEF IInv, TypeOK, client
<1>2. Heard'
  BY HeardSame DEF IInv, client
<1>3. BackendHearsHandshake' /\ OnlyAllowedCallsOut'
  BY CallsSame DEF IInv, client
<1>. QED  BY <1>1, <1>2, <1>3, AccountSame DEF IInv

LEMMA EmptyCommandIInv ==
    ASSUME IInv, NEW s \in Sessions, EmptyCommand(s)
    PROVE  IInv'
<1>1. /\ pc[s] = "exec" /\ command[s] = <<>> /\ Finish(s, 2)
      /\ UNCHANGED <<now, bucket, perms, client, mode, info, command, calls, ran>>
  BY DEF EmptyCommand
<1>2. \A r \in Sessions : Progress(r)'
  BY <1>1, FinishProgress
<1>. QED  BY <1>1, <1>2, FinishDoes, QuietIInv DEF IInv

(* A response that fits is over at once, another goes on being written. *)
LEMMA RespondIInv ==
    ASSUME IInv, NEW s \in Sessions, Respond(s), Authorized(s),
           pc[s] \in {"handler", "backend", "mcp", "writing"},
           UNCHANGED <<now, bucket, perms, client, mode, info, command, calls, ran>>
    PROVE  IInv'
<1>1. command[s] # <<>> /\ mode[s] # "none" /\ status[s] = <<>>
  BY DEF IInv, Progress
<1>2. CASE Finish(s, 0)
  <2>1. \A r \in Sessions : Progress(r)'
    BY <1>1, <1>2, FinishProgress
  <2>. QED  BY <1>2, <2>1, FinishDoes, QuietIInv DEF IInv
<1>3. CASE pc' = [pc EXCEPT ![s] = "writing"] /\ UNCHANGED status
  <2>1. pc' \in [Sessions -> {"requests", "exec", "shell", "admit", "handler", "backend",
                              "mcp", "writing", "closed"}]
        /\ status' \in [Sessions -> Seq(0 .. 3)]
    BY <1>3 DEF IInv, TypeOK
  <2>2. \A r \in Sessions : Progress(r)'
    <3>. SUFFICES ASSUME NEW r \in Sessions PROVE Progress(r)'
      OBVIOUS
    <3>1. CASE r # s
      BY <1>3, <3>1, ProgressSame DEF IInv, TypeOK, CallsOf
    <3>2. CASE r = s
      <4>1. pc'[s] = "writing" /\ mode'[s] # "none" /\ status'[s] = <<>> /\ command'[s] # <<>>
        BY <1>1, <1>3 DEF IInv, TypeOK
      <4>2. Authorized(s)'
        BY DEF Authorized, Verb
      <4>. QED  BY <3>2, <4>1, <4>2 DEF Progress
    <3>. QED  BY <3>1, <3>2
  <2>. QED  BY <2>1, <2>2, QuietIInv
<1>. QED  BY <1>2, <1>3 DEF Respond

(* A command that fails. *)
LEMMA FailsIInv ==
    ASSUME IInv, NEW s \in Sessions, Finish(s, 1),
           pc[s] \in {"handler", "backend", "mcp", "writing"},
           UNCHANGED <<now, bucket, perms, client, mode, info, command, calls, ran>>
    PROVE  IInv'
<1>1. command[s] # <<>>
  BY DEF IInv, Progress
<1>2. \A r \in Sessions : Progress(r)'
  BY <1>1, FinishProgress
<1>. QED  BY <1>2, FinishDoes, QuietIInv DEF IInv

LEMMA AnswerIInv ==
    ASSUME IInv, NEW s \in Sessions, NEW from \in {"backend", "mcp"}, Answer(s, from)
    PROVE  IInv'
<1>1. Authorized(s)
  BY DEF Answer, IInv, Progress
<1>. QED  BY <1>1, RespondIInv, FailsIInv DEF Answer

LEMMA WriteIInv ==
    ASSUME IInv, NEW s \in Sessions, Write(s)
    PROVE  IInv'
<1>1. Authorized(s) /\ pc[s] = "writing"
  BY DEF Write, IInv, Progress
<1>2. CASE Finish(s, 1)
  BY <1>1, <1>2, FailsIInv DEF Write
<1>3. CASE Finish(s, 0)
  BY <1>1, <1>3, RespondIInv DEF Write, Respond
<1>. QED  BY <1>2, <1>3 DEF Write

-----------------------------------------------------------------------------
(* Tokens. *)

(* A call to the limiter, granted or refused. *)
LEMMA TokenTaken ==
    ASSUME IInv, NEW t \in Tiers, now' = now,
           bucket' = [bucket EXCEPT ![t] = AfterCall(bucket[t], now)],
           ran' = IF Grants(bucket[t], now) THEN [ran EXCEPT ![t] = ran[t] + 1] ELSE ran
    PROVE  /\ bucket' \in [Tiers -> [count : Nat, period : Nat \ {0}, tokens : Nat, last : Nat]]
           /\ \A u \in Tiers : /\ bucket'[u].tokens <= bucket'[u].count * bucket'[u].period
                               /\ bucket'[u].last <= now'
           /\ ran' \in [Tiers -> Nat]
           /\ \A u \in Tiers : Account(u)'
<1>. DEFINE b == bucket[t]
            after == AfterCall(bucket[t], now)
<1>1. WellFormed(b, now)
  BY BucketsWellFormed DEF IInv
<1>2. WellFormed(after, now)
  <2>1. CASE b.count > 0
    BY <1>1, <2>1, CallCosts
  <2>2. CASE b.count = 0
    BY <1>1, <2>2 DEF AfterCall
  <2>. QED  BY <1>1, <2>1, <2>2 DEF WellFormed, Bucket
<1>. HIDE DEF after
<1>3. \A u \in Tiers : bucket'[u] = IF u = t THEN after ELSE bucket[u]
  BY DEF after, IInv, TypeOK
<1>4. \A u \in Tiers : WellFormed(bucket'[u], now)
  BY <1>2, <1>3, BucketsWellFormed DEF IInv
<1>5. bucket' \in [Tiers -> Bucket]
  <2>1. after \in Bucket
    BY <1>2 DEF WellFormed
  <2>2. bucket \in [Tiers -> Bucket]
    BY DEF IInv, TypeOK, Bucket
  <2>. QED  BY <2>1, <2>2 DEF after
<1>6. ran' \in [Tiers -> Nat]
  BY DEF IInv, TypeOK
<1>7. \A u \in Tiers : Account(u)'
  <2>. SUFFICES ASSUME NEW u \in Tiers PROVE Account(u)'
    OBVIOUS
  <2>1. CASE u # t
    <3>1. bucket'[u] = bucket[u] /\ ran'[u] = ran[u]
      BY <1>3, <2>1 DEF IInv, TypeOK
    <3>. QED  BY <3>1 DEF IInv, Account
  <2>2. CASE u = t /\ b.count = 0
    <3>1. bucket'[t] = b
      BY <1>3, <2>2 DEF after, AfterCall
    <3>. QED  BY <2>2, <3>1 DEF Account
  <2>3. CASE u = t /\ b.count > 0
    <3>1. /\ after.count = b.count /\ after.period = b.period
          /\ Grants(b, now) => Level(after, now) = Level(b, now) - b.period
          /\ ~Grants(b, now) => Level(after, now) = Level(b, now)
      BY <1>1, <2>3, CallCosts DEF after
    <3>2. ran[t] \in Nat /\ b.period \in Nat /\ Level(b, now) \in Nat
      BY <1>1, LevelBounds DEF WellFormed, Bucket, IInv, TypeOK
    <3>3. /\ Grants(b, now) => ran'[t] = ran[t] + 1
          /\ ~Grants(b, now) => ran'[t] = ran[t]
      BY DEF IInv, TypeOK
    <3>4. (ran[t] + 1) * b.period = ran[t] * b.period + b.period /\ ran[t] * b.period \in Nat
      BY <3>2, OneMore, ProductNat
    <3>. HIDE DEF b
    <3>5. ran'[t] * b.period + Level(after, now) = ran[t] * b.period + Level(b, now)
      BY <3>1, <3>2, <3>3, <3>4
    <3>6. bucket'[t] = after
      BY <1>3
    <3>7. ran[t] * b.period + Level(b, now) <= b.count * b.period + b.count * now
      BY <2>3 DEF IInv, Account, b
    <3>8. ran'[t] * after.period + Level(after, now) <= after.count * after.period + after.count * now
      BY <3>1, <3>5, <3>7
    <3>. QED  BY <2>3, <3>6, <3>8 DEF Account
  <2>4. b.count \in Nat
    BY <1>1 DEF WellFormed, Bucket
  <2>. QED  BY <2>1, <2>2, <2>3, <2>4
<1>. QED  BY <1>4, <1>5, <1>6, <1>7 DEF WellFormed, Bucket

(* A command that asked for a token. *)
LEMMA TokenIInv ==
    ASSUME IInv, NEW s \in Sessions,
           bucket' = [bucket EXCEPT ![info[s].tier] = AfterCall(bucket[info[s].tier], now)],
           ran' = IF Grants(bucket[info[s].tier], now)
                  THEN [ran EXCEPT ![info[s].tier] = ran[info[s].tier] + 1] ELSE ran,
           UNCHANGED <<now, perms, client, mode, info, command, calls>>,
           pc' \in [Sessions -> {"requests", "exec", "shell", "admit", "handler", "backend",
                                 "mcp", "writing", "closed"}],
           status' \in [Sessions -> Seq(0 .. 3)],
           \A r \in Sessions : Progress(r)'
    PROVE  IInv'
<1>1. info[s].tier \in Tiers
  <2>1. perms[ConnOf[s]] \in Perms
    BY ConnsAssumption DEF IInv, TypeOK
  <2>2. perms[ConnOf[s]].tier \in Tiers
    BY <2>1, PermsAssumption
  <2>. QED  BY <2>2 DEF IInv, Heard
<1>2. /\ bucket' \in [Tiers -> [count : Nat, period : Nat \ {0}, tokens : Nat, last : Nat]]
      /\ \A u \in Tiers : /\ bucket'[u].tokens <= bucket'[u].count * bucket'[u].period
                          /\ bucket'[u].last <= now'
      /\ ran' \in [Tiers -> Nat]
      /\ \A u \in Tiers : Account(u)'
  BY <1>1, TokenTaken, Zenon
<1>3. TypeOK'
  <2>1. /\ (now \in Nat)'
        /\ (perms \in [Conns -> Perms])'
        /\ (held \in [Conns -> {<<>>} \cup (Sessions \X Requests)])'
        /\ (sent \in [Sessions -> Nat])'
        /\ (queue \in [Sessions -> Seq(Requests)])'
        /\ (\A r \in Sessions : Len(queue[r]) <= QueueSize)'
    BY Zenon DEF IInv, TypeOK, client
  <2>2. /\ (input \in [Sessions -> [some : BOOLEAN, words : Seq(Words)]])'
        /\ (hungUp \in [Sessions -> BOOLEAN])'
        /\ (said \in [Sessions -> SUBSET EnvValues])'
    BY Zenon DEF IInv, TypeOK, client
  <2>3. /\ (mode \in [Sessions -> {"none", "exec", "shell"}])'
        /\ (info \in [Sessions -> Identity])'
        /\ (command \in [Sessions -> Seq(Words)])'
        /\ (calls \subseteq [session : Sessions, to : {"backend", "mcp"}, command : Seq(Words),
                              identity : Identity \cup {Nobody}])'
    BY Zenon DEF IInv, TypeOK, Identity
  <2>. QED  BY <1>2, <2>1, <2>2, <2>3, Zenon DEF TypeOK
<1>4. Heard'
  BY HeardSame DEF IInv, client
<1>5. BackendHearsHandshake' /\ OnlyAllowedCallsOut'
  BY CallsSame DEF IInv, client
<1>. QED  BY <1>2, <1>3, <1>4, <1>5 DEF IInv

LEMMA RateLimitedIInv ==
    ASSUME IInv, NEW s \in Sessions, RateLimited(s)
    PROVE  IInv'
<1>. DEFINE t == info[s].tier
<1>1. /\ pc[s] \in {"exec", "admit"} /\ ~Grants(bucket[t], now) /\ Finish(s, 3)
      /\ bucket' = [bucket EXCEPT ![t] = AfterCall(bucket[t], now)]
      /\ UNCHANGED <<now, perms, client, mode, info, command, calls>> /\ ran' = ran
  BY DEF RateLimited, NeedsToken
<1>2. command[s] # <<>>
  BY DEF RateLimited, NeedsToken, IInv, Progress
<1>3. \A r \in Sessions : Progress(r)'
  BY <1>1, <1>2, FinishProgress
<1>4. pc' \in [Sessions -> {"requests", "exec", "shell", "admit", "handler", "backend",
                            "mcp", "writing", "closed"}]
      /\ status' \in [Sessions -> Seq(0 .. 3)]
  BY <1>1, FinishDoes DEF IInv
<1>. QED  BY <1>1, <1>3, <1>4, TokenIInv

LEMMA AdmitIInv ==
    ASSUME IInv, NEW s \in Sessions, Admit(s)
    PROVE  IInv'
<1>. DEFINE t == info[s].tier
<1>1. /\ pc[s] \in {"exec", "admit"} /\ Grants(bucket[t], now)
      /\ bucket' = [bucket EXCEPT ![t] = AfterCall(bucket[t], now)]
      /\ ran' = [ran EXCEPT ![t] = ran[t] + 1] /\ pc' = [pc EXCEPT ![s] = "handler"]
      /\ UNCHANGED <<now, perms, client, mode, info, command, calls>> /\ status' = status
  BY DEF Admit, NeedsToken
<1>2. /\ command[s] # <<>> /\ mode[s] # "none" /\ status[s] = <<>>
      /\ mode[s] = "exec" => CallsOf(s) = {}
  BY DEF Admit, NeedsToken, IInv, Progress
<1>3. \A r \in Sessions : Progress(r)'
  <2>. SUFFICES ASSUME NEW r \in Sessions PROVE Progress(r)'
    OBVIOUS
  <2>1. CASE r # s
    BY <1>1, <2>1, ProgressSame DEF IInv, TypeOK, CallsOf
  <2>2. CASE r = s
    <3>1. pc'[s] = "handler" /\ mode'[s] # "none" /\ status'[s] = <<>> /\ command'[s] # <<>>
      BY <1>1, <1>2 DEF IInv, TypeOK
    <3>2. mode'[s] = "exec" => CallsOf(s)' = {}
      BY <1>1, <1>2 DEF CallsOf
    <3>. QED  BY <2>2, <3>1, <3>2 DEF Progress
  <2>. QED  BY <2>1, <2>2
<1>4. pc' \in [Sessions -> {"requests", "exec", "shell", "admit", "handler", "backend",
                            "mcp", "writing", "closed"}]
      /\ status' \in [Sessions -> Seq(0 .. 3)]
  BY <1>1 DEF IInv, TypeOK
<1>. QED  BY <1>1, <1>3, <1>4, TokenIInv

-----------------------------------------------------------------------------
(* What calls out was authorized, and bears the session's own identity. *)

LEMMA DispatchIInv ==
    ASSUME IInv, NEW s \in Sessions, Dispatch(s)
    PROVE  IInv'
<1>1. pc[s] = "handler" /\ command[s] # <<>> /\ status[s] = <<>> /\ mode[s] # "none"
  BY DEF Dispatch, IInv, Progress
<1>2. UNCHANGED <<now, bucket, perms, client, mode, info, command, ran>>
  BY DEF Dispatch
<1>3. PICK o \in Outcomes(s) :
          \/ o = "ok" /\ Respond(s) /\ calls' = calls
          \/ o = "error" /\ Finish(s, 1) /\ calls' = calls
          \/ /\ o \in {"backend", "mcp"}
             /\ pc' = [pc EXCEPT ![s] = o]
             /\ calls' = calls \cup {Call(s, o)}
             /\ status' = status
  BY DEF Dispatch
<1>4. o # "error" => Authorized(s)
  BY DEF Outcomes
<1>5. CASE o = "ok" /\ Respond(s) /\ calls' = calls
  BY <1>1, <1>2, <1>4, <1>5, RespondIInv
<1>6. CASE o = "error" /\ Finish(s, 1) /\ calls' = calls
  BY <1>1, <1>2, <1>6, FailsIInv
<1>7. CASE /\ o \in {"backend", "mcp"}
           /\ pc' = [pc EXCEPT ![s] = o]
           /\ calls' = calls \cup {Call(s, o)}
           /\ status' = status
  <2>. DEFINE call == Call(s, o)
  <2>1. Verb(s) # "capabilities"
        /\ (Verb(s) = "api-call" =>
               RouteAllowed(Declared, "api-call", Upper[command[s][2]], PathOf[command[s][3]]))
    <3>1. CASE Verb(s) = "capabilities"
      BY <1>7, <3>1 DEF Outcomes
    <3>2. CASE Verb(s) = "api-call"
      BY <1>7, <3>2 DEF Outcomes, ApiCall
    <3>. QED  BY <3>1, <3>2
  <2>2. IsCommandAllowed(info[s].tier, command[s], AuthCfg)
    BY <1>4, <1>7, <2>1 DEF Authorized
  <2>3. /\ call.session = s /\ call.to = o /\ call.command = command[s]
        /\ o = "backend" => call.identity = info[s]
        /\ call \in [session : Sessions, to : {"backend", "mcp"}, command : Seq(Words),
                     identity : Identity \cup {Nobody}]
    <3>1. command[s] \in Seq(Words) /\ info[s] \in Identity
      BY DEF IInv, TypeOK
    <3>. QED  BY <1>7, <3>1 DEF Call
  <2>. HIDE DEF call
  <2>4. calls' = calls \cup {call}
    BY <1>7 DEF call
  <2>5. TypeOK'
    <3>1. calls' \subseteq [session : Sessions, to : {"backend", "mcp"}, command : Seq(Words),
                            identity : Identity \cup {Nobody}]
      BY <2>3, <2>4 DEF IInv, TypeOK
    <3>2. pc' \in [Sessions -> {"requests", "exec", "shell", "admit", "handler", "backend",
                                "mcp", "writing", "closed"}]
      BY <1>7 DEF IInv, TypeOK
    <3>. QED  BY <1>2, <1>7, <3>1, <3>2 DEF IInv, TypeOK, client
  <2>6. Heard'
    BY <1>2, HeardSame DEF IInv, client
  <2>7. perms' = perms /\ said' = said
    BY <1>2 DEF client
  <2>8. BackendHearsHandshake'
    BY <2>3, <2>4, <2>7 DEF IInv, Heard, BackendHearsHandshake
  <2>9. OnlyAllowedCallsOut'
    <3>1. /\ IsCommandAllowed(perms[ConnOf[s]].tier, command[s], AuthCfg)
          /\ command[s][1] = "api-call" =>
                RouteAllowed(Declared, "api-call", Upper[command[s][2]], PathOf[command[s][3]])
      BY <2>1, <2>2 DEF IInv, Heard, Verb
    <3>. QED  BY <2>3, <2>4, <2>7, <3>1 DEF IInv, OnlyAllowedCallsOut
  <2>10. \A r \in Sessions : Progress(r)'
    <3>. SUFFICES ASSUME NEW r \in Sessions PROVE Progress(r)'
      OBVIOUS
    <3>1. CASE r # s
      <4>1. CallsOf(r)' = CallsOf(r)
        BY <2>3, <2>4, <3>1 DEF CallsOf
      <4>. QED  BY <1>2, <1>7, <3>1, <4>1, ProgressSame DEF IInv, TypeOK
    <3>2. CASE r = s
      <4>1. pc'[s] = o /\ mode'[s] # "none" /\ status'[s] = <<>> /\ command'[s] # <<>>
        BY <1>1, <1>2, <1>7 DEF IInv, TypeOK
      <4>2. Authorized(s)'
        BY <1>2, <1>4, <1>7 DEF Authorized, Verb
      <4>. QED  BY <1>7, <3>2, <4>1, <4>2 DEF Progress
    <3>. QED  BY <3>1, <3>2
  <2>. QED  BY <1>2, <2>5, <2>6, <2>8, <2>9, <2>10, AccountSame DEF IInv
<1>. QED  BY <1>3, <1>5, <1>6, <1>7

-----------------------------------------------------------------------------

LEMMA StutterIInv ==
    ASSUME IInv, UNCHANGED vars
    PROVE  IInv'
<1>1. pc' \in [Sessions -> {"requests", "exec", "shell", "admit", "handler", "backend",
                            "mcp", "writing", "closed"}]
      /\ status' \in [Sessions -> Seq(0 .. 3)]
  BY DEF vars, IInv, TypeOK
<1>2. \A r \in Sessions : Progress(r)'
  BY ProgressSame DEF vars, IInv, CallsOf
<1>. QED  BY <1>1, <1>2, QuietIInv DEF vars, client

LEMMA NextIInv == IInv /\ [Next]_vars => IInv'
<1>. SUFFICES ASSUME IInv, [Next]_vars PROVE IInv'
  OBVIOUS
<1>1. ASSUME NEW s \in Sessions, Server(s) PROVE IInv'
  BY <1>1, NoiseIInv, SetEnvIInv, StartIInv, EndIInv, ReadLineIInv, EmptyCommandIInv,
     RateLimitedIInv, AdmitIInv, DispatchIInv, AnswerIInv, WriteIInv DEF Server
<1>2. ASSUME NEW s \in Sessions, Answer(s, "mcp") PROVE IInv'
  BY <1>2, AnswerIInv
<1>3. ASSUME NEW s \in Sessions, NEW m \in Messages, Send(s, m) PROVE IInv'
  BY <1>3, SendIInv
<1>4. ASSUME NEW c \in Conns, Deliver(c) \/ HangUp(c) PROVE IInv'
  BY <1>4, DeliverIInv, HangUpIInv
<1>5. CASE Tick
  BY <1>5, TickIInv
<1>6. CASE UNCHANGED vars
  BY <1>6, StutterIInv
<1>. QED  BY <1>1, <1>2, <1>3, <1>4, <1>5, <1>6 DEF Next

LEMMA Invariant == Spec => []IInv
<1>. QED  BY InitIInv, NextIInv, PTL DEF Spec

(* Queues stay within what the transport holds, buckets within what they    *)
(* can hold, and every variable within its type.                            *)
THEOREM TypeCorrect == Spec => []TypeOK
<1>1. IInv => TypeOK
  BY DEF IInv
<1>. QED  BY <1>1, Invariant, PTL

(* Whatever clients put into their environment, and however sessions        *)
(* interleave, the backend hears the session's own handshake                *)
(* (handleConnection, handleSession, APICall, FetchResource).               *)
THEOREM HearsHandshake == Spec => []BackendHearsHandshake
<1>1. IInv => BackendHearsHandshake
  BY DEF IInv
<1>. QED  BY <1>1, Invariant, PTL

(* Nothing reaches the backend or the MCP server that the handshake's tier  *)
(* may not run, or whose route is not declared (Execute, ExecuteBinary).    *)
THEOREM AllowedOnly == Spec => []OnlyAllowedCallsOut
<1>1. IInv => OnlyAllowedCallsOut
  BY DEF IInv
<1>. QED  BY <1>1, Invariant, PTL

(* An exec reports exactly one status, and the right one (executeCommand). *)
THEOREM StatusTells == Spec => []ExitStatusTellsOutcome
<1>1. IInv => ExitStatusTellsOutcome
  BY DEF IInv, Progress, ExitStatusTellsOutcome, Authorized, Verb
<1>. QED  BY <1>1, Invariant, PTL

(* No number of sessions gets more work out of a tier than its limit        *)
(* (executeCommand, interactiveSession, Allow).                             *)
THEOREM LimitHolds == Spec => []WorkWithinLimit
<1>1. IInv => WorkWithinLimit
  <2>. SUFFICES ASSUME IInv, NEW t \in Tiers, bucket[t].count > 0
                PROVE  ran[t] * bucket[t].period <= bucket[t].count * (bucket[t].period + now)
    BY DEF WorkWithinLimit
  <2>1. WellFormed(bucket[t], now)
    BY BucketsWellFormed DEF IInv
  <2>2. /\ bucket[t].count \in Nat /\ bucket[t].period \in Nat /\ now \in Nat /\ ran[t] \in Nat
        /\ Level(bucket[t], now) \in Nat
    BY <2>1, LevelBounds DEF WellFormed, Bucket, IInv, TypeOK
  <2>3. bucket[t].count * (bucket[t].period + now)
           = bucket[t].count * bucket[t].period + bucket[t].count * now
    BY <2>2, Distribute
  <2>4. /\ ran[t] * bucket[t].period \in Nat /\ bucket[t].count * bucket[t].period \in Nat
        /\ bucket[t].count * now \in Nat
    BY <2>2, ProductNat
  <2>. QED  BY <2>2, <2>3, <2>4 DEF IInv, Account
<1>. QED  BY <1>1, Invariant, PTL

=============================================================================
