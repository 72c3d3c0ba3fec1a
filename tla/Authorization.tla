--------------------------- MODULE Authorization ---------------------------
(***************************************************************************)
(* Who may run what (internal/auth/auth.go), and which routes a site       *)
(* forwards (internal/commands/handler.go): the pure decisions that every  *)
(* command passes.                                                         *)
(*                                                                         *)
(* A command is the sequence of its words, the verb first.  An entry of a  *)
(* tier's list is what stands between its spaces, and star tells that the  *)
(* text ends in "*", which words leaves out: "admin-*" is <<"admin-">>,    *)
(* "*" is <<"">> and "api-call *" is <<"api-call", "">>.  A path is the    *)
(* sequence of its segments ("/" has one, the empty one), and query tells  *)
(* that "?..." follows; a pattern is a sequence of segments of which some  *)
(* are "{name}" or "{name*}".                                              *)
(***************************************************************************)
EXTENDS Naturals, Sequences, FiniteSets

CONSTANTS
    Words,          \* the words of commands and entries
    Prefixes,       \* pairs <<w, p>>: the text of w starts with the text of p
    Holes,          \* segments of the form {name}
    CatchAlls       \* segments of the form {name*}

Entry == [words : Seq(Words), star : BOOLEAN]

ASSUME PrefixesAssumption == Prefixes \subseteq Words \X Words

-----------------------------------------------------------------------------
(* IsCommandAllowed *)

\* Mutant: the lists of the lower tiers are not inherited.
AllowedEntriesOwnOnly(tier, authCfg) ==
    IF tier \in DOMAIN authCfg THEN authCfg[tier] ELSE {}

(* The lists a tier may choose from; a tier that is none of the three has   *)
(* none.                                                                    *)
AllowedEntries(tier, authCfg) ==
    CASE tier = "anonymous"  -> authCfg.anonymous
      [] tier = "identified" -> authCfg.anonymous \cup authCfg.identified
      [] tier = "trusted"    -> authCfg.anonymous \cup authCfg.identified \cup authCfg.trusted
      [] OTHER               -> {}

(* A starred entry is compared with the verb alone, so one that goes on     *)
(* after a space can match nothing; any other entry is a prefix, word by    *)
(* word, of the commands it allows; an empty entry is passed over.          *)
EntryMatches(entry, command) ==
    IF entry.star
    THEN Len(entry.words) = 1 /\ <<command[1], entry.words[1]>> \in Prefixes
    ELSE /\ entry.words # <<>>
         /\ Len(entry.words) <= Len(command)
         /\ \A i \in DOMAIN entry.words : entry.words[i] = command[i]

IsCommandAllowed(tier, command, authCfg) ==
    \E entry \in AllowedEntries(tier, authCfg) : EntryMatches(entry, command)

\* Mutant: the tiers are asked in the wrong order.
TierForCommandFromTop(command, authCfg) ==
    CASE IsCommandAllowed("identified", command, authCfg) -> "identified"
      [] IsCommandAllowed("anonymous", command, authCfg)  -> "anonymous"
      [] OTHER                                            -> "trusted"

(* The tier the capabilities manifest announces for a command. *)
TierForCommand(command, authCfg) ==
    IF IsCommandAllowed("anonymous", command, authCfg) THEN "anonymous"
    ELSE IF IsCommandAllowed("identified", command, authCfg) THEN "identified"
    ELSE "trusted"

-----------------------------------------------------------------------------
(* routeAllowed *)

FirstCatchAll(pattern) ==
    {i \in DOMAIN pattern : /\ pattern[i] \in CatchAlls
                            /\ \A j \in 1 .. i - 1 : pattern[j] \notin CatchAlls}

(* The first n segments of the pattern fit those of the path. *)
SegmentsFit(pattern, path, n) ==
    \A i \in 1 .. n :
        i \in DOMAIN path /\ (pattern[i] \in Holes \/ pattern[i] = path[i])

\* Mutant: a path longer than the pattern passes.
RouteMatchesPrefix(pattern, path) ==
    IF FirstCatchAll(pattern) = {}
    THEN SegmentsFit(pattern, path.segments, Len(pattern))
    ELSE \E i \in FirstCatchAll(pattern) :
            i = Len(pattern) /\ SegmentsFit(pattern, path.segments, i - 1)

(* routeMatches goes through the pattern up to its first catch-all, which   *)
(* takes what is left of the path, but only as the last segment.            *)
RouteMatches(pattern, path) ==
    \/ pattern = path.segments /\ ~path.query
    \/ IF FirstCatchAll(pattern) = {}
       THEN /\ Len(pattern) = Len(path.segments)
            /\ SegmentsFit(pattern, path.segments, Len(pattern))
       ELSE \E i \in FirstCatchAll(pattern) :
               i = Len(pattern) /\ SegmentsFit(pattern, path.segments, i - 1)

(* A site's commands block declares [type, method, route]; the method only  *)
(* counts for api-call.                                                     *)
RouteAllowed(commands, cmdType, method, path) ==
    \E cmd \in commands :
        /\ cmd.type = cmdType
        /\ cmdType = "api-call" => cmd.method = method
        /\ RouteMatches(cmd.route, path)

-----------------------------------------------------------------------------
(* What routeMatches is held to: the paths a pattern generates.             *)

(* What a segment of a pattern stands for, of the segments of a path after  *)
(* `from` and up to `to`: a {name*} for any number of them, a {name} for    *)
(* any one, a literal for itself.                                           *)
StandsFor(seg, segments, from, to) ==
    IF seg \in CatchAlls THEN from <= to
    ELSE to = from + 1 /\ (seg \in Holes \/ seg = segments[to])

(* A pattern generates the paths that can be cut into what its segments     *)
(* stand for, in order.                                                     *)
Generates(pattern, segments) ==
    \E cut \in [1 .. Len(pattern) + 1 -> 0 .. Len(segments)] :
        /\ cut[1] = 0 /\ cut[Len(pattern) + 1] = Len(segments)
        /\ \A i \in 1 .. Len(pattern) : StandsFor(pattern[i], segments, cut[i], cut[i + 1])

CatchAllIsLast(pattern) ==
    \A i \in 1 .. Len(pattern) : pattern[i] \in CatchAlls => i = Len(pattern)

=============================================================================
