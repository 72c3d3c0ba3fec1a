----------------------------- MODULE Decisions -----------------------------
(***************************************************************************)
(* Questions to the decisions of Authorization: may a client of some tier  *)
(* run this command under this auth block, and does this path belong to    *)
(* this route?                                                             *)
(***************************************************************************)
EXTENDS Authorization

CONSTANTS
    Asked,          \* the commands clients send
    AuthBlocks,     \* the lists of the three tiers
    Segments,       \* the segments of routes and paths
    Patterns,       \* the routes of commands blocks
    Paths           \* what is asked for: [segments, query]

(* Not even "" has no segments (strings.Split). *)
ASSUME PathsAssumption == /\ Patterns \subseteq Seq(Segments) \ {<<>>}
                          /\ \A path \in Paths : path.segments \in Seq(Segments)

VARIABLE question   \* [command, authCfg] or [pattern, path]

CommandQuestions == [kind : {"command"}, command : Asked, authCfg : AuthBlocks]
RouteQuestions   == [kind : {"route"}, pattern : Patterns, path : Paths]

FirstQuestion == question \in CommandQuestions \cup RouteQuestions

(* The site stays, another command or path is asked about. *)
AskCommand ==
    /\ question.kind = "command"
    /\ \E c \in Asked : question' = [question EXCEPT !.command = c]

AskRoute ==
    /\ question.kind = "route"
    /\ \E p \in Paths : question' = [question EXCEPT !.path = p]

NextQuestion == AskCommand \/ AskRoute

Asking == FirstQuestion /\ [][NextQuestion]_question

-----------------------------------------------------------------------------
(* Properties *)

Ranks == <<"anonymous", "identified", "trusted">>
May(tier) == IsCommandAllowed(tier, question.command, question.authCfg)

(* A higher tier may do what a lower one may (the lists of the lower tiers  *)
(* are inherited in IsCommandAllowed).                                      *)
HigherTiersMayDoMore ==
    question.kind = "command" =>
        \A i, j \in DOMAIN Ranks : i <= j /\ May(Ranks[i]) => May(Ranks[j])

(* The tier the manifest announces for a command that somebody may run is   *)
(* the lowest that may (tierForCommand).                                    *)
AnnouncedTierIsLowest ==
    question.kind = "command" =>
        LET announced == TierForCommand(question.command, question.authCfg)
        IN  May("trusted") =>
                /\ May(announced)
                /\ \A i, j \in DOMAIN Ranks :
                      Ranks[j] = announced /\ i < j => ~May(Ranks[i])

(* A path belongs to a route exactly when the route generates it, for       *)
(* routes whose catch-all comes last, and whatever follows "?" makes no     *)
(* difference (routeMatches).                                               *)
RoutesGenerateTheirPaths ==
    question.kind = "route" /\ CatchAllIsLast(question.pattern) =>
        (RouteMatches(question.pattern, question.path)
            <=> Generates(question.pattern, question.path.segments))

=============================================================================
