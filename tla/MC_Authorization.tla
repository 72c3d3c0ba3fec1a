-------------------------- MODULE MC_Authorization --------------------------
(* Every small command under every small auth block, and every small path  *)
(* under every small route.                                                *)
EXTENDS Decisions

UpTo3(S) == UNION {[1 .. n -> S] : n \in 1 .. 3}

MCWords == {"api-call", "api", "GET", "POST", ""}
MCPrefixes == {<<w, w>> : w \in MCWords} \cup {<<w, "">> : w \in MCWords}
                 \cup {<<"api-call", "api">>}

\* The words a client can send; an entry may also break off in the middle.
Sendable == {"api-call", "GET", "POST"}
MCCommands == UpTo3(Sendable)

Entries == {[words |-> <<"api-call">>, star |-> FALSE],
            [words |-> <<"api-call", "GET">>, star |-> FALSE],
            [words |-> <<"api">>, star |-> TRUE],
            [words |-> <<"api-call", "GET">>, star |-> TRUE],
            [words |-> <<>>, star |-> FALSE]}
Lists == {{}} \cup {{e} : e \in Entries}
MCAuthBlocks == [anonymous : Lists, identified : Lists, trusted : Lists]

MCSegments == {"", "posts", "{id}"}
MCPatternSegments == MCSegments \cup {"{rest*}"}
MCPatterns == UpTo3(MCPatternSegments)
MCPaths    == [segments : UpTo3(MCSegments), query : BOOLEAN]

=============================================================================
