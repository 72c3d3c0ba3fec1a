----------------------------- MODULE MC_Session -----------------------------
(* Two sessions on a site with a backend, an MCP server and no content     *)
(* root.  Anonymous clients may fetch pages, identified ones may call one  *)
(* route of the API and the MCP server.  Each tier has one command a       *)
(* second.                                                                 *)
EXTENDS Session, TLC

CONSTANTS c1, c2, s1, s2

MCWords == {"receive-pack", "api-call", "mcp", "GET", "get", "/items", "/drafts", "tool", "other",
            "quit"}
MCUpper == [w \in MCWords |-> IF w = "get" THEN "GET" ELSE w]
MCPathOf == [w \in MCWords |-> [segments |-> <<w>>, query |-> FALSE]]

\* The sessions come over connections of their own, or over one.
Apart    == (s1 :> c1) @@ (s2 :> c2)
Together == (s1 :> c1) @@ (s2 :> c1)

Swap == {p \in Permutations({c1, c2, s1, s2}) : p[s1] \in {s1, s2} /\ p[Apart[s1]] = Apart[p[s1]]}

Identified == [tier |-> "identified", fingerprint |-> "fp", pubkey |-> "key"]
MCPerms    == {Anonymous, Identified}
JustIdentified == {Identified}

MCCommands == {<<>>, <<"receive-pack">>, <<"api-call", "GET", "/drafts">>,
               <<"mcp", "other">>}
MCLines    == {<<"api-call", "get", "/items">>}

FewCommands == {<<"receive-pack">>, <<"mcp", "tool">>}
FewLines    == {<<"quit">>}

Plain(ws) == [words |-> ws, star |-> FALSE]
MCAuthCfg == [anonymous  |-> {Plain(<<"receive-pack">>)},
              identified |-> {Plain(<<"api-call">>), Plain(<<"mcp", "tool">>)},
              trusted    |-> {}]
MCDeclared == {[type |-> "api-call", method |-> "GET", route |-> <<"/items">>]}
MCLimits == [t \in Tiers |-> [count |-> 1, unit |-> "sec"]]

=============================================================================
