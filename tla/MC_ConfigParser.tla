-------------------------- MODULE MC_ConfigParser --------------------------
(* Files of two sites.  The first has two blocks of different kinds in      *)
(* every order, or one of them twice; each file as it is written, cut short *)
(* at every place, and with any one lexeme missing.                         *)
EXTENDS ConfigParser, FiniteSets

NL == <<"\n">>

(* The blocks, as text and as what they mean. *)
Text == [
    commands |-> <<"commands", "{", "#", "}", "\n", "receive-pack", "/", "\n",
                   "api-call", "GET", "/items", "#", "api", "\n", "}", "\n">>,
    meta     |-> <<"meta", "{", "\n", "rss-feed", "/feed", "format=rss", "\n",
                   "sitemap", "/map", "dynamic=true", "\n", "robots", "crawl-delay=1", "\n", "}">>,
    mcp      |-> <<"mcp", "{", "\n", "server", "stdio", "\"", "srv", "-v", "\"", "\n",
                   "auth", "{", "trusted", "[", "tool", "]", "\n", "}", "}", "\n">>,
    auth     |-> <<"auth", "{", "\n", "anonymous", "[", "receive-pack", ",", "\n", "proxy-call",
                   "*", "]", "\n", "trusted", "[", "]", "}", "\n">>,
    limits   |-> <<"limits", "{", "anonymous", "60/min", "\n", "#", "none", "\n",
                   "trusted", "unlimited", "\n", "}", "\n">>]
  @@ ("proxy-cache" :> <<"proxy-cache", "{", "\n", "allow", "a.org", "\n", "deny", "*", "\n",
                         "max-redirects", "5", "\n", "allow-redirects", "off", "\n",
                         "ttl", "1h", "\n", "strict", "yes", "\n", "}", "\n">>)

Meaning == [
    commands |-> <<[type |-> "receive-pack", method |-> "", route |-> <<"/">>],
                   [type |-> "api-call", method |-> "GET", route |-> <<"/items">>]>>,
    meta     |-> [feeds |-> <<[path |-> "/feed", options |-> <<"format=rss">>]>>,
                  sitemap |-> [path |-> "/map", dynamic |-> TRUE],
                  robots |-> <<"crawl-delay=1">>],
    mcp      |-> [transport |-> "stdio", server |-> <<"srv", "-v">>,
                  auth |-> [anonymous |-> <<>>, identified |-> <<>>, trusted |-> <<<<"tool">>>>]],
    auth     |-> [anonymous |-> <<<<"receive-pack">>, <<"proxy-call", "*">>>>,
                  identified |-> <<>>, trusted |-> <<>>],
    limits   |-> [anonymous |-> "60/min", identified |-> "", trusted |-> "unlimited"]]
  @@ ("proxy-cache" :> [allow |-> <<"a.org">>, deny |-> TRUE, redirects |-> "no", limit |-> "5",
                        private |-> FALSE, settings |-> [s \in Settings |-> IF s = "ttl" THEN "1h" ELSE ""]])

Start == <<"site", "a.org", "{", "port", "443", "\n", "root", "/srv", "\n">>
Other == <<"site", "b.org", "{", "}", "\n">>

Whole(b, c) ==
    [text   |-> Start \o Text[b] \o Text[c] \o <<"}">> \o Other,
     blocks |-> [i \in 1 .. Len(Start) |-> "site"]
                \o [i \in 1 .. Len(Text[b]) |-> b] \o [i \in 1 .. Len(Text[c]) |-> c]
                \o <<"site">> \o [i \in 1 .. Len(Other) |-> "site"],
     sites  |-> <<[NewSite("a.org") EXCEPT !.port = "443", !["root"] = "/srv",
                                           ![b] = Meaning[b], ![c] = Meaning[c]],
                  NewSite("b.org")>>]

Written == [b, c \in Blocks |-> Whole(b, c)]

Lost(w, i) ==
    CASE w.text[i] = "{"                           -> "{"
      [] w.text[i] = "}" /\ w.text[i - 1] # "#"    -> w.blocks[i]
      [] OTHER                                     -> "word"

File(w, t, d) == [text |-> t, sites |-> w.sites, damage |-> d]

MCFiles ==
    {File(w, w.text, "nothing") : w \in Range(Written)}
    \cup UNION {{File(w, SubSeq(w.text, 1, n), "tail") : n \in 0 .. Len(w.text) - 1}
                : w \in Range(Written)}
    \cup UNION {{File(w, RemoveAt(w.text, i), Lost(w, i)) : i \in 1 .. Len(w.text)} : w \in Range(Written)}

=============================================================================
