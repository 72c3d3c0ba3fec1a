---------------------------- MODULE ConfigParser ----------------------------
(***************************************************************************)
(* The parser of sshttpd.conf (internal/config/parser.go).  One action is  *)
(* one turn of one of its loops, so a loop that does not move any more is  *)
(* a parse that never ends.                                                *)
(*                                                                         *)
(* A file is a sequence of lexemes with blanks between them: words,        *)
(* newlines, comments' "#" and the brackets.  The readers look at single   *)
(* characters, and see a brace or a bracket only where they look for one.  *)
(***************************************************************************)
EXTENDS Integers, Sequences, SequencesExt

CONSTANTS
    Files,          \* what is parsed: [text, sites, damage], see Properties
    Numbers,        \* words strconv.Atoi accepts
    Truths,         \* words parseBool takes for true
    MaxEntries      \* bound on the commands of a site

VARIABLES
    file,       \* the file that is parsed
    pos,        \* parser.pos
    block,      \* the innermost block: "top", "site", or the directive that opened it
    list,       \* a [...] list being read: {} or {[tier, items]}
    site,       \* the site being read, by directive
    sites,      \* Config.Sites
    result      \* "parsing", "ok", "error" or "panic"

vars == <<file, pos, block, list, site, sites, result>>

Tiers  == {"anonymous", "identified", "trusted"}
Names  == {"host-key", "root", "backend", "authorized-keys"}
Blocks == {"commands", "meta", "mcp", "proxy-cache", "auth", "limits"}
Settings == {"ttl", "max-size", "storage"}

(* A site before its first directive, and a block before its first line. *)
NewSite(host) ==
    [host |-> host, port |-> "22443", commands |-> <<>>,
     meta |-> [feeds |-> <<>>, sitemap |-> [path |-> "", dynamic |-> FALSE], robots |-> <<>>],
     mcp |-> [transport |-> "", server |-> <<>>, auth |-> [t \in Tiers |-> <<>>]],
     auth |-> [t \in Tiers |-> <<>>],
     limits |-> [t \in Tiers |-> ""]]
    @@ [n \in Names |-> ""]
    @@ ("proxy-cache" :>
          [allow |-> <<>>, deny |-> FALSE, redirects |-> "default", limit |-> "0",
           private |-> FALSE, settings |-> [s \in Settings |-> ""]])

Init ==
    /\ file \in Files
    /\ pos = 1
    /\ block = "top"
    /\ list = {}
    /\ site = NewSite("")
    /\ sites = <<>>
    /\ result = "parsing"

-----------------------------------------------------------------------------
(* The readers *)

End == Len(file.text) + 1
At(p) == IF p < End THEN file.text[p] ELSE "EOF"

(* The first of a set of lexemes from a position on, or the end. *)
First(p, lexemes) ==
    CHOOSE q \in p .. End : /\ q = End \/ At(q) \in lexemes
                            /\ \A r \in p .. q - 1 : At(r) \notin lexemes

(* skipWhitespace: past newlines and comments. *)
Blank(p, q) ==
    \/ At(q) \in {"\n", "#"}
    \/ \E c \in p .. q : At(c) = "#" /\ \A r \in c .. q : At(r) # "\n"
Skip(p) ==
    CHOOSE q \in p .. End : /\ q = End \/ ~Blank(p, q)
                            /\ \A r \in p .. q - 1 : Blank(p, r)

(* readWord: it crosses newlines, and is empty before a brace or the end. *)
Word(p) ==
    LET q == Skip(p)
    IN  IF At(q) \in {"{", "}", "EOF"} THEN [word |-> "", next |-> q]
        ELSE [word |-> At(q), next |-> q + 1]

(* readUntilNewline *)
Rest(p) ==
    LET q == First(p, {"\n", "#"})
    IN  [words |-> SubSeq(file.text, p, q - 1), next |-> q]

(* expectByte *)
Expected(p, lexeme) == At(Skip(p)) = lexeme

Trim(item) ==
    LET texts == {i \in DOMAIN item : item[i] # "\n"}
    IN  SubSeq(item, 1, Max(texts \cup {0}))

-----------------------------------------------------------------------------
(* Steps *)

In(b) == result = "parsing" /\ list = {} /\ block = b

(* The loop goes on from p, with what it has read. *)
Continue(p, s) ==
    /\ pos' = p /\ site' = s
    /\ UNCHANGED <<file, block, list, sites, result>>

Stop(r) == result' = r /\ UNCHANGED <<file, pos, block, list, site, sites>>

(* A block is entered; what an earlier one of its name held is forgotten. *)
Open(b, p, s) ==
    IF Expected(p, "{")
    THEN /\ block' = b /\ pos' = Skip(p) + 1 /\ site' = s
         /\ UNCHANGED <<file, list, sites, result>>
    ELSE Stop("error")

(* parseConfig *)
TopLevel ==
    /\ In("top")
    /\ LET k == Word(pos)
           h == Word(k.next)
       IN  \/ Skip(pos) = End /\ Stop("ok")
           \/ k.word = "site" /\ h.word # "" /\ Open("site", h.next, NewSite(h.word))
           \/ k.word = "site" /\ h.word = "" /\ Stop("error")
           \/ Skip(pos) # End /\ k.word # "site" /\ Stop("error")

CloseSite(p) ==
    /\ pos' = p
    /\ sites' = Append(sites, site)
    /\ block' = "top"
    /\ UNCHANGED <<file, list, site, result>>

(* One directive, parseSite. *)
Directive ==
    LET k == Word(pos)
        v == Word(k.next)
    IN  /\ ~Expected(pos, "}") /\ Skip(pos) # End
        /\ \/ k.word = "port" /\ v.word \in Numbers
              /\ Continue(v.next, [site EXCEPT !.port = v.word])
           \/ k.word = "port" /\ v.word \notin Numbers /\ Stop("error")
           \/ k.word \in Names /\ Continue(v.next, [site EXCEPT ![k.word] = v.word])
           \/ k.word \in Blocks
              /\ Open(k.word, k.next, [site EXCEPT ![k.word] = NewSite("")[k.word]])
           \/ k.word \notin {"port"} \cup Names \cup Blocks /\ Stop("error")

\* Mutant: the end of the file ends the site.
SiteOrEnd ==
    /\ In("site")
    /\ \/ Expected(pos, "}") /\ CloseSite(Skip(pos) + 1)
       \/ Skip(pos) = End /\ CloseSite(End)
       \/ Directive

Site ==
    /\ In("site")
    /\ \/ Expected(pos, "}") /\ CloseSite(Skip(pos) + 1)
       \/ Skip(pos) = End /\ Stop("error")
       \/ Directive

(* The "}" of a block of a site, or of the auth block in mcp. *)
Close ==
    /\ result = "parsing" /\ list = {} /\ block \in Blocks \cup {"mcp auth"}
    /\ Expected(pos, "}")
    /\ IF block = "mcp" /\ site.mcp.transport = ""
       THEN Stop("error")
       ELSE /\ pos' = Skip(pos) + 1
            /\ block' = IF block = "mcp auth" THEN "mcp" ELSE "site"
            /\ UNCHANGED <<file, list, site, sites, result>>

-----------------------------------------------------------------------------
(* The lines of the blocks *)

(* parseCommands: any word is a type.  At the end of the file it goes on    *)
(* adding empty entries, here until MaxEntries.                             *)
Commands ==
    /\ In("commands") /\ ~Expected(pos, "}")
    /\ LET k    == Word(pos)
           rest == Rest(k.next)
           add(entry) ==
               /\ Len(site.commands) < MaxEntries
               /\ Continue(rest.next, [site EXCEPT !.commands = Append(@, entry)])
       IN  \/ k.word # "api-call"
              /\ add([type |-> k.word, method |-> "", route |-> rest.words])
           \/ k.word = "api-call" /\ Len(rest.words) >= 2
              /\ add([type |-> k.word, method |-> rest.words[1], route |-> <<rest.words[2]>>])
           \/ k.word = "api-call" /\ Len(rest.words) < 2 /\ Stop("error")

(* parseMeta: the path of a feed and of the sitemap is taken without        *)
(* looking whether there is one; unknown lines are ignored.  Options are    *)
(* kept as they are written.                                                *)
Meta ==
    /\ In("meta") /\ ~Expected(pos, "}")
    /\ LET k    == Word(pos)
           rest == Rest(k.next)
           line == rest.words
           set(meta) == Continue(rest.next, [site EXCEPT !.meta = meta])
           old  == site.meta
       IN  \/ k.word \in {"rss-feed", "sitemap"} /\ line = <<>> /\ Stop("panic")
           \/ k.word = "rss-feed" /\ line # <<>>
              /\ set([old EXCEPT !.feeds = Append(@, [path |-> line[1], options |-> Tail(line)])])
           \/ k.word = "sitemap" /\ line # <<>>
              /\ set([old EXCEPT !.sitemap =
                        [path |-> line[1],
                         dynamic |-> @.dynamic \/ "dynamic=true" \in ToSet(Tail(line))]])
           \/ k.word = "robots" /\ set([old EXCEPT !.robots = @ \o line])
           \/ k.word \notin {"rss-feed", "sitemap", "robots"} /\ set(old)

\* Mutant: an unknown word in the block is passed over.
McpPassesOver ==
    /\ In("mcp") /\ ~Expected(pos, "}")
    /\ LET k == Word(pos)
           t == Word(k.next)
       IN  IF k.word = "server" /\ t.word = "http"
           THEN Continue(Word(t.next).next,
                         [site EXCEPT !.mcp.transport = "http",
                                      !.mcp.server = <<Word(t.next).word>>])
           ELSE Continue(k.next, site)

(* parseMCP; a stdio server's command is a string in quotes. *)
Mcp ==
    /\ In("mcp") /\ ~Expected(pos, "}")
    /\ LET k == Word(pos)
           t == Word(k.next)
           q == Skip(t.next)
           close == First(q + 1, {"\""})
           server(to, words, p) ==
               Continue(p, [site EXCEPT !.mcp.transport = to, !.mcp.server = words])
       IN  \/ k.word = "server" /\ t.word = "http"
              /\ server("http", <<Word(t.next).word>>, Word(t.next).next)
           \/ k.word = "server" /\ t.word = "stdio" /\ At(q) = "\"" /\ close # End
              /\ server("stdio", SubSeq(file.text, q + 1, close - 1), close + 1)
           \/ k.word = "server" /\ t.word = "stdio" /\ ~(At(q) = "\"" /\ close # End)
              /\ Stop("error")
           \/ k.word = "server" /\ t.word \notin {"http", "stdio"} /\ Stop("error")
           \/ k.word = "auth"
              /\ Open("mcp auth", k.next, [site EXCEPT !.mcp.auth = [u \in Tiers |-> <<>>]])
           \/ k.word \notin {"server", "auth"} /\ Stop("error")

(* parseProxyCache: a line that begins with an unknown word is ignored. *)
ProxyCache ==
    /\ In("proxy-cache") /\ ~Expected(pos, "}")
    /\ LET k == Word(pos)
           v == Word(k.next)
           old == site["proxy-cache"]
           set(new) == Continue(v.next, [site EXCEPT !["proxy-cache"] = new])
       IN  \/ k.word = "allow" /\ set([old EXCEPT !.allow = Append(@, v.word)])
           \/ k.word = "deny" /\ set([old EXCEPT !.deny = @ \/ v.word = "*"])
           \/ k.word \in Settings /\ set([old EXCEPT !.settings[k.word] = v.word])
           \/ k.word = "max-redirects" /\ v.word \in Numbers /\ set([old EXCEPT !.limit = v.word])
           \/ k.word = "max-redirects" /\ v.word \notin Numbers /\ Stop("error")
           \/ k.word = "allow-private-ips" /\ set([old EXCEPT !.private = v.word \in Truths])
           \/ k.word = "allow-redirects"
              /\ set([old EXCEPT !.redirects = IF v.word \in Truths THEN "yes" ELSE "no"])
           \/ k.word \notin Settings \cup {"allow", "deny", "max-redirects", "allow-private-ips",
                                           "allow-redirects"}
              /\ Continue(Rest(k.next).next, site)

(* parseLimits: an unknown tier is ignored. *)
Limits ==
    /\ In("limits") /\ ~Expected(pos, "}")
    /\ LET k == Word(pos)
           v == Word(k.next)
       IN  Continue(v.next, IF k.word \in Tiers THEN [site EXCEPT !.limits[k.word] = v.word]
                            ELSE site)

(* parseAuth and parseMCPAuth: a tier and its list. *)
TierList ==
    /\ In("auth") \/ In("mcp auth")
    /\ ~Expected(pos, "}")
    /\ LET k == Word(pos)
       IN  IF Expected(k.next, "[")
           THEN /\ list' = {[tier |-> k.word, items |-> <<>>]}
                /\ pos' = Skip(k.next) + 1
                /\ UNCHANGED <<file, block, site, sites, result>>
           ELSE Stop("error")

\* Mutant: an item counts when its comma has been read.
ListItemAtComma ==
    /\ result = "parsing" /\ \E l \in list :
          LET q == Skip(pos)
              e == First(q, {",", "]"})
              item == Trim(SubSeq(file.text, q, e - 1))
          IN  /\ At(q) # "]"
              /\ list' = IF item = <<>> \/ At(e) # "," THEN list
                         ELSE {[l EXCEPT !.items = Append(@, item)]}
              /\ pos' = IF At(e) = "," THEN e + 1 ELSE e
              /\ UNCHANGED <<file, block, site, sites, result>>

(* readBracketList: an item goes to the next comma or bracket, whatever     *)
(* else stands in it.                                                       *)
ListItem ==
    /\ result = "parsing" /\ \E l \in list :
          LET q == Skip(pos)
              e == First(q, {",", "]"})
              item == Trim(SubSeq(file.text, q, e - 1))
          IN  /\ At(q) # "]"
              /\ list' = IF item = <<>> THEN list ELSE {[l EXCEPT !.items = Append(@, item)]}
              /\ pos' = IF At(e) = "," THEN e + 1 ELSE e
              /\ UNCHANGED <<file, block, site, sites, result>>

(* Only the mcp block minds an unknown tier. *)
ListEnd ==
    /\ result = "parsing" /\ \E l \in list :
          /\ Expected(pos, "]")
          /\ IF block = "mcp auth" /\ l.tier \notin Tiers
             THEN Stop("error")
             ELSE /\ list' = {}
                  /\ pos' = Skip(pos) + 1
                  /\ site' = CASE l.tier \notin Tiers -> site
                               [] block = "auth" -> [site EXCEPT !.auth[l.tier] = l.items]
                               [] OTHER -> [site EXCEPT !.mcp.auth[l.tier] = l.items]
                  /\ UNCHANGED <<file, block, sites, result>>

-----------------------------------------------------------------------------

Next ==
    \/ TopLevel \/ Site \/ Close
    \/ Commands \/ Meta \/ Mcp \/ ProxyCache \/ Limits
    \/ TierList \/ ListItem \/ ListEnd

Spec == Init /\ [][Next]_vars /\ WF_vars(Next)

-----------------------------------------------------------------------------
(* Properties.  A file holds "sites" when nothing is lost; its text has     *)
(* lost what "damage" says: "nothing", "tail" (the text ends early), "{",   *)
(* the block whose "}" is missing, or "word".                               *)

(* What an operator writes is what the daemon runs with, in whatever order  *)
(* the blocks stand, with comments and empty lines between and in them, and *)
(* one site's blocks do not reach into the next one's (parseConfig).        *)
ParsedAsWritten ==
    file.damage = "nothing" /\ result # "parsing" => result = "ok" /\ sites = file.sites

(* A file that ends too early or lacks a brace does not start a daemon with *)
(* other sites than it describes, except sites it describes to the end.     *)
(* The blocks that read their lines without looking for "{" are not so      *)
(* safe: without its own "}" such a block takes that of the next (parseSite,*)
(* parseCommands, parseMeta, parseProxyCache).                              *)
DamageIsNoticed ==
    result = "ok" =>
        /\ file.damage = "tail" => IsPrefix(sites, file.sites)
        /\ file.damage \in {"{", "site", "mcp", "auth", "limits"} => sites = file.sites

(* The parser has come to where it does not move any more: a loop that does *)
(* not look for the end of the file, or limits before a "{".                *)
Stuck ==
    /\ result = "parsing"
    /\ \/ Skip(pos) = End /\ (list # {} \/ block \in {"commands", "meta", "proxy-cache", "limits"})
       \/ block = "limits" /\ Expected(pos, "{")

(* Every parse ends, with sites, an error or a panic, except in those       *)
(* loops, which keep the daemon from starting without a word.               *)
EveryParseEnds == <>(result # "parsing" \/ []Stuck)

=============================================================================
