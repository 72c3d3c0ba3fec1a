----------------------------- MODULE SshwebMcp -----------------------------
(***************************************************************************)
(* The bridge cmd/sshweb-mcp: an MCP server over stdin and stdout whose    *)
(* tools are those of the SSH-Web site it is connected to (main.go), and   *)
(* an SSH client of that site (ssh.go).                                    *)
(*                                                                         *)
(* One loop reads a message, handles it to the end and only then reads the *)
(* next, so a client's later messages wait behind a site that does not     *)
(* answer.  The list of tools is read once, when a connection is made.  A  *)
(* call goes to the site as the words of an exec command, which the site   *)
(* takes apart again (mcp in internal/commands/handler.go).                *)
(***************************************************************************)
EXTENDS Integers, Sequences, FiniteSets, Functions, SequencesExt

CONSTANTS
    Sites,          \* the addresses clients connect to
    Dead,           \* the addresses that answer no packet
    NameOf,         \* the prefix of a site's tools (sanitizeHost), without the port
    Tools,          \* names of tools
    Arguments,      \* the arguments of calls: sets of [key, value], values as <<text, ...>>
                    \* (keys hold no blank and no "=")
    Shown,          \* what %v makes of a value's text, the identity but for large numbers
    Assigns,        \* the <<key, text>> a text reads as when it holds a "=": {} or one
    MaxSent         \* bound on the messages of the client

ASSUME SitesAssumption == Dead \subseteq Sites
ASSUME ArgumentsAssumption ==
    \A args \in Arguments :
        IsFiniteSet(args) /\ \A x, y \in args : x.key = y.key => x = y

VARIABLES
    inbox,      \* messages the client has sent and the loop has not read
    sent,       \* how many it has sent
    asked,      \* how many of them are requests, which are numbered; the others have id 0
    closed,     \* the client has closed its end
    step,       \* what the loop is in the middle of
    current,    \* the message it handles: <<>> or <<message>>
    conn,       \* server.conn: {} or {[site, tools]}
    link,       \* that connection still works
    words,      \* the arguments of the exec command in progress: [place -> word]
    replies,    \* the ids replied to, in order; 0 for a reply with a null id
    notices,    \* how many list_changed notifications have been sent
    listed,     \* the last list sent: {} or {[conn, notices]}, as both were then
    unnoticed   \* a connection was dropped and no notification sent since

vars == <<inbox, sent, asked, closed, step, current, conn, link, words, replies, notices, listed,
          unnoticed>>

(* "plain" is any request that is replied to at once and changes nothing:   *)
(* initialize, ping, sshweb_status, an unknown method, invalid params, a    *)
(* sshweb_connect without a host.  A "tool" is called as it was listed.     *)
Requests == {"plain", "list", "connect", "disconnect", "tool"}
Others   == {"initialized", "notification", "garbage"}

Init ==
    /\ inbox = <<>> /\ sent = 0 /\ asked = 0 /\ closed = FALSE
    /\ step = "idle" /\ current = <<>>
    /\ conn = {} /\ link = FALSE
    /\ words = <<>>
    /\ replies = <<>> /\ notices = 0
    /\ listed = {} /\ unnoticed = FALSE

-----------------------------------------------------------------------------
(* The client *)

Id(kind) == IF kind \in Requests THEN asked + 1 ELSE 0

Post(msg) ==
    /\ ~closed /\ sent < MaxSent
    /\ sent' = sent + 1
    /\ asked' = IF msg.kind \in Requests THEN asked + 1 ELSE asked
    /\ inbox' = Append(inbox, msg)
    /\ UNCHANGED <<closed, step, current, conn, link, words, replies, notices, listed, unnoticed>>

Send ==
    \/ \E k \in Others \cup {"plain", "list", "disconnect"} : Post([kind |-> k, id |-> Id(k)])
    \/ \E s \in Sites : Post([kind |-> "connect", id |-> Id("connect"), site |-> s])
    \/ \E l \in listed, args \in Arguments : \E c \in l.conn : \E t \in c.tools :
          Post([kind |-> "tool", id |-> Id("tool"), prefix |-> NameOf[c.site], tool |-> t,
                args |-> args, site |-> c.site, notices |-> l.notices])

HangUp ==
    /\ ~closed /\ closed' = TRUE
    /\ UNCHANGED <<inbox, sent, asked, step, current, conn, link, words, replies, notices, listed,
                   unnoticed>>

-----------------------------------------------------------------------------
(* run and handle: messages that are handled at once *)

Reply(msg) == replies' = Append(replies, msg.id)

(* The handler of the current message returns, with one reply. *)
Done ==
    /\ Reply(current[1])
    /\ step' = "idle" /\ current' = <<>>

(* The next message is read, and its handler done. *)
Take(kind) ==
    /\ step = "idle" /\ inbox # <<>> /\ Head(inbox).kind = kind
    /\ inbox' = Tail(inbox)
    /\ UNCHANGED <<sent, asked, closed, words>>

Plain ==
    /\ Take("plain")
    /\ Reply(Head(inbox))
    /\ UNCHANGED <<step, current, conn, link, notices, listed, unnoticed>>

(* Only the method "initialized" is known as a notification: another is     *)
(* taken for a request without an id, and like a line that is no JSON it is *)
(* replied to with an error and a null id.                                  *)
Unnumbered ==
    /\ \/ Take("initialized") /\ UNCHANGED replies
       \/ (Take("notification") \/ Take("garbage")) /\ replies' = Append(replies, 0)
    /\ UNCHANGED <<step, current, conn, link, notices, listed, unnoticed>>

ToolsList ==
    /\ Take("list")
    /\ Reply(Head(inbox))
    /\ listed' = {[conn |-> conn, notices |-> notices]}
    /\ UNCHANGED <<step, current, conn, link, notices, unnoticed>>

\* Mutant: a disconnect is not announced.
DisconnectSilently ==
    /\ Take("disconnect")
    /\ conn' = {} /\ link' = FALSE
    /\ Reply(Head(inbox))
    /\ UNCHANGED <<step, current, notices, listed, unnoticed>>

Notify == notices' = notices + 1 /\ unnoticed' = FALSE

Disconnect ==
    /\ Take("disconnect")
    /\ conn' = {} /\ link' = FALSE
    /\ Notify
    /\ Reply(Head(inbox))
    /\ UNCHANGED <<step, current, listed>>

End ==
    /\ step = "idle" /\ inbox = <<>> /\ closed
    /\ step' = "ended"
    /\ UNCHANGED <<inbox, sent, asked, closed, current, conn, link, words, replies, notices, listed,
                   unnoticed>>

-----------------------------------------------------------------------------
(* handleConnect *)

(* The connection there is goes before the new one is tried. *)
Connect ==
    /\ Take("connect")
    /\ current' = <<Head(inbox)>> /\ step' = "dial"
    /\ conn' = {} /\ link' = FALSE
    /\ unnoticed' = (unnoticed \/ conn # {})
    /\ UNCHANGED <<replies, notices, listed>>

Dialled ==
    /\ step = "dial" /\ current[1].site \notin Dead
    /\ step' = "handshake"
    /\ UNCHANGED <<inbox, sent, asked, closed, current, conn, link, words, replies, notices, listed,
                   unnoticed>>

ConnectFails ==
    /\ Done
    /\ UNCHANGED <<inbox, sent, asked, closed, conn, link, words, notices, listed, unnoticed>>

\* Mutant: a dial without a time limit, which only fails when it is refused.
DialRefused == step = "dial" /\ current[1].site \notin Dead /\ ConnectFails

DialFails == step = "dial" /\ ConnectFails

(* What the site does in the handshake, and its capabilities command: no    *)
(* time limit holds for them.                                               *)
ShakesHands ==
    /\ step = "handshake" /\ step' = "capabilities"
    /\ UNCHANGED <<inbox, sent, asked, closed, current, conn, link, words, replies, notices, listed,
                   unnoticed>>

HandshakeFails == step = "handshake" /\ ConnectFails

\* Mutant: the failure is replied to, and the handler goes on.
CapabilitiesFailOnly ==
    /\ step = "capabilities"
    /\ Reply(current[1])
    /\ UNCHANGED <<inbox, sent, asked, closed, step, current, conn, link, words, notices, listed,
                   unnoticed>>

CapabilitiesFail == step = "capabilities" /\ ConnectFails

\* Mutant: the new tools are not announced.
ConnectedSilently ==
    /\ step = "capabilities"
    /\ \E ts \in SUBSET Tools : conn' = {[site |-> current[1].site, tools |-> ts]}
    /\ link' = TRUE
    /\ Done
    /\ UNCHANGED <<inbox, sent, asked, closed, words, notices, listed, unnoticed>>

(* The tools are whatever the manifest names. *)
Connected ==
    /\ step = "capabilities"
    /\ \E ts \in SUBSET Tools : conn' = {[site |-> current[1].site, tools |-> ts]}
    /\ link' = TRUE
    /\ Notify
    /\ Done
    /\ UNCHANGED <<inbox, sent, asked, closed, words, listed>>

-----------------------------------------------------------------------------
(* handleSiteToolCall, invokeMCP and the site's mcp command *)

(* The arguments come in the order of a Go map, which is any. *)
Orders(args) == Bijection(1 .. Cardinality(args), args)

(* An argument is printed as "key=value", and broken at the blanks of its   *)
(* value when the site takes the command apart.  The place <<i, n>> is that *)
(* of the n-th word of the i-th argument.                                   *)
Places(order) == UNION {{i} \X (1 .. Len(order[i].value)) : i \in DOMAIN order}

Command(order) ==
    [p \in Places(order) |->
        [key  |-> IF p[2] = 1 THEN {order[p[1]].key} ELSE {},
         text |-> Shown[order[p[1]].value[p[2]]]]]

Before(p, q) == p[1] < q[1] \/ (p[1] = q[1] /\ p[2] < q[2])

\* Mutant: a word is split at its last "=".
AssignedLast(w) ==
    CASE w.key = {}          -> Assigns[w.text]
      [] Assigns[w.text] = {} -> {<<k, w.text>> : k \in w.key}
      [] OTHER               -> {<<k \o "=" \o p[1], p[2]>> : k \in w.key, p \in Assigns[w.text]}

(* The key and the text a word assigns: it is split at its first "=". *)
Assigned(w) == IF w.key = {} THEN Assigns[w.text] ELSE {<<k, w.text>> : k \in w.key}

Refused(ws) == \E p \in DOMAIN ws : Assigned(ws[p]) = {}

(* The arguments the site passes on, the last assignment of a key counts. *)
Received(ws) ==
    {a \in UNION {Assigned(ws[p]) : p \in DOMAIN ws} :
        \E p \in DOMAIN ws :
            /\ a \in Assigned(ws[p])
            /\ \A q \in DOMAIN ws : Before(p, q) => \A b \in Assigned(ws[q]) : b[1] # a[1]}

(* A tool is found by its name, in which the port of the site is missing. *)
Known(msg) == \E c \in conn : NameOf[c.site] = msg.prefix /\ msg.tool \in c.tools

Refuse ==
    /\ Take("tool") /\ ~(Known(Head(inbox)) /\ link)
    /\ Reply(Head(inbox))
    /\ UNCHANGED <<step, current, conn, link, notices, listed, unnoticed>>

Invoke ==
    /\ step = "idle" /\ inbox # <<>> /\ Head(inbox).kind = "tool"
    /\ Known(Head(inbox)) /\ link
    /\ inbox' = Tail(inbox)
    /\ current' = <<Head(inbox)>> /\ step' = "invoke"
    /\ \E o \in Orders(Head(inbox).args) : words' = Command(o)
    /\ UNCHANGED <<sent, asked, closed, conn, link, replies, notices, listed, unnoticed>>

(* The site has run the tool, or refused the arguments, or failed, or the   *)
(* connection broke: each is a result for the client.                       *)
Invoked ==
    /\ step = "invoke"
    /\ Done
    /\ words' = <<>>
    /\ UNCHANGED <<inbox, sent, asked, closed, conn, link, notices, listed, unnoticed>>

(* Nobody notices a connection that breaks, before the next call. *)
LinkLost ==
    /\ link /\ link' = FALSE
    /\ UNCHANGED <<inbox, sent, asked, closed, step, current, conn, words, replies, notices, listed,
                   unnoticed>>

-----------------------------------------------------------------------------

(* What the loop does by itself; the rest waits for the site. *)
Loop == \/ Plain \/ Unnumbered \/ ToolsList \/ Disconnect \/ Connect \/ Refuse \/ Invoke \/ End
        \/ DialFails

Next ==
    \/ Send \/ HangUp \/ LinkLost
    \/ Loop \/ Dialled \/ ShakesHands \/ HandshakeFails \/ CapabilitiesFail \/ Connected
    \/ Invoked

Spec == Init /\ [][Next]_vars /\ WF_vars(Loop)

-----------------------------------------------------------------------------
(* Properties *)

(* However connects fail and calls hang: the requests that have been       *)
(* handled have got one reply each, in their order, and those that wait     *)
(* none (run, handle).                                                      *)
OneReplyEach ==
    LET waiting == {msg.id : msg \in ToSet(current \o inbox)}
    IN  /\ ToSet(replies) \ {0} = (1 .. asked) \ waiting
        /\ \A i, j \in DOMAIN replies :
              i < j /\ replies[i] # 0 /\ replies[j] # 0 => replies[i] < replies[j]

(* A client that hears of no change may rely on the list it has: it is the  *)
(* list it would get now.  The exception is a connect that fails after the  *)
(* old connection was dropped for it: it takes the tools away in silence    *)
(* (handleConnect, handleDisconnect).                                       *)
ToldOfChange ==
    \A l \in listed :
        step = "idle" /\ l.notices = notices
            => unnoticed \/ conn = l.conn

(* A call runs at the site whose list it was made from, or a change was     *)
(* announced after that list, though the name of a tool does not tell two   *)
(* ports of a host apart (mcpName, handleSiteToolCall).                     *)
CallsRunWhereMeant ==
    \A c \in conn :
        step = "invoke" => \/ c.site = current[1].site
                           \/ notices > current[1].notices

(* A tool receives the arguments its caller gave, in whatever order they    *)
(* travel, when no value holds a blank and none is a number that %v prints  *)
(* with an exponent (invokeMCP, and mcp at the site).                       *)
ArgumentsArrive ==
    step = "invoke" /\ (\A a \in current[1].args : Len(a.value) = 1 /\ Shown[a.value[1]] = a.value[1])
        => /\ ~Refused(words)
           /\ Received(words) = {<<a.key, a.value[1]>> : a \in current[1].args}

(* Every request is replied to, and the bridge ends after its client,       *)
(* unless a site that accepted the connection keeps silent: only the dial   *)
(* has a time limit (dialTimeout).                                          *)
Silence == step \in {"handshake", "capabilities", "invoke"}

EveryRequestIsReplied ==
    /\ \A n \in 1 .. MaxSent : asked >= n ~> (n \in ToSet(replies) \/ []Silence)
    /\ closed ~> (step = "ended" \/ []Silence)

=============================================================================
