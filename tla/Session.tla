------------------------------ MODULE Session ------------------------------
(***************************************************************************)
(* What happens to a session channel of one site, from its first request   *)
(* to its close: the request loop, exec and the interactive shell of       *)
(* internal/server/server.go, the rate limiter and the authorization in    *)
(* front of the handler, and the handler's dispatch and calls to the       *)
(* backend (internal/commands/handler.go, internal/backend/backend.go).    *)
(*                                                                         *)
(* Every session runs on a goroutine of its own and a command may wait for *)
(* the backend, so sessions interleave; the limiter is shared.  What a     *)
(* client sends on a connection comes through one goroutine, the mux of    *)
(* golang.org/x/crypto/ssh (external), which puts channel requests into a  *)
(* bounded queue per channel and waits when that queue is full.            *)
(***************************************************************************)
EXTENDS TokenBucket, Authorization

CONSTANTS
    Conns, Sessions,    \* connections, and the session channels on them
    ConnOf,             \* the connection of each session
    Perms,              \* what a handshake can establish (see AuthorizedKeys)
    Commands, Lines,    \* what clients exec, and type in a shell: sequences of words
    EnvValues,          \* values clients give SSHWEB_PUBKEY
    AuthCfg,            \* the auth block: tier -> set of entries
    Declared,           \* the commands block: set of [type, method, route]
    PathOf,             \* the path a word of a command stands for
    Upper,              \* a word in upper case
    HasRoot, HasBackend, HasMcp, HasProxy,  \* what the site configures
    Limits,             \* the limits block: tier -> LimitSpec
    QueueSize,          \* channel requests the transport holds per channel
    MaxTime,            \* bound on the clock
    MaxSent             \* bound on the messages a client sends per session

Tiers == {"anonymous", "identified", "trusted"}

(* A connection without permissions is anonymous (handleConnection). *)
Anonymous == [tier |-> "anonymous", fingerprint |-> "", pubkey |-> ""]

ASSUME ConnsAssumption == ConnOf \in [Sessions -> Conns]
ASSUME BoundsAssumption == {QueueSize, MaxTime, MaxSent} \subseteq Nat
ASSUME LimitsAssumption == Limits \in [Tiers -> LimitSpec]
ASSUME WordsAssumption == Commands \cup Lines \subseteq Seq(Words) /\ EnvValues \subseteq STRING
ASSUME PermsAssumption == /\ Perms \subseteq [tier : Tiers, fingerprint : STRING, pubkey : STRING]
                          /\ \A p \in Perms : p.tier = "anonymous" => p = Anonymous

(* What a client can send.  "env" sets SSHWEB_PUBKEY, "noise" is any        *)
(* request the loop refuses or accepts without effect: a malformed env or   *)
(* exec, another variable, pty-req, window-change...  A "line" is data.     *)
Requests == [type : {"env"}, value : EnvValues] \cup [type : {"exec"}, command : Commands]
               \cup [type : {"shell", "noise"}]
Messages == Requests \cup [type : {"line"}, command : Lines]

VARIABLES
    now, bucket,    \* the clock, and the limiter's buckets
    perms,          \* Permissions of each connection, as handleConnection reads them
    held,           \* the request each mux waits to put into a full queue, if any
    sent,           \* how many messages each session's client sent
    queue,          \* channel requests waiting for the request loop
    input,          \* data waiting to be read: its words, and whether there is any
    hungUp,         \* the connection is closed or lost
    pc,             \* where handleSession stands
    mode,           \* "exec" or "shell", once chosen
    info,           \* SessionInfo
    command,        \* the command in progress
    status,         \* the exit-status requests sent to the client
    \* History:
    calls,          \* the calls the backend and the MCP server have received
    ran,            \* how many commands of each tier reached the handler
    said            \* the values each client gave SSHWEB_PUBKEY

client == <<held, sent, queue, input, hungUp, said>>
vars   == <<now, bucket, perms, held, sent, queue, input, hungUp, pc, mode, info,
            command, status, calls, ran, said>>

NoInput == [some |-> FALSE, words |-> <<>>]

Init ==
    /\ now = 0
    /\ bucket = [t \in Tiers |-> ParseBucket(Limits[t], 0)]
    /\ perms \in [Conns -> Perms]
    /\ held    = [c \in Conns |-> <<>>]
    /\ sent    = [s \in Sessions |-> 0]
    /\ queue   = [s \in Sessions |-> <<>>]
    /\ input   = [s \in Sessions |-> NoInput]
    /\ hungUp  = [s \in Sessions |-> FALSE]
    /\ pc      = [s \in Sessions |-> "requests"]
    /\ mode    = [s \in Sessions |-> "none"]
    /\ info    = [s \in Sessions |-> perms[ConnOf[s]]]
    /\ command = [s \in Sessions |-> <<>>]
    /\ status  = [s \in Sessions |-> <<>>]
    /\ calls   = {}
    /\ ran     = [t \in Tiers |-> 0]
    /\ said    = [s \in Sessions |-> {}]

-----------------------------------------------------------------------------
(* The client and the transport *)

(* A message is sent, and the mux passes it on: data to the channel's       *)
(* buffer, a request to its queue.  While a request waits for a full queue, *)
(* whichever session's it is, nothing passes on this connection.            *)
Send(s, m) ==
    LET c == ConnOf[s]
    IN  /\ sent[s] < MaxSent
        /\ ~hungUp[s]
        /\ held[c] = <<>>
        /\ sent' = [sent EXCEPT ![s] = @ + 1]
        /\ \/ /\ m.type = "line"
              /\ input' = [input EXCEPT ![s] = [some |-> TRUE, words |-> @.words \o m.command]]
              /\ UNCHANGED <<queue, held>>
           \/ /\ m \in Requests
              /\ IF Len(queue[s]) < QueueSize
                 THEN queue' = [queue EXCEPT ![s] = Append(@, m)] /\ UNCHANGED held
                 ELSE held' = [held EXCEPT ![c] = <<s, m>>] /\ UNCHANGED queue
              /\ UNCHANGED input
        /\ said' = IF m.type = "env" THEN [said EXCEPT ![s] = @ \cup {m.value}] ELSE said
        /\ UNCHANGED <<now, bucket, perms, hungUp, pc, mode, info, command, status, calls, ran>>

(* There is room for the request the mux holds. *)
Deliver(c) ==
    /\ held[c] # <<>>
    /\ LET s == held[c][1]
       IN  /\ Len(queue[s]) < QueueSize
           /\ queue' = [queue EXCEPT ![s] = Append(@, held[c][2])]
    /\ held' = [held EXCEPT ![c] = <<>>]
    /\ UNCHANGED <<now, bucket, perms, sent, input, hungUp, pc, mode, info, command, status,
                   calls, ran, said>>

(* The connection is closed or lost, and the mux, unless it waits for a     *)
(* queue, tells its channels: each sees its end once it has taken what came *)
(* before.                                                                  *)
HangUp(c) ==
    /\ held[c] = <<>>
    /\ \E s \in Sessions : ConnOf[s] = c /\ ~hungUp[s]
    /\ hungUp' = [s \in Sessions |-> hungUp[s] \/ ConnOf[s] = c]
    /\ UNCHANGED <<now, bucket, perms, held, sent, queue, input, pc, mode, info, command,
                   status, calls, ran, said>>

Tick ==
    /\ now < MaxTime
    /\ now' = now + 1
    /\ UNCHANGED <<bucket, perms, client, pc, mode, info, command, status, calls, ran>>

-----------------------------------------------------------------------------
(* handleSession: the loop over the channel's requests.                     *)

\* Mutant: a request the loop refuses ends it.
NoiseEnds(s) ==
    /\ pc[s] = "requests" /\ queue[s] # <<>> /\ Head(queue[s]).type = "noise"
    /\ queue' = [queue EXCEPT ![s] = Tail(@)]
    /\ pc' = [pc EXCEPT ![s] = "closed"]
    /\ UNCHANGED <<now, bucket, perms, held, sent, input, hungUp, mode, info, command,
                   status, calls, ran, said>>

Noise(s) ==
    /\ pc[s] = "requests" /\ queue[s] # <<>> /\ Head(queue[s]).type = "noise"
    /\ queue' = [queue EXCEPT ![s] = Tail(@)]
    /\ UNCHANGED <<now, bucket, perms, held, sent, input, hungUp, pc, mode, info, command,
                   status, calls, ran, said>>

\* Mutant: the variable reaches every session of the connection's tier.
SetEnvEverywhere(s) ==
    /\ pc[s] = "requests" /\ queue[s] # <<>> /\ Head(queue[s]).type = "env"
    /\ queue' = [queue EXCEPT ![s] = Tail(@)]
    /\ info' = [r \in Sessions |-> IF info[r].tier = info[s].tier
                                   THEN [info[r] EXCEPT !.pubkey = Head(queue[s]).value]
                                   ELSE info[r]]
    /\ UNCHANGED <<now, bucket, perms, held, sent, input, hungUp, pc, mode, command, status,
                   calls, ran, said>>

SetEnv(s) ==
    /\ pc[s] = "requests" /\ queue[s] # <<>> /\ Head(queue[s]).type = "env"
    /\ queue' = [queue EXCEPT ![s] = Tail(@)]
    /\ info' = [info EXCEPT ![s].pubkey = Head(queue[s]).value]
    /\ UNCHANGED <<now, bucket, perms, held, sent, input, hungUp, pc, mode, command, status,
                   calls, ran, said>>

(* The first exec or shell request is the last one the loop takes. *)
Start(s) ==
    /\ pc[s] = "requests" /\ queue[s] # <<>> /\ Head(queue[s]).type \in {"exec", "shell"}
    /\ queue' = [queue EXCEPT ![s] = Tail(@)]
    /\ mode' = [mode EXCEPT ![s] = Head(queue[s]).type]
    /\ pc' = [pc EXCEPT ![s] = Head(queue[s]).type]
    /\ command' = IF Head(queue[s]).type = "exec"
                  THEN [command EXCEPT ![s] = Head(queue[s]).command] ELSE command
    /\ UNCHANGED <<now, bucket, perms, held, sent, input, hungUp, info, status, calls, ran,
                   said>>

EndOfRequests(s) ==
    /\ pc[s] = "requests" /\ queue[s] = <<>> /\ hungUp[s]
    /\ pc' = [pc EXCEPT ![s] = "closed"]
    /\ UNCHANGED <<now, bucket, perms, client, mode, info, command, status, calls, ran>>

-----------------------------------------------------------------------------
(* interactiveSession: one Read returns everything that has come in, and is *)
(* taken for one line.                                                      *)

ReadLine(s) ==
    /\ pc[s] = "shell" /\ input[s].some
    /\ input' = [input EXCEPT ![s] = NoInput]
    /\ LET line == input[s].words
       IN  /\ pc' = [pc EXCEPT ![s] = CASE line = <<>>                   -> "shell"
                                        [] line \in {<<"quit">>, <<"exit">>} -> "closed"
                                        [] OTHER                         -> "admit"]
           /\ command' = [command EXCEPT ![s] = line]
    /\ UNCHANGED <<now, bucket, perms, held, sent, queue, hungUp, mode, info, status, calls,
                   ran, said>>

EndOfInput(s) ==
    /\ pc[s] = "shell" /\ ~input[s].some /\ hungUp[s]
    /\ pc' = [pc EXCEPT ![s] = "closed"]
    /\ UNCHANGED <<now, bucket, perms, client, mode, info, command, status, calls, ran>>

-----------------------------------------------------------------------------
(* executeCommand, and what it shares with the shell.                       *)

\* Mutant: an exec that fails is reported like one that ran.
FinishSilently(s, code) ==
    /\ IF mode[s] = "exec"
       THEN /\ status' = [status EXCEPT ![s] = Append(@, IF code = 3 THEN 3 ELSE 0)]
            /\ pc' = [pc EXCEPT ![s] = "closed"]
       ELSE /\ pc' = [pc EXCEPT ![s] = "shell"]
            /\ UNCHANGED status

(* An exec reports its outcome and closes the channel; a shell prints it    *)
(* and prompts again.                                                       *)
Finish(s, code) ==
    /\ IF mode[s] = "exec"
       THEN /\ status' = [status EXCEPT ![s] = Append(@, code)]
            /\ pc' = [pc EXCEPT ![s] = "closed"]
       ELSE /\ pc' = [pc EXCEPT ![s] = "shell"]
            /\ UNCHANGED status

EmptyCommand(s) ==
    /\ pc[s] = "exec" /\ command[s] = <<>>
    /\ Finish(s, 2)
    /\ UNCHANGED <<now, bucket, perms, client, mode, info, command, calls, ran>>

NeedsToken(s) == pc[s] = "admit" \/ (pc[s] = "exec" /\ command[s] # <<>>)

\* Mutant: a call the limiter refuses waits for a token.
RateLimitedWaits(s) ==
    /\ NeedsToken(s)
    /\ ~Grants(bucket[info[s].tier], now)
    /\ bucket' = [bucket EXCEPT ![info[s].tier] = AfterCall(@, now)]
    /\ UNCHANGED <<now, perms, client, pc, status, mode, info, command, calls, ran>>

RateLimited(s) ==
    /\ NeedsToken(s)
    /\ ~Grants(bucket[info[s].tier], now)
    /\ bucket' = [bucket EXCEPT ![info[s].tier] = AfterCall(@, now)]
    /\ Finish(s, 3)
    /\ UNCHANGED <<now, perms, client, mode, info, command, calls, ran>>

\* Mutant: the token is looked at but not taken.
AdmitFree(s) ==
    /\ NeedsToken(s)
    /\ Grants(bucket[info[s].tier], now)
    /\ ran' = [ran EXCEPT ![info[s].tier] = @ + 1]
    /\ pc' = [pc EXCEPT ![s] = "handler"]
    /\ UNCHANGED <<now, bucket, perms, client, mode, info, command, status, calls>>

Admit(s) ==
    /\ NeedsToken(s)
    /\ Grants(bucket[info[s].tier], now)
    /\ bucket' = [bucket EXCEPT ![info[s].tier] = AfterCall(@, now)]
    /\ ran' = [ran EXCEPT ![info[s].tier] = @ + 1]
    /\ pc' = [pc EXCEPT ![s] = "handler"]
    /\ UNCHANGED <<now, perms, client, mode, info, command, status, calls>>

-----------------------------------------------------------------------------
(* The handler: Execute in a shell, ExecuteBinary for an exec, and what     *)
(* each command does up to its call to the backend or the MCP server.       *)

Verb(s) == command[s][1]

\* Mutant: only the verb is authorized.
AuthorizedByVerb(s) ==
    \/ Verb(s) = "capabilities"
    \/ \E e \in AllowedEntries(info[s].tier, AuthCfg) : e.words[1] = Verb(s)

Authorized(s) ==
    \/ Verb(s) = "capabilities"
    \/ IsCommandAllowed(info[s].tier, command[s], AuthCfg)

(* The text form only knows the content root; the binary form falls back to *)
(* the backend when the root is missing or cannot serve the path.           *)
ReceivePack(s) ==
    IF mode[s] = "exec"
    THEN (IF HasRoot THEN {"ok"} ELSE {}) \cup {IF HasBackend THEN "backend" ELSE "error"}
    ELSE (IF HasRoot THEN {"ok"} ELSE {}) \cup {"error"}

ApiCall(s) ==
    IF /\ Len(command[s]) >= 3
       /\ RouteAllowed(Declared, "api-call", Upper[command[s][2]], PathOf[command[s][3]])
       /\ HasBackend
    THEN {"backend"} ELSE {"error"}

ProxyCall(s) ==
    IF Len(command[s]) >= 3 /\ Upper[command[s][2]] = "GET" /\ HasProxy
    THEN {"ok", "error"} ELSE {"error"}

Mcp(s) == IF Len(command[s]) >= 2 /\ HasMcp THEN {"mcp", "error"} ELSE {"error"}

(* What the command may do next: end, or call out. *)
Outcomes(s) ==
    IF ~Authorized(s) THEN {"error"}
    ELSE CASE Verb(s) = "capabilities" -> {"ok"}
           [] Verb(s) = "receive-pack" -> ReceivePack(s)
           [] Verb(s) = "api-call"     -> ApiCall(s)
           [] Verb(s) = "proxy-call"   -> ProxyCall(s)
           [] Verb(s) = "mcp"          -> Mcp(s)
           [] Verb(s) \in {"rss-feed", "sitemap", "robots"} -> {"ok", "error"}
           [] OTHER                    -> {"error"}

Nobody == [tier |-> "none", fingerprint |-> "none", pubkey |-> "none"]

(* APICall and FetchResource forward the session's identity; CallTool has   *)
(* no parameter for it.                                                     *)
Call(s, to) ==
    [session |-> s, to |-> to, command |-> command[s],
     identity |-> IF to = "backend" THEN info[s] ELSE Nobody]

(* A response is written to the channel, at once when it fits the window    *)
(* the client has granted.                                                  *)
Respond(s) ==
    \/ Finish(s, 0)
    \/ pc' = [pc EXCEPT ![s] = "writing"] /\ UNCHANGED status

Dispatch(s) ==
    /\ pc[s] = "handler"
    /\ \E o \in Outcomes(s) :
          \/ o = "ok" /\ Respond(s) /\ UNCHANGED calls
          \/ o = "error" /\ Finish(s, 1) /\ UNCHANGED calls
          \/ /\ o \in {"backend", "mcp"}
             /\ pc' = [pc EXCEPT ![s] = o]
             /\ calls' = calls \cup {Call(s, o)}
             /\ UNCHANGED status
    /\ UNCHANGED <<now, bucket, perms, client, mode, info, command, ran>>

(* The answer comes, or the call fails. *)
Answer(s, from) ==
    /\ pc[s] = from
    /\ Respond(s) \/ Finish(s, 1)
    /\ UNCHANGED <<now, bucket, perms, client, mode, info, command, calls, ran>>

(* The rest of a response goes out when the client grants more, or fails    *)
(* when the channel is gone; either way it is the mux that brings the news. *)
Write(s) ==
    /\ pc[s] = "writing" /\ held[ConnOf[s]] = <<>>
    /\ Finish(s, IF hungUp[s] THEN 1 ELSE 0)
    /\ UNCHANGED <<now, bucket, perms, client, mode, info, command, calls, ran>>

-----------------------------------------------------------------------------

(* The steps of a session's goroutine, all but those that wait for an MCP   *)
(* server: HTTP calls end after 30 seconds at the latest, a call to an MCP  *)
(* server has no limit.  Write is here because a client takes what it asked *)
(* for.                                                                     *)
Server(s) ==
    \/ Noise(s) \/ SetEnv(s) \/ Start(s) \/ EndOfRequests(s)
    \/ ReadLine(s) \/ EndOfInput(s)
    \/ EmptyCommand(s) \/ RateLimited(s) \/ Admit(s)
    \/ Dispatch(s) \/ Answer(s, "backend") \/ Write(s)

Next ==
    \/ \E s \in Sessions : Server(s) \/ Answer(s, "mcp")
    \/ \E s \in Sessions, m \in Messages : Send(s, m)
    \/ \E c \in Conns : Deliver(c) \/ HangUp(c)
    \/ Tick

(* Goroutines that can run are scheduled.  Nothing obliges a client to send *)
(* anything, nor an MCP server to answer.                                   *)
Spec ==
    /\ Init /\ [][Next]_vars
    /\ \A s \in Sessions : WF_vars(Server(s))
    /\ \A c \in Conns : WF_vars(Deliver(c))

-----------------------------------------------------------------------------
(* Properties *)

Identity == [tier : Tiers, fingerprint : STRING, pubkey : STRING]

TypeOK ==
    /\ now \in Nat
    /\ bucket \in [Tiers -> [count : Nat, period : Nat \ {0}, tokens : Nat, last : Nat]]
    /\ \A t \in Tiers : /\ bucket[t].tokens <= bucket[t].count * bucket[t].period
                        /\ bucket[t].last <= now
    /\ perms \in [Conns -> Perms]
    /\ held \in [Conns -> {<<>>} \cup (Sessions \X Requests)]
    /\ sent \in [Sessions -> Nat]
    /\ queue \in [Sessions -> Seq(Requests)]
    /\ \A s \in Sessions : Len(queue[s]) <= QueueSize
    /\ input \in [Sessions -> [some : BOOLEAN, words : Seq(Words)]]
    /\ hungUp \in [Sessions -> BOOLEAN]
    /\ pc \in [Sessions -> {"requests", "exec", "shell", "admit", "handler", "backend",
                            "mcp", "writing", "closed"}]
    /\ mode \in [Sessions -> {"none", "exec", "shell"}]
    /\ info \in [Sessions -> Identity]
    /\ command \in [Sessions -> Seq(Words)]
    /\ status \in [Sessions -> Seq(0 .. 3)]
    /\ calls \subseteq [session : Sessions, to : {"backend", "mcp"}, command : Seq(Words),
                       identity : Identity \cup {Nobody}]
    /\ ran \in [Tiers -> Nat]
    /\ said \in [Sessions -> SUBSET EnvValues]

CallsOf(s) == {c \in calls : c.session = s}

(* An exec that ended reported exactly one status, and the right one: 2 for *)
(* an empty command; 3 only when nothing was run; 1 when the tier may not   *)
(* run it; 0 only for a command the tier may run.  A session that was no    *)
(* exec reports none (executeCommand, handleSession, interactiveSession).   *)
ExitStatusTellsOutcome ==
    \A s \in Sessions :
        /\ mode[s] # "exec" => status[s] = <<>>
        /\ mode[s] = "exec" /\ pc[s] # "closed" => status[s] = <<>>
        /\ mode[s] = "exec" /\ pc[s] = "closed" =>
              /\ Len(status[s]) = 1
              /\ status[s] = <<2>> <=> command[s] = <<>>
              /\ status[s] = <<3>> => CallsOf(s) = {}
              /\ status[s] = <<0>> => command[s][1] = "capabilities"
                                      \/ IsCommandAllowed(info[s].tier, command[s], AuthCfg)

(* Whatever a client sets in its environment, and whatever other sessions   *)
(* do, the backend hears the tier and the fingerprint of the session's own  *)
(* handshake, and a public key from the handshake or from the session's own *)
(* client.                                                                  *)
BackendHearsHandshake ==
    \A c \in calls : c.to = "backend" =>
        LET p == perms[ConnOf[c.session]]
        IN  /\ c.identity.tier = p.tier
            /\ c.identity.fingerprint = p.fingerprint
            /\ \/ c.identity.pubkey = p.pubkey
               \/ c.identity.pubkey \in said[c.session]

(* The backend and the MCP server only get commands the handshake's tier    *)
(* may run, and api-calls only on declared routes.                          *)
OnlyAllowedCallsOut ==
    \A c \in calls :
        /\ IsCommandAllowed(perms[ConnOf[c.session]].tier, c.command, AuthCfg)
        /\ c.command[1] = "api-call" =>
              RouteAllowed(Declared, "api-call", Upper[c.command[2]], PathOf[c.command[3]])

(* However many sessions and connections its clients spread them over, the  *)
(* commands of a tier that reach the handler stay within the tier's limit.  *)
WorkWithinLimit ==
    \A t \in Tiers : bucket[t].count > 0 =>
        ran[t] * bucket[t].period <= bucket[t].count * (bucket[t].period + now)

(* An exec ends: with its answer, refused, or when the backend times out.   *)
(* Only two things may take for ever: a call to an MCP server, and writing  *)
(* a response while the mux waits for a queue that nobody empties any more. *)
EveryExecEnds ==
    \A s \in Sessions :
        pc[s] = "exec" ~> \/ pc[s] = "closed" \/ pc[s] = "mcp"
                          \/ [](pc[s] = "writing" /\ held[ConnOf[s]] # <<>>)

(* What the mux holds passes on in the end, unless its connection stands    *)
(* still for good.  That takes a session whose loop is over because it has  *)
(* its exec or shell, and whose own client went on with more requests than  *)
(* a queue holds (handleSession, which returns without draining them).      *)
StandstillOnlyOnceStarted ==
    \A c \in Conns :
        held[c] # <<>> ~> \/ held[c] = <<>>
                          \/ [](/\ held[c] # <<>>
                                /\ mode[held[c][1]] # "none"
                                /\ sent[held[c][1]] > QueueSize + 1)

=============================================================================
