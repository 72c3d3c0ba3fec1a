------------------------------ MODULE McpProxy ------------------------------
(***************************************************************************)
(* The client of an MCP server (internal/mcpproxy/mcpproxy.go): Start with *)
(* its handshake, and the tool calls of concurrent sessions, over the two  *)
(* pipes to the server's process.                                          *)
(*                                                                         *)
(* A mutex is held from the writing of a request to the reading of its     *)
(* answer.  A request goes into the server's stdin in parts, as the pipe   *)
(* has room, and nobody reads the server's stdout before the last part is  *)
(* written.  The server is external: it reads, answers each request it has *)
(* read once, sends notifications and requests of its own (which have ids  *)
(* of the server's choice), does not read while it is writing, and may die *)
(* at any point.                                                           *)
(***************************************************************************)
EXTENDS Integers, Sequences

CONSTANTS
    Calls,          \* the tool calls of all sessions, each made once
    Size,           \* the parts of each request
    Capacity,       \* parts or messages a pipe holds
    ServerIds,      \* ids the server gives its own requests
    MaxChatter      \* bound on what the server says of its own

Startup  == {"initialize", "initialized", "tools/list"}
Requests == Startup \cup Calls

ASSUME CallsAssumption == Calls \cap Startup = {}
ASSUME SizeAssumption == Size \in [Requests -> Nat \ {0}]
ASSUME ServerIdsAssumption == ServerIds \subseteq Int
ASSUME BoundsAssumption == {Capacity, MaxChatter} \subseteq Nat

VARIABLES
    stage,      \* where each request stands
    id,         \* its id, once it has one
    left,       \* the parts of it still to be written
    mu,         \* the mutex: {} or {its holder}
    nextID,
    stdin,      \* parts on the way to the server
    stdout,     \* messages on the way from it
    got,        \* whose answer each request returned: {} or {request}
    close,      \* Close, when Start gives up: "no", "waiting", "returned"
    \* The server:
    alive,
    asked,      \* the requests it has read and not answered
    saying,     \* the message it is writing: <<>> or <<message>>
    chatter,    \* how much it said of its own
    \* History:
    executed    \* the requests it has executed

proxy  == <<stage, id, left, mu, nextID, got, close>>
server == <<alive, asked, saying, chatter, executed>>
vars   == <<stage, id, left, mu, nextID, stdin, stdout, got, close, alive, asked, saying,
            chatter, executed>>

Init ==
    /\ stage = [r \in Requests |-> "new"]
    /\ id = [r \in Requests |-> 0]
    /\ left = [r \in Requests |-> 0]
    /\ mu = {}
    /\ nextID = 0
    /\ stdin = <<>> /\ stdout = <<>>
    /\ got = [r \in Requests |-> {}]
    /\ close = "no"
    /\ alive = TRUE
    /\ asked = {}
    /\ saying = <<>>
    /\ chatter = 0
    /\ executed = {}

-----------------------------------------------------------------------------
(* Start, CallTool: who may begin *)

(* Start makes its three requests one after the other; sessions come when   *)
(* it has returned.                                                         *)
Turn(r) ==
    CASE r = "initialize"  -> TRUE
      [] r = "initialized" -> stage["initialize"] = "ok"
      [] r = "tools/list"  -> stage["initialized"] = "ok"
      [] OTHER             -> stage["tools/list"] = "ok"

Begin(r) ==
    /\ stage[r] = "new" /\ Turn(r)
    /\ stage' = [stage EXCEPT ![r] = "locking"]
    /\ UNCHANGED <<id, left, mu, nextID, stdin, stdout, got, close, server>>

(* Start gives up when one of its requests fails: Close closes the stdin of *)
(* the server, and waits for its end without reading what it still says.    *)
GiveUp ==
    /\ close = "no"
    /\ \E r \in Startup : stage[r] = "error"
    /\ close' = "waiting"
    /\ UNCHANGED <<stage, id, left, mu, nextID, stdin, stdout, got, server>>

\* Mutant: Close waits until all output has been read, which nobody does.
CloseDrains ==
    /\ close = "waiting" /\ ~alive /\ stdout = <<>>
    /\ close' = "returned"
    /\ UNCHANGED <<stage, id, left, mu, nextID, stdin, stdout, got, server>>

CloseReturns ==
    /\ close = "waiting" /\ ~alive
    /\ close' = "returned"
    /\ UNCHANGED <<stage, id, left, mu, nextID, stdin, stdout, got, server>>

-----------------------------------------------------------------------------
(* call, and notify, which ends when the message is written *)

\* Mutant: the mutex is not waited for.
LockAnyway(r) ==
    /\ stage[r] = "locking"
    /\ mu' = {r}
    /\ stage' = [stage EXCEPT ![r] = "writing"]
    /\ left' = [left EXCEPT ![r] = Size[r]]
    /\ nextID' = nextID + 1
    /\ id' = [id EXCEPT ![r] = nextID + 1]
    /\ UNCHANGED <<stdin, stdout, got, close, server>>

Lock(r) ==
    /\ stage[r] = "locking" /\ mu = {}
    /\ mu' = {r}
    /\ stage' = [stage EXCEPT ![r] = "writing"]
    /\ left' = [left EXCEPT ![r] = Size[r]]
    /\ IF r = "initialized"
       THEN UNCHANGED <<nextID, id>>
       ELSE nextID' = nextID + 1 /\ id' = [id EXCEPT ![r] = nextID + 1]
    /\ UNCHANGED <<stdin, stdout, got, close, server>>

(* The request is over, and the mutex free. *)
Over(r, outcome) == mu' = {} /\ stage' = [stage EXCEPT ![r] = outcome]

Write(r) ==
    /\ stage[r] = "writing" /\ alive /\ Len(stdin) < Capacity
    /\ stdin' = Append(stdin, [of |-> r, id |-> id[r], last |-> left[r] = 1])
    /\ left' = [left EXCEPT ![r] = @ - 1]
    /\ \/ left[r] > 1 /\ UNCHANGED <<mu, stage>>
       \/ left[r] = 1 /\ r = "initialized" /\ Over(r, "ok")
       \/ left[r] = 1 /\ r # "initialized" /\ stage' = [stage EXCEPT ![r] = "reading"] /\ UNCHANGED mu
    /\ UNCHANGED <<id, nextID, stdout, got, close, server>>

\* Mutant: a write to a server that is gone is tried again.
WriteRetries(r) ==
    /\ stage[r] = "writing" /\ ~alive
    /\ UNCHANGED vars

WriteFails(r) ==
    /\ stage[r] = "writing" /\ ~alive
    /\ Over(r, "error")
    /\ UNCHANGED <<id, left, nextID, stdin, stdout, got, close, server>>

(* What a message with the request's own id means: its answer, an error, or *)
(* a request of the server, which has no result; initialize does not look   *)
(* at the result, the others fail on one that is missing.                   *)
Outcome(r, msg) ==
    IF \/ msg.kind = "answer" /\ msg.good
       \/ msg.kind = "request" /\ r = "initialize"
    THEN "ok" ELSE "error"

\* Mutant: the first answer that comes is taken.
ReadFirst(r) ==
    /\ stage[r] = "reading" /\ stdout # <<>>
    /\ stdout' = Tail(stdout)
    /\ LET msg == Head(stdout)
       IN  IF msg.kind # "notification"
           THEN /\ Over(r, Outcome(r, msg))
                /\ got' = IF Outcome(r, msg) = "ok" THEN [got EXCEPT ![r] = msg.of] ELSE got
           ELSE UNCHANGED <<stage, mu, got>>
    /\ UNCHANGED <<id, left, nextID, stdin, close, server>>

(* One line is read; it is skipped unless its id is the request's. *)
Read(r) ==
    /\ stage[r] = "reading" /\ stdout # <<>>
    /\ stdout' = Tail(stdout)
    /\ LET msg == Head(stdout)
       IN  IF msg.kind # "notification" /\ msg.id = id[r]
           THEN /\ Over(r, Outcome(r, msg))
                /\ got' = IF Outcome(r, msg) = "ok" THEN [got EXCEPT ![r] = msg.of] ELSE got
           ELSE UNCHANGED <<stage, mu, got>>
    /\ UNCHANGED <<id, left, nextID, stdin, close, server>>

ReadFails(r) ==
    /\ stage[r] = "reading" /\ stdout = <<>> /\ ~alive
    /\ Over(r, "error")
    /\ UNCHANGED <<id, left, nextID, stdin, stdout, got, close, server>>

-----------------------------------------------------------------------------
(* The MCP server *)

ServerReads ==
    /\ alive /\ saying = <<>> /\ stdin # <<>>
    /\ stdin' = Tail(stdin)
    /\ asked' = IF Head(stdin).last /\ Head(stdin).of # "initialized"
                THEN asked \cup {[of |-> Head(stdin).of, id |-> Head(stdin).id]} ELSE asked
    /\ UNCHANGED <<proxy, stdout, alive, saying, chatter, executed>>

Answer(r) ==
    /\ alive /\ saying = <<>>
    /\ \E q \in asked, good \in BOOLEAN :
          /\ q.of = r
          /\ asked' = asked \ {q}
          /\ saying' = <<[kind |-> "answer", id |-> q.id, of |-> {r}, good |-> good]>>
    /\ executed' = executed \cup {r}
    /\ UNCHANGED <<proxy, stdin, stdout, alive, chatter>>

Chat ==
    /\ alive /\ saying = <<>> /\ chatter < MaxChatter
    /\ chatter' = chatter + 1
    /\ \/ saying' = <<[kind |-> "notification"]>>
       \/ \E i \in ServerIds : saying' = <<[kind |-> "request", id |-> i, of |-> {}]>>
    /\ UNCHANGED <<proxy, stdin, stdout, alive, asked, executed>>

ServerWrites ==
    /\ alive /\ saying # <<>> /\ Len(stdout) < Capacity
    /\ stdout' = Append(stdout, Head(saying))
    /\ saying' = <<>>
    /\ UNCHANGED <<proxy, stdin, alive, asked, chatter, executed>>

ServerGone ==
    /\ alive /\ alive' = FALSE
    /\ stdin' = <<>>
    /\ asked' = {}
    /\ saying' = <<>>
    /\ UNCHANGED <<proxy, stdout, chatter, executed>>

(* A server that has read all its input ends. *)
ServerEnds == close = "waiting" /\ stdin = <<>> /\ saying = <<>> /\ ServerGone

-----------------------------------------------------------------------------

(* What the goroutine of a request does once it has begun. *)
Goroutine(r) == Lock(r) \/ Write(r) \/ WriteFails(r) \/ Read(r) \/ ReadFails(r)

Next ==
    \/ \E r \in Requests : Begin(r) \/ Goroutine(r) \/ Answer(r)
    \/ GiveUp \/ CloseReturns
    \/ ServerReads \/ Chat \/ ServerWrites \/ ServerGone

(* Goroutines that can run are scheduled, and Start goes on.  The server,   *)
(* while it lives, reads, answers what it has read, and ends with its       *)
(* input.                                                                   *)
Spec ==
    /\ Init /\ [][Next]_vars
    /\ \A r \in Requests : WF_vars(Goroutine(r)) /\ WF_vars(Answer(r))
    /\ \A r \in Startup : WF_vars(Begin(r))
    /\ WF_vars(GiveUp) /\ WF_vars(CloseReturns)
    /\ WF_vars(ServerReads) /\ WF_vars(ServerWrites) /\ WF_vars(ServerEnds)

-----------------------------------------------------------------------------
(* Properties *)

Ids == 0 .. nextID
Message == [kind : {"answer"}, id : Ids, of : SUBSET Requests, good : BOOLEAN]
              \cup [kind : {"request"}, id : ServerIds, of : {{}}]
              \cup [kind : {"notification"}]

TypeOK ==
    /\ stage \in [Requests -> {"new", "locking", "writing", "reading", "ok", "error"}]
    /\ nextID \in Nat
    /\ id \in [Requests -> Ids]
    /\ left \in [Requests -> Nat]
    /\ mu \in SUBSET Requests
    /\ \A r \in Requests : mu = {r} <=> stage[r] \in {"writing", "reading"}
    /\ stdin \in Seq([of : Requests, id : Ids, last : BOOLEAN])
    /\ stdout \in Seq(Message) /\ saying \in Seq(Message)
    /\ Len(stdin) <= Capacity /\ Len(stdout) <= Capacity /\ Len(saying) <= 1
    /\ got \in [Requests -> SUBSET Requests]
    /\ close \in {"no", "waiting", "returned"}
    /\ alive \in BOOLEAN
    /\ asked \subseteq [of : Requests, id : Ids]
    /\ chatter \in 0 .. MaxChatter
    /\ executed \subseteq Requests

(* What the sessions see of it. *)
Seen(r) == IF stage[r] \in {"locking", "writing", "reading"} THEN "waiting" ELSE stage[r]

Promise == INSTANCE ToolCalls WITH
    state    <- [c \in Calls |-> Seen(c)],
    result   <- [c \in Calls |-> got[c]],
    executed <- executed \cap Calls,
    up       <- alive

(* Whatever the server says in between, late or under an id that is also a  *)
(* request's, a session gets an error or the result of its own call, which  *)
(* was executed once, and calls that are waited for are executed one by one *)
(* (call, CallTool).                                                        *)
KeepsPromise == Promise!Spec

(* The server waits for somebody to read. *)
Clogged == saying # <<>> /\ Len(stdout) = Capacity

(* With a server that goes on reading and answering, or that is gone, every *)
(* request ends, and so gives the mutex to the next.  The exception is a    *)
(* server that has filled its output while a long request fills its input:  *)
(* neither goes on (call writes before it reads).                           *)
EveryRequestEnds ==
    \A r \in Requests :
        stage[r] = "locking" ~>
            \/ stage[r] \in {"ok", "error"}
            \/ [](Clogged /\ \E d \in Requests : stage[d] = "writing" /\ Len(stdin) = Capacity)

(* When Start gives up it returns, and the daemon ends with the reason; but *)
(* not when the server waits for somebody to read its output (Close).       *)
GivingUpEnds == close = "waiting" ~> (close = "returned" \/ []Clogged)

=============================================================================
