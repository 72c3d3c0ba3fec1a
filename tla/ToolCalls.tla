----------------------------- MODULE ToolCalls -----------------------------
(***************************************************************************)
(* What the MCP proxy promises the sessions that call tools through it: a  *)
(* call fails or returns the result of its own execution, the server       *)
(* executes a call at most once, and those who wait are served one at a    *)
(* time.  McpProxy implements it over two pipes.                           *)
(***************************************************************************)
CONSTANT Calls

VARIABLES
    state,      \* "new", "waiting", "ok" or "error", for each call
    result,     \* whose execution each call's result is of: {} or {a call}
    executed,   \* the calls the server has executed
    up          \* the server runs

vars == <<state, result, executed, up>>

Init ==
    /\ state = [c \in Calls |-> "new"]
    /\ result = [c \in Calls |-> {}]
    /\ executed = {}
    /\ up = TRUE

Submit(c) ==
    /\ state[c] = "new"
    /\ state' = [state EXCEPT ![c] = "waiting"]
    /\ UNCHANGED <<result, executed, up>>

(* A call that failed may be executed late; one that is waited for is       *)
(* executed only when nobody else waits for a result that is there.         *)
Execute(c) ==
    /\ up /\ c \notin executed
    /\ \/ state[c] = "error"
       \/ state[c] = "waiting" /\ \A d \in executed : state[d] # "waiting"
    /\ executed' = executed \cup {c}
    /\ UNCHANGED <<state, result, up>>

Return(c) ==
    /\ state[c] = "waiting" /\ c \in executed
    /\ state' = [state EXCEPT ![c] = "ok"]
    /\ result' = [result EXCEPT ![c] = {c}]
    /\ UNCHANGED <<executed, up>>

Fail(c) ==
    /\ state[c] = "waiting"
    /\ state' = [state EXCEPT ![c] = "error"]
    /\ UNCHANGED <<result, executed, up>>

Crash ==
    /\ up /\ up' = FALSE
    /\ UNCHANGED <<state, result, executed>>

Next ==
    \/ \E c \in Calls : Submit(c) \/ Execute(c) \/ Return(c) \/ Fail(c)
    \/ Crash

Spec == Init /\ [][Next]_vars

=============================================================================
