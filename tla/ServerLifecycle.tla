-------------------------- MODULE ServerLifecycle --------------------------
(***************************************************************************)
(* The life of the daemon: cmd/sshttpd/main.go and, of                     *)
(* internal/server/server.go, New with its host keys, ListenAndServe with  *)
(* one accept loop per site, and Close.  The process may be killed at any  *)
(* step and be started again.                                              *)
(*                                                                         *)
(* The main goroutine runs New, starts ListenAndServe on a goroutine of    *)
(* its own and waits for a signal; the accept loops are goroutines too.    *)
(* The process ends, with everything in it, when main returns from Close   *)
(* or when ListenAndServe fails.                                           *)
(***************************************************************************)
EXTENDS Integers

CONSTANTS
    N,                  \* the sites, 1 .. N, in the order of the configuration
    MaxStarts,          \* bound on how often the process is started
    MaxConns            \* bound on the connections of a site

ASSUME SitesAssumption  == N \in Nat \ {0}
ASSUME BoundsAssumption == MaxStarts \in Nat /\ MaxConns \in Nat

Sites == 1 .. N
NoKey == 0
Torn  == -1             \* a key file that was created and not written to its end

VARIABLES
    starts,     \* how often the process was started; a new key bears its number
    main,       \* the main goroutine
    site,       \* the site New is at
    hostKey,    \* the host key a site's ssh configuration holds
    serve,      \* ListenAndServe
    next,       \* the site ListenAndServe is at
    listener,   \* siteListener.listener
    faulty,     \* the listener's Accept fails from now on
    loop,       \* the accept loops
    mu, closed, \* Server.mu and Server.closed
    closing,    \* the site Close is at
    conns,      \* connections a site has accepted
    \* On disk:
    keyFile,    \* the host key file of each site
    \* History:
    shown       \* the host keys clients have seen

disk == <<keyFile, shown>>
life == <<serve, next, listener, faulty, loop, mu, closed, closing, conns>>
vars == <<starts, main, site, hostKey, serve, next, listener, faulty, loop, mu, closed,
          closing, conns, keyFile, shown>>

-----------------------------------------------------------------------------

Each(x) == [s \in Sites |-> x]

Init ==
    /\ starts = 0 /\ main = "down" /\ site = 1 /\ hostKey = Each(NoKey)
    /\ serve = "off" /\ next = 1
    /\ listener = Each("nil") /\ faulty = Each(FALSE) /\ loop = Each("off")
    /\ mu = "free" /\ closed = FALSE /\ closing = 1
    /\ conns = Each(0)
    /\ keyFile = Each(NoKey)
    /\ shown = Each({})

(* The process is gone, by its own doing or another's. *)
Down ==
    /\ main' = "down" /\ site' = 1 /\ hostKey' = Each(NoKey)
    /\ serve' = "off" /\ next' = 1
    /\ listener' = Each("nil") /\ faulty' = Each(FALSE) /\ loop' = Each("off")
    /\ mu' = "free" /\ closed' = FALSE /\ closing' = 1
    /\ conns' = Each(0)

Kill == main # "down" /\ Down /\ UNCHANGED <<starts, disk>>

Start ==
    /\ main = "down" /\ starts < MaxStarts
    /\ starts' = starts + 1
    /\ main' = "new"
    /\ UNCHANGED <<site, hostKey, life, disk>>

-----------------------------------------------------------------------------
(* New, site by site: loadHostKey, and generateAndLoadHostKey in two steps, *)
(* for os.WriteFile creates the file before it fills it.                    *)

NextSite ==
    IF site = N THEN main' = "up" /\ serve' = "listening" /\ UNCHANGED site
    ELSE site' = site + 1 /\ main' = "new" /\ UNCHANGED serve

LoadKey ==
    /\ main = "new" /\ keyFile[site] > NoKey
    /\ hostKey' = [hostKey EXCEPT ![site] = keyFile[site]]
    /\ NextSite
    /\ UNCHANGED <<starts, next, listener, faulty, loop, mu, closed, closing, conns, disk>>

CreateKeyFile ==
    /\ main = "new" /\ keyFile[site] = NoKey
    /\ keyFile' = [keyFile EXCEPT ![site] = Torn]
    /\ main' = "writing"
    /\ UNCHANGED <<starts, site, hostKey, life, shown>>

\* Mutant: a key that could not be saved is used all the same.
WriteKeyAnyhow ==
    /\ main = "writing"
    /\ \/ keyFile' = [keyFile EXCEPT ![site] = starts]
       \/ keyFile' = [keyFile EXCEPT ![site] = NoKey]
    /\ hostKey' = [hostKey EXCEPT ![site] = starts]
    /\ NextSite
    /\ UNCHANGED <<starts, next, listener, faulty, loop, mu, closed, closing, conns, shown>>

WriteKey ==
    /\ main = "writing"
    /\ keyFile' = [keyFile EXCEPT ![site] = starts]
    /\ hostKey' = [hostKey EXCEPT ![site] = starts]
    /\ NextSite
    /\ UNCHANGED <<starts, next, listener, faulty, loop, mu, closed, closing, conns, shown>>

(* New fails: a torn key file, a full disk, a directory that cannot be      *)
(* made, bad authorized keys, an MCP server that does not start.            *)
NewFails ==
    /\ main \in {"new", "writing"}
    /\ Down
    /\ UNCHANGED <<starts, disk>>

-----------------------------------------------------------------------------
(* ListenAndServe *)

Listen ==
    /\ serve = "listening" /\ next <= N
    /\ listener' = [listener EXCEPT ![next] = "open"]
    /\ loop' = [loop EXCEPT ![next] = "accept"]
    /\ next' = next + 1
    /\ UNCHANGED <<starts, main, site, hostKey, serve, faulty, mu, closed, closing, conns, disk>>

\* Mutant: a site whose port cannot be had is logged and passed over.
ListenFailsSkips ==
    /\ serve = "listening" /\ next <= N
    /\ next' = next + 1
    /\ UNCHANGED <<starts, main, site, hostKey, serve, listener, faulty, loop, mu, closed, closing,
                   conns, disk>>

(* The port cannot be had: the earlier sites' loops go on, ListenAndServe   *)
(* returns.                                                                 *)
ListenFails ==
    /\ serve = "listening" /\ next <= N
    /\ serve' = "failed"
    /\ UNCHANGED <<starts, main, site, hostKey, next, listener, faulty, loop, mu, closed, closing,
                   conns, disk>>

Wait ==
    /\ serve = "listening" /\ next = N + 1
    /\ serve' = "waiting"
    /\ UNCHANGED <<starts, main, site, hostKey, next, listener, faulty, loop, mu, closed, closing,
                   conns, disk>>

(* All loops have ended, and none of them with an error. *)
Return ==
    /\ serve = "waiting" /\ \A s \in Sites : loop[s] \in {"off", "ended"}
    /\ serve' = "returned"
    /\ UNCHANGED <<starts, main, site, hostKey, next, listener, faulty, loop, mu, closed, closing,
                   conns, disk>>

(* log.Fatalf *)
Fatal == serve = "failed" /\ Down /\ UNCHANGED <<starts, disk>>

-----------------------------------------------------------------------------
(* acceptLoop *)

Accept(s) ==
    /\ loop[s] = "accept" /\ listener[s] = "open" /\ ~faulty[s]
    /\ conns[s] < MaxConns
    /\ conns' = [conns EXCEPT ![s] = @ + 1]
    /\ shown' = [shown EXCEPT ![s] = @ \cup {hostKey[s]}]
    /\ UNCHANGED <<starts, main, site, hostKey, serve, next, listener, faulty, loop, mu, closed,
                   closing, keyFile>>

AcceptFails(s) ==
    /\ loop[s] = "accept"
    /\ \/ listener[s] = "closed" /\ loop' = [loop EXCEPT ![s] = "errClosed"]
       \/ listener[s] = "open" /\ faulty[s] /\ loop' = [loop EXCEPT ![s] = "error"]
    /\ UNCHANGED <<starts, main, site, hostKey, serve, next, listener, faulty, mu, closed, closing,
                   conns, disk>>

\* Mutant: any error ends the loop, and ListenAndServe with it.
AfterErrorEnds(s) ==
    /\ loop[s] \in {"error", "errClosed"} /\ mu = "free"
    /\ loop' = [loop EXCEPT ![s] = "ended"]
    /\ UNCHANGED <<starts, main, site, hostKey, serve, next, listener, faulty, mu, closed, closing,
                   conns, disk>>

(* After an error the loop looks, under the mutex, whether the server is    *)
(* closed; if not, it only gives up a listener that is.                     *)
AfterError(s) ==
    /\ loop[s] \in {"error", "errClosed"} /\ mu = "free"
    /\ loop' = [loop EXCEPT ![s] = IF closed \/ @ = "errClosed" THEN "ended" ELSE "accept"]
    /\ UNCHANGED <<starts, main, site, hostKey, serve, next, listener, faulty, mu, closed, closing,
                   conns, disk>>

(* Out of descriptors, or the interface is gone. *)
Break(s) ==
    /\ listener[s] = "open" /\ ~faulty[s]
    /\ faulty' = [faulty EXCEPT ![s] = TRUE]
    /\ UNCHANGED <<starts, main, site, hostKey, serve, next, listener, loop, mu, closed, closing,
                   conns, disk>>

-----------------------------------------------------------------------------
(* The signal and Close *)

Signal ==
    /\ main = "up"
    /\ main' = "closing"
    /\ UNCHANGED <<starts, site, hostKey, life, disk>>

LockMu ==
    /\ main = "closing" /\ mu = "free" /\ closing = 1
    /\ mu' = "close" /\ closed' = TRUE
    /\ UNCHANGED <<starts, main, site, hostKey, serve, next, listener, faulty, loop, closing, conns,
                   disk>>

\* Mutant: Close waits, with the mutex, for the accept loop to end.
CloseAndWait ==
    /\ mu = "close" /\ closing <= N
    /\ IF listener[closing] = "open"
       THEN listener' = [listener EXCEPT ![closing] = "closed"] /\ UNCHANGED closing
       ELSE /\ loop[closing] \in {"off", "ended"}
            /\ closing' = closing + 1 /\ UNCHANGED listener
    /\ UNCHANGED <<starts, main, site, hostKey, serve, next, faulty, loop, mu, closed, conns, disk>>

(* ListenAndServe sets the field without the mutex, so Close may find it    *)
(* nil although it is set.                                                  *)
CloseListener ==
    /\ mu = "close" /\ closing <= N
    /\ closing' = closing + 1
    /\ \/ listener[closing] = "open" /\ listener' = [listener EXCEPT ![closing] = "closed"]
       \/ UNCHANGED listener
    /\ UNCHANGED <<starts, main, site, hostKey, serve, next, faulty, loop, mu, closed, conns, disk>>

UnlockMu ==
    /\ mu = "close" /\ closing = N + 1
    /\ mu' = "free" /\ main' = "closed"
    /\ UNCHANGED <<starts, site, hostKey, serve, next, listener, faulty, loop, closed, closing,
                   conns, disk>>

(* main returns. *)
Exit == main = "closed" /\ Down /\ UNCHANGED <<starts, disk>>

-----------------------------------------------------------------------------

New == LoadKey \/ CreateKeyFile \/ WriteKey \/ NewFails
Serve == Listen \/ ListenFails \/ Wait \/ Return \/ Fatal
AcceptLoop(s) == Accept(s) \/ AcceptFails(s) \/ AfterError(s)
Close == LockMu \/ CloseListener \/ UnlockMu \/ Exit

Next ==
    \/ Start \/ New \/ Serve \/ Close
    \/ \E s \in Sites : AcceptLoop(s) \/ Break(s)
    \/ Signal \/ Kill

(* Goroutines that can run are scheduled; nobody owes connections, signals  *)
(* or another start.                                                        *)
Spec ==
    /\ Init /\ [][Next]_vars
    /\ WF_vars(New) /\ WF_vars(Serve) /\ WF_vars(Close)
    /\ \A s \in Sites : WF_vars(AcceptFails(s) \/ AfterError(s))

-----------------------------------------------------------------------------
(* Properties *)

TypeOK ==
    /\ starts \in 0 .. MaxStarts
    /\ main \in {"down", "new", "writing", "up", "closing", "closed"}
    /\ site \in Sites
    /\ hostKey \in [Sites -> 0 .. starts]
    /\ serve \in {"off", "listening", "waiting", "returned", "failed"}
    /\ next \in 1 .. N + 1
    /\ listener \in [Sites -> {"nil", "open", "closed"}]
    /\ faulty \in [Sites -> BOOLEAN]
    /\ loop \in [Sites -> {"off", "accept", "error", "errClosed", "ended"}]
    /\ mu \in {"free", "close"}
    /\ closed \in BOOLEAN
    /\ closing \in 1 .. N + 1
    /\ conns \in [Sites -> 0 .. MaxConns]
    /\ keyFile \in [Sites -> Torn .. starts]
    /\ shown \in [Sites -> SUBSET (1 .. starts)]

(* Through crashes, failed writes and restarts, the clients of a site only  *)
(* ever see one host key (loadHostKey saves a new key before it uses it).   *)
OneHostKey ==
    \A s \in Sites : \A j, k \in shown[s] : j = k

(* ListenAndServe only returns nil when the server is being closed: no      *)
(* error of an accept loop ends it (ListenAndServe, acceptLoop).            *)
ReturnsOnlyWhenClosed ==
    serve = "returned" => closed

(* No process serves some of its sites for good: once New is done, either   *)
(* every site comes to listen or the process ends, although the accept      *)
(* loops of the sites before one that cannot listen go on and main only     *)
(* waits for a signal (ListenAndServe, main).                               *)
AllSitesOrNone ==
    main = "up" ~> (\A s \in Sites : listener[s] # "nil") \/ main = "down"

(* A signal ends the process, whatever the accept loops and ListenAndServe  *)
(* are doing: Close waits for nobody who waits for it (Close, acceptLoop).  *)
SignalEndsProcess ==
    main = "closing" ~> main = "down"

=============================================================================
