----------------------------- MODULE ProxyCache -----------------------------
(***************************************************************************)
(* The caching proxy of a site (internal/proxy/proxy.go) and the binary    *)
(* proxy-call that writes its responses to a session                       *)
(* (internal/commands/handler.go).                                         *)
(*                                                                         *)
(* Every session runs its own fetch.  The map of entries has a lock, but   *)
(* the lock is not held while the origin answers, and the responses the    *)
(* map holds are shared by pointer: two fetches of one URL may both miss,  *)
(* and two sessions may write one cached response at the same time.        *)
(*                                                                         *)
(* A response is known by its identity (which allocation it is), the URL   *)
(* it was asked for and the time the origin answered, which tells how old  *)
(* its status, headers and body are.                                       *)
(*                                                                         *)
(* The daemon is taken to run without HTTP_PROXY and HTTPS_PROXY in its    *)
(* environment: with them the transport (http.ProxyFromEnvironment) dials  *)
(* the environment's proxy in place of the host.  The life of an entry is  *)
(* a constant, as parseTTL makes it: 24 hours, whatever ttl a site sets.   *)
(***************************************************************************)
EXTENDS Integers

CONSTANTS
    Fetches,            \* slots for concurrent calls
    Urls, HostOf,       \* well-formed http(s) URLs without userinfo, and their hosts
    AllowedOrigins,     \* the allow list: set of [kind, name]
    EndsWith,           \* pairs <<host, name>>: the host ends in "." and the name
    DenyAll, AllowPrivateIPs, AllowRedirects, MaxRedirects,
    Resolve,            \* the addresses a host may resolve to: "public", "private"
    PrivateLiterals,    \* hosts that are a private address, written out
    Redirects,          \* pairs of URLs: where origins may redirect to
    Ttl, Timeout,       \* life of an entry; the HTTP client's time limit
    MaxTime, MaxResponses   \* bounds

Hosts == {HostOf[u] : u \in Urls}

ASSUME TimesAssumption == {Ttl, Timeout} \subseteq Nat /\ MaxRedirects \in Int
ASSUME UrlsAssumption == Urls # {}
ASSUME ResolveAssumption == Resolve \in [Hosts -> SUBSET {"public", "private"}]
ASSUME BoundsAssumption == {MaxTime, MaxResponses} \subseteq Nat
ASSUME RedirectsAssumption == Redirects \subseteq Urls \X Urls

VARIABLES
    now,        \* the clock
    entries,    \* Cache.entries: url -> {} or {[resp, fetchedAt]}
    pc,         \* where each fetch stands
    mode,       \* "text" (Fetch) or "binary" (FetchResponse and its writer)
    url,        \* what it was asked for
    at,         \* the URL its client is at, after redirects
    hops,       \* redirects followed
    begunAt,    \* when it looked the URL up
    resp,       \* its response: {} or {response}
    responses,  \* how many responses have been made
    contacted,  \* the hosts connected to, and the kind of address
    crashed,    \* the runtime stopped the process
    \* History:
    hit         \* whether each fetch was served from the cache

fetch == <<pc, mode, url, at, hops, begunAt, resp, hit>>
vars  == <<now, entries, pc, mode, url, at, hops, begunAt, resp, responses,
           contacted, crashed, hit>>

-----------------------------------------------------------------------------

(* isAllowed: "*" unless deny-all, a host, or "*." and a suffix. *)
IsAllowed(host) ==
    \E origin \in AllowedOrigins :
        \/ origin.kind = "any" /\ ~DenyAll
        \/ origin.kind = "host" /\ origin.name = host
        \/ origin.kind = "suffix" /\ <<host, origin.name>> \in EndsWith

(* The dialer's veto, after the name is resolved. *)
Reachable(host) == {a \in Resolve[host] : AllowPrivateIPs \/ a = "public"}

(* What checkRedirect takes max-redirects for. *)
RedirectLimit == IF MaxRedirects <= 0 THEN 10 ELSE MaxRedirects

\* Mutant: an entry lives for ever.
LiveForEver(u) == {e \in entries[u] : TRUE}

(* The entry of a URL, unless it has expired. *)
Live(u) == {e \in entries[u] : now - e.fetchedAt <= Ttl}

AnyUrl == CHOOSE u \in Urls : TRUE      \* for a slot that is idle

Init ==
    /\ now = 0
    /\ entries = [u \in Urls |-> {}]
    /\ pc = [f \in Fetches |-> "idle"]
    /\ mode = [f \in Fetches |-> "text"]
    /\ url = [f \in Fetches |-> AnyUrl]
    /\ at = url
    /\ hops = [f \in Fetches |-> 0]
    /\ begunAt = [f \in Fetches |-> 0]
    /\ resp = [f \in Fetches |-> {}]
    /\ responses = 0
    /\ contacted = {}
    /\ crashed = FALSE
    /\ hit = [f \in Fetches |-> FALSE]

(* A fetch goes on, as long as the process runs. *)
Goto(f, from, to) == ~crashed /\ pc[f] = from /\ pc' = [pc EXCEPT ![f] = to]

(* FetchResponse up to the network: the allow list, an address written out, *)
(* the lookup under the read lock.                                          *)
Begin(f, u, m) ==
    /\ \/ /\ ~IsAllowed(HostOf[u]) \/ (~AllowPrivateIPs /\ HostOf[u] \in PrivateLiterals)
          /\ Goto(f, "idle", "failed")
          /\ UNCHANGED <<resp, hit>>
       \/ /\ IsAllowed(HostOf[u]) /\ (AllowPrivateIPs \/ HostOf[u] \notin PrivateLiterals)
          /\ IF Live(u) # {}
             THEN /\ Goto(f, "idle", "serve")
                  /\ resp' = [resp EXCEPT ![f] = {e.resp : e \in Live(u)}]
                  /\ hit' = [hit EXCEPT ![f] = TRUE]
             ELSE /\ Goto(f, "idle", "get")
                  /\ UNCHANGED <<resp, hit>>
    /\ mode' = [mode EXCEPT ![f] = m]
    /\ url' = [url EXCEPT ![f] = u]
    /\ at' = [at EXCEPT ![f] = u]
    /\ hops' = [hops EXCEPT ![f] = 0]
    /\ begunAt' = [begunAt EXCEPT ![f] = now]
    /\ UNCHANGED <<now, entries, responses, contacted, crashed>>

Contact(f) ==
    \E a \in Reachable(HostOf[at[f]]) : contacted' = contacted \cup {<<HostOf[at[f]], a>>}

(* The origin answers with the resource, or with a redirect that is not to  *)
(* be followed.                                                             *)
Answer(f) ==
    /\ Goto(f, "get", "body")
    /\ responses < MaxResponses
    /\ Contact(f)
    /\ responses' = responses + 1
    /\ resp' = [resp EXCEPT ![f] = {[id |-> responses + 1, asked |-> url[f], answeredAt |-> now]}]
    /\ UNCHANGED <<now, entries, mode, url, at, hops, begunAt, crashed, hit>>

\* Mutant: only the first host is checked against the allow list.
RedirectUnchecked(f, u) ==
    /\ ~crashed /\ pc[f] = "get" /\ AllowRedirects /\ <<at[f], u>> \in Redirects
    /\ hops[f] + 1 < RedirectLimit
    /\ Contact(f)
    /\ at' = [at EXCEPT ![f] = u]
    /\ hops' = [hops EXCEPT ![f] = @ + 1]
    /\ UNCHANGED <<now, entries, pc, mode, url, begunAt, resp, responses, crashed, hit>>

(* checkRedirect: the client goes on to the next URL, or gives up. *)
Redirect(f, u) ==
    /\ ~crashed /\ pc[f] = "get" /\ AllowRedirects /\ <<at[f], u>> \in Redirects
    /\ Contact(f)
    /\ IF hops[f] + 1 < RedirectLimit /\ IsAllowed(HostOf[u])
       THEN /\ at' = [at EXCEPT ![f] = u]
            /\ hops' = [hops EXCEPT ![f] = @ + 1]
            /\ UNCHANGED pc
       ELSE /\ pc' = [pc EXCEPT ![f] = "failed"]
            /\ UNCHANGED <<at, hops>>
    /\ UNCHANGED <<now, entries, mode, url, begunAt, resp, responses, crashed, hit>>

\* Mutant: what was read of a body that broke off is handed out all the same.
FailWithRest(f) ==
    /\ ~crashed /\ pc[f] \in {"get", "body"}
    /\ pc' = [pc EXCEPT ![f] = "failed"]
    /\ UNCHANGED <<now, entries, mode, url, at, hops, begunAt, resp, responses, contacted,
                   crashed, hit>>

(* No connection, a vetoed address, a timeout, or a body that breaks off or *)
(* is longer than max-size.                                                 *)
Fail(f) ==
    /\ ~crashed /\ pc[f] \in {"get", "body"}
    /\ pc' = [pc EXCEPT ![f] = "failed"]
    /\ resp' = [resp EXCEPT ![f] = {}]
    /\ UNCHANGED <<now, entries, mode, url, at, hops, begunAt, responses, contacted,
                   crashed, hit>>

\* Mutant: an entry somebody else has put there meanwhile is served instead.
InstallUnlessThere(f) ==
    /\ Goto(f, "body", "serve")
    /\ IF Live(url[f]) # {}
       THEN resp' = [resp EXCEPT ![f] = {e.resp : e \in Live(url[f])}] /\ UNCHANGED entries
       ELSE /\ entries' = [entries EXCEPT ![url[f]] =
                              {[resp |-> r, fetchedAt |-> now] : r \in resp[f]}]
            /\ UNCHANGED resp
    /\ UNCHANGED <<now, mode, url, at, hops, begunAt, responses, contacted, crashed, hit>>

(* The body has been read: the entry is replaced, whatever is there now. *)
Install(f) ==
    /\ Goto(f, "body", "serve")
    /\ entries' = [entries EXCEPT ![url[f]] = {[resp |-> r, fetchedAt |-> now] : r \in resp[f]}]
    /\ UNCHANGED <<now, mode, url, at, hops, begunAt, resp, responses, contacted,
                   crashed, hit>>

(* proxyCallBinary sets two headers of the response and ranges over all of  *)
(* them while it writes.  The map is the cached one: when another session   *)
(* does the same, the runtime may notice, and then it stops the process.    *)
WriteHeaders(f) ==
    /\ mode[f] = "binary"
    /\ Goto(f, "serve", "headers")
    /\ IF \E g \in Fetches : pc[g] = "headers" /\ resp[g] = resp[f]
       THEN crashed' \in BOOLEAN
       ELSE UNCHANGED crashed
    /\ UNCHANGED <<now, entries, mode, url, at, hops, begunAt, resp, responses,
                   contacted, hit>>

Finish(f) ==
    /\ \/ mode[f] = "binary" /\ Goto(f, "headers", "done")
       \/ mode[f] = "text" /\ Goto(f, "serve", "done")
    /\ UNCHANGED <<now, entries, mode, url, at, hops, begunAt, resp, responses,
                   contacted, crashed, hit>>

Leave(f) ==
    /\ ~crashed /\ pc[f] \in {"done", "failed"}
    /\ pc' = [pc EXCEPT ![f] = "idle"]
    /\ resp' = [resp EXCEPT ![f] = {}]
    /\ mode' = [mode EXCEPT ![f] = "text"]
    /\ url' = [url EXCEPT ![f] = AnyUrl]
    /\ at' = [at EXCEPT ![f] = AnyUrl]
    /\ hops' = [hops EXCEPT ![f] = 0]
    /\ begunAt' = [begunAt EXCEPT ![f] = 0]
    /\ hit' = [hit EXCEPT ![f] = FALSE]
    /\ UNCHANGED <<now, entries, responses, contacted, crashed>>

(* Time passes, but no request outlives the client's time limit. *)
Tick ==
    /\ now < MaxTime
    /\ \A f \in Fetches : pc[f] \in {"get", "body"} => now < begunAt[f] + Timeout
    /\ now' = now + 1
    /\ UNCHANGED <<entries, fetch, responses, contacted, crashed>>

Call(f) ==
    \/ \E u \in Urls, m \in {"text", "binary"} : Begin(f, u, m)
    \/ \E u \in Urls : Redirect(f, u)
    \/ Answer(f) \/ Fail(f) \/ Install(f) \/ WriteHeaders(f) \/ Finish(f) \/ Leave(f)

Next ==
    \/ \E f \in Fetches : Call(f)
    \/ Tick

Spec == Init /\ [][Next]_vars

-----------------------------------------------------------------------------
(* Properties *)

Response == [id : 1 .. MaxResponses, asked : Urls, answeredAt : Nat]

TypeOK ==
    /\ now \in Nat
    /\ entries \in [Urls -> SUBSET [resp : Response, fetchedAt : 0 .. now]]
    /\ \A u \in Urls : \A d, e \in entries[u] : d = e
    /\ pc \in [Fetches -> {"idle", "get", "body", "serve", "headers", "done", "failed"}]
    /\ mode \in [Fetches -> {"text", "binary"}]
    /\ url \in [Fetches -> Urls] /\ at \in [Fetches -> Urls]
    /\ hops \in [Fetches -> Nat]
    /\ begunAt \in [Fetches -> 0 .. now]
    /\ resp \in [Fetches -> SUBSET Response]
    /\ \A f \in Fetches : /\ \A q, r \in resp[f] : q = r
                          /\ resp[f] # {} <=> pc[f] \in {"body", "serve", "headers", "done"}
    /\ responses \in 0 .. MaxResponses
    /\ contacted \subseteq Hosts \X {"public", "private"}
    /\ crashed \in BOOLEAN
    /\ hit \in [Fetches -> BOOLEAN]

Serving(f) == pc[f] \in {"serve", "headers", "done"}

(* Whatever origins redirect to and names resolve to, a connection is only  *)
(* ever made to a host of the allow list, at an address that is not         *)
(* private (isAllowed, checkRedirect, guardedDialContext).                  *)
OnlyAllowedContacted ==
    \A c \in contacted : IsAllowed(c[1]) /\ (AllowPrivateIPs \/ c[2] = "public")

(* A client never gets a response to another URL, nor one that the origin   *)
(* gave longer ago than an entry lives and a fetch takes, however fetches   *)
(* overtake one another (FetchResponse).                                    *)
ServedIsAskedAndYoung ==
    \A f \in Fetches : Serving(f) =>
        \A r \in resp[f] : /\ r.asked = url[f]
                           /\ begunAt[f] - r.answeredAt <= Ttl + Timeout

(* A fetch that missed serves what the origin answered since it began, and  *)
(* writes headers into a map of its own: nobody has the same response but   *)
(* sessions that found it in the cache, however many missed together and    *)
(* whichever of them the cache kept (FetchResponse, and proxyCallBinary,    *)
(* which two sessions must not run on one response).                        *)
MissersOwnTheirResponse ==
    \A f \in Fetches : Serving(f) /\ ~hit[f] =>
        /\ \A r \in resp[f] : begunAt[f] <= r.answeredAt
        /\ \A g \in Fetches \ {f} : Serving(g) /\ resp[g] = resp[f] => hit[g]

=============================================================================
