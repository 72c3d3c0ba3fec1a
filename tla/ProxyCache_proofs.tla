------------------------- MODULE ProxyCache_proofs -------------------------
(***************************************************************************)
(* Theorems about ProxyCache, for any URLs, allow list, redirects and      *)
(* number of concurrent fetches.                                           *)
(***************************************************************************)
EXTENDS ProxyCache, TLAPS

(* The host a fetch is about to contact was checked. *)
NextHostAllowed == \A f \in Fetches : pc[f] = "get" => IsAllowed(HostOf[at[f]])

(* A fetch that waits is within the client's time limit. *)
WithinTimeout == \A f \in Fetches : pc[f] \in {"get", "body"} => now <= begunAt[f] + Timeout

(* What a fetch reads was answered since it began, to its own URL. *)
BodyIsOwn ==
    \A f \in Fetches : pc[f] = "body" =>
        \A r \in resp[f] : r.asked = url[f] /\ begunAt[f] <= r.answeredAt

(* An entry holds an answer to its URL that a fetch took no longer than the *)
(* time limit to store.                                                     *)
EntriesAreFresh ==
    \A u \in Urls : \A e \in entries[u] :
        e.resp.asked = u /\ e.fetchedAt - e.resp.answeredAt <= Timeout

Ages == WithinTimeout /\ BodyIsOwn /\ EntriesAreFresh /\ ServedIsAskedAndYoung

-----------------------------------------------------------------------------

LEMMA TypeInit == Init => TypeOK
<1> SUFFICES ASSUME Init PROVE TypeOK
  OBVIOUS
<1>1. AnyUrl \in Urls
  BY UrlsAssumption DEF AnyUrl
<1>2. url \in [Fetches -> Urls] /\ at \in [Fetches -> Urls]
  BY <1>1 DEF Init
<1>3. entries \in [Urls -> SUBSET [resp : Response, fetchedAt : 0 .. now]]
  BY DEF Init
<1>4. resp \in [Fetches -> SUBSET Response]
  BY DEF Init
<1>5. responses \in 0 .. MaxResponses
  BY BoundsAssumption DEF Init
<1>6. begunAt \in [Fetches -> 0 .. now] /\ now \in Nat /\ hops \in [Fetches -> Nat]
  BY DEF Init
<1>7. \A f \in Fetches : pc[f] = "idle" /\ resp[f] = {}
  <2>1. pc = [f \in Fetches |-> "idle"] /\ resp = [f \in Fetches |-> {}]
    BY Zenon DEF Init
  <2>. QED  BY <2>1, Zenon
<1>8. /\ pc \in [Fetches -> {"idle", "get", "body", "serve", "headers", "done", "failed"}]
      /\ mode \in [Fetches -> {"text", "binary"}]
  BY DEF Init
<1>9. /\ contacted \subseteq Hosts \X {"public", "private"}
      /\ crashed \in BOOLEAN /\ hit \in [Fetches -> BOOLEAN]
  BY DEF Init
<1>10. \A u \in Urls : entries[u] = {}
  BY DEF Init
<1>11. QED
  BY <1>2, <1>3, <1>4, <1>5, <1>6, <1>7, <1>8, <1>9, <1>10 DEF TypeOK

LEMMA ReachableKind ==
    ASSUME NEW u \in Urls, NEW a \in Reachable(HostOf[u])
    PROVE  <<HostOf[u], a>> \in Hosts \X {"public", "private"}
<1>1. HostOf[u] \in Hosts
  BY DEF Hosts
<1>2. a \in {"public", "private"}
  BY <1>1, ResolveAssumption DEF Reachable
<1>3. QED
  BY <1>1, <1>2

(* The entry of a URL, when it lives, is one entry and gives one response.  *)
LEMMA LiveResponse ==
    ASSUME TypeOK, NEW u \in Urls
    PROVE  LET R == {e.resp : e \in Live(u)}
           IN  /\ R \subseteq Response
               /\ \A q, r \in R : q = r
               /\ Live(u) # {} => R # {}
<1>1. Live(u) \subseteq entries[u]
  BY DEF Live
<1>2. QED
  BY <1>1 DEF TypeOK

LEMMA TypeStep == TypeOK /\ [Next]_vars => TypeOK'
<1> SUFFICES ASSUME TypeOK, [Next]_vars PROVE TypeOK'
  OBVIOUS
<1>1. ASSUME NEW f \in Fetches, NEW u \in Urls, NEW m \in {"text", "binary"}, Begin(f, u, m)
      PROVE  TypeOK'
  <2>1. /\ mode' \in [Fetches -> {"text", "binary"}]
        /\ url' \in [Fetches -> Urls] /\ at' \in [Fetches -> Urls]
        /\ hops' \in [Fetches -> Nat]
        /\ begunAt' \in [Fetches -> 0 .. now]
    BY <1>1 DEF Begin, TypeOK
  <2>2. UNCHANGED <<now, entries, responses, contacted, crashed>> /\ pc[f] = "idle"
    BY <1>1 DEF Begin, Goto
  <2>0. hit' \in [Fetches -> BOOLEAN]
    BY <1>1 DEF Begin, TypeOK
  <2>3. \/ pc' = [pc EXCEPT ![f] = "failed"] /\ resp' = resp
        \/ pc' = [pc EXCEPT ![f] = "get"] /\ resp' = resp
        \/ /\ Live(u) # {}
           /\ pc' = [pc EXCEPT ![f] = "serve"]
           /\ resp' = [resp EXCEPT ![f] = {e.resp : e \in Live(u)}]
    BY <1>1 DEF Begin, Goto
  <2>4. /\ pc' \in [Fetches -> {"idle", "get", "body", "serve", "headers", "done", "failed"}]
        /\ resp' \in [Fetches -> SUBSET Response]
        /\ \A g \in Fetches : /\ \A q, r \in resp'[g] : q = r
                              /\ resp'[g] # {} <=> pc'[g] \in {"body", "serve", "headers", "done"}
    <3> DEFINE R == {e.resp : e \in Live(u)}
    <3>1. /\ R \subseteq Response
          /\ \A q, r \in R : q = r
          /\ Live(u) # {} => R # {}
      BY LiveResponse
    <3>2. \/ pc' = [pc EXCEPT ![f] = "failed"] /\ resp' = resp
          \/ pc' = [pc EXCEPT ![f] = "get"] /\ resp' = resp
          \/ R # {} /\ pc' = [pc EXCEPT ![f] = "serve"] /\ resp' = [resp EXCEPT ![f] = R]
      BY <2>3, <3>1
    <3> HIDE DEF R
    <3>3. QED
      BY <2>2, <3>1, <3>2 DEF TypeOK
  <2>5. QED
    BY <2>0, <2>1, <2>2, <2>4 DEF TypeOK
<1>2. ASSUME NEW f \in Fetches, NEW u \in Urls, Redirect(f, u)
      PROVE  TypeOK'
  <2>1. contacted' \subseteq Hosts \X {"public", "private"}
    BY <1>2, ReachableKind DEF Redirect, Contact, TypeOK
  <2>2. /\ pc[f] = "get"
        /\ UNCHANGED <<now, entries, mode, url, begunAt, resp, responses, crashed, hit>>
        /\ \/ /\ at' = [at EXCEPT ![f] = u]
              /\ hops' = [hops EXCEPT ![f] = @ + 1]
              /\ pc' = pc
           \/ /\ pc' = [pc EXCEPT ![f] = "failed"]
              /\ UNCHANGED <<at, hops>>
    BY <1>2 DEF Redirect
  <2>3. at' \in [Fetches -> Urls] /\ hops' \in [Fetches -> Nat]
    <3>1. hops[f] + 1 \in Nat
      BY DEF TypeOK
    <3>2. QED
      BY <2>2, <3>1 DEF TypeOK
  <2>4. QED
    BY <2>1, <2>2, <2>3 DEF TypeOK
<1>3. ASSUME NEW f \in Fetches, Answer(f)
      PROVE  TypeOK'
  <2>1. contacted' \subseteq Hosts \X {"public", "private"}
    BY <1>3, ReachableKind DEF Answer, Contact, TypeOK
  <2> DEFINE r == [id |-> responses + 1, asked |-> url[f], answeredAt |-> now]
  <2>2. /\ pc[f] = "get" /\ pc' = [pc EXCEPT ![f] = "body"]
        /\ resp' = [resp EXCEPT ![f] = {r}]
        /\ responses < MaxResponses /\ responses' = responses + 1
        /\ UNCHANGED <<now, entries, mode, url, at, hops, begunAt, crashed, hit>>
    BY <1>3 DEF Answer, Goto
  <2>3. r \in Response /\ responses' \in 0 .. MaxResponses
    BY <2>2, BoundsAssumption DEF TypeOK, Response
  <2>4. /\ resp' \in [Fetches -> SUBSET Response]
        /\ \A g \in Fetches : /\ \A p, q \in resp'[g] : p = q
                              /\ resp'[g] # {} <=> pc'[g] \in {"body", "serve", "headers", "done"}
    <3> HIDE DEF r
    <3>1. QED
      BY <2>2, <2>3 DEF TypeOK
  <2>5. QED
    BY <2>1, <2>2, <2>3, <2>4 DEF TypeOK
<1>4. ASSUME NEW f \in Fetches, Fail(f)
      PROVE  TypeOK'
  BY <1>4 DEF Fail, TypeOK
<1>5. ASSUME NEW f \in Fetches, Install(f)
      PROVE  TypeOK'
  <2> DEFINE E == {[resp |-> r, fetchedAt |-> now] : r \in resp[f]}
  <2>1. /\ pc[f] = "body" /\ pc' = [pc EXCEPT ![f] = "serve"]
        /\ entries' = [entries EXCEPT ![url[f]] = E]
        /\ UNCHANGED <<now, mode, url, at, hops, begunAt, resp, responses, contacted, crashed, hit>>
    BY <1>5 DEF Install, Goto
  <2>2. E \subseteq [resp : Response, fetchedAt : 0 .. now] /\ \A d, e \in E : d = e
    BY DEF TypeOK
  <2> HIDE DEF E
  <2>3. QED
    BY <2>1, <2>2 DEF TypeOK
<1>6. ASSUME NEW f \in Fetches, WriteHeaders(f)
      PROVE  TypeOK'
  BY <1>6 DEF WriteHeaders, Goto, TypeOK
<1>7. ASSUME NEW f \in Fetches, Finish(f)
      PROVE  TypeOK'
  BY <1>7 DEF Finish, Goto, TypeOK
<1>8. ASSUME NEW f \in Fetches, Leave(f)
      PROVE  TypeOK'
  <2>1. AnyUrl \in Urls
    BY UrlsAssumption DEF AnyUrl
  <2>2. QED
    BY <1>8, <2>1 DEF Leave, TypeOK
<1>9. CASE Tick
  <2>1. /\ now' = now + 1
        /\ UNCHANGED <<entries, pc, mode, url, at, hops, begunAt, resp, responses, contacted, crashed,
                       hit>>
    BY <1>9 DEF Tick, fetch
  <2>2. now' \in Nat /\ 0 .. now \subseteq 0 .. now'
    BY <2>1 DEF TypeOK
  <2>3. entries' \in [Urls -> SUBSET [resp : Response, fetchedAt : 0 .. now']]
    BY <2>1, <2>2 DEF TypeOK
  <2>4. begunAt' \in [Fetches -> 0 .. now']
    BY <2>1, <2>2 DEF TypeOK
  <2>5. QED
    BY <2>1, <2>2, <2>3, <2>4 DEF TypeOK
<1>10. CASE UNCHANGED vars
  BY <1>10 DEF vars, TypeOK
<1>11. QED
  BY <1>1, <1>2, <1>3, <1>4, <1>5, <1>6, <1>7, <1>8, <1>9, <1>10 DEF Next, Call

(* The state keeps its types: in particular an idle or failed call holds no *)
(* response, and one that serves holds exactly one (FetchResponse).         *)
THEOREM TypeCorrect == Spec => []TypeOK
<1>1. QED
  BY TypeInit, TypeStep, PTL DEF Spec

-----------------------------------------------------------------------------

(* Whatever origins redirect to and names resolve to, a connection is only  *)
(* made to an allowed host at an address that is not private (isAllowed,    *)
(* checkRedirect, guardedDialContext).                                      *)
THEOREM OnlyAllowed == Spec => []OnlyAllowedContacted
<1> DEFINE IInv == NextHostAllowed /\ OnlyAllowedContacted
<1>1. Init => IInv
  BY DEF Init, NextHostAllowed, OnlyAllowedContacted
<1>2. TypeOK /\ IInv /\ [Next]_vars => IInv'
  <2> SUFFICES ASSUME TypeOK, IInv, [Next]_vars PROVE IInv'
    OBVIOUS
  (* One step of contact adds an allowed host, at an address that is let through. *)
  <2>1. ASSUME NEW f \in Fetches, pc[f] = "get", Contact(f)
        PROVE  OnlyAllowedContacted'
    <3>1. PICK a \in Reachable(HostOf[at[f]]) : contacted' = contacted \cup {<<HostOf[at[f]], a>>}
      BY <2>1 DEF Contact
    <3>2. AllowPrivateIPs \/ a = "public"
      BY DEF Reachable
    <3>3. IsAllowed(HostOf[at[f]])
      BY <2>1 DEF NextHostAllowed
    <3>4. QED
      BY <3>1, <3>2, <3>3 DEF OnlyAllowedContacted
  <2>2. ASSUME NEW f \in Fetches, NEW u \in Urls, NEW m \in {"text", "binary"}, Begin(f, u, m)
        PROVE  IInv'
    BY <2>2 DEF Begin, Goto, TypeOK, NextHostAllowed, OnlyAllowedContacted
  <2>3. ASSUME NEW f \in Fetches, NEW u \in Urls, Redirect(f, u)
        PROVE  IInv'
    <3>1. OnlyAllowedContacted'
      BY <2>1, <2>3 DEF Redirect
    <3>2. NextHostAllowed'
      BY <2>3 DEF Redirect, TypeOK, NextHostAllowed
    <3>3. QED
      BY <3>1, <3>2
  <2>4. ASSUME NEW f \in Fetches, Answer(f)
        PROVE  IInv'
    <3>1. OnlyAllowedContacted'
      BY <2>1, <2>4 DEF Answer, Goto
    <3>2. NextHostAllowed'
      BY <2>4 DEF Answer, Goto, TypeOK, NextHostAllowed
    <3>3. QED
      BY <3>1, <3>2
  <2>5. ASSUME NEW f \in Fetches, Fail(f) \/ Install(f) \/ WriteHeaders(f) \/ Finish(f) \/ Leave(f)
        PROVE  IInv'
    <3>1. contacted' = contacted
      BY <2>5 DEF Fail, Install, WriteHeaders, Finish, Leave
    <3>2. \A g \in Fetches : pc'[g] = "get" => pc[g] = "get" /\ at'[g] = at[g]
      BY <2>5 DEF Fail, Install, WriteHeaders, Finish, Leave, Goto, TypeOK
    <3>3. QED
      BY <3>1, <3>2 DEF NextHostAllowed, OnlyAllowedContacted
  <2>6. CASE Tick \/ UNCHANGED vars
    BY <2>6 DEF Tick, vars, fetch, NextHostAllowed, OnlyAllowedContacted
  <2>7. QED
    BY <2>2, <2>3, <2>4, <2>5, <2>6 DEF Next, Call
<1>3. IInv => OnlyAllowedContacted
  OBVIOUS
<1>4. QED
  BY <1>1, <1>2, <1>3, TypeCorrect, PTL DEF Spec

-----------------------------------------------------------------------------

(* What an entry that lives gives: an answer to its URL that is no older    *)
(* than the life of an entry and the time limit of a request.               *)
LEMMA LiveIsYoung ==
    ASSUME TypeOK, EntriesAreFresh, NEW u \in Urls, NEW e \in Live(u)
    PROVE  e.resp.asked = u /\ now - e.resp.answeredAt <= Ttl + Timeout
<1>1. e \in entries[u] /\ now - e.fetchedAt <= Ttl
  BY DEF Live
<1>2. e \in [resp : Response, fetchedAt : 0 .. now]
  BY <1>1 DEF TypeOK
<1>3. e.fetchedAt \in Int /\ e.resp.answeredAt \in Int /\ now \in Int
  BY <1>2 DEF TypeOK, Response
<1>4. e.resp.asked = u /\ e.fetchedAt - e.resp.answeredAt <= Timeout
  BY <1>1 DEF EntriesAreFresh
<1>5. QED
  BY <1>1, <1>3, <1>4, TimesAssumption

(* A call served from the cache begins with a response that is its own.     *)
LEMMA AgesBegin ==
    ASSUME TypeOK, Ages, NEW f \in Fetches, NEW u \in Urls, NEW m \in {"text", "binary"},
           Begin(f, u, m)
    PROVE  Ages'
<1>1. /\ UNCHANGED <<now, entries>> /\ pc[f] = "idle"
      /\ url' = [url EXCEPT ![f] = u]
      /\ begunAt' = [begunAt EXCEPT ![f] = now]
  BY DEF Begin, Goto
<1>2. \/ pc' = [pc EXCEPT ![f] = "failed"] /\ resp' = resp
      \/ pc' = [pc EXCEPT ![f] = "get"] /\ resp' = resp
      \/ /\ pc' = [pc EXCEPT ![f] = "serve"]
         /\ resp' = [resp EXCEPT ![f] = {e.resp : e \in Live(u)}]
  BY DEF Begin, Goto
<1>3. \A g \in Fetches : g # f => /\ pc'[g] = pc[g] /\ resp'[g] = resp[g]
                                  /\ url'[g] = url[g] /\ begunAt'[g] = begunAt[g]
  BY <1>1, <1>2 DEF TypeOK
<1>4. url'[f] = u /\ begunAt'[f] = now /\ pc'[f] \in {"failed", "get", "serve"}
  BY <1>1, <1>2 DEF TypeOK
<1>5. pc'[f] = "serve" => resp'[f] = {e.resp : e \in Live(u)}
  BY <1>2 DEF TypeOK
<1>6. WithinTimeout'
  <2>1. now <= now + Timeout
    BY TimesAssumption DEF TypeOK
  <2>2. QED
    BY <1>1, <1>3, <1>4, <2>1 DEF Ages, WithinTimeout
<1>7. BodyIsOwn'
  BY <1>3, <1>4 DEF Ages, BodyIsOwn
<1>8. EntriesAreFresh'
  BY <1>1 DEF Ages, EntriesAreFresh
<1>9. ServedIsAskedAndYoung'
  <2>1. ASSUME pc'[f] = "serve", NEW r \in resp'[f]
        PROVE  r.asked = u /\ now - r.answeredAt <= Ttl + Timeout
    <3>1. PICK e \in Live(u) : r = e.resp
      BY <1>5, <2>1
    <3>2. QED
      BY <3>1, LiveIsYoung DEF Ages
  <2>2. QED
    BY <1>3, <1>4, <2>1 DEF Ages, ServedIsAskedAndYoung, Serving
<1>10. QED
  BY <1>6, <1>7, <1>8, <1>9 DEF Ages

(* What is stored was answered within the time limit, to the URL it is      *)
(* stored under.                                                            *)
LEMMA AgesInstall ==
    ASSUME TypeOK, Ages, NEW f \in Fetches, Install(f)
    PROVE  Ages'
<1>1. /\ pc[f] = "body" /\ pc' = [pc EXCEPT ![f] = "serve"]
      /\ entries' = [entries EXCEPT ![url[f]] = {[resp |-> r, fetchedAt |-> now] : r \in resp[f]}]
      /\ UNCHANGED <<now, url, begunAt, resp>>
  BY DEF Install, Goto
<1>2. \A g \in Fetches : /\ g # f => pc'[g] = pc[g]
                         /\ pc'[f] = "serve"
  BY <1>1 DEF TypeOK
<1>3. ASSUME NEW r \in resp[f]
      PROVE  /\ r.asked = url[f] /\ begunAt[f] - r.answeredAt <= Ttl + Timeout
             /\ now - r.answeredAt <= Timeout
  <2>1. r.asked = url[f] /\ begunAt[f] <= r.answeredAt
    BY <1>1 DEF Ages, BodyIsOwn
  <2>2. now <= begunAt[f] + Timeout
    BY <1>1 DEF Ages, WithinTimeout
  <2>3. now \in Int /\ begunAt[f] \in Int /\ r.answeredAt \in Int
    <3>1. r \in Response
      BY DEF TypeOK
    <3>2. QED
      BY <3>1 DEF TypeOK, Response
  <2>4. QED
    BY <2>1, <2>2, <2>3, TimesAssumption
<1>4. WithinTimeout' /\ BodyIsOwn'
  BY <1>1, <1>2 DEF Ages, WithinTimeout, BodyIsOwn
<1>5. EntriesAreFresh'
  <2> SUFFICES ASSUME NEW u \in Urls, NEW e \in entries'[u]
               PROVE  e.resp.asked = u /\ e.fetchedAt - e.resp.answeredAt <= Timeout
    BY DEF EntriesAreFresh
  <2>1. CASE u = url[f]
    <3>1. PICK r \in resp[f] : e = [resp |-> r, fetchedAt |-> now]
      BY <1>1, <2>1 DEF TypeOK
    <3>2. e.resp = r /\ e.fetchedAt = now
      BY <3>1
    <3>3. QED
      BY <1>3, <2>1, <3>2
  <2>2. CASE u # url[f]
    BY <1>1, <2>2 DEF Ages, EntriesAreFresh, TypeOK
  <2>3. QED
    BY <2>1, <2>2
<1>6. ServedIsAskedAndYoung'
  BY <1>1, <1>2, <1>3 DEF Ages, ServedIsAskedAndYoung, Serving
<1>7. QED
  BY <1>4, <1>5, <1>6 DEF Ages

(* A session never gets a response to another URL, nor one older than the   *)
(* life of an entry and the time limit of a request together, however       *)
(* fetches overtake one another (FetchResponse).                            *)
THEOREM ServedYoung == Spec => []ServedIsAskedAndYoung
<1>1. Init => Ages
  BY DEF Init, Ages, WithinTimeout, BodyIsOwn, EntriesAreFresh, ServedIsAskedAndYoung, Serving
<1>2. TypeOK /\ Ages /\ [Next]_vars => Ages'
  <2> SUFFICES ASSUME TypeOK, Ages, [Next]_vars PROVE Ages'
    OBVIOUS
  <2>1. ASSUME NEW f \in Fetches, NEW u \in Urls, Redirect(f, u)
        PROVE  Ages'
    <3>1. UNCHANGED <<now, entries, url, begunAt, resp>> /\ pc[f] = "get"
      BY <2>1 DEF Redirect
    <3>2. \A g \in Fetches : pc'[g] = pc[g] \/ pc'[g] = "failed"
      BY <2>1 DEF Redirect, TypeOK
    <3>3. QED
      BY <3>1, <3>2
         DEF Ages, WithinTimeout, BodyIsOwn, EntriesAreFresh, ServedIsAskedAndYoung, Serving
  <2>2. ASSUME NEW f \in Fetches, Answer(f)
        PROVE  Ages'
    <3> DEFINE r == [id |-> responses + 1, asked |-> url[f], answeredAt |-> now]
    <3>1. /\ UNCHANGED <<now, entries, url, begunAt>>
          /\ pc[f] = "get" /\ pc' = [pc EXCEPT ![f] = "body"]
          /\ resp' = [resp EXCEPT ![f] = {r}]
      BY <2>2 DEF Answer, Goto
    <3>2. r.asked = url[f] /\ begunAt[f] <= r.answeredAt
      BY DEF TypeOK
    <3> HIDE DEF r
    <3>3. \A g \in Fetches : /\ g # f => pc'[g] = pc[g] /\ resp'[g] = resp[g]
                             /\ pc'[f] = "body" /\ resp'[f] = {r}
      BY <3>1 DEF TypeOK
    <3>4. QED
      BY <3>1, <3>2, <3>3
         DEF Ages, WithinTimeout, BodyIsOwn, EntriesAreFresh, ServedIsAskedAndYoung, Serving
  <2>3. ASSUME NEW f \in Fetches, Fail(f) \/ Leave(f)
        PROVE  Ages'
    <3>1. UNCHANGED <<now, entries>> /\ pc'[f] \in {"failed", "idle"}
      BY <2>3 DEF Fail, Leave, TypeOK
    <3>2. \A g \in Fetches : g # f => /\ pc'[g] = pc[g] /\ resp'[g] = resp[g]
                                      /\ url'[g] = url[g] /\ begunAt'[g] = begunAt[g]
      BY <2>3 DEF Fail, Leave, TypeOK
    <3>3. QED
      BY <3>1, <3>2
         DEF Ages, WithinTimeout, BodyIsOwn, EntriesAreFresh, ServedIsAskedAndYoung, Serving
  <2>4. ASSUME NEW f \in Fetches, WriteHeaders(f) \/ Finish(f)
        PROVE  Ages'
    <3>1. UNCHANGED <<now, entries, url, begunAt, resp>>
      BY <2>4 DEF WriteHeaders, Finish
    <3>2. \A g \in Fetches : pc'[g] = pc[g] \/ (Serving(g) /\ pc'[g] \in {"headers", "done"})
      BY <2>4 DEF WriteHeaders, Finish, Goto, TypeOK, Serving
    <3>3. QED
      BY <3>1, <3>2
         DEF Ages, WithinTimeout, BodyIsOwn, EntriesAreFresh, ServedIsAskedAndYoung, Serving
  <2>5. CASE Tick
    <3>1. /\ now' = now + 1
          /\ UNCHANGED <<entries, pc, url, begunAt, resp>>
          /\ \A f \in Fetches : pc[f] \in {"get", "body"} => now < begunAt[f] + Timeout
      BY <2>5 DEF Tick, fetch
    <3>2. WithinTimeout'
      <4>1. \A f \in Fetches : begunAt[f] \in Int /\ now \in Int /\ Timeout \in Int
        BY TimesAssumption DEF TypeOK
      <4>2. QED
        BY <3>1, <4>1 DEF WithinTimeout
    <3>3. QED
      BY <3>1, <3>2 DEF Ages, BodyIsOwn, EntriesAreFresh, ServedIsAskedAndYoung, Serving
  <2>6. CASE UNCHANGED vars
    BY <2>6 DEF vars, Ages, WithinTimeout, BodyIsOwn, EntriesAreFresh, ServedIsAskedAndYoung,
                Serving
  <2>7. QED
    BY <2>1, <2>2, <2>3, <2>4, <2>5, <2>6, AgesBegin, AgesInstall DEF Next, Call
<1>3. Ages => ServedIsAskedAndYoung
  BY DEF Ages
<1>4. QED
  BY <1>1, <1>2, <1>3, TypeCorrect, PTL DEF Spec


-----------------------------------------------------------------------------

(* Responses are numbered as they are made. *)
Numbered ==
    /\ \A f \in Fetches : \A r \in resp[f] : r.id <= responses
    /\ \A u \in Urls : \A e \in entries[u] : e.resp.id <= responses

(* What a fetch reads is known to nobody else yet. *)
BodyIsAlone ==
    \A f \in Fetches : pc[f] = "body" =>
        \A r \in resp[f] : /\ begunAt[f] <= r.answeredAt
                           /\ \A g \in Fetches \ {f} : r \notin resp[g]
                           /\ \A u \in Urls : \A e \in entries[u] : e.resp # r

Owners == Numbered /\ BodyIsAlone /\ MissersOwnTheirResponse

LEMMA OwnersBegin ==
    ASSUME TypeOK, Owners, NEW f \in Fetches, NEW u \in Urls, NEW m \in {"text", "binary"},
           Begin(f, u, m)
    PROVE  Owners'
<1>1. UNCHANGED <<entries, responses>> /\ pc[f] = "idle" /\ resp[f] = {}
  BY DEF Begin, Goto, TypeOK
<1>2. \A g \in Fetches : g # f => /\ pc'[g] = pc[g] /\ resp'[g] = resp[g] /\ hit'[g] = hit[g]
                                  /\ begunAt'[g] = begunAt[g]
  BY DEF Begin, Goto, TypeOK
<1>3. \/ pc'[f] \in {"failed", "get"} /\ resp'[f] = {}
      \/ /\ pc'[f] = "serve" /\ hit'[f]
         /\ \A r \in resp'[f] : \E e \in entries[u] : r = e.resp
  BY <1>1 DEF Begin, Goto, TypeOK, Live
<1>4. Numbered'
  BY <1>1, <1>2, <1>3 DEF Owners, Numbered
<1>5. BodyIsAlone'
  BY <1>1, <1>2, <1>3 DEF Owners, BodyIsAlone
<1>6. MissersOwnTheirResponse'
  BY <1>1, <1>2, <1>3 DEF Owners, MissersOwnTheirResponse, Serving
<1>7. QED
  BY <1>4, <1>5, <1>6 DEF Owners

LEMMA OwnersAnswer ==
    ASSUME TypeOK, Owners, NEW f \in Fetches, Answer(f)
    PROVE  Owners'
<1> DEFINE r == [id |-> responses + 1, asked |-> url[f], answeredAt |-> now]
<1>1. /\ UNCHANGED <<entries, begunAt, hit>> /\ responses' = responses + 1 /\ responses \in Int
      /\ pc' = [pc EXCEPT ![f] = "body"] /\ resp' = [resp EXCEPT ![f] = {r}]
  BY DEF Answer, Goto, TypeOK
<1>2. r.id = responses + 1 /\ begunAt[f] <= r.answeredAt
  BY DEF TypeOK
<1> HIDE DEF r
<1>3. /\ pc'[f] = "body" /\ resp'[f] = {r}
      /\ \A g \in Fetches : g # f => pc'[g] = pc[g] /\ resp'[g] = resp[g]
  BY <1>1 DEF TypeOK
<1>4. /\ \A g \in Fetches : \A q \in resp[g] : q.id \in Int /\ q.id <= responses
      /\ \A u \in Urls : \A e \in entries[u] : e.resp.id \in Int /\ e.resp.id <= responses
  BY DEF Owners, Numbered, TypeOK, Response
<1>5. /\ \A g \in Fetches \ {f} : r \notin resp[g]
      /\ \A u \in Urls : \A e \in entries[u] : e.resp # r
  BY <1>1, <1>2, <1>4
<1>6. Numbered'
  BY <1>1, <1>2, <1>3, <1>4 DEF Numbered
<1>7. BodyIsAlone'
  BY <1>1, <1>2, <1>3, <1>5 DEF Owners, BodyIsAlone
<1>8. MissersOwnTheirResponse'
  BY <1>1, <1>3 DEF Owners, MissersOwnTheirResponse, Serving
<1>9. QED
  BY <1>6, <1>7, <1>8 DEF Owners

LEMMA OwnersInstall ==
    ASSUME TypeOK, Owners, NEW f \in Fetches, Install(f)
    PROVE  Owners'
<1>1. /\ UNCHANGED <<begunAt, hit, resp, responses>>
      /\ pc[f] = "body" /\ pc' = [pc EXCEPT ![f] = "serve"]
      /\ entries' = [entries EXCEPT ![url[f]] = {[resp |-> r, fetchedAt |-> now] : r \in resp[f]}]
  BY DEF Install, Goto
<1>2. pc'[f] = "serve" /\ \A g \in Fetches : g # f => pc'[g] = pc[g]
  BY <1>1 DEF TypeOK
<1>3. \A u \in Urls : \A e \in entries'[u] : e \in entries[u] \/ e.resp \in resp[f]
  BY <1>1 DEF TypeOK
<1>4. resp[f] # {}
  BY <1>1 DEF TypeOK
<1>5. Numbered'
  BY <1>1, <1>3 DEF Owners, Numbered
<1>6. BodyIsAlone'
  BY <1>1, <1>2, <1>3 DEF Owners, BodyIsAlone
<1>7. MissersOwnTheirResponse'
  <2>1. \A r \in resp[f] : begunAt[f] <= r.answeredAt
    BY <1>1 DEF Owners, BodyIsAlone
  <2>2. \A g \in Fetches \ {f} : resp[g] # resp[f]
    BY <1>1, <1>4 DEF Owners, BodyIsAlone
  <2>3. QED
    BY <1>1, <1>2, <2>1, <2>2 DEF Owners, MissersOwnTheirResponse, Serving
<1>8. QED
  BY <1>5, <1>6, <1>7 DEF Owners

(* A fetch that missed has a response of its own, answered since it began;  *)
(* whoever has the same found it in the cache, for any number of fetches    *)
(* that miss together or overtake one another (FetchResponse).              *)
THEOREM MissersOwn == Spec => []MissersOwnTheirResponse
<1>1. Init => Owners
  BY DEF Init, Owners, Numbered, BodyIsAlone, MissersOwnTheirResponse, Serving
<1>2. TypeOK /\ Owners /\ [Next]_vars => Owners'
  <2> SUFFICES ASSUME TypeOK, Owners, [Next]_vars PROVE Owners'
    OBVIOUS
  <2>1. ASSUME NEW f \in Fetches, NEW u \in Urls, Redirect(f, u)
        PROVE  Owners'
    <3>1. UNCHANGED <<entries, begunAt, resp, responses, hit>>
      BY <2>1 DEF Redirect
    <3>2. \A g \in Fetches : pc'[g] = pc[g] \/ pc'[g] = "failed"
      BY <2>1 DEF Redirect, TypeOK
    <3>3. QED
      BY <3>1, <3>2 DEF Owners, Numbered, BodyIsAlone, MissersOwnTheirResponse, Serving
  <2>2. ASSUME NEW f \in Fetches, Fail(f) \/ Leave(f)
        PROVE  Owners'
    <3>1. UNCHANGED <<entries, responses>> /\ pc'[f] \in {"failed", "idle"} /\ resp'[f] = {}
      BY <2>2 DEF Fail, Leave, TypeOK
    <3>2. \A g \in Fetches : g # f => /\ pc'[g] = pc[g] /\ resp'[g] = resp[g]
                                      /\ hit'[g] = hit[g] /\ begunAt'[g] = begunAt[g]
      BY <2>2 DEF Fail, Leave, TypeOK
    <3>3. QED
      BY <3>1, <3>2 DEF Owners, Numbered, BodyIsAlone, MissersOwnTheirResponse, Serving
  <2>3. ASSUME NEW f \in Fetches, WriteHeaders(f) \/ Finish(f)
        PROVE  Owners'
    <3>1. UNCHANGED <<entries, begunAt, resp, responses, hit>>
      BY <2>3 DEF WriteHeaders, Finish
    <3>2. \A g \in Fetches : pc'[g] = pc[g] \/ (Serving(g) /\ pc'[g] \in {"headers", "done"})
      BY <2>3 DEF WriteHeaders, Finish, Goto, TypeOK, Serving
    <3>3. QED
      BY <3>1, <3>2 DEF Owners, Numbered, BodyIsAlone, MissersOwnTheirResponse, Serving
  <2>4. CASE Tick \/ UNCHANGED vars
    BY <2>4 DEF Tick, vars, fetch, Owners, Numbered, BodyIsAlone, MissersOwnTheirResponse, Serving
  <2>5. QED
    BY <2>1, <2>2, <2>3, <2>4, OwnersBegin, OwnersAnswer, OwnersInstall DEF Next, Call
<1>3. Owners => MissersOwnTheirResponse
  BY DEF Owners
<1>4. QED
  BY <1>1, <1>2, <1>3, TypeCorrect, PTL DEF Spec

=============================================================================
