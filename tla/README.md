# A TLA+ model of sshttpd

sshttpd serves web content over SSH: a client opens a session channel, runs a
command (`receive-pack`, `api-call`, `proxy-call`, `mcp`, ...) and reads the
answer. This directory holds models of the daemon's own logic, the TLC
configurations that check them on small instances and the theorems about them
that TLAPS proves for every instance. Paths below are relative to the
repository.

## 1. Inventory

| Component | State | Operations | Interacts with |
|---|---|---|---|
| Authorized keys, `internal/auth/auth.go` | two maps (fingerprint to tier, to comment) under an RW lock; the path | load, reload, `Tier`, `Comment`, `ClassifyKey` | the public-key callback of `server.go`, on one goroutine per connection; whoever writes the file |
| Authorization, `auth.go`, `commands/handler.go` | none (configuration) | `IsCommandAllowed`, `tierForCommand`, `routeAllowed`, `routeMatches` | every command |
| Rate limiter, `internal/ratelimit` | one token bucket per tier, a mutex | `New`, `Allow` | all sessions of a site |
| Sessions and dispatch, `server/server.go`, `commands/handler.go`, `backend/backend.go` | per session: identity, position of the goroutine; per channel: the request queue and data buffer of the SSH library | `handleSession`, `executeCommand`, `interactiveSession`, `Execute`, `ExecuteBinary`, `APICall`, `FetchResource` | limiter, authorization, backend, MCP proxy, caching proxy |
| Caching proxy, `internal/proxy` | map of entries, RW lock; responses shared by pointer | `FetchResponse`, redirect check, dial veto | all sessions that run `proxy-call`; origins |
| Daemon, `cmd/sshttpd`, `server.go` | listeners, `closed` under a mutex, host-key files | `New`, `ListenAndServe`, `acceptLoop`, `Close`, `main` | the operating system |
| MCP proxy, `internal/mcpproxy` | two pipes, a mutex, a request counter, the tool list | `Start`, `CallTool`, `Close` | sessions; an MCP server process |
| sshweb-mcp, `cmd/sshweb-mcp` | the current SSH connection and its tools | connect, disconnect, list, call | an MCP client; a remote sshttpd, whose `mcp` command takes the words apart again |
| Configuration parser, `internal/config` | position in the text, the block it is in, the site it fills | `Load`, `parseConfig` and the blocks' loops | `main` |
| Packfile writer, `internal/packfile` | objects, files | `AddBlob`, `AddFile`, `WriteTo` | `receive-pack`, which walks the content root while its author edits it |

What is hard in this code, component by component:

* **Authorized keys.** Every connection re-reads the file outside the lock and
  swaps the maps under it, so reloads overtake one another; the file may be
  missing, half written or wrong; tier and name are read in two critical
  sections. Right means: the maps are always one file, trust comes from the line
  that decides, and the last file wins.
* **Authorization.** Inheritance, qualified entries, stars, route patterns of
  any length. Right means: higher tiers may do more, arguments do not change the
  answer, patterns match exactly what they generate.
* **Rate limiter.** A shared bucket, arbitrary timing. Right means: never more
  than burst and rate over any stretch of time, never a refusal that is not due.
* **Sessions.** Many goroutines, one limiter, one mux per connection with
  bounded queues, blocking calls. Right means: one true exit status per exec, the
  session's own identity forwarded, nothing sent out that the tier may not do,
  and every exec ends.
* **Caching proxy.** Fetches miss together and overwrite one another; responses
  are shared while they are written out; origins redirect. Right means: only
  allowed hosts are contacted, and what is served is what was asked for and young.
* **Daemon.** Signals, failing listeners, kills while a key file is being
  written. Right means: one host key per site for ever, and an end when one is
  due.
* **MCP proxy.** Pipes that fill, a server that talks in between, under ids that
  are also the client's, or is silent, or dies; one mutex for all sessions. Right
  means: a session gets the result of its own call, executed once, and who waits
  is waited for only by a server that still owes an answer.
* **sshweb-mcp.** A client that sends ahead, reconnects that fail half way, links
  that break unnoticed, names of tools without a port. Right means: one reply
  each, a client that knows when its list is stale, and calls that run where they
  were meant with the arguments that were given.
* **Configuration parser.** Nested loops that each look for their own end. Right
  means: what is written is what runs, damage starts no other daemon, and the
  parse ends.
* **receive-pack.** A walk over files that change, a binary format with sizes of
  variable length, a fallback. Right means: whole answers, every untouched file
  in them, and the backend only for a reason.

The `hazards` of `PROJECT.json` list these one by one, at their lines.

## 2. Modules

| Module | Models | Run module |
|---|---|---|
| `AuthorizedKeys` | the store, its reload, the public-key callback | `MC_AuthorizedKeys` |
| `Authorization` | pure decisions: tier lists, routes | through `Decisions` and `Session` |
| `Decisions` | questions to `Authorization`, one after the other, and what the answers must be | `MC_Authorization` |
| `TokenBucket`, `RateLimiter` | the bucket as operators; the limiter as a state machine | `MC_RateLimiter` |
| `Session` | sessions; EXTENDS `TokenBucket` and `Authorization`, so it composes limiter, authorization and dispatch | `MC_Session` |
| `ProxyCache` | the proxy and the writer of its responses | `MC_ProxyCache` |
| `ServerLifecycle` | the daemon | `MC_ServerLifecycle` |
| `ToolCalls` | what the MCP proxy promises the sessions (abstract) | through `McpProxy` |
| `McpProxy` | the MCP proxy over two pipes, and the server behind them; implements `ToolCalls` | `MC_McpProxy` |
| `SshwebMcp` | the bridge, and the way of a call's arguments through the site | `MC_SshwebMcp` |
| `ConfigParser` | the parser, loop turn by loop turn | `MC_ConfigParser` |
| `ReceivePack` | one `receive-pack`: walk, packfile, fallback | `MC_ReceivePack` |
| `RateLimiter_proofs`, `Session_proofs`, `ProxyCache_proofs`, `ServerLifecycle_proofs`, `McpProxy_proofs`, `SshwebMcp_proofs`, `ReceivePack_proofs` | theorems about the module they EXTEND | |
| `OperatorFiles_proofs` | theorems about the two files an operator writes: `AuthorizedKeys`, which it EXTENDS, and `ConfigParser`, of which it has two INSTANCEs | |

`Session_proofs` also holds the theorems about `Authorization`, which `Session`
extends, and those about `Decisions`, which it extends too, and takes the
arithmetic of a bucket from an INSTANCE of `RateLimiter_proofs`.

How they meet: `Session` records its calls to the backend and the MCP server and
knows of the latter only that an answer comes or does not; `McpProxy` says when
it comes and whose it is. `Session` treats `proxy-call` and `receive-pack` as
outcomes; `ProxyCache` and `ReceivePack` say which. `ConfigParser` yields what
`Authorization`, `RateLimiter` and the others take as constants.

Operators named "Mutant" in their comment are plausible slips in the definition
that follows them. No module uses them; each shows that the property it belongs
to can fail.

### AuthorizedKeys

`disk` is the sequence of contents the file has had; its last element is on disk
now. A content is what `loadFromDisk` makes of it: whether every line parses, and
its key lines. `Offer` is the beginning of `PublicKeyCallback`, `ReadFile` the
part of `Reload` before the lock (with the early returns for no path and a bad
file), `SwapMaps` the critical section, `Classify` and `Label` the lookups by
`ClassifyKey` and `Comment`. `Authenticate`, `EnterWithoutKey` and `Leave` are
the client's part: several keys may be offered, the permissions of the last one
count. `loaded`, `begun`, `clear` and `classified` are history and guard nothing.

### TokenBucket and RateLimiter

A token is worth as many units as the limit's period has ticks, so one tick
brings in exactly `count` units and the floating-point amounts of the code become
integers. `Grants` and `AfterCall` are one call of `Allow`, which runs under a
mutex and is one step. `OpenWindow` starts an observer's count at an arbitrary
moment, so the properties speak of every stretch of time.

### Authorization

A command is the sequence of its words (`strings.Fields` on both sides of the
comparison), a path the sequence of its segments. `Prefixes` stands for
`strings.HasPrefix` between words, `Holes` and `CatchAlls` for the two forms of
pattern segments. `Generates` is the reference for `RouteMatches`: a path can be cut
into pieces for which the segments of the pattern stand, one after the other. It
knows nothing of how `routeMatches` looks for them. `Decisions` asks: its state is
one question about a command or a path, its steps ask the next.

### Session

One step per request taken from the channel (`Noise`, `SetEnv`, `Start`), per
line read (`ReadLine`), per answer of the limiter (`EmptyCommand`, `RateLimited`,
`Admit`), per dispatch and per answer of a call (`Dispatch`, `Answer`). `Finish`
is what ends a command: an exec sends its status and closes, a shell prompts
again. `Write` is a response that does not fit the client's window: it goes on
when the client grants more, news that reaches the goroutine through the mux.
`Send`, `Deliver` and `HangUp` are the mux of `golang.org/x/crypto/ssh`
(external): one per connection, a queue of `QueueSize` requests per channel, and
no progress for the connection while a request waits for a full queue (`held`).
A session's end does not empty its queue.

What is abstracted: bodies and documents (an outcome is a response, an error or a
call), `receive-pack` from a content root may succeed or fail, the caching proxy
answers or fails (`ProxyCache` models it), command words are model strings, and
short texts (errors, prompts) always fit the window.

### ProxyCache

`Begin` is `FetchResponse` up to the network, with the lookup under the read
lock; `Answer`, `Redirect` and `Fail` are what the HTTP client may meet;
`Install` stores the entry; `WriteHeaders` and `Finish` are `proxyCallBinary`. A
response carries its identity, so that sharing by pointer is visible, and the
time the origin answered. When two sessions are inside `WriteHeaders` with one
response, a data race on a Go map, the process may stop: `crashed` is a choice
between the outcomes the runtime has. Time is bounded for a request by the
client's timeout (`Tick`). `hit` is history: whether a fetch found its response
in the cache. The daemon is taken to run without `HTTP_PROXY` and `HTTPS_PROXY`
in its environment: the transport honours them (`http.ProxyFromEnvironment`) and
would then dial that proxy, and `OnlyAllowedContacted` is about hosts it dials
itself. `Ttl` is one constant because `parseTTL` makes it one, whatever `ttl` a
site sets (a finding).

### ServerLifecycle

`main`, `serve`, `loop` and `mu` are where the goroutines and the mutex stand.
`os.WriteFile` is two steps, create and fill, so that a kill can leave a torn
file. `CloseListener` may find a listener field nil although it is set, for
`ListenAndServe` writes it without the lock `Close` holds. Each site has a host
key path of its own.

### ToolCalls and McpProxy

`ToolCalls` has one state per call, the set of executed calls and whether the
server runs. `McpProxy` has the code's: `Begin` and `Lock` (a session comes to
the mutex; the request gets its id under it), `Write` (a part of the request, as
the pipe has room: nothing is read before the last part is written), `Read` (one
line, skipped unless its id is the request's), `WriteFails` and `ReadFails` (the
server is gone), `GiveUp` and `CloseReturns` (`Start` fails). The server is
external: it reads, answers each request once, chats (notifications, and requests
of its own whose ids may equal the client's), does not read while it writes, dies
or ends with its input. `Promise` is the refinement mapping: a request that waits
for the mutex, is written or read is "waiting" in `ToolCalls`.

Notable in the code and kept: `notify` releases the mutex with its last part; a
server's own request with the awaited id counts as the answer, one without a
result, which `initialize` takes for success and the others for an error.

### SshwebMcp

The loop handles a message to its end before it reads the next. Messages that are
handled at once are `Plain`, `Unnumbered`, `ToolsList`, `Disconnect` and
`Refuse`; a connect has the stages `dial`, `handshake` and `capabilities`, a call
is `Invoke` and `Invoked`. A message that asks for a reply bears an id, numbered
as they are sent; any other bears 0. `listed`, `notices` and `unnoticed` are what
the client knows. Arguments are sets of key and value, a value the texts between
its blanks. `Orders` and `Command` are `invokeMCP` with the map's arbitrary order:
a command has a word at each place <<i, j>>, the j-th text of the i-th argument,
and `Before` is the order in which the words are sent. Keys are taken to hold no
blank and no `=`, as the names of parameters do. `Assigned`, `Refused` and
`Received` are the site's `mcp`.

### ConfigParser

A file is a sequence of lexemes; `Skip`, `Word` and `Rest` are the readers, and
each action is one turn of one of the parser's loops, so that a loop that has
stopped moving is a behaviour that stutters. What is kept of `Config` is what the
blocks set.

### ReceivePack

`Begin` finds the path, `Walk` takes the first path of `pending` in the order of
`filepath.Walk` (`IsNext`) and `Visit` opens one file or lists one directory,
`WalkEnds` builds the answer, `Fetch` asks the backend, `Write` is one call of
`Write` on the channel. `MakeDir`, `WriteFile`, `Delete` and `Move` are the
author, at any moment, also between `OpenFile` and `ReadFile`, the two ends of
`os.ReadFile`: `open` collects what the file read holds meanwhile, and `ReadsAs`
is what such a read may yield, one of these contents or a mix of two (`Torn`
says which contents mix to which).

A path is a sequence of names, and what there is is a tree, of any depth
(`IsTree`). `LooksInside` is the check of `buildPackfile`, which compares the two
absolute paths as texts with no separator at the end of the root: the names above
the root's last one are equal, and at that place a name may go on. `NameStarts`
is `strings.HasPrefix` between names. So a neighbour of the root, `site-drafts`
beside `site` in the run, passes and is packed, against what the changelog says
(a finding). The pack is a sequence of header
bytes and data; the trailing hash and zlib are left out. `GitReads` is the
reader's side of the format and no part of the code: it takes one byte after the
other and knows nothing of where an object ends.

## 3. Runs

| Run | Asks | Bounds and why they are enough |
|---|---|---|
| `auth_keys` | the store's safety, and that the last file wins | 2 handshakes, 2 keys, 3 versions of the file: one handshake can be overtaken by another across two rewrites; contents include a broken one, two lines for one key, a line without comment |
| `auth_keys_stale` | a claim of the changelog, refuted | 2 versions are enough to go back to the first |
| `rate_limiter` | grants and refusals | two limits per minute and one nobody can parse, steps of 20 and 30 s up to 150 s: more than two periods, refills that do and do not reach the cap |
| `authorization` | decisions against reference definitions | all commands, entries, patterns and paths of up to three words or segments: every relation of lengths |
| `session` | statuses, identities, permissions, the limit | 2 sessions on 2 connections, 2 messages each, a request queue of 1, one second of time: an env before an exec, a shell and its line, a second command that exhausts the tier |
| `session_mux` | that execs end, and when a connection may stand still | 2 sessions on 1 connection, 3 messages each: an exec, a full queue and a request held for it, which is the deadlock's shape |
| `proxy_cache` | contacts, age, and who shares a response with whom | 2 fetches, 3 URLs, 3 ticks with a life and a timeout of one tick each, 2 responses, `max-redirects` 3, that is a chain of two redirects, over a cycle and out of the allow list |
| `lifecycle` | one host key, all sites or none, and ends that are due | 2 sites, 2 starts, 1 connection per site and start |
| `mcp_proxy` | the refinement of `ToolCalls`, and what ends | 3 calls, one of a request longer than a pipe, pipes of 1, 2 messages of the server's own with ids 1 to 3: one call's request fits the pipe and another waits for the mutex behind the one that does not; the server's ids meet those of the startup and of a call |
| `sshweb_mcp` | replies, lists, where calls run and with what | 2 ports of one host and a dead address, 1 tool, 4 messages: connect, list, connect elsewhere, call from the old list; arguments with a blank, with `=`, and a million |
| `config_parser` | what is read, what is noticed, what ends | 3450 files of two sites: every pair of blocks in every order, whole, cut at every place, and with each single lexeme missing |
| `receive_pack` | whole answers, files, fallback | 8 paths, two of them a neighbour of the root and its file, sizes 0, 15, 16, 2047, 2048 and 262144 (the last sizes of one and two header bytes, their successors, and one that needs four), 2 edits by the author: a file that moves behind the walk, one that is emptied before it is read, or while it is, so that what is packed is a mix |

Deadlock checking is off where the system really may stop: a client that says
nothing more, a process that stays down, a runtime that stopped the process.

What the runs that pass show, beyond single steps:

* a reload never mixes two files, and a bad file takes nobody's tier away; a
  callback can only be taken back to an older file by one that had already read
  when it began (`FreshUnlessOvertaken`), and when the file rests the last
  content stays (`RegistrationTakesEffect`);
* the tier's limit holds for the work of all its sessions together, and the
  identity forwarded is the session's own, whatever the interleaving;
* an exec ends unless an MCP server does not answer, or (`EveryExecEnds`) its
  response waits for window adjustments behind a request that the mux cannot
  queue because that very session no longer takes requests. The second case is a
  deadlock the model reaches with one session, an exec and more requests than the
  queue holds; hanging up does not resolve it;
* nothing but allowed hosts and public addresses is ever contacted, through
  redirect chains, and nothing older than a life and a timeout is served;
* through kills at any point of writing the key files, the clients of a site
  never see two host keys;
* a fetch that missed serves what the origin answered since it began, and
  nobody has the same response but sessions that found it in the cache
  (`MissersOwnTheirResponse`): however many miss together and overwrite one
  another's entry, the race on a header map needs a hit;
* a connection stands still for good only if one of its own sessions, with its
  exec or shell, was sent more requests than its queue holds
  (`StandstillOnlyOnceStarted`);
* a daemon never serves some of its sites for good: all of them come to listen,
  or the process ends (`AllSitesOrNone`);
* the MCP proxy keeps the promise of `ToolCalls` whatever the server says in
  between. Two exceptions to its liveness are reachable and stated in the
  properties: a server that fills its output while a long request fills its input
  (`EveryRequestEnds`), and a server with a full output when `Start` gives up
  (`GivingUpEnds`). In both, nobody reads;
* a client of the bridge that hears of no change may rely on its list, except
  after a connect that failed; a site that accepts and keeps silent stops the
  bridge, pings and its end included (`Silence`). Tool arguments arrive in any
  order, unless a value holds a blank or is printed with an exponent;
* a configuration of any two blocks is read as written. A file cut short never
  starts a daemon with other sites than it describes, nor does a missing `{`, nor
  a missing `}` of a site, `mcp`, `auth` or `limits`. `DamageIsNoticed` leaves
  out the `}` of `commands`, `meta` and `proxy-cache`: there the code really
  reads the next block as lines of its own, in silence. The loops that stop
  moving at the end of the file are named in `Stuck`;
* a `receive-pack` holds every file nobody touched, once, and Git reads the sizes
  that were written. A file edited while it is read may be packed as a mix that
  never was, and what is packed lies in the root or in a neighbour whose name
  starts like the root's: more does not hold of the code.

What the violation shows is told under `findings` in `PROJECT.json`, with the
sentence of the repository it contradicts. The other findings have no run: the
modules model the code's side (`SetEnv`, `WriteHeaders`, `Install`, `AcceptFails`,
`RedirectLimit`, `EntryMatches`, `ReadFile`, `ReadLine`, `Connect`, `Unnumbered`,
`Command`, `NoPack`, `Mcp`, `LooksInside`, `Ttl`, `Stuck`), and the disagreement can be read there.

## 4. Fairness

`AuthorizedKeys`: a callback that can run is scheduled; clients and writers owe
nothing. `RegistrationTakesEffect` itself assumes that connections go on
reloading. `Session`: goroutines that can run are scheduled, an HTTP call ends
(the client has a 30 s timeout), and a client takes the response it asked for
(`Write`), without which any write may wait for ever; no fairness for clients'
messages, hang-ups, time or MCP servers. `ServerLifecycle`: the goroutines are
scheduled; signals, kills, connections and starts are not owed. `McpProxy`: the
goroutines that have begun are scheduled and `Start` goes on; of the server, that
while it lives it reads, writes what it is writing, answers what it has read, and
ends with its input. That is what the protocol asks of it, not what the code can
ensure: a server that is alive and silent keeps the mutex for ever, for there is
no time limit, and `EveryExecEnds` of `Session`, which assumes nothing of the
server, has that case as its exception. `SshwebMcp`: only the loop and the dial,
which has a time limit; sites owe nothing. `ConfigParser`: the parser runs. The
other modules check safety only.

## 5. Theorems

* `OperatorFiles_proofs`, authorized keys. The invariant is `TypeOK`, `StoreIsOneFile`,
  `SnapshotsParse` (what a callback is about to swap in parsed),
  `TiersComeFromStore` (a tier was looked up in the content `classified` names),
  `SnapshotsInOrder` (a callback that began with no swap pending finds only
  versions at least as new as its own in every pending swap and in the store) and
  `FreshUnlessOvertaken`. The strengthening is needed because the store's content
  is only constrained once a swap happens, long after the read. Proved: type
  correctness, one file, trust, freshness, for any number of handshakes and any
  files.
* `OperatorFiles_proofs`, configuration. First the readers, written as functions of
  a text and a position (`First`, `Skip`, `Word`, `Rest`): what they return, and
  that they return the same of a text and of a beginning of it as long as they do
  not come to the end of that. From the first follows, turn by turn for every loop,
  `ParserMovesOn`: the position stays within the text, every turn moves it on or
  ends the parse, except in the loops of `Stuck`, and those are never left. The
  invariant is `Within`; it needs that no list is read in a `limits` block. This is
  what `EveryParseEnds` says, without the fairness. From the second follow
  `CutsAddNoSites` and `TailsAreNoticed`, about two parses side by side: `Whole` of a
  configuration, `Cut` of any beginning of it, turn by turn (`BothSpec`). The
  invariant `Alike` says that both stand at the same place with the same sites, or
  that the cut one has ended or is at the end of its file; each kind of turn is
  shown to keep it (`CommandsTogether`, ...), and at the end of its file no turn adds a
  site (`CutAtEnd`). So a configuration that ends too early, wherever that is, gives
  a beginning of the sites of the whole one. `TailsAreNoticed` draws the conclusion
  about `DamageIsNoticed` for files whose whole is `ParsedAsWritten`. The texts are
  any sequences over any lexemes (`Readable` only says that "EOF" is not one), so
  neither theorem knows how a configuration is to be written.
* `RateLimiter_proofs`. First the arithmetic of one bucket (products, what a call
  grants and leaves), which `Session_proofs` uses too. Beside the type invariant, `Account` relates the tokens in
  the watched bucket, the grants and refusals of the window and the time since it
  was opened; both the upper bound on grants and the lower bound at a refusal
  follow from it. Proved for all limits and all timings, from the named
  assumptions on the constants.
* `ProxyCache_proofs`. For the contacts, the host a fetch will contact next was
  checked (`NextHostAllowed`), by `Begin` or by the redirect. For the age of
  what is served, `Ages`: a fetch that waits is within the client's time limit,
  what it reads was answered since it began, and an entry was stored within the
  time limit of its answer; so a hit is at most a life and a time limit old. For
  the owners of responses, `Owners`: responses are numbered as they are made
  (`Numbered`), and what a fetch reads is in no entry and known to no other fetch
  (`BodyIsAlone`), which makes it its own when `Install` publishes it. Proved for any number of fetches and any URLs,
  redirects, resolutions and times.
* `Session_proofs`. The invariant adds `Heard` (an identity inside a session is
  its handshake's, with a key the handshake or its own client gave, since `SetEnv`
  happens long before the call), `Progress` (where a session stands says what was
  decided for it: who waits for the backend or writes was authorized, who has not
  ended has sent no status and nothing went out for who was not admitted) and
  `Account` (the tier's work so far, the tokens left and the time passed
  balance). Proved: type correctness, exit statuses, identities, permissions and
  the limit, for any sessions, connections, commands, lists and timings.
  About `Authorization` it proves, without an invariant, that arguments keep
  permission, that tiers inherit, that the announced tier is exact, and that a
  route admits the paths it generates and no other. The last needs that a
  catch-all comes last, and the proof that then every other segment takes exactly
  one of the path. `HigherTiersInherit`, `AnnouncedIsLowest` and `RoutesGenerate` state
  the properties of `Decisions` for every command, block, pattern and path; of
  its constants it is assumed only that patterns and paths are sequences over
  some segments and that a pattern has one (`PathsAssumption`: `strings.Split`
  never returns an empty slice).
* `ServerLifecycle_proofs`. `Keys`: what clients saw and what a running site
  holds is what its file holds, and a torn file has no clients; without it
  `OneHostKey` says nothing about the next start. `Loops`: a started loop is never
  "off" again, and a loop that ended, a closed listener or the held mutex mean
  that the server is closed. Proved for any number of sites, starts and kills.
* `McpProxy_proofs`. `IdsDiffer` (requests that have ids have different ones),
  `StagesFit` (a request being written has parts left, an executed one was written
  to its end, a call that returned was executed), `PartsFit` (a last part in the
  pipe is there once, and its request is neither asked nor executed), `AskedFit`
  (what the server has yet to answer was written and not executed) and
  `AnswersFit` (an answer bears the id of the executed request it belongs to).
  They are what "skip until the own id comes" rests on. With them each step maps
  to a step of `ToolCalls` or a stutter: the theorem `Implements` is the
  refinement the run checks on three calls, for any calls, sizes, capacities and
  ids.

* `SshwebMcp_proofs`. What waits, the message in progress and the inbox after it,
  is one queue (`Waiting`). `Numbered`: with the replies before it, it is in the
  order of the ids, and none is missing; `OneReplyEach` alone says nothing of what
  is still to be replied. `Listed`: a list of the last change is the connection's,
  unless the connection went unnoticed. `Meant`: a call that waits was made from
  a list no newer than the last change, and if of the last change then from the
  list of the connection there is. `Handling`: where the loop stands fits the
  message, and the words of a call in progress are its arguments in some order.
  `CommandArrives` is about words alone: with the places in their order, each key
  ends with the one text it was given, whatever order the map yields. Proved: all
  four safety properties of the run, for any sites, tools, arguments and number of
  messages.
* `ReceivePack_proofs`. For the walk, `Disjoint` (what it has still to visit does
  not overlap, nor hold what was read), `OpenFits` (the walk is not done with the
  file being read, and what is in it meanwhile is among what the file has held),
  `Genuine` (what was read is what the file has held since, whole or torn),
  `Checked` (what is visited and read passed the check on the root),
  `Covered` (an untouched file of the route was read, or what it has still to
  visit holds it), `OnRoute` and `Reason`; they follow from lemmas about paths
  and what an edit can make of a tree. `PackIsTheSite` speaks only of the end and
  is not inductive: `Covered` is what each step of the walk hands on. For the
  answer, `Sending`: the client has the first pieces of it and the rest is to be
  written. `GitReads` is then followed through the pieces: `SevenBitsRead` (the
  reader makes the number of its bytes again), `HeaderRead`, `ObjectRead`,
  `PackRead`. Proved: the three properties of the run, for any trees and edits,
  any number of files and any sizes. A shell never asks the backend, which the
  proof of `AnswerIsWhole` needs and no run had asked.

Some of this is induction: over the bytes of a size, the objects of a pack, the
bytes read, the segments of a route. It is done without the library's induction
theorems, whose operator parameters the provers cannot instantiate: if a statement
failed for some number there would be a least one (`Least`, from the
well-foundedness of `<` on the numbers), and at that one it holds because it holds
before. The same argument shows that the recursive functions (`SevenBits`, the
reader in `GitReads`) are what their definitions say.

Assumptions are the named `ASSUME`s of the modules; each is evaluated by a run.

## 6. What is only model-checked, and what is not modelled

Only checked:

* every liveness property, for liveness under fairness and `ENABLED` are out of
  the prover's reach;
* `ParsedAsWritten`, and what `DamageIsNoticed` says of a missing brace: they
  compare what the parser makes of a text with what the text was made from, and the
  texts are those of the run. For every text they would need a definition of how a
  configuration is written, which the repository does not have. Of the "tail" of
  `DamageIsNoticed`, `TailsAreNoticed` proves that it follows from
  `ParsedAsWritten` of the whole file, wherever that is cut.

All other invariants, action properties and the refinement are proved.

Not modelled: the SSH protocol itself; proxies set in the daemon's environment;
symbolic links under a content root; the formatting of documents and HTTP
messages; quoted escapes in the configuration, the options of feeds and robots
beyond their being kept, and `Atoi` itself; hashes, zlib, trees and deltas of the
packfile and its `Reader` (nothing uses the last three); texts
and schemas in the bridge; `mcpToolTier`, which only labels the manifest; the
backend's URL check and its reading of bodies; the demo backend and the plugin.
Components and reasons are in `PROJECT.json`.

## 7. Plan

1. (done) `AuthorizedKeys`, `TokenBucket`/`RateLimiter`, `Authorization`, then
   `Session`, which composes the last two; `ProxyCache`; `ServerLifecycle`.
2. (done) `ToolCalls` and `McpProxy` with the refinement, run and proved;
   `SshwebMcp`; `ConfigParser`; `ReceivePack`.
3. (done) Theorems about `Session` and `ServerLifecycle`.
4. (done) Theorems about `SshwebMcp`, `ReceivePack` and the routes of
   `Authorization`.
5. (done) Theorems about `ConfigParser` and `Decisions`.
6. Later: the composition of `Session` with `McpProxy` in place of its `mcp`
   outcome, so that a session's wait is the wait for the mutex; and a grammar of
   configurations, against which `ParsedAsWritten` could be proved.
