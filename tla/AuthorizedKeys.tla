--------------------------- MODULE AuthorizedKeys ---------------------------
(***************************************************************************)
(* The store of authorized keys of one site (internal/auth/auth.go) and    *)
(* the public-key callback of the site's listener, which reloads the store *)
(* from disk and classifies the presented key (internal/server/server.go). *)
(*                                                                         *)
(* Every connection runs its handshake on a goroutine of its own, so the   *)
(* callbacks of several connections interleave; the operator, or the       *)
(* backend's registration page, rewrites the file at any moment.  A        *)
(* callback is split where another goroutine or the disk can step in:      *)
(* before the file is read, before the two maps are swapped under the      *)
(* lock, before the tier and before the name are looked up.                *)
(*                                                                         *)
(* A file is what loadFromDisk makes of it: whether it opens and every     *)
(* line of it parses, and its key lines in order.  A file that is missing, *)
(* caught in the middle of a write, or that holds a bad line is one with   *)
(* parses = FALSE (or one with fewer lines, when what was written so far   *)
(* parses).                                                                *)
(***************************************************************************)
EXTENDS Naturals, Sequences

CONSTANTS
    Handshakes,     \* slots for concurrent connections
    Keys,           \* public keys; a key stands for its fingerprint as well
    Names,          \* the comments a key line can carry
    Files,          \* the file contents the disk may hold
    MaxVersions     \* bound: contents the disk holds over a behaviour

Tiers   == {"anonymous", "identified", "trusted"}
None    == ""       \* no entry, or no comment
KeyLine == [key : Keys, tier : {"identified", "trusted"}, name : Names \cup {None}]

ASSUME NamesAssumption    == None \notin Names
ASSUME FilesAssumption    == Files \subseteq [parses : BOOLEAN, lines : Seq(KeyLine)]
ASSUME VersionsAssumption == MaxVersions \in Nat \ {0}

VARIABLES
    disk,       \* the contents the file has had; the last one is on disk now
    path,       \* whether the site configures an authorized-keys file
    entries,    \* AuthorizedKeys.entries: key -> tier, None when not listed
    comments,   \* AuthorizedKeys.comments: key -> name, None when it has none
    pc,         \* where each handshake stands
    key,        \* the key of the callback in progress, or last finished
    local,      \* version of the file whose maps a callback built, 0 if none
    tier,       \* the auth-tier extension of the permissions
    name,       \* the comment appended to the public-key extension
    \* History, read by the properties and by no guard:
    loaded,     \* version the store holds, 0 for the empty store
    begun,      \* version on disk when the callback began
    clear,      \* no other callback was about to swap when it began
    classified  \* version of the store the tier was looked up in

store   == <<entries, comments, loaded>>
history == <<begun, clear, classified>>
vars    == <<disk, path, entries, comments, pc, key, local, tier, name,
             loaded, begun, clear, classified>>

-----------------------------------------------------------------------------
(* What loadFromDisk builds from a file: a later line for a key overrides an *)
(* earlier one, but a line without a comment leaves an earlier comment.      *)

Deciding(c, k, S) ==        \* the last line for k that is in S
    {i \in DOMAIN c.lines : /\ c.lines[i].key = k
                            /\ i \in S
                            /\ \A j \in DOMAIN c.lines :
                                  j > i /\ j \in S => c.lines[j].key # k}

\* Mutant: the first line for a key decides.
TierInFirst(c, k) ==
    LET at == {i \in DOMAIN c.lines : c.lines[i].key = k}
    IN  IF at = {} THEN None ELSE c.lines[CHOOSE i \in at : \A j \in at : i <= j].tier

TierIn(c, k) ==
    IF Deciding(c, k, DOMAIN c.lines) = {} THEN None
    ELSE c.lines[CHOOSE i \in Deciding(c, k, DOMAIN c.lines) : TRUE].tier

Named(c) == {i \in DOMAIN c.lines : c.lines[i].name # None}

NameIn(c, k) ==
    IF Deciding(c, k, Named(c)) = {} THEN None
    ELSE c.lines[CHOOSE i \in Deciding(c, k, Named(c)) : TRUE].name

ParsedEntries(c)  == [k \in Keys |-> TierIn(c, k)]
ParsedComments(c) == [k \in Keys |-> NameIn(c, k)]
NoEntries         == [k \in Keys |-> None]

Version == Len(disk)
Current == disk[Version]

\* Mutant: an unlisted key is given the lookup's empty result.
ClassifyKeyNoDefault(k) == entries[k]

(* ClassifyKey for a presented key: a key the store does not list is still  *)
(* identified.                                                              *)
ClassifyKey(k) == IF entries[k] # None THEN entries[k] ELSE "identified"

-----------------------------------------------------------------------------

(* LoadAuthorizedKeys at start-up: with no path the store stays empty; with *)
(* one, the server only starts when the file parses.                        *)
Init ==
    /\ path \in BOOLEAN
    /\ \E c \in Files : disk = <<c>> /\ (path => c.parses)
    /\ entries  = IF path THEN ParsedEntries(Current)  ELSE NoEntries
    /\ comments = IF path THEN ParsedComments(Current) ELSE NoEntries
    /\ loaded   = IF path THEN 1 ELSE 0
    /\ pc    = [h \in Handshakes |-> "ready"]
    /\ key \in [Handshakes -> Keys]
    /\ local = [h \in Handshakes |-> 0]
    /\ tier  = [h \in Handshakes |-> "anonymous"]
    /\ name  = [h \in Handshakes |-> None]
    /\ begun = [h \in Handshakes |-> 1]
    /\ clear = [h \in Handshakes |-> FALSE]
    /\ classified = [h \in Handshakes |-> 0]

Goto(h, from, to) == pc[h] = from /\ pc' = [pc EXCEPT ![h] = to]

(* Somebody else changes the file: a rewrite, an append, an unlink, or one  *)
(* of the states a write passes through.                                    *)
WriteFile(c) ==
    /\ Version < MaxVersions
    /\ c # Current
    /\ disk' = Append(disk, c)
    /\ UNCHANGED <<path, store, pc, key, local, tier, name, history>>

(* The client offers a key: PublicKeyCallback begins.  The transport keeps  *)
(* the permissions of the last offered key only.                            *)
Offer(h, k) ==
    /\ pc[h] \in {"ready", "offered"}
    /\ pc' = [pc EXCEPT ![h] = "read"]
    /\ key' = [key EXCEPT ![h] = k]
    /\ local' = [local EXCEPT ![h] = 0]
    /\ begun' = [begun EXCEPT ![h] = Version]
    /\ clear' = [clear EXCEPT ![h] = \A g \in Handshakes : pc[g] # "swap"]
    /\ UNCHANGED <<disk, path, store, tier, name, classified>>

\* Mutant: the reload is left to the background, and the key is classified
\* by what the store happens to hold.
ReadFileNoWait(h) ==
    /\ Goto(h, "read", "classify")
    /\ local' = [local EXCEPT ![h] = IF path /\ Current.parses THEN Version ELSE @]
    /\ UNCHANGED <<disk, path, store, key, tier, name, history>>

(* Reload up to the lock: the file is opened and parsed into local maps.    *)
(* Without a path, or when the file cannot be used, the store is left as it *)
(* is and the error is dropped.                                             *)
ReadFile(h) ==
    IF path /\ Current.parses
    THEN /\ Goto(h, "read", "swap")
         /\ local' = [local EXCEPT ![h] = Version]
         /\ UNCHANGED <<disk, path, store, key, tier, name, history>>
    ELSE /\ Goto(h, "read", "classify")
         /\ UNCHANGED <<disk, path, store, key, local, tier, name, history>>

\* Mutant: the names are left behind when the tiers are swapped.
SwapMapsEntriesOnly(h) ==
    /\ Goto(h, "swap", "classify")
    /\ entries' = ParsedEntries(disk[local[h]])
    /\ loaded'  = local[h]
    /\ UNCHANGED <<disk, path, comments, key, local, tier, name, history>>

\* Mutant: the store is only filled while it is empty.
SwapMapsOnce(h) ==
    /\ Goto(h, "swap", "classify")
    /\ IF loaded = 0
       THEN /\ entries'  = ParsedEntries(disk[local[h]])
            /\ comments' = ParsedComments(disk[local[h]])
            /\ loaded'   = local[h]
       ELSE UNCHANGED store
    /\ UNCHANGED <<disk, path, key, local, tier, name, history>>

(* The critical section of loadFromDisk. *)
SwapMaps(h) ==
    /\ Goto(h, "swap", "classify")
    /\ entries'  = ParsedEntries(disk[local[h]])
    /\ comments' = ParsedComments(disk[local[h]])
    /\ loaded'   = local[h]
    /\ UNCHANGED <<disk, path, key, local, tier, name, history>>

(* ClassifyKey, under a read lock of its own. *)
Classify(h) ==
    /\ Goto(h, "classify", "label")
    /\ tier' = [tier EXCEPT ![h] = ClassifyKey(key[h])]
    /\ classified' = [classified EXCEPT ![h] = loaded]
    /\ UNCHANGED <<disk, path, store, key, local, name, begun, clear>>

(* Comment, under another read lock; the callback returns its permissions.  *)
Label(h) ==
    /\ Goto(h, "label", "offered")
    /\ name' = [name EXCEPT ![h] = comments[key[h]]]
    /\ UNCHANGED <<disk, path, store, key, local, tier, history>>

(* The client proves it holds the offered key: the connection is open, with *)
(* those permissions for as long as it lasts.                               *)
Authenticate(h) ==
    /\ Goto(h, "offered", "open")
    /\ UNCHANGED <<disk, path, store, key, local, tier, name, history>>

(* NoClientAuth: the client is let in without a key, with no permissions,   *)
(* and handleConnection takes it as anonymous.                              *)
EnterWithoutKey(h) ==
    /\ pc[h] \in {"ready", "offered"}
    /\ pc' = [pc EXCEPT ![h] = "anonymous"]
    /\ tier' = [tier EXCEPT ![h] = "anonymous"]
    /\ name' = [name EXCEPT ![h] = None]
    /\ local' = [local EXCEPT ![h] = 0]
    /\ begun' = [begun EXCEPT ![h] = 1]
    /\ clear' = [clear EXCEPT ![h] = FALSE]
    /\ classified' = [classified EXCEPT ![h] = 0]
    /\ UNCHANGED <<disk, path, store, key>>

(* The connection, or the handshake, ends; the slot is free again. *)
Leave(h) ==
    /\ pc[h] \in {"offered", "open", "anonymous"}
    /\ pc' = [pc EXCEPT ![h] = "ready"]
    /\ local' = [local EXCEPT ![h] = 0]
    /\ tier' = [tier EXCEPT ![h] = "anonymous"]
    /\ name' = [name EXCEPT ![h] = None]
    /\ begun' = [begun EXCEPT ![h] = 1]
    /\ clear' = [clear EXCEPT ![h] = FALSE]
    /\ classified' = [classified EXCEPT ![h] = 0]
    /\ UNCHANGED <<disk, path, store, key>>

Callback(h) == ReadFile(h) \/ SwapMaps(h) \/ Classify(h) \/ Label(h)

Client(h) ==
    \/ \E k \in Keys : Offer(h, k)
    \/ Authenticate(h)
    \/ EnterWithoutKey(h)
    \/ Leave(h)

Next ==
    \/ \E c \in Files : WriteFile(c)
    \/ \E h \in Handshakes : Callback(h) \/ Client(h)

(* The runtime schedules a callback that can run; clients and writers owe   *)
(* nothing.                                                                 *)
Spec == Init /\ [][Next]_vars /\ \A h \in Handshakes : WF_vars(Callback(h))

-----------------------------------------------------------------------------
(* Properties *)

TypeOK ==
    /\ disk \in Seq(Files) /\ disk # <<>>
    /\ path \in BOOLEAN
    /\ entries  \in [Keys -> {None, "identified", "trusted"}]
    /\ comments \in [Keys -> Names \cup {None}]
    /\ pc \in [Handshakes -> {"ready", "read", "swap", "classify", "label",
                              "offered", "open", "anonymous"}]
    /\ key \in [Handshakes -> Keys]
    /\ local \in [Handshakes -> 0 .. Version]
    /\ tier \in [Handshakes -> Tiers]
    /\ name \in [Handshakes -> Names \cup {None}]
    /\ loaded \in 0 .. Version
    /\ begun \in [Handshakes -> 1 .. Version]
    /\ clear \in [Handshakes -> BOOLEAN]
    /\ classified \in [Handshakes -> 0 .. Version]

Answered == {"label", "offered", "open"}    \* the key has been classified

(* The two maps always come from one and the same content of the file, one *)
(* that parsed as a whole: a reload never mixes two contents, and a file    *)
(* that is missing, half written or wrong in one line takes nobody's tier   *)
(* or name away (auth.go, loadFromDisk and the dropped error of Reload).    *)
StoreIsOneFile ==
    IF loaded = 0
    THEN ~path /\ entries = NoEntries /\ comments = NoEntries
    ELSE /\ path
         /\ disk[loaded].parses
         /\ entries  = ParsedEntries(disk[loaded])
         /\ comments = ParsedComments(disk[loaded])

(* A handshake ends trusted exactly when the last line for the key it       *)
(* presented, in a content the file really had, says trusted: neither a key *)
(* of another handshake nor an overridden line ever decides.                *)
TrustedExactlyWhenListed ==
    \A h \in Handshakes : pc[h] \in Answered =>
        (tier[h] = "trusted" <=>
            /\ classified[h] # 0
            /\ \E i \in DOMAIN disk[classified[h]].lines :
                  LET lines == disk[classified[h]].lines
                  IN  /\ lines[i].key = key[h]
                      /\ lines[i].tier = "trusted"
                      /\ \A j \in DOMAIN lines : j > i => lines[j].key # key[h])

(* A callback that reads the file, and that begins while no other callback  *)
(* stands between its read and its swap, classifies its key by the file as  *)
(* it was when the callback began, or by a newer one: callbacks that start  *)
(* later cannot take it back to an older file.                              *)
FreshUnlessOvertaken ==
    \A h \in Handshakes :
        pc[h] \in Answered /\ clear[h] /\ local[h] # 0 => classified[h] >= begun[h]

(* When the file stops changing and connections keep reloading it, the      *)
(* store ends up holding the last content for good, although swaps of older *)
(* contents may still be on their way.                                      *)
RegistrationTakesEffect ==
    []<><<\E h \in Handshakes : SwapMaps(h)>>_vars => <>[](loaded = Version)

(* "auth module re-reads the keys file on every connection so newly         *)
(* registered keys take effect" (CHANGELOG.md): a connection that re-read   *)
(* the file has the tier its key has in a content that was on disk since    *)
(* the key was offered.                                                     *)
TierByClassification(c, k) == IF TierIn(c, k) # None THEN TierIn(c, k) ELSE "identified"

EveryConnectionSeesTheFile ==
    \A h \in Handshakes : pc[h] = "open" /\ local[h] # 0 =>
        \E v \in begun[h] .. Version :
            disk[v].parses /\ tier[h] = TierByClassification(disk[v], key[h])

=============================================================================
