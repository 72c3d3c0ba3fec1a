---------------------------- MODULE ReceivePack ----------------------------
(***************************************************************************)
(* One receive-pack (internal/commands/handler.go): the content root is    *)
(* walked file by file while its author goes on editing it, and the files  *)
(* are written to the channel as a Git packfile (internal/packfile); when  *)
(* no packfile can be built, the site's backend is asked for the path.     *)
(*                                                                         *)
(* Requests share nothing but the files, so one request is modelled.  A    *)
(* path is the sequence of its names from the top of the file system,      *)
(* which is <<>>; of the content of a file only its size matters.          *)
(***************************************************************************)
EXTENDS Integers, Sequences, SequencesExt

CONSTANTS
    Listing,        \* every path there can be, in the order of a walk
    Dirs,           \* those that are directories
    Root,           \* the content root
    NameStarts,     \* pairs of names <<a, b>>: the text of a starts with that of b
    SizeOf,         \* the contents of files, with their sizes
    Torn,           \* what a file rewritten meanwhile may be read as: [of, as]
    Origins,        \* what there is when the request comes
    Drafts,         \* the contents authors write while it runs
    Edited,         \* the paths they edit
    MaxEdits        \* bound on their edits

Paths    == ToSet(Listing)
Files    == Paths \ Dirs
Contents == DOMAIN SizeOf

(* What is above a path. *)
Above(p) == {SubSeq(p, 1, n) : n \in 0 .. Len(p) - 1}

(* What files there can be: whatever is above a path is a directory.        *)
IsTree(t) ==
    /\ <<>> \in DOMAIN t /\ DOMAIN t \subseteq Paths
    /\ \A p \in DOMAIN t : Above(p) \subseteq DOMAIN t
    /\ \A f \in Files \cap DOMAIN t : t[f] \in Contents

ASSUME PathsAssumption == /\ Paths \subseteq Seq(STRING)
                          /\ \A p \in Paths : Above(p) \subseteq Dirs
                          /\ <<>> \in Dirs /\ Dirs \subseteq Paths
                          /\ Root \in Paths /\ Edited \subseteq Paths
ASSUME NamesAssumption == \A p \in Paths : \A i \in DOMAIN p : <<p[i], p[i]>> \in NameStarts
ASSUME TornAssumption == /\ Torn \subseteq [of : SUBSET Contents, as : Contents]
                         /\ \A torn \in Torn : \E c, d \in torn.of : c # d
ASSUME SizeAssumption == SizeOf \in [Contents -> Nat] /\ Drafts \subseteq Contents
ASSUME OriginsAssumption == \A t \in Origins : IsTree(t)

VARIABLES
    config,     \* whether the site has a root, and a backend
    tree,       \* what each path that exists holds; "dir" for a directory
    unreadable, \* the files the daemon may not read
    mode,       \* "binary" for an exec, "text" for a shell
    route,      \* where the path asked for leads, joined to the root and cleaned
    step,       \* what the handler does next
    pending,    \* what the walk has found and is not done with
    open,       \* the file being read, if any: [name, at, held]
    objects,    \* the files read: [name, data]
    source,     \* where the answer comes from: "nowhere", "root" or "backend"
    todo,       \* what is still to be written, by Write calls
    out,        \* what the client has received
    result,     \* "none", "ok" or "error"
    edits,      \* how often the author has edited
    \* History:
    touched,    \* the paths edited since the request came
    had         \* what each file has held since then, also after it was opened

author  == <<tree, edits, touched, had>>
request == <<config, unreadable, mode, route>>
vars == <<config, tree, unreadable, mode, route, step, pending, open, objects, source, todo,
          out, result, edits, touched, had>>

Parent(p)   == SubSeq(p, 1, Len(p) - 1)
Exists(p)   == p \in DOMAIN tree
Children(p) == {c \in DOMAIN tree \ {<<>>} : Parent(c) = p}

Init ==
    /\ config \in [root : BOOLEAN, backend : BOOLEAN]
    /\ tree \in Origins
    /\ unreadable \in {{}} \cup {{f} : f \in Files}
    /\ mode \in {"binary", "text"}
    /\ route \in Paths
    /\ step = "begin" /\ source = "nowhere"
    /\ pending = {} /\ open = {} /\ objects = <<>> /\ todo = <<>> /\ out = <<>>
    /\ result = "none"
    /\ edits = 0
    /\ touched = {}
    /\ had = [f \in Files |-> IF Exists(f) THEN {tree[f]} ELSE {}]

-----------------------------------------------------------------------------
(* The author.  A file that is written is written in place, so whoever has  *)
(* opened it goes on with what is in it now; whoever has opened a file that *)
(* is moved or removed keeps it.                                            *)

Edit(t, paths, file) ==
    /\ step # "done" /\ edits < MaxEdits
    /\ edits' = edits + 1
    /\ tree' = t
    /\ touched' = touched \cup paths
    /\ open' = file
    /\ had' = [f \in Files |->
                 had[f] \cup (IF f \in DOMAIN t THEN {t[f]} ELSE {})
                        \cup UNION {o.held : o \in {o \in file : o.name = f}}]
    /\ UNCHANGED <<request, step, pending, objects, source, todo, out, result>>

With(t, p, c) == [q \in DOMAIN t \cup {p} |-> IF q = p THEN c ELSE t[q]]
Without(t, p) == Restrict(t, DOMAIN t \ {p})

MakeDir(p) ==
    /\ p \in Dirs \ {<<>>} /\ Exists(Parent(p)) /\ ~Exists(p)
    /\ Edit(With(tree, p, "dir"), {p}, open)

WriteFile(p) ==
    /\ p \in Files /\ Exists(Parent(p))
    /\ \E c \in Drafts :
          Edit(With(tree, p, c), {p},
               {[o EXCEPT !.held = IF p \in o.at THEN @ \cup {c} ELSE @] : o \in open})

Delete(p) ==
    /\ p # <<>> /\ Exists(p) /\ Children(p) = {}
    /\ Edit(Without(tree, p), {p}, {[o EXCEPT !.at = @ \ {p}] : o \in open})

Move(p, q) ==
    /\ p \in Files /\ q \in Files \ {p} /\ Exists(p) /\ Exists(Parent(q))
    /\ Edit(With(Without(tree, p), q, tree[p]), {p, q},
            {[o EXCEPT !.at = IF p \in @ THEN {q} ELSE @ \ {q}] : o \in open})

-----------------------------------------------------------------------------
(* What is written *)

(* A number, seven bits to a byte, low bits first; 128 is added where more  *)
(* follow.                                                                  *)
SevenBits(number) ==
    LET bytes[n \in 0 .. number] ==
            IF n < 128 THEN <<n>> ELSE <<128 + (n % 128)>> \o bytes[n \div 128]
    IN  bytes[number]

\* Mutant: the first byte is taken to hold seven bits of the size.
SevenBitsFirst(size) ==
    IF size < 16 THEN <<3 * 16 + size>>
    ELSE <<128 + 3 * 16 + (size % 16)>> \o SevenBits(size \div 128)

(* The header of an object in encodeObject: the type (3, a blob) and four   *)
(* bits of the size, and then the rest of it.                               *)
ObjectHeader(size) ==
    IF size < 16 THEN <<3 * 16 + size>>
    ELSE <<128 + 3 * 16 + (size % 16)>> \o SevenBits(size \div 16)

(* WriteTo: a header with the count, the objects, a checksum. *)
Pack ==
    <<<<"PACK", 2, Len(objects)>>>>
    \o [i \in 1 .. Len(objects) |->
          Append(ObjectHeader(SizeOf[objects[i].data]), objects[i].data)]
    \o <<<<"checksum">>>>

(* receivePack: the list a shell shows. *)
Summary ==
    <<<<[count |-> Len(objects),
         files |-> [i \in 1 .. Len(objects) |->
                      [name |-> objects[i].name, size |-> SizeOf[objects[i].data]]]]>>>>

(* The backend's response in the form of HTTP/1.1. *)
Wire == <<<<"status line">>, <<"headers">>, <<"blank line">>, <<"body">>>>

-----------------------------------------------------------------------------
(* The handler *)

Done(r) ==
    /\ step' = "done" /\ result' = r
    /\ UNCHANGED <<request, author, pending, open, objects, source, todo, out>>

Goto(s) ==
    /\ step' = s
    /\ UNCHANGED <<request, author, open, objects, source, todo, out, result>>

(* Whatever keeps the packfile from being built, an exec asks the backend. *)
NoPack ==
    IF mode = "binary" /\ config.backend
    THEN Goto("fetch") /\ UNCHANGED pending
    ELSE Done("error")

(* The absolute path, as a text, starts with the root's: where the root's   *)
(* text ends, a name may go on.                                             *)
LooksInside(p) ==
    /\ Len(Root) <= Len(p)
    /\ \A i \in 1 .. Len(Root) : IF i = Len(Root) THEN <<p[i], Root[i]>> \in NameStarts
                                                  ELSE p[i] = Root[i]

Begin ==
    /\ step = "begin"
    /\ IF config.root /\ LooksInside(route) /\ Exists(route)
       THEN Goto("walk") /\ pending' = {route}
       ELSE NoPack

Readable(p) == Exists(p) /\ p \in Files \ unreadable

(* A walk goes through a directory in the order of the names, and through   *)
(* what is in a name before the next.                                       *)
IsNext(p) == \E i \in DOMAIN Listing :
                 p = Listing[i] /\ \A j \in 1 .. i - 1 : Listing[j] \notin pending

Descend(p) == Goto("walk") /\ pending' = (pending \ {p}) \cup Children(p)

OpenFile(p) ==
    /\ step' = "read"
    /\ open' = {[name |-> p, at |-> {p}, held |-> {tree[p]}]}
    /\ UNCHANGED <<request, author, pending, objects, source, todo, out, result>>

(* What reading a file may yield that holds these contents meanwhile: one   *)
(* of them, or the beginning of one and what follows in another.            *)
ReadsAs(held) == held \cup {torn.as : torn \in {torn \in Torn : torn.of \subseteq held}}

ReadFile ==
    /\ step = "read"
    /\ \E o \in open, data \in Contents :
          /\ data \in ReadsAs(o.held)
          /\ objects' = Append(objects, [name |-> o.name, data |-> data])
          /\ pending' = pending \ {o.name}
    /\ open' = {}
    /\ step' = "walk"
    /\ UNCHANGED <<request, author, source, todo, out, result>>

\* Mutant: a file that cannot be read is left out.
VisitOrSkip(p) ==
    \/ p \in Dirs /\ Exists(p) /\ Descend(p)
    \/ Readable(p) /\ OpenFile(p)
    \/ p \in Files /\ ~Readable(p) /\ Goto("walk") /\ pending' = pending \ {p}
    \/ p \in Dirs /\ ~Exists(p) /\ NoPack

\* Mutant: a directory without files counts as missing.
VisitNonEmpty(p) ==
    \/ p \in Dirs /\ Children(p) # {} /\ Descend(p)
    \/ Readable(p) /\ OpenFile(p)
    \/ ~Readable(p) /\ Children(p) = {} /\ NoPack

(* A directory is listed when the walk comes to it; what the list names may *)
(* be gone when its turn comes.                                             *)
Visit(p) ==
    \/ p \in Dirs /\ Exists(p) /\ Descend(p)
    \/ Readable(p) /\ OpenFile(p)
    \/ ~Exists(p) /\ NoPack
    \/ p \in unreadable /\ Exists(p) /\ NoPack

Walk == step = "walk" /\ \E p \in pending : IsNext(p) /\ Visit(p)

WalkEnds ==
    /\ step = "walk" /\ pending = {}
    /\ step' = "write" /\ source' = "root"
    /\ todo' = IF mode = "binary" THEN Pack ELSE Summary
    /\ UNCHANGED <<request, author, pending, open, objects, out, result>>

Fetch ==
    /\ step = "fetch"
    /\ step' = "write" /\ source' = "backend"
    /\ todo' = Wire
    /\ UNCHANGED <<request, author, pending, open, objects, out, result>>

FetchFails == step = "fetch" /\ Done("error")

Write ==
    /\ step = "write" /\ todo # <<>>
    /\ out' = out \o Head(todo) /\ todo' = Tail(todo)
    /\ UNCHANGED <<request, author, step, pending, open, objects, source, result>>

(* The client is gone, which may show after a part of what is written. *)
WriteFails ==
    /\ step = "write" /\ todo # <<>>
    /\ \E n \in 0 .. Len(Head(todo)) - 1 : out' = out \o SubSeq(Head(todo), 1, n)
    /\ step' = "done" /\ result' = "error"
    /\ UNCHANGED <<request, author, pending, open, objects, source, todo>>

Written == step = "write" /\ todo = <<>> /\ Done("ok")

-----------------------------------------------------------------------------

Next ==
    \/ \E p \in Edited : MakeDir(p) \/ WriteFile(p) \/ Delete(p) \/ \E q \in Edited : Move(p, q)
    \/ Begin \/ Walk \/ ReadFile \/ WalkEnds \/ Fetch \/ FetchFails
    \/ Write \/ WriteFails \/ Written

Spec == Init /\ [][Next]_vars

-----------------------------------------------------------------------------
(* Properties *)

(* How Git reads a packfile: after the count, for each object its type and  *)
(* four bits of its size, seven more of them with each byte while 128 is in *)
(* the one before, and what is in it.                                       *)
Reader(next, type, size, unit, read) ==
    [next |-> next, type |-> type, size |-> size, unit |-> unit, objects |-> read]

After(b) == IF b < 128 THEN "data" ELSE "size"

Reads(r, b) ==
    CASE r.next = "type" -> Reader(After(b), (b % 128) \div 16, b % 16, 16, r.objects)
      [] r.next = "size" ->
           Reader(After(b), r.type, r.size + r.unit * (b % 128), r.unit * 128, r.objects)
      [] OTHER ->
           Reader("type", 0, 0, 0,
                  Append(r.objects, [type |-> r.type, size |-> r.size, data |-> b]))

GitReads(s) ==
    LET reader[p \in 3 .. Len(s) - 1] ==
            IF p = 3 THEN Reader("type", 0, 0, 0, <<>>) ELSE Reads(reader[p - 1], s[p])
        end == reader[Len(s) - 1]
    IN  [count |-> s[3], objects |-> end.objects, whole |-> end.next = "type"]

(* A command that succeeds has sent its whole answer: a packfile that Git   *)
(* reads as the files that were read, whatever their sizes, the list of     *)
(* them, or the backend's response (WriteTo, encodeObject,                  *)
(* receivePackBinary).                                                      *)
AnswerIsWhole ==
    result = "ok" =>
        CASE source = "backend" -> Len(out) = 4
          [] mode = "text"      -> out = Summary[1]
          [] OTHER ->
               GitReads(out) =
                   [count   |-> Len(objects),
                    objects |-> [i \in 1 .. Len(objects) |->
                                   [type |-> 3, size |-> SizeOf[objects[i].data],
                                    data |-> objects[i].data]],
                    whole   |-> TRUE]

(* While the author edits, a packfile holds every file of the route nobody  *)
(* touched, as it is; no file is in it twice, none that is not of the       *)
(* route, and of a file that was touched what it held, whole or torn, since *)
(* the request came (buildPackfile).  It may hold the files of no single    *)
(* moment, and a file that never was.  What is packed lies in the root or   *)
(* in a neighbour whose name starts like the root's.                        *)
PackIsTheSite ==
    source = "root" =>
        /\ \A i, j \in DOMAIN objects : objects[i].name = objects[j].name => i = j
        /\ \A i \in DOMAIN objects :
              /\ IsPrefix(route, objects[i].name) /\ LooksInside(objects[i].name)
              /\ objects[i].data \in ReadsAs(had[objects[i].name])
        /\ \A f \in Files \cap DOMAIN tree :
              IsPrefix(route, f) /\ f \notin touched
                  => \E i \in DOMAIN objects : objects[i] = [name |-> f, data |-> tree[f]]

(* The author has touched what the route leads to, or something on the way. *)
Disturbed == \E p \in touched : IsPrefix(p, route) \/ IsPrefix(route, p)

(* The backend is asked in place of the root only for a path that is not    *)
(* there, or when a file of the route cannot be read, or the author edits   *)
(* the route meanwhile (receivePackBinary; its comment knows only the first *)
(* reason).                                                                 *)
BackendOnlyForAReason ==
    source = "backend" /\ config.root =>
        \/ ~IsPrefix(Root, route) \/ ~Exists(route)
        \/ \E f \in unreadable : IsPrefix(route, f)
        \/ Disturbed

=============================================================================
