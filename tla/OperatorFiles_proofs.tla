----------------------- MODULE OperatorFiles_proofs -----------------------
(***************************************************************************)
(* Proofs about the two files an operator writes.                          *)
(*                                                                         *)
(* AuthorizedKeys: for any number of connections, keys, files and versions *)
(* of the file.                                                            *)
(*                                                                         *)
(* ConfigParser: for any configuration.  Whole is the parse of a file, Cut *)
(* the parse of a part of it, and the theorems about both run them side by *)
(* side.  A text is any sequence over Lexemes.                             *)
(***************************************************************************)
EXTENDS AuthorizedKeys, Integers, WellFoundedInduction, SequenceTheorems, TLAPS

CONSTANTS
    Configs,                        \* ConfigParser's Files
    Numbers, Truths, MaxEntries,    \* as there
    Lexemes                         \* what a configuration can be written with

VARIABLES
    file, pos, block, list, site, sites, result,            \* a parse
    cfile, cpos, cblock, clist, csite, csites, cresult      \* and one of a part of the file

Whole == INSTANCE ConfigParser WITH Files <- Configs
Cut   == INSTANCE ConfigParser
            WITH Files <- Configs, file <- cfile, pos <- cpos, block <- cblock,
                 list <- clist, site <- csite, sites <- csites, result <- cresult

(* The lexemes the parser looks for. *)
Nothing == ""
Opening == "{"
Closing == "}"
Ending  == "EOF"
Quote   == "\""
Comma   == ","
Bracket == "]"
Separators == {Comma, Bracket}

Readable == /\ \A f \in Configs : f.text \in Seq(Lexemes)
            /\ Ending \notin Lexemes

-----------------------------------------------------------------------------
(* The authorized keys. *)

(* What the safety properties need to be inductive. *)

\* A callback that is about to swap holds the maps of a file that parsed.
SnapshotsParse ==
    \A h \in Handshakes :
        pc[h] = "swap" => local[h] # 0 /\ path /\ disk[local[h]].parses

\* The tier of an answered callback is the one its store gave the key.
TiersComeFromStore ==
    \A h \in Handshakes : pc[h] \in Answered =>
        tier[h] = IF classified[h] = 0 THEN "identified"
                  ELSE TierByClassification(disk[classified[h]], key[h])

\* What a callback reads is never older than its beginning, and what the
\* others may still swap in under a clear callback is not either.
SnapshotsInOrder ==
    \A h \in Handshakes :
        /\ pc[h] = "read" => local[h] = 0
        /\ local[h] # 0 => local[h] >= begun[h]
        /\ clear[h] /\ pc[h] \in {"read", "swap", "classify"} =>
              \A g \in Handshakes : pc[g] = "swap" => local[g] >= begun[h]
        /\ clear[h] /\ pc[h] = "classify" /\ local[h] # 0 => loaded >= begun[h]

IInv ==
    /\ TypeOK
    /\ StoreIsOneFile
    /\ SnapshotsParse
    /\ TiersComeFromStore
    /\ SnapshotsInOrder
    /\ FreshUnlessOvertaken

-----------------------------------------------------------------------------
(* The two lookups of a parsed file return a tier or nothing, a name or     *)
(* nothing.                                                                 *)
LEMMA LookupTypes ==
    ASSUME NEW c \in Files, NEW k \in Keys
    PROVE  /\ TierIn(c, k) \in {None, "identified", "trusted"}
           /\ NameIn(c, k) \in Names \cup {None}
<1>1. c.lines \in Seq(KeyLine)
  BY FilesAssumption
<1>2. \A i \in DOMAIN c.lines : c.lines[i] \in KeyLine
  BY <1>1
<1>3. TierIn(c, k) \in {None, "identified", "trusted"}
  <2>1. CASE Deciding(c, k, DOMAIN c.lines) = {}
    BY <2>1 DEF TierIn
  <2>2. CASE Deciding(c, k, DOMAIN c.lines) # {}
    <3>1. PICK i \in Deciding(c, k, DOMAIN c.lines) : TierIn(c, k) = c.lines[i].tier
      BY <2>2 DEF TierIn
    <3>2. i \in DOMAIN c.lines
      BY <3>1 DEF Deciding
    <3>. QED  BY <1>2, <3>1, <3>2 DEF KeyLine
  <2>. QED  BY <2>1, <2>2
<1>4. NameIn(c, k) \in Names \cup {None}
  <2>1. CASE Deciding(c, k, Named(c)) = {}
    BY <2>1 DEF NameIn
  <2>2. CASE Deciding(c, k, Named(c)) # {}
    <3>1. PICK i \in Deciding(c, k, Named(c)) : NameIn(c, k) = c.lines[i].name
      BY <2>2 DEF NameIn
    <3>2. i \in DOMAIN c.lines
      BY <3>1 DEF Deciding
    <3>. QED  BY <1>2, <3>1, <3>2 DEF KeyLine
  <2>. QED  BY <2>1, <2>2
<1>. QED  BY <1>3, <1>4

(* The maps loadFromDisk builds are total on the keys. *)
LEMMA ParsedTypes ==
    ASSUME NEW c \in Files
    PROVE  /\ ParsedEntries(c)  \in [Keys -> {None, "identified", "trusted"}]
           /\ ParsedComments(c) \in [Keys -> Names \cup {None}]
BY LookupTypes DEF ParsedEntries, ParsedComments

(* A new content on disk leaves the earlier ones where they were. *)
LEMMA AppendKeepsVersions ==
    ASSUME disk \in Seq(Files), NEW c \in Files, disk' = Append(disk, c)
    PROVE  /\ disk' \in Seq(Files) /\ disk' # <<>>
           /\ Len(disk') = Len(disk) + 1
           /\ \A v \in 1 .. Len(disk) : disk'[v] = disk[v]
OBVIOUS

(* The state LoadAuthorizedKeys leaves satisfies the invariant. *)
LEMMA InitIInv == Init => IInv
<1>. SUFFICES ASSUME Init PROVE IInv
  OBVIOUS
<1>. PICK c \in Files : disk = <<c>> /\ (path => c.parses)
  BY DEF Init
<1>1. Version = 1 /\ Current = c /\ disk \in Seq(Files) /\ disk # <<>> /\ disk[1] = c
  BY DEF Version, Current
<1>2. TypeOK
  BY <1>1, ParsedTypes DEF Init, TypeOK, NoEntries, Tiers
<1>3. StoreIsOneFile
  BY <1>1 DEF Init, StoreIsOneFile
<1>4. SnapshotsParse /\ TiersComeFromStore /\ SnapshotsInOrder /\ FreshUnlessOvertaken
  BY DEF Init, SnapshotsParse, TiersComeFromStore, SnapshotsInOrder,
         FreshUnlessOvertaken, Answered
<1>. QED  BY <1>2, <1>3, <1>4 DEF IInv

-----------------------------------------------------------------------------
(* One lemma per action: each preserves the invariant. *)

LEMMA WriteFileIInv ==
    ASSUME IInv, NEW c \in Files, WriteFile(c)
    PROVE  IInv'
<1>. USE DEF IInv, TypeOK
<1>1. /\ disk' \in Seq(Files) /\ disk' # <<>>
      /\ Len(disk') = Len(disk) + 1
      /\ \A v \in 1 .. Len(disk) : disk'[v] = disk[v]
  BY AppendKeepsVersions DEF WriteFile
<1>2. Len(disk) \in Nat
  OBVIOUS
<1>3. TypeOK'
  BY <1>1, <1>2 DEF WriteFile, store, history, Version
<1>4. StoreIsOneFile'
  BY <1>1, <1>2 DEF WriteFile, StoreIsOneFile, store, Version
<1>5. SnapshotsParse'
  BY <1>1, <1>2 DEF WriteFile, SnapshotsParse, Version
<1>6. TiersComeFromStore'
  BY <1>1, <1>2 DEF WriteFile, TiersComeFromStore, history, Version
<1>7. SnapshotsInOrder' /\ FreshUnlessOvertaken'
  BY DEF WriteFile, SnapshotsInOrder, FreshUnlessOvertaken, store, history
<1>. QED  BY <1>3, <1>4, <1>5, <1>6, <1>7

LEMMA OfferIInv ==
    ASSUME IInv, NEW h \in Handshakes, NEW k \in Keys, Offer(h, k)
    PROVE  IInv'
<1>. USE DEF IInv, TypeOK, Offer, store, Version
<1>1. TypeOK'
  OBVIOUS
<1>2. StoreIsOneFile' /\ SnapshotsParse' /\ TiersComeFromStore'
  BY DEF StoreIsOneFile, SnapshotsParse, TiersComeFromStore, Answered
<1>3. SnapshotsInOrder'
  BY DEF SnapshotsInOrder
<1>4. FreshUnlessOvertaken'
  BY DEF FreshUnlessOvertaken, Answered
<1>. QED  BY <1>1, <1>2, <1>3, <1>4

LEMMA ReadFileIInv ==
    ASSUME IInv, NEW h \in Handshakes, ReadFile(h)
    PROVE  IInv'
<1>1. Len(disk) \in Nat \ {0}
  BY DEF IInv, TypeOK
<1>2. CASE path /\ Current.parses
  <2>1. /\ pc[h] = "read" /\ pc' = [pc EXCEPT ![h] = "swap"]
        /\ local' = [local EXCEPT ![h] = Len(disk)]
        /\ UNCHANGED <<disk, path, store, key, tier, name, history>>
    BY <1>2 DEF ReadFile, Goto, Version
  <2>. USE <2>1 DEF IInv, TypeOK, store, history, Version
  <2>2. TypeOK'
    BY <1>1
  <2>3. StoreIsOneFile' /\ SnapshotsParse' /\ TiersComeFromStore'
    BY <1>1, <1>2 DEF StoreIsOneFile, SnapshotsParse, TiersComeFromStore, Answered, Current
  <2>4. SnapshotsInOrder'
    BY <1>1, <1>2 DEF SnapshotsInOrder
  <2>5. FreshUnlessOvertaken'
    BY <1>2 DEF FreshUnlessOvertaken, Answered
  <2>. QED  BY <2>2, <2>3, <2>4, <2>5
<1>3. CASE ~(path /\ Current.parses)
  <2>1. /\ pc[h] = "read" /\ pc' = [pc EXCEPT ![h] = "classify"]
        /\ UNCHANGED <<disk, path, store, key, local, tier, name, history>>
    BY <1>3 DEF ReadFile, Goto
  <2>. USE <2>1 DEF IInv, TypeOK, store, history, Version
  <2>2. TypeOK'
    OBVIOUS
  <2>3. StoreIsOneFile' /\ SnapshotsParse' /\ TiersComeFromStore'
    BY DEF StoreIsOneFile, SnapshotsParse, TiersComeFromStore, Answered
  <2>4. SnapshotsInOrder' /\ FreshUnlessOvertaken'
    BY DEF SnapshotsInOrder, FreshUnlessOvertaken, Answered
  <2>. QED  BY <2>2, <2>3, <2>4
<1>. QED  BY <1>2, <1>3

LEMMA SwapMapsIInv ==
    ASSUME IInv, NEW h \in Handshakes, SwapMaps(h)
    PROVE  IInv'
<1>. USE DEF IInv, TypeOK, SwapMaps, Goto, history, Version
<1>1. local[h] \in 1 .. Len(disk) /\ path /\ disk[local[h]].parses
  BY DEF SnapshotsParse
<1>2. disk[local[h]] \in Files
  BY <1>1
<1>3. TypeOK'
  BY <1>1, <1>2, ParsedTypes
<1>4. StoreIsOneFile'
  BY <1>1 DEF StoreIsOneFile
<1>5. SnapshotsParse' /\ TiersComeFromStore'
  BY DEF SnapshotsParse, TiersComeFromStore, Answered
<1>6. SnapshotsInOrder'
  BY <1>1 DEF SnapshotsInOrder
<1>7. FreshUnlessOvertaken'
  BY DEF FreshUnlessOvertaken, Answered
<1>. QED  BY <1>3, <1>4, <1>5, <1>6, <1>7

LEMMA ClassifyIInv ==
    ASSUME IInv, NEW h \in Handshakes, Classify(h)
    PROVE  IInv'
<1>. USE DEF IInv, TypeOK, Classify, Goto, store, Version
<1>1. TypeOK'
  BY DEF ClassifyKey, Tiers
<1>2. StoreIsOneFile' /\ SnapshotsParse'
  BY DEF StoreIsOneFile, SnapshotsParse
<1>3. TiersComeFromStore'
  <2>1. ClassifyKey(key[h]) = IF loaded = 0 THEN "identified"
                              ELSE TierByClassification(disk[loaded], key[h])
    BY DEF ClassifyKey, TierByClassification, StoreIsOneFile, ParsedEntries, NoEntries
  <2>. QED  BY <2>1 DEF TiersComeFromStore, Answered, TierByClassification
<1>4. SnapshotsInOrder'
  BY DEF SnapshotsInOrder
<1>5. FreshUnlessOvertaken'
  BY DEF FreshUnlessOvertaken, SnapshotsInOrder, Answered
<1>. QED  BY <1>1, <1>2, <1>3, <1>4, <1>5

LEMMA LabelIInv ==
    ASSUME IInv, NEW h \in Handshakes, Label(h)
    PROVE  IInv'
<1>. USE DEF IInv, TypeOK, Label, Goto, store, history, Version
<1>1. TypeOK'
  OBVIOUS
<1>2. StoreIsOneFile' /\ SnapshotsParse' /\ TiersComeFromStore'
  BY DEF StoreIsOneFile, SnapshotsParse, TiersComeFromStore, Answered
<1>3. SnapshotsInOrder' /\ FreshUnlessOvertaken'
  BY DEF SnapshotsInOrder, FreshUnlessOvertaken, Answered
<1>. QED  BY <1>1, <1>2, <1>3

LEMMA ClientIInv ==
    ASSUME IInv, NEW h \in Handshakes,
           Authenticate(h) \/ EnterWithoutKey(h) \/ Leave(h)
    PROVE  IInv'
<1>. USE DEF IInv, TypeOK, store, history, Version, Goto
<1>1. CASE Authenticate(h)
  <2>. USE <1>1 DEF Authenticate
  <2>1. TypeOK'
    OBVIOUS
  <2>2. StoreIsOneFile' /\ SnapshotsParse' /\ TiersComeFromStore'
    BY DEF StoreIsOneFile, SnapshotsParse, TiersComeFromStore, Answered
  <2>3. SnapshotsInOrder' /\ FreshUnlessOvertaken'
    BY DEF SnapshotsInOrder, FreshUnlessOvertaken, Answered
  <2>. QED  BY <2>1, <2>2, <2>3
<1>2. CASE EnterWithoutKey(h)
  <2>. USE <1>2 DEF EnterWithoutKey
  <2>1. TypeOK'
    BY DEF Tiers
  <2>2. StoreIsOneFile' /\ SnapshotsParse' /\ TiersComeFromStore'
    BY DEF StoreIsOneFile, SnapshotsParse, TiersComeFromStore, Answered
  <2>3. SnapshotsInOrder' /\ FreshUnlessOvertaken'
    BY DEF SnapshotsInOrder, FreshUnlessOvertaken, Answered
  <2>. QED  BY <2>1, <2>2, <2>3
<1>3. CASE Leave(h)
  <2>. USE <1>3 DEF Leave
  <2>1. TypeOK'
    BY DEF Tiers
  <2>2. StoreIsOneFile' /\ SnapshotsParse' /\ TiersComeFromStore'
    BY DEF StoreIsOneFile, SnapshotsParse, TiersComeFromStore, Answered
  <2>3. SnapshotsInOrder' /\ FreshUnlessOvertaken'
    BY DEF SnapshotsInOrder, FreshUnlessOvertaken, Answered
  <2>. QED  BY <2>1, <2>2, <2>3
<1>. QED  BY <1>1, <1>2, <1>3

LEMMA NextIInv == IInv /\ [Next]_vars => IInv'
<1>. SUFFICES ASSUME IInv, [Next]_vars PROVE IInv'
  OBVIOUS
<1>1. ASSUME NEW c \in Files, WriteFile(c) PROVE IInv'
  BY <1>1, WriteFileIInv
<1>2. ASSUME NEW h \in Handshakes, Callback(h) PROVE IInv'
  BY <1>2, ReadFileIInv, SwapMapsIInv, ClassifyIInv, LabelIInv DEF Callback
<1>3. ASSUME NEW h \in Handshakes, Client(h) PROVE IInv'
  BY <1>3, OfferIInv, ClientIInv DEF Client
<1>4. CASE UNCHANGED vars
  BY <1>4 DEF vars, IInv, TypeOK, StoreIsOneFile, SnapshotsParse, TiersComeFromStore,
              SnapshotsInOrder, FreshUnlessOvertaken, Version
<1>. QED  BY <1>1, <1>2, <1>3, <1>4 DEF Next

-----------------------------------------------------------------------------

(* A lookup answers trusted exactly when the last line for the key does. *)
LEMMA TrustedMeansListed ==
    ASSUME NEW c \in Files, NEW k \in Keys
    PROVE  TierByClassification(c, k) = "trusted" <=>
             \E i \in DOMAIN c.lines :
                /\ c.lines[i].key = k
                /\ c.lines[i].tier = "trusted"
                /\ \A j \in DOMAIN c.lines : j > i => c.lines[j].key # k
<1>. DEFINE at == Deciding(c, k, DOMAIN c.lines)
<1>1. DOMAIN c.lines \subseteq Nat
  <2>1. c.lines \in Seq(KeyLine)
    BY FilesAssumption
  <2>. QED  BY <2>1
<1>2. \A i, j \in at : i = j
  BY <1>1 DEF Deciding
<1>3. CASE at = {}
  <2>1. TierByClassification(c, k) = "identified"
    BY <1>3, Zenon DEF TierByClassification, TierIn, None
  <2>2. ~ \E i \in DOMAIN c.lines :
             /\ c.lines[i].key = k /\ c.lines[i].tier = "trusted"
             /\ \A j \in DOMAIN c.lines : j > i => c.lines[j].key # k
    BY <1>3 DEF Deciding
  <2>. QED  BY <2>1, <2>2
<1>4. CASE at # {}
  <2>1. PICK i \in at : TierIn(c, k) = c.lines[i].tier
    BY <1>4 DEF TierIn
  <2>2. TierByClassification(c, k) = "trusted" <=> c.lines[i].tier = "trusted"
    <3>. DEFINE t == c.lines[i].tier
    <3>1. TierByClassification(c, k) = IF t # None THEN t ELSE "identified"
      BY <2>1, Zenon DEF TierByClassification
    <3>. HIDE DEF t
    <3>2. t # None => TierByClassification(c, k) = t
      BY <3>1, Zenon
    <3>3. t = None => TierByClassification(c, k) = "identified"
      BY <3>1, Zenon
    <3>4. "identified" # "trusted" /\ None # "trusted"
      BY DEF None
    <3>5. CASE t = None
      <4>1. TierByClassification(c, k) # "trusted" /\ t # "trusted"
        BY <3>3, <3>4, <3>5, Zenon
      <4>. QED  BY <4>1 DEF t
    <3>6. CASE t # None
      <4>1. TierByClassification(c, k) = t
        BY <3>2, <3>6, Zenon
      <4>. QED  BY <4>1 DEF t
    <3>. QED  BY <3>5, <3>6
  <2>. QED  BY <1>2, <2>1, <2>2 DEF Deciding
<1>. QED  BY <1>3, <1>4

(* In every reachable state the store and the callbacks are well typed. *)
THEOREM TypeCorrect == Spec => []TypeOK
<1>1. IInv => TypeOK
  BY DEF IInv
<1>. QED  BY InitIInv, NextIInv, <1>1, PTL DEF Spec

(* The store always holds one content of the file, whole (StoreIsOneFile). *)
THEOREM OneFile == Spec => []StoreIsOneFile
<1>1. IInv => StoreIsOneFile
  BY DEF IInv
<1>. QED  BY InitIInv, NextIInv, <1>1, PTL DEF Spec

(* Only the last line of a key makes its handshake trusted. *)
THEOREM TrustedIsListed == Spec => []TrustedExactlyWhenListed
<1>1. IInv => TrustedExactlyWhenListed
  <2>. SUFFICES ASSUME IInv, NEW h \in Handshakes, pc[h] \in Answered
                PROVE  tier[h] = "trusted" <=>
                         /\ classified[h] # 0
                         /\ \E i \in DOMAIN disk[classified[h]].lines :
                              LET lines == disk[classified[h]].lines
                              IN  /\ lines[i].key = key[h]
                                  /\ lines[i].tier = "trusted"
                                  /\ \A j \in DOMAIN lines :
                                        j > i => lines[j].key # key[h]
    BY DEF TrustedExactlyWhenListed
  <2>1. CASE classified[h] = 0
    BY <2>1 DEF IInv, TiersComeFromStore
  <2>2. CASE classified[h] # 0
    <3>1. disk[classified[h]] \in Files /\ key[h] \in Keys
      BY <2>2 DEF IInv, TypeOK, Version
    <3>. QED  BY <2>2, <3>1, TrustedMeansListed DEF IInv, TiersComeFromStore
  <2>. QED  BY <2>1, <2>2
<1>. QED  BY InitIInv, NextIInv, <1>1, PTL DEF Spec

(* A callback nobody overtakes classifies by the file it found, or newer. *)
THEOREM Freshness == Spec => []FreshUnlessOvertaken
<1>1. IInv => FreshUnlessOvertaken
  BY DEF IInv
<1>. QED  BY InitIInv, NextIInv, <1>1, PTL DEF Spec

-----------------------------------------------------------------------------
(* The readers, of any text. *)

End(t) == Len(t) + 1
At(t, p) == IF p < End(t) THEN t[p] ELSE Ending

First(t, p, lexemes) ==
    CHOOSE q \in p .. End(t) : /\ q = End(t) \/ At(t, q) \in lexemes
                               /\ \A r \in p .. q - 1 : At(t, r) \notin lexemes

Blank(t, p, q) ==
    \/ At(t, q) \in {"\n", "#"}
    \/ \E c \in p .. q : At(t, c) = "#" /\ \A r \in c .. q : At(t, r) # "\n"

Skip(t, p) ==
    CHOOSE q \in p .. End(t) : /\ q = End(t) \/ ~Blank(t, p, q)
                               /\ \A r \in p .. q - 1 : Blank(t, p, r)

Word(t, p) ==
    LET q == Skip(t, p)
    IN  IF At(t, q) \in {Opening, Closing, Ending} THEN [word |-> Nothing, next |-> q]
        ELSE [word |-> At(t, q), next |-> q + 1]

Rest(t, p) ==
    LET q == First(t, p, {"\n", "#"})
    IN  [words |-> SubSeq(t, p, q - 1), next |-> q]

(* The parser's readers are those of its text. *)
LEMMA ReadersOfWhole ==
    /\ Whole!End = End(file.text)
    /\ \A p : /\ Whole!At(p) = At(file.text, p)
              /\ Whole!Skip(p) = Skip(file.text, p)
              /\ Whole!Word(p) = Word(file.text, p)
              /\ Whole!Rest(p) = Rest(file.text, p)
              /\ \A l : Whole!First(p, l) = First(file.text, p, l)
              /\ \A l : Whole!Expected(p, l) <=> At(file.text, Skip(file.text, p)) = l
<1>1. Whole!End = End(file.text)
  BY DEF Whole!End, End
<1>2. \A p : Whole!At(p) = At(file.text, p)
  BY <1>1 DEF Whole!At, At, Ending
<1>3. \A p, l : Whole!First(p, l) = First(file.text, p, l)
  BY <1>1, <1>2 DEF Whole!First, First
<1>4. \A p, q : Whole!Blank(p, q) <=> Blank(file.text, p, q)
  BY <1>2 DEF Whole!Blank, Blank
<1>5. \A p : Whole!Skip(p) = Skip(file.text, p)
  BY <1>1, <1>4 DEF Whole!Skip, Skip
<1>6. \A p : Whole!Word(p) = Word(file.text, p)
  BY <1>2, <1>5, Zenon DEF Whole!Word, Word, Nothing, Opening, Closing, Ending
<1>7. \A p : Whole!Rest(p) = Rest(file.text, p)
  BY <1>3 DEF Whole!Rest, Rest
<1>8. \A p, l : Whole!Expected(p, l) <=> At(file.text, Skip(file.text, p)) = l
  BY <1>2, <1>5 DEF Whole!Expected
<1>. QED  BY <1>1, <1>2, <1>3, <1>5, <1>6, <1>7, <1>8

LEMMA ReadersOfCut ==
    /\ Cut!End = End(cfile.text)
    /\ \A p : /\ Cut!At(p) = At(cfile.text, p)
              /\ Cut!Skip(p) = Skip(cfile.text, p)
              /\ Cut!Word(p) = Word(cfile.text, p)
              /\ Cut!Rest(p) = Rest(cfile.text, p)
              /\ \A l : Cut!First(p, l) = First(cfile.text, p, l)
              /\ \A l : Cut!Expected(p, l) <=> At(cfile.text, Skip(cfile.text, p)) = l
<1>1. Cut!End = End(cfile.text)
  BY DEF Cut!End, End
<1>2. \A p : Cut!At(p) = At(cfile.text, p)
  BY <1>1 DEF Cut!At, At, Ending
<1>3. \A p, l : Cut!First(p, l) = First(cfile.text, p, l)
  BY <1>1, <1>2 DEF Cut!First, First
<1>4. \A p, q : Cut!Blank(p, q) <=> Blank(cfile.text, p, q)
  BY <1>2 DEF Cut!Blank, Blank
<1>5. \A p : Cut!Skip(p) = Skip(cfile.text, p)
  BY <1>1, <1>4 DEF Cut!Skip, Skip
<1>6. \A p : Cut!Word(p) = Word(cfile.text, p)
  BY <1>2, <1>5, Zenon DEF Cut!Word, Word, Nothing, Opening, Closing, Ending
<1>7. \A p : Cut!Rest(p) = Rest(cfile.text, p)
  BY <1>3 DEF Cut!Rest, Rest
<1>8. \A p, l : Cut!Expected(p, l) <=> At(cfile.text, Skip(cfile.text, p)) = l
  BY <1>2, <1>5 DEF Cut!Expected
<1>. QED  BY <1>1, <1>2, <1>3, <1>5, <1>6, <1>7, <1>8

(* A set of numbers has a least one. *)
LEMMA LeastNumber ==
    ASSUME NEW T, T \subseteq Nat, T # {}
    PROVE  \E n \in T : \A m \in T : ~(m < n)
<1>. DEFINE R == {ss \in Nat \X Nat : ss[1] < ss[2]}
<1>1. IsWellFoundedOn(R, Nat)
  BY NatLessThanWellFounded DEF OpToRel
<1>2. \E n \in T : \A m \in T : ~(<<m, n>> \in R)
  <2>. HIDE DEF R
  <2>. QED  BY <1>1, WFMin, Zenon
<1>3. \A m, n \in T : m < n => <<m, n>> \in R
  OBVIOUS
<1>. QED  BY <1>2, <1>3, Zenon

(* So a search that goes up from p finds the first. *)
LEMMA LeastFrom ==
    ASSUME NEW p \in Nat, NEW e \in Nat, NEW T, e \in T, p <= e
    PROVE  \E q \in p .. e : q \in T /\ \A r \in p .. q - 1 : r \notin T
<1>. DEFINE U == {q \in p .. e : q \in T}
<1>1. U \subseteq Nat /\ U # {}
  OBVIOUS
<1>2. PICK q \in U : \A m \in U : ~(m < q)
  <2>. HIDE DEF U
  <2>. QED  BY <1>1, LeastNumber, Zenon
<1>. QED  BY <1>2

(* The searches find what they look for, or the end. *)
LEMMA FirstIs ==
    ASSUME NEW t \in Seq(Lexemes), NEW p \in 1 .. End(t), NEW lexemes
    PROVE  LET q == First(t, p, lexemes)
           IN  /\ q \in p .. End(t)
               /\ q = End(t) \/ At(t, q) \in lexemes
               /\ \A r \in p .. q - 1 : At(t, r) \notin lexemes
<1>. DEFINE e == End(t)
            T == {q \in p .. e : q = e \/ At(t, q) \in lexemes}
<1>1. p \in Nat /\ e \in Nat /\ p <= e
  BY DEF End
<1>2. e \in T
  BY <1>1
<1>3. PICK q \in p .. e : q \in T /\ \A r \in p .. q - 1 : r \notin T
  <2>. HIDE DEF T, e
  <2>. QED  BY <1>1, <1>2, LeastFrom, ZenonT(60)
<1>4. \A r \in p .. q - 1 : At(t, r) \notin lexemes
  <2>1. \A r \in p .. q - 1 : r \in p .. e
    BY <1>1, <1>3
  <2>. QED  BY <1>3, <2>1
<1>5. q = e \/ At(t, q) \in lexemes
  BY <1>3
<1>. QED  BY <1>3, <1>4, <1>5, Zenon DEF First

LEMMA SkipIs ==
    ASSUME NEW t \in Seq(Lexemes), NEW p \in 1 .. End(t)
    PROVE  LET q == Skip(t, p)
           IN  /\ q \in p .. End(t)
               /\ q = End(t) \/ ~Blank(t, p, q)
               /\ \A r \in p .. q - 1 : Blank(t, p, r)
<1>. DEFINE e == End(t)
            T == {q \in p .. e : q = e \/ ~Blank(t, p, q)}
<1>1. p \in Nat /\ e \in Nat /\ p <= e
  BY DEF End
<1>2. e \in T
  BY <1>1
<1>3. PICK q \in p .. e : q \in T /\ \A r \in p .. q - 1 : r \notin T
  <2>. HIDE DEF T, e
  <2>. QED  BY <1>1, <1>2, LeastFrom, ZenonT(60)
<1>4. \A r \in p .. q - 1 : Blank(t, p, r)
  <2>1. \A r \in p .. q - 1 : r \in p .. e
    BY <1>1, <1>3
  <2>. QED  BY <1>3, <2>1, Zenon
<1>5. q = e \/ ~Blank(t, p, q)
  BY <1>3
<1>. QED  BY <1>3, <1>4, <1>5, Zenon DEF Skip

(* The end of the text is told by what no text holds. *)
LEMMA EndIs ==
    ASSUME Ending \notin Lexemes, NEW t \in Seq(Lexemes), NEW p \in 1 .. End(t)
    PROVE  /\ At(t, p) = Ending <=> p = End(t)
           /\ Len(t) \in Nat /\ End(t) \in Nat /\ End(t) \in 1 .. End(t)
<1>1. Len(t) \in Nat /\ End(t) \in Nat /\ End(t) \in 1 .. End(t)
  BY DEF End
<1>2. CASE p = End(t)
  BY <1>1, <1>2 DEF At
<1>3. CASE p # End(t)
  <2>1. p < End(t) /\ p \in 1 .. Len(t)
    BY <1>1, <1>3 DEF End
  <2>2. At(t, p) \in Lexemes
    BY <2>1 DEF At
  <2>. QED  BY <1>1, <1>3, <2>2
<1>. QED  BY <1>1, <1>2, <1>3

(* A word is what stands after the blanks, or nothing before a brace or the *)
(* end.                                                                     *)
LEMMA WordIs ==
    ASSUME Ending \notin Lexemes, NEW t \in Seq(Lexemes), NEW p \in 1 .. End(t)
    PROVE  /\ Skip(t, p) \in p .. End(t) /\ Skip(t, p) \in 1 .. End(t)
           /\ Word(t, p).next \in p .. End(t) /\ Word(t, p).next \in 1 .. End(t)
           /\ \/ /\ Word(t, p).next = Skip(t, p) + 1 /\ Skip(t, p) # End(t)
                 /\ Word(t, p).word = At(t, Skip(t, p))
              \/ /\ Word(t, p).next = Skip(t, p) /\ Word(t, p).word = Nothing
                 /\ \/ Skip(t, p) = End(t)
                    \/ At(t, Skip(t, p)) = Opening
                    \/ At(t, Skip(t, p)) = Closing
<1>. DEFINE q == Skip(t, p)
<1>1. p \in Nat /\ End(t) \in Nat /\ q \in p .. End(t) /\ q \in 1 .. End(t) /\ 1 <= p
  BY SkipIs, EndIs
<1>2. At(t, q) = Ending <=> q = End(t)
  BY <1>1, EndIs
<1>. HIDE DEF q
<1>3. CASE At(t, q) \in {Opening, Closing, Ending}
  <2>1. Word(t, p) = [word |-> Nothing, next |-> q]
    BY <1>3, Zenon DEF Word, q
  <2>2. Word(t, p).next = q /\ Word(t, p).word = Nothing
    BY <2>1
  <2>3. q = End(t) \/ At(t, q) = Opening \/ At(t, q) = Closing
    BY <1>2, <1>3, Zenon
  <2>. QED  BY <1>1, <2>2, <2>3, Zenon DEF q
<1>4. CASE At(t, q) \notin {Opening, Closing, Ending}
  <2>1. Word(t, p) = [word |-> At(t, q), next |-> q + 1]
    BY <1>4, Zenon DEF Word, q
  <2>2. Word(t, p).next = q + 1 /\ Word(t, p).word = At(t, q)
    BY <2>1
  <2>3. q # End(t)
    BY <1>2, <1>4, Zenon
  <2>4. q + 1 \in p .. End(t) /\ q + 1 \in 1 .. End(t)
    BY <1>1, <2>3
  <2>. QED  BY <1>1, <2>2, <2>3, <2>4, Zenon DEF q
<1>. QED  BY <1>3, <1>4

(* A word is followed by the next one. *)
LEMMA NextWordIs ==
    ASSUME Ending \notin Lexemes, NEW t \in Seq(Lexemes), NEW p \in 1 .. End(t)
    PROVE  /\ Word(t, Word(t, p).next).next \in Word(t, p).next .. End(t)
           /\ Word(t, Word(t, p).next).next \in 1 .. End(t)
           /\ Word(t, Word(t, p).next).next \in p .. End(t)
<1>. DEFINE k == Word(t, p).next
            v == Word(t, k).next
<1>1. k \in p .. End(t) /\ k \in 1 .. End(t) /\ v \in k .. End(t) /\ v \in 1 .. End(t) /\ p \in Nat
      /\ End(t) \in Nat
  BY WordIs, EndIs
<1>. HIDE DEF k, v
<1>2. v \in p .. End(t)
  BY <1>1
<1>. QED  BY <1>1, <1>2 DEF k, v

(* What is left of a line moves on, unless the line ends there. *)
LEMMA RestIs ==
    ASSUME Ending \notin Lexemes, NEW t \in Seq(Lexemes), NEW p \in 1 .. End(t)
    PROVE  /\ Rest(t, p).next \in p .. End(t) /\ Rest(t, p).next \in 1 .. End(t)
           /\ Rest(t, p).words \in Seq(Lexemes)
           /\ p # End(t) /\ At(t, p) \notin {"\n", "#"} => Rest(t, p).next > p
<1>. DEFINE q == First(t, p, {"\n", "#"})
<1>1. Rest(t, p).next = q
  BY DEF Rest
<1>2. q \in p .. End(t) /\ (q = End(t) \/ At(t, q) \in {"\n", "#"}) /\ p \in Nat /\ End(t) \in Nat
      /\ 1 <= p
  BY FirstIs, EndIs
<1>. HIDE DEF q
<1>3. p # End(t) /\ At(t, p) \notin {"\n", "#"} => q # p
  BY <1>2
<1>4. Rest(t, p).words \in Seq(Lexemes)
  <2>1. Rest(t, p).words = SubSeq(t, p, q - 1)
    BY DEF Rest, q
  <2>2. p \in Int /\ q - 1 \in Int /\ \A i \in p .. q - 1 : t[i] \in Lexemes
    BY <1>2 DEF End
  <2>3. SubSeq(t, p, q - 1) \in Seq(Lexemes)
    BY <2>2, SubSeqProperties
  <2>. QED  BY <2>1, <2>3
<1>. QED  BY <1>1, <1>2, <1>3, <1>4

(* A line that is not the end of a block moves the parser on. *)
LEMMA LineMoves ==
    ASSUME Ending \notin Lexemes, NEW t \in Seq(Lexemes), NEW p \in 1 .. End(t)
    PROVE  LET next == Rest(t, Word(t, p).next).next
           IN  /\ next \in p .. End(t) /\ next \in 1 .. End(t)
               /\ Skip(t, p) # End(t) /\ At(t, Skip(t, p)) # Closing => next > p
<1>. DEFINE q == Skip(t, p)
            k == Word(t, p).next
            r == Rest(t, k).next
<1>1. /\ p \in Nat /\ End(t) \in Nat /\ 1 <= p
      /\ q \in p .. End(t) /\ k \in p .. End(t) /\ k \in 1 .. End(t)
  BY WordIs, EndIs
<1>2. /\ r \in k .. End(t) /\ r \in 1 .. End(t)
      /\ k # End(t) /\ At(t, k) \notin {"\n", "#"} => r > k
  <2>. HIDE DEF k
  <2>. QED  BY <1>1, RestIs
<1>3. \/ k = q + 1
      \/ k = q /\ (q = End(t) \/ At(t, q) = Opening \/ At(t, q) = Closing)
  BY WordIs, Zenon
<1>4. Opening \notin {"\n", "#"}
  BY Zenon DEF Opening
<1>. HIDE DEF q, k, r
<1>5. q # End(t) /\ At(t, q) # Closing => k = q + 1 \/ r > k
  <2>. SUFFICES ASSUME q # End(t), At(t, q) # Closing, k # q + 1 PROVE r > k
    OBVIOUS
  <2>1. k = q /\ At(t, q) = Opening
    BY <1>3, Zenon
  <2>2. k # End(t) /\ At(t, k) \notin {"\n", "#"}
    BY <1>4, <2>1, Zenon
  <2>. QED  BY <1>2, <2>2, Zenon
<1>6. r \in p .. End(t) /\ (k = q + 1 \/ r > k => r > p)
  BY <1>1, <1>2
<1>. QED  BY <1>2, <1>5, <1>6, Zenon DEF q, k, r

-----------------------------------------------------------------------------
(* One turn of a parse. *)

Moved == pos' \in 1 .. End(file.text) /\ pos' > pos
Ended == result' \in {"ok", "error", "panic"} /\ pos' = pos
Stood == Whole!Stuck /\ Whole!Stuck' /\ pos' \in 1 .. End(file.text)

(* It moves on before the end, and is not where the limits see a "{". *)
AtEnd   == Skip(file.text, pos) = End(file.text)
AtBrace == At(file.text, Skip(file.text, pos)) = Opening

(* What a turn begins with. *)
Started ==
    /\ Ending \notin Lexemes
    /\ file.text \in Seq(Lexemes)
    /\ pos \in 1 .. End(file.text)
    /\ file' = file

(* What one turn of each loop does to the position. *)
LEMMA StopEnds ==
    ASSUME NEW r \in {"ok", "error", "panic"}, Whole!Stop(r)
    PROVE  Ended
BY DEF Whole!Stop, Ended

(* What is read up to a lexeme is moved past it. *)
LEMMA PastExpected ==
    ASSUME Ending \notin Lexemes, NEW t \in Seq(Lexemes), NEW p \in 1 .. End(t),
           NEW q \in p .. End(t), NEW l, l # Ending, At(t, Skip(t, q)) = l
    PROVE  Skip(t, q) + 1 \in 1 .. End(t) /\ Skip(t, q) + 1 > p
<1>1. p \in Nat /\ End(t) \in Nat /\ 1 <= p /\ q \in 1 .. End(t)
  BY EndIs
<1>2. Skip(t, q) \in q .. End(t) /\ Skip(t, q) \in 1 .. End(t)
  BY <1>1, WordIs
<1>3. Skip(t, q) # End(t)
  BY <1>2, EndIs
<1>. QED  BY <1>1, <1>2, <1>3

LEMMA OpenTurns ==
    ASSUME Started, NEW b, NEW p \in pos .. End(file.text), NEW s, Whole!Open(b, p, s)
    PROVE  Moved \/ Ended
<1>1. CASE Whole!Expected(p, Opening)
  <2>1. pos' = Skip(file.text, p) + 1
    BY <1>1, ReadersOfWhole, Zenon DEF Whole!Open, Opening
  <2>2. At(file.text, Skip(file.text, p)) = Opening /\ Opening # Ending
    BY <1>1, ReadersOfWhole, Zenon DEF Opening, Ending
  <2>3. Skip(file.text, p) + 1 \in 1 .. End(file.text) /\ Skip(file.text, p) + 1 > pos
    BY <2>2, PastExpected DEF Started
  <2>. QED  BY <2>1, <2>3 DEF Moved
<1>2. CASE ~Whole!Expected(p, Opening)
  <2>1. Whole!Stop("error")
    BY <1>2, Zenon DEF Whole!Open, Opening
  <2>. QED  BY <2>1, StopEnds
<1>. QED  BY <1>1, <1>2

(* Words and positions the turn can take, as it reads them. *)
LEMMA Reads ==
    ASSUME Started
    PROVE  LET t == file.text
               k == Word(t, pos)
               v == Word(t, k.next)
           IN  /\ Whole!Word(pos) = k /\ Whole!Word(k.next) = v
               /\ k.next \in pos .. End(t) /\ k.next \in 1 .. End(t)
               /\ v.next \in k.next .. End(t) /\ v.next \in pos .. End(t) /\ v.next \in 1 .. End(t)
               /\ k.word # Nothing => k.next > pos /\ v.next > pos
<1>. DEFINE t == file.text
            k == Word(t, pos)
            v == Word(t, k.next)
<1>1. Whole!Word(pos) = k /\ Whole!Word(k.next) = v
  BY ReadersOfWhole
<1>2. t \in Seq(Lexemes) /\ pos \in 1 .. End(t) /\ Ending \notin Lexemes
  BY DEF Started
<1>. HIDE DEF t
<1>3. /\ k.next \in pos .. End(t) /\ k.next \in 1 .. End(t)
      /\ v.next \in k.next .. End(t) /\ v.next \in pos .. End(t) /\ v.next \in 1 .. End(t)
  BY <1>2, WordIs, NextWordIs
<1>4. k.word # Nothing => k.next = Skip(t, pos) + 1
  BY <1>2, WordIs
<1>5. Skip(t, pos) \in pos .. End(t) /\ pos \in Nat /\ End(t) \in Nat
  BY <1>2, WordIs, EndIs
<1>. HIDE DEF k, v
<1>6. k.word # Nothing => k.next > pos /\ v.next > pos
  BY <1>3, <1>4, <1>5
<1>. QED  BY <1>1, <1>3, <1>6 DEF k, v, t

LEMMA TopLevelTurns ==
    ASSUME Started, Whole!TopLevel
    PROVE  Moved \/ Ended
<1>. DEFINE k == Word(file.text, pos)
            h == Word(file.text, k.next)
<1>1. Whole!Word(pos) = k /\ Whole!Word(k.next) = h /\ h.next \in pos .. End(file.text)
  BY Reads
<1>. HIDE DEF h, k
<1>2. \/ Whole!Stop("ok") \/ Whole!Stop("error")
      \/ Whole!Open("site", h.next, Whole!NewSite(h.word))
  BY <1>1, Zenon DEF Whole!TopLevel
<1>. QED  BY <1>1, <1>2, StopEnds, OpenTurns

(* Where a loop goes on for ever, in terms of the text. *)
StuckAt(t, p, b, l, r) ==
    /\ r = "parsing"
    /\ \/ Skip(t, p) = End(t) /\ (l # {} \/ b \in {"commands", "meta", "proxy-cache", "limits"})
       \/ b = "limits" /\ At(t, Skip(t, p)) = Opening

(* Where a parse is stuck, before and after a turn. *)
LEMMA StuckIs ==
    /\ Whole!Stuck <=> StuckAt(file.text, pos, block, list, result)
    /\ Whole!Stuck' <=> StuckAt(file'.text, pos', block', list', result')
<1>1. Whole!Stuck <=> StuckAt(file.text, pos, block, list, result)
  BY ReadersOfWhole, Zenon DEF Whole!Stuck, StuckAt, Opening
<1>2. Whole!End' = End(file'.text)
  BY DEF Whole!End, End
<1>3. \A p : Whole!At(p)' = At(file'.text, p)
  BY <1>2 DEF Whole!At, At, Ending
<1>4. \A p, q : Whole!Blank(p, q)' <=> Blank(file'.text, p, q)
  BY <1>3 DEF Whole!Blank, Blank
<1>5. \A p : Whole!Skip(p)' = Skip(file'.text, p)
  BY <1>2, <1>4 DEF Whole!Skip, Skip
<1>6. Whole!Skip(pos)' = Skip(file'.text, pos')
  BY <1>2, <1>4 DEF Whole!Skip, Skip
<1>7. Whole!Expected(pos, Opening)' <=> At(file'.text, Skip(file'.text, pos')) = Opening
  BY <1>3, <1>6 DEF Whole!Expected, Whole!At, At, Ending
<1>8. Whole!Stuck' <=> StuckAt(file'.text, pos', block', list', result')
  BY <1>2, <1>6, <1>7, Zenon DEF Whole!Stuck, StuckAt, Opening
<1>. QED  BY <1>1, <1>8

(* A loop at the end of the text stays there. *)
LEMMA LoopStands ==
    ASSUME Started, Skip(file.text, pos) = End(file.text), result = "parsing",
           list # {} \/ block \in {"commands", "meta", "proxy-cache", "limits"},
           list' # {} \/ (list' = list /\ block' = block),
           pos' = End(file.text), result' = result
    PROVE  Stood
<1>. DEFINE t == file.text
<1>1. t \in Seq(Lexemes) /\ file'.text = t /\ End(t) \in 1 .. End(t) /\ End(t) \in Nat
  BY EndIs DEF Started
<1>. HIDE DEF t
<1>2. Skip(t, End(t)) = End(t)
  <2>1. Skip(t, End(t)) \in End(t) .. End(t)
    BY <1>1, SkipIs
  <2>. QED  BY <1>1, <2>1
<1>3. StuckAt(t, pos, block, list, result)
  BY DEF StuckAt, t
<1>4. StuckAt(t, pos', block', list', result')
  BY <1>2 DEF StuckAt, t
<1>. QED  BY <1>1, <1>3, <1>4, StuckIs DEF Stood, t

(* What is read at the end of the text. *)
LEMMA ReadAtEnd ==
    ASSUME Ending \notin Lexemes, NEW t \in Seq(Lexemes), NEW p \in 1 .. End(t),
           Skip(t, p) = End(t)
    PROVE  LET k == Word(t, p)
               v == Word(t, k.next)
           IN  /\ k.next = End(t) /\ k.word = Nothing /\ v.next = End(t) /\ v.word = Nothing
               /\ Rest(t, k.next).next = End(t)
               /\ First(t, Skip(t, p), Separators) = End(t)
               /\ Skip(t, k.next) = End(t)
<1>. DEFINE k == Word(t, p)
            v == Word(t, k.next)
<1>1. End(t) \in 1 .. End(t) /\ End(t) \in Nat
  BY EndIs
<1>2. \A q \in End(t) .. End(t) : q = End(t)
  BY <1>1
<1>3. k.next = End(t) /\ k.word = Nothing
  BY WordIs
<1>. HIDE DEF k
<1>4. Skip(t, End(t)) = End(t)
  BY <1>1, <1>2, SkipIs
<1>5. v.next = End(t) /\ v.word = Nothing
  BY <1>1, <1>3, <1>4, WordIs
<1>6. Rest(t, End(t)).next = End(t)
  BY <1>1, <1>2, RestIs
<1>7. First(t, End(t), Separators) = End(t)
  BY <1>1, <1>2, FirstIs
<1>. HIDE DEF v
<1>. QED  BY <1>3, <1>4, <1>5, <1>6, <1>7, Zenon DEF k, v

(* A line of a block whose loop does not look for the end of the text. *)
LEMMA LineTurns ==
    ASSUME Started, NEW s, Whole!In(block), block \in {"commands", "meta", "proxy-cache"},
           ~Whole!Expected(pos, Closing),
           Whole!Continue(Rest(file.text, Word(file.text, pos).next).next, s)
    PROVE  (Moved /\ ~AtEnd) \/ Stood
<1>. DEFINE t == file.text
            r == Rest(t, Word(t, pos).next).next
<1>1. /\ pos' = r /\ file' = file /\ block' = block /\ list' = list /\ result' = result
      /\ result = "parsing" /\ list = {}
  BY DEF Whole!Continue, Whole!In
<1>2. At(t, Skip(t, pos)) # Closing
  BY ReadersOfWhole
<1>3. CASE Skip(t, pos) = End(t)
  <2>1. r = End(t)
    BY <1>3, ReadAtEnd DEF Started
  <2>. HIDE DEF r
  <2>. QED  BY <1>1, <1>3, <2>1, LoopStands
<1>4. CASE Skip(t, pos) # End(t)
  <2>1. r \in 1 .. End(t) /\ r > pos
    BY <1>2, <1>4, LineMoves DEF Started
  <2>. HIDE DEF r
  <2>. QED  BY <1>1, <1>4, <2>1 DEF Moved, AtEnd
<1>. QED  BY <1>3, <1>4

LEMMA CommandsTurns ==
    ASSUME Started, Whole!Commands
    PROVE  (Moved /\ ~AtEnd) \/ Ended \/ Stood
<1>. DEFINE t == file.text
            k == Word(t, pos)
<1>1. Whole!Word(pos) = k /\ Whole!Rest(k.next) = Rest(t, k.next)
  BY ReadersOfWhole
<1>2. Whole!In("commands") /\ ~Whole!Expected(pos, Closing)
  BY Zenon DEF Whole!Commands, Closing
<1>3. Whole!Stop("error") \/ \E s : Whole!Continue(Rest(t, k.next).next, s)
  BY <1>1, Zenon DEF Whole!Commands
<1>4. block = "commands"
  BY <1>2 DEF Whole!In
<1>. QED  BY <1>2, <1>3, <1>4, StopEnds, LineTurns

LEMMA MetaTurns ==
    ASSUME Started, Whole!Meta
    PROVE  (Moved /\ ~AtEnd) \/ Ended \/ Stood
<1>. DEFINE t == file.text
            k == Word(t, pos)
<1>1. Whole!Word(pos) = k /\ Whole!Rest(k.next) = Rest(t, k.next)
  BY ReadersOfWhole
<1>2. Whole!In("meta") /\ ~Whole!Expected(pos, Closing)
  BY Zenon DEF Whole!Meta, Closing
<1>3. Whole!Stop("panic") \/ \E s : Whole!Continue(Rest(t, k.next).next, s)
  BY <1>1, Zenon DEF Whole!Meta
<1>4. block = "meta"
  BY <1>2 DEF Whole!In
<1>. QED  BY <1>2, <1>3, <1>4, StopEnds, LineTurns

(* A closing brace or bracket is moved past. *)
LEMMA CloseMoves ==
    ASSUME Started, NEW l, l # Ending, Whole!Expected(pos, l), pos' = Whole!Skip(pos) + 1
    PROVE  Moved
<1>. DEFINE t == file.text
<1>1. At(t, Skip(t, pos)) = l /\ pos' = Skip(t, pos) + 1
  BY ReadersOfWhole
<1>2. t \in Seq(Lexemes) /\ pos \in 1 .. End(t) /\ pos \in pos .. End(t) /\ Ending \notin Lexemes
  BY EndIs DEF Started
<1>. HIDE DEF t
<1>3. Skip(t, pos) + 1 \in 1 .. End(t) /\ Skip(t, pos) + 1 > pos
  BY <1>1, <1>2, PastExpected
<1>. QED  BY <1>1, <1>3 DEF Moved, t

LEMMA ContinueMoves ==
    ASSUME Started, NEW p \in 1 .. End(file.text), p > pos, NEW s, Whole!Continue(p, s)
    PROVE  Moved
BY DEF Whole!Continue, Moved

(* A bracket is not the end of the text. *)
LEMMA Closers == Closing # Ending /\ Bracket # Ending
BY Zenon DEF Closing, Ending, Bracket

LEMMA SiteTurns ==
    ASSUME Started, Whole!Site
    PROVE  Moved \/ Ended
<1>. DEFINE t == file.text
            k == Word(t, pos)
            v == Word(t, k.next)
<1>1. /\ Whole!Word(pos) = k /\ Whole!Word(k.next) = v
      /\ k.next \in pos .. End(t)
      /\ v.next \in 1 .. End(t)
      /\ k.word # Nothing => v.next > pos
  BY Reads
<1>. HIDE DEF k, v
<1>2. \/ Whole!Expected(pos, Closing) /\ Whole!CloseSite(Whole!Skip(pos) + 1)
      \/ Whole!Stop("error")
      \/ Whole!Directive
  BY Zenon DEF Whole!Site, Closing
<1>3. CASE Whole!Expected(pos, Closing) /\ Whole!CloseSite(Whole!Skip(pos) + 1)
  <2>1. pos' = Whole!Skip(pos) + 1
    BY <1>3 DEF Whole!CloseSite
  <2>. QED  BY <1>3, <2>1, CloseMoves, Closers
<1>4. CASE Whole!Directive
  <2>1. \/ Whole!Stop("error")
        \/ (k.word = "port" \/ k.word \in Whole!Names) /\ \E s : Whole!Continue(v.next, s)
        \/ \E s : Whole!Open(k.word, k.next, s)
    BY <1>1, <1>4, Zenon DEF Whole!Directive
  <2>2. k.word = "port" \/ k.word \in Whole!Names => k.word # Nothing
    BY Zenon DEF Nothing, Whole!Names
  <2>. QED  BY <1>1, <2>1, <2>2, StopEnds, ContinueMoves, OpenTurns
<1>. QED  BY <1>2, <1>3, <1>4, StopEnds

LEMMA CloseTurns ==
    ASSUME Started, Whole!Close
    PROVE  Moved \/ Ended
<1>1. \/ Whole!Stop("error")
      \/ Whole!Expected(pos, Closing) /\ pos' = Whole!Skip(pos) + 1
  BY Zenon DEF Whole!Close, Closing
<1>. QED  BY <1>1, StopEnds, CloseMoves, Closers

LEMMA McpTurns ==
    ASSUME Started, Whole!Mcp
    PROVE  Moved \/ Ended
<1>. DEFINE t == file.text
            k == Word(t, pos)
            v == Word(t, k.next)
            w == Word(t, v.next)
            q == Skip(t, v.next)
            close == First(t, q + 1, {Quote})
<1>1. /\ Whole!Word(pos) = k /\ Whole!Word(k.next) = v
      /\ k.next \in pos .. End(t)
      /\ v.next \in 1 .. End(t)
      /\ k.word # Nothing => v.next > pos
  BY Reads
<1>2. /\ Whole!Word(v.next) = w /\ Whole!Skip(v.next) = q /\ Whole!First(q + 1, {Quote}) = close
      /\ \A p : Whole!At(p) = At(t, p)
      /\ Whole!End = End(t)
  BY ReadersOfWhole, Zenon
<1>3. t \in Seq(Lexemes) /\ pos \in 1 .. End(t) /\ Ending \notin Lexemes /\ End(t) \in Nat
  BY EndIs DEF Started
<1>. HIDE DEF t, k, v
<1>4. w.next \in v.next .. End(t) /\ w.next \in 1 .. End(t)
  BY <1>1, <1>3, WordIs
<1>5. q \in v.next .. End(t) /\ q \in 1 .. End(t)
  BY <1>1, <1>3, WordIs
<1>. HIDE DEF w, q
<1>6. \/ Whole!Stop("error")
      \/ k.word = "server" /\ \E s : Whole!Continue(w.next, s)
      \/ /\ k.word = "server" /\ At(t, q) # Ending /\ close # End(t)
         /\ \E s : Whole!Continue(close + 1, s)
      \/ \E s : Whole!Open("mcp auth", k.next, s)
  <2>1. Quote # Ending
    BY Zenon DEF Ending, Quote
  <2>. HIDE DEF close
  <2>. QED  BY <1>1, <1>2, <2>1, Zenon DEF Whole!Mcp, Quote
<1>7. "server" # Nothing
  BY Zenon DEF Nothing
<1>8. CASE k.word = "server" /\ \E s : Whole!Continue(w.next, s)
  <2>1. w.next > pos
    BY <1>1, <1>3, <1>4, <1>7, <1>8
  <2>. QED  BY <1>4, <1>8, <2>1, ContinueMoves DEF t
<1>9. CASE /\ k.word = "server" /\ At(t, q) # Ending /\ close # End(t)
           /\ \E s : Whole!Continue(close + 1, s)
  <2>1. q + 1 \in 1 .. End(t) /\ q + 1 > pos
    <3>1. q # End(t)
      BY <1>5, <1>9, <1>3, EndIs
    <3>. QED  BY <1>1, <1>3, <1>5, <1>7, <1>9, <3>1
  <2>2. close \in q + 1 .. End(t)
    BY <1>3, <2>1, FirstIs
  <2>. HIDE DEF close
  <2>3. close + 1 \in 1 .. End(t) /\ close + 1 > pos
    BY <1>3, <1>5, <1>9, <2>1, <2>2
  <2>. QED  BY <1>9, <2>3, ContinueMoves DEF t
<1>. HIDE DEF close
<1>10. CASE \E s : Whole!Open("mcp auth", k.next, s)
  <2>. DEFINE b == "mcp auth"
  <2>. HIDE DEF b
  <2>1. \E s : Whole!Open(b, k.next, s)
    BY <1>10, Zenon DEF b
  <2>. QED  BY <1>1, <2>1, OpenTurns DEF t
<1>. QED  BY <1>6, <1>8, <1>9, <1>10, StopEnds, Zenon

LEMMA ProxyCacheTurns ==
    ASSUME Started, Whole!ProxyCache
    PROVE  (Moved /\ ~AtEnd) \/ Ended \/ Stood
<1>. DEFINE t == file.text
            k == Word(t, pos)
            v == Word(t, k.next)
<1>1. /\ Whole!Word(pos) = k /\ Whole!Word(k.next) = v
      /\ v.next \in 1 .. End(t)
      /\ k.word # Nothing => v.next > pos
  BY Reads
<1>2. Whole!Rest(k.next) = Rest(t, k.next)
  BY ReadersOfWhole
<1>3. Whole!In("proxy-cache") /\ ~Whole!Expected(pos, Closing)
  BY Zenon DEF Whole!ProxyCache, Closing
<1>. HIDE DEF v
<1>4. \/ Whole!Stop("error")
      \/ k.word # Nothing /\ \E s : Whole!Continue(v.next, s)
      \/ \E s : Whole!Continue(Rest(t, k.next).next, s)
  <2>1. /\ "allow" # Nothing /\ "deny" # Nothing /\ "max-redirects" # Nothing
        /\ "allow-private-ips" # Nothing /\ "allow-redirects" # Nothing
        /\ \A x \in Whole!Settings : x # Nothing
    BY Zenon DEF Nothing, Whole!Settings
  <2>. HIDE DEF k
  <2>. QED  BY <1>1, <1>2, <2>1, Zenon DEF Whole!ProxyCache
<1>5. block = "proxy-cache"
  BY <1>3 DEF Whole!In
<1>6. CASE \E s : Whole!Continue(Rest(t, k.next).next, s)
  BY <1>3, <1>5, <1>6, LineTurns
<1>7. k.word # Nothing => ~AtEnd
  BY ReadAtEnd DEF Started, AtEnd
<1>. HIDE DEF k
<1>. QED  BY <1>1, <1>4, <1>6, <1>7, StopEnds, ContinueMoves

LEMMA LimitsTurns ==
    ASSUME Started, Whole!Limits
    PROVE  (Moved /\ ~AtEnd /\ ~AtBrace) \/ Stood
<1>. DEFINE t == file.text
            k == Word(t, pos)
            v == Word(t, k.next)
<1>1. /\ Whole!Word(pos) = k /\ Whole!Word(k.next) = v
      /\ v.next \in 1 .. End(t) /\ v.next \in k.next .. End(t)
      /\ k.word # Nothing => v.next > pos
      /\ k.next \in pos .. End(t) /\ k.next \in 1 .. End(t)
  BY Reads
<1>2. Whole!In("limits") /\ ~Whole!Expected(pos, Closing)
  BY Zenon DEF Whole!Limits, Closing
<1>3. \E s : Whole!Continue(v.next, s)
  <2>. HIDE DEF k, v
  <2>. QED  BY <1>1, Zenon DEF Whole!Limits
<1>4. /\ t \in Seq(Lexemes) /\ pos \in 1 .. End(t) /\ Ending \notin Lexemes /\ file' = file
      /\ End(t) \in Nat
  BY EndIs DEF Started
<1>5. /\ result = "parsing" /\ list = {} /\ block = "limits"
      /\ pos' = v.next /\ block' = block /\ list' = list /\ result' = result
  BY <1>2, <1>3 DEF Whole!In, Whole!Continue
<1>6. At(t, Skip(t, pos)) # Closing
  BY <1>2, ReadersOfWhole
<1>7. CASE Skip(t, pos) = End(t)
  <2>1. v.next = End(t)
    BY <1>7, ReadAtEnd DEF Started
  <2>. HIDE DEF v
  <2>. QED  BY <1>5, <1>7, <2>1, LoopStands
<1>8. CASE Skip(t, pos) # End(t) /\ At(t, Skip(t, pos)) = Opening
  <2>. DEFINE q == Skip(t, pos)
  <2>0. q \in 1 .. End(t) /\ q \in pos .. End(t) /\ pos \in Nat
    BY <1>4, WordIs
  <2>. HIDE DEF t
  <2>1. k = [word |-> Nothing, next |-> q]
    BY <1>8, Zenon DEF Word
  <2>2. Skip(t, q) = q
    <3>1. ~Blank(t, q, q)
      <4>1. Opening \notin {"\n", "#"} /\ "#" \in {"\n", "#"}
        BY Zenon DEF Opening
      <4>2. \A c \in q .. q : c = q
        BY <2>0
      <4>. HIDE DEF q
      <4>3. At(t, q) \notin {"\n", "#"}
        BY <1>8, <4>1, Zenon DEF q
      <4>. QED  BY <4>1, <4>2, <4>3, Zenon DEF Blank
    <3>. HIDE DEF q
    <3>2. Skip(t, q) \in q .. End(t) /\ \A r \in q .. Skip(t, q) - 1 : Blank(t, q, r)
      BY <1>4, <2>0, SkipIs
    <3>3. q \notin q .. Skip(t, q) - 1
      BY <3>1, <3>2
    <3>. QED  BY <1>4, <2>0, <3>2, <3>3
  <2>3. v.next = q
    <3>1. k.next = q
      BY <2>1
    <3>2. v = [word |-> Nothing, next |-> q]
      BY <1>8, <2>2, <3>1, Zenon DEF Word
    <3>. QED  BY <3>2
  <2>. HIDE DEF k, v
  <2>4. StuckAt(t, pos, block, list, result)
    BY <1>5, <1>8, Zenon DEF StuckAt
  <2>5. pos' = q
    BY <1>5, <2>3
  <2>6. StuckAt(t, pos', block', list', result')
    BY <1>5, <1>8, <2>2, <2>5 DEF StuckAt
  <2>. HIDE DEF q
  <2>7. file'.text = t
    BY <1>4 DEF t
  <2>. QED  BY <2>0, <2>4, <2>5, <2>6, <2>7, StuckIs DEF Stood, t
<1>9. CASE Skip(t, pos) # End(t) /\ At(t, Skip(t, pos)) # Opening
  <2>1. k.next = Skip(t, pos) + 1
    BY <1>4, <1>6, <1>9, WordIs
  <2>2. Skip(t, pos) \in pos .. End(t) /\ pos \in Nat
    BY <1>4, WordIs
  <2>. HIDE DEF k, v, t
  <2>3. v.next > pos
    BY <1>1, <1>4, <2>1, <2>2
  <2>. QED  BY <1>1, <1>5, <1>9, <2>3 DEF Moved, AtEnd, AtBrace, t
<1>. QED  BY <1>7, <1>8, <1>9

LEMMA TierListTurns ==
    ASSUME Started, Whole!TierList
    PROVE  Moved \/ Ended
<1>. DEFINE t == file.text
            k == Word(t, pos)
            v == Word(t, k.next)
<1>1. Whole!Word(pos) = k /\ k.next \in pos .. End(t)
  BY Reads
<1>2. \/ Whole!Stop("error")
      \/ Whole!Expected(k.next, "[") /\ pos' = Whole!Skip(k.next) + 1
  <2>. HIDE DEF k
  <2>. QED  BY <1>1, Zenon DEF Whole!TierList
<1>3. CASE Whole!Expected(k.next, "[") /\ pos' = Whole!Skip(k.next) + 1
  <2>1. At(t, Skip(t, k.next)) = "[" /\ pos' = Skip(t, k.next) + 1
    BY <1>3, ReadersOfWhole, Zenon
  <2>2. "[" # Ending
    BY Zenon DEF Ending
  <2>. HIDE DEF k
  <2>3. Skip(t, k.next) + 1 \in 1 .. End(t) /\ Skip(t, k.next) + 1 > pos
    BY <1>1, <2>1, <2>2, PastExpected DEF Started
  <2>. QED  BY <2>1, <2>3 DEF Moved
<1>. QED  BY <1>2, <1>3, StopEnds

(* Where an item ends, and where the turn that reads it. *)
LEMMA ItemIs ==
    ASSUME Ending \notin Lexemes, NEW t \in Seq(Lexemes), NEW p \in 1 .. End(t),
           Skip(t, p) # End(t), At(t, Skip(t, p)) # Bracket
    PROVE  LET e == First(t, Skip(t, p), Separators)
           IN  /\ e \in 1 .. End(t)
               /\ IF At(t, e) = Comma THEN e + 1 \in 1 .. End(t) /\ e + 1 > p ELSE e > p
<1>. DEFINE q == Skip(t, p)
            e == First(t, q, Separators)
<1>1. q \in p .. End(t) /\ q \in 1 .. End(t) /\ p \in Nat /\ End(t) \in Nat /\ 1 <= p
  BY WordIs, EndIs
<1>2. e \in q .. End(t) /\ (e = End(t) \/ At(t, e) \in Separators)
  <2>. HIDE DEF q
  <2>. QED  BY <1>1, FirstIs
<1>. HIDE DEF q, e
<1>3. At(t, e) = Comma => e # End(t)
  <2>1. Comma # Ending
    BY Zenon DEF Ending, Comma
  <2>2. End(t) \in 1 .. End(t)
    BY <1>1
  <2>3. At(t, End(t)) = Ending
    BY <2>2, EndIs
  <2>. QED  BY <2>1, <2>3, Zenon
<1>4. At(t, e) # Comma => e # q
  <2>. SUFFICES ASSUME At(t, e) # Comma, e = q PROVE FALSE
    OBVIOUS
  <2>1. At(t, q) \in Separators
    BY <1>2, Zenon DEF q
  <2>. QED  BY <2>1, Zenon DEF Separators, q
<1>5. e \in 1 .. End(t)
  BY <1>1, <1>2
<1>6. e # End(t) => e + 1 \in 1 .. End(t) /\ e + 1 > p
  BY <1>1, <1>2
<1>7. e # q => e > p
  BY <1>1, <1>2
<1>. QED  BY <1>3, <1>4, <1>5, <1>6, <1>7, Zenon DEF e, q

LEMMA ListItemTurns ==
    ASSUME Started, Whole!ListItem
    PROVE  (Moved /\ ~AtEnd) \/ Stood
<1>. DEFINE t == file.text
            q == Skip(t, pos)
            e == First(t, q, Separators)
<1>1. /\ Whole!Skip(pos) = q /\ Whole!First(q, Separators) = e /\ \A p : Whole!At(p) = At(t, p)
  BY ReadersOfWhole
<1>2. /\ result = "parsing" /\ list # {} /\ list' # {} /\ result' = result
      /\ At(t, q) # Bracket
      /\ pos' = IF At(t, e) = Comma THEN e + 1 ELSE e
  <2>. HIDE DEF q, e
  <2>1. result = "parsing" /\ result' = result /\ At(t, q) # Bracket /\ list # {}
    BY <1>1, Zenon DEF Whole!ListItem, Comma, Bracket
  <2>2. pos' = IF At(t, e) = Comma THEN e + 1 ELSE e
    BY <1>1, Zenon DEF Whole!ListItem, Separators, Comma, Bracket
  <2>3. list' # {}
    BY Zenon DEF Whole!ListItem, Comma, Bracket
  <2>. QED  BY <2>1, <2>2, <2>3
<1>3. t \in Seq(Lexemes) /\ pos \in 1 .. End(t) /\ Ending \notin Lexemes
  BY DEF Started
<1>4. CASE q = End(t)
  <2>1. e = End(t)
    BY <1>4, ReadAtEnd DEF Started
  <2>2. At(t, End(t)) = Ending /\ Ending # Comma
    <3>1. End(t) \in 1 .. End(t)
      BY <1>3, EndIs
    <3>2. At(t, End(t)) = Ending
      BY <1>3, <3>1, EndIs
    <3>. QED  BY <3>2, Zenon DEF Ending, Comma
  <2>. HIDE DEF e
  <2>3. pos' = End(t)
    BY <1>2, <2>1, <2>2, Zenon
  <2>. QED  BY <1>2, <1>4, <2>3, LoopStands
<1>5. CASE q # End(t)
  <2>. HIDE DEF t
  <2>1. /\ e \in 1 .. End(t)
        /\ IF At(t, e) = Comma THEN e + 1 \in 1 .. End(t) /\ e + 1 > pos ELSE e > pos
    BY <1>2, <1>3, <1>5, ItemIs
  <2>0. ~AtEnd
    BY <1>5 DEF AtEnd, t
  <2>. HIDE DEF e, q
  <2>2. pos' \in 1 .. End(t) /\ pos' > pos
    BY <1>2, <2>1, Zenon
  <2>. QED  BY <2>0, <2>2 DEF Moved, t
<1>. QED  BY <1>4, <1>5

LEMMA ListEndTurns ==
    ASSUME Started, Whole!ListEnd
    PROVE  Moved \/ Ended
<1>1. \/ Whole!Stop("error")
      \/ Whole!Expected(pos, Bracket) /\ pos' = Whole!Skip(pos) + 1
  BY Zenon DEF Whole!ListEnd, Bracket
<1>. QED  BY <1>1, StopEnds, CloseMoves, Closers

(* Every turn of any loop; the text stays. *)
LEMMA FileStays ==
    ASSUME Whole!Next
    PROVE  file' = file /\ result = "parsing"
<1>1. CASE Whole!TopLevel \/ Whole!Site \/ Whole!Close
  BY <1>1, Zenon DEF Whole!TopLevel, Whole!Site, Whole!Directive, Whole!CloseSite, Whole!Close,
                     Whole!In, Whole!Open, Whole!Stop, Whole!Continue
<1>2. CASE Whole!Commands \/ Whole!Meta \/ Whole!Mcp \/ Whole!ProxyCache \/ Whole!Limits
  BY <1>2, Zenon DEF Whole!Commands, Whole!Meta, Whole!Mcp, Whole!ProxyCache, Whole!Limits,
                     Whole!In, Whole!Open, Whole!Stop, Whole!Continue
<1>3. CASE Whole!TierList \/ Whole!ListItem \/ Whole!ListEnd
  BY <1>3, Zenon DEF Whole!TierList, Whole!ListItem, Whole!ListEnd, Whole!In, Whole!Stop
<1>. QED  BY <1>1, <1>2, <1>3 DEF Whole!Next

LEMMA EveryTurn ==
    ASSUME Started, Whole!Next
    PROVE  Moved \/ Ended \/ Stood
BY TopLevelTurns, SiteTurns, CloseTurns, CommandsTurns, MetaTurns, McpTurns, ProxyCacheTurns,
   LimitsTurns, TierListTurns, ListItemTurns, ListEndTurns, Zenon DEF Whole!Next

(* No list is read in the limits. *)
ListBlock == list # {} => block # "limits"

LEMMA ListBlockStays == ListBlock /\ Whole!Next => ListBlock'
<1>. SUFFICES ASSUME ListBlock, Whole!Next PROVE ListBlock'
  OBVIOUS
<1>1. CASE Whole!TopLevel \/ Whole!Site \/ Whole!Close \/ Whole!ListEnd
  <2>1. list' = {} \/ (list' = list /\ block' = block)
    BY <1>1, Zenon DEF Whole!TopLevel, Whole!Site, Whole!Directive, Whole!CloseSite, Whole!Close,
                       Whole!ListEnd, Whole!In, Whole!Open, Whole!Stop, Whole!Continue
  <2>. QED  BY <2>1 DEF ListBlock
<1>2. CASE Whole!Commands \/ Whole!Meta \/ Whole!Mcp \/ Whole!ProxyCache \/ Whole!Limits
  <2>1. list' = {}
    BY <1>2, Zenon DEF Whole!Commands, Whole!Meta, Whole!Mcp, Whole!ProxyCache, Whole!Limits,
                       Whole!In, Whole!Open, Whole!Stop, Whole!Continue
  <2>. QED  BY <2>1 DEF ListBlock
<1>3. CASE Whole!TierList
  <2>1. block' = block /\ block # "limits"
    BY <1>3, Zenon DEF Whole!TierList, Whole!In, Whole!Stop
  <2>. QED  BY <2>1 DEF ListBlock
<1>4. CASE Whole!ListItem
  <2>1. block' = block /\ list # {}
    BY <1>4, Zenon DEF Whole!ListItem
  <2>. QED  BY <2>1 DEF ListBlock
<1>. QED  BY <1>1, <1>2, <1>3, <1>4 DEF Whole!Next

(* A stuck parse has no turn out of its loop. *)
LEMMA StuckStays ==
    ASSUME Started, ListBlock, Whole!Stuck, Whole!Next
    PROVE  Ended \/ Stood
<1>1. \/ AtEnd /\ (list # {} \/ block \in {"commands", "meta", "proxy-cache", "limits"})
      \/ block = "limits" /\ AtBrace
  BY StuckIs, Zenon DEF StuckAt, AtEnd, AtBrace
<1>2. /\ Whole!Expected(pos, Closing) <=> At(file.text, Skip(file.text, pos)) = Closing
      /\ Whole!Expected(pos, Bracket) <=> At(file.text, Skip(file.text, pos)) = Bracket
  BY ReadersOfWhole
<1>3. AtEnd => At(file.text, Skip(file.text, pos)) = Ending
  <2>1. Skip(file.text, pos) \in 1 .. End(file.text)
    BY WordIs DEF Started
  <2>. QED  BY <2>1, EndIs DEF Started, AtEnd
<1>4. ~Whole!Expected(pos, Closing) /\ ~Whole!Expected(pos, Bracket)
  <2>1. /\ Closing # Ending /\ Bracket # Ending
        /\ Closing # Opening /\ Bracket # Opening
    BY Zenon DEF Closing, Bracket, Ending, Opening
  <2>. QED  BY <1>1, <1>2, <1>3, <2>1, Zenon DEF AtBrace
<1>5. ~Whole!Close /\ ~Whole!ListEnd
  BY <1>4, Zenon DEF Whole!Close, Whole!ListEnd, Closing, Bracket
<1>6. CASE list # {}
  <2>1. AtEnd
    BY <1>1, <1>6 DEF ListBlock
  <2>2. Whole!ListItem
    BY <1>5, <1>6, Zenon DEF Whole!Next, Whole!TopLevel, Whole!Site, Whole!Commands, Whole!Meta,
       Whole!Mcp, Whole!ProxyCache, Whole!Limits, Whole!TierList, Whole!In
  <2>. QED  BY <2>1, <2>2, ListItemTurns
<1>7. CASE list = {}
  <2>1. block \in {"commands", "meta", "proxy-cache", "limits"}
    BY <1>1, <1>7
  <2>2. ~Whole!ListItem
    BY <1>7, Zenon DEF Whole!ListItem
  <2>3. ~Whole!TopLevel /\ ~Whole!Site /\ ~Whole!Mcp /\ ~Whole!TierList
    BY <2>1, Zenon DEF Whole!TopLevel, Whole!Site, Whole!Mcp, Whole!TierList, Whole!In
  <2>4. CASE Whole!Limits
    <3>1. block = "limits"
      BY <2>4, Zenon DEF Whole!Limits, Whole!In
    <3>2. AtEnd \/ AtBrace
      BY <1>1
    <3>. QED  BY <2>4, <3>2, LimitsTurns
  <2>5. CASE Whole!Commands \/ Whole!Meta \/ Whole!ProxyCache
    <3>1. block # "limits"
      BY <2>5, Zenon DEF Whole!Commands, Whole!Meta, Whole!ProxyCache, Whole!In
    <3>2. AtEnd
      BY <1>1, <3>1
    <3>. QED  BY <2>5, <3>2, CommandsTurns, MetaTurns, ProxyCacheTurns
  <2>. QED  BY <1>5, <2>2, <2>3, <2>4, <2>5 DEF Whole!Next
<1>. QED  BY <1>6, <1>7

(* The position stays within the text. *)
Within == file.text \in Seq(Lexemes) /\ pos \in 1 .. End(file.text) /\ ListBlock

(* A parse is within its text, at the beginning and after every turn. *)
LEMMA WithinInit == Readable /\ Whole!Init => Within
<1>. SUFFICES ASSUME Readable, Whole!Init PROVE Within
  OBVIOUS
<1>1. file.text \in Seq(Lexemes) /\ pos = 1 /\ list = {}
  <2>1. file \in Configs /\ pos = 1 /\ list = {}
    BY Zenon DEF Whole!Init
  <2>. QED  BY <2>1 DEF Readable
<1>2. End(file.text) \in Nat /\ 1 \in 1 .. End(file.text)
  BY <1>1 DEF End
<1>. QED  BY <1>1, <1>2 DEF Within, ListBlock

LEMMA WithinStep ==
    ASSUME Readable, Within, Whole!Next
    PROVE  /\ Within'
           /\ (Moved /\ ~Whole!Stuck) \/ Ended \/ Stood
<1>1. Started /\ ListBlock
  BY FileStays DEF Started, Within, Readable
<1>2. (Moved /\ ~Whole!Stuck) \/ Ended \/ Stood
  BY <1>1, EveryTurn, StuckStays
<1>3. file'.text = file.text
  BY <1>1 DEF Started
<1>4. pos' \in 1 .. End(file.text)
  BY <1>2 DEF Within, Moved, Ended, Stood
<1>5. Within'
  BY <1>1, <1>3, <1>4, ListBlockStays DEF Within
<1>. QED  BY <1>2, <1>5

(* Every turn of the parser's loops moves it on in the file or ends the     *)
(* parse, unless it is in a loop of Stuck, and that one it does not leave.  *)
TurnsMoveOn ==
    [][\/ pos' > pos /\ ~Whole!Stuck
       \/ result' # "parsing"
       \/ Whole!Stuck /\ Whole!Stuck']_(Whole!vars)

(* So a parse takes at most as many turns as the file has lexemes, unless   *)
(* it comes into one of the loops of Stuck, for any file: what is left of   *)
(* EveryParseEnds without fairness (parser.go).                             *)
THEOREM ParserMovesOn ==
    ASSUME Readable
    PROVE  Whole!Spec => [](pos \in 1 .. Len(file.text) + 1) /\ TurnsMoveOn
<1>1. Whole!Init => Within
  BY WithinInit
<1>2. Within /\ [Whole!Next]_(Whole!vars) => Within'
  <2>1. Within /\ UNCHANGED Whole!vars => Within'
    BY DEF Whole!vars, Within, ListBlock
  <2>. QED  BY <2>1, WithinStep
<1>3. Within => pos \in 1 .. Len(file.text) + 1
  BY DEF Within, End
<1>4. Within /\ [Whole!Next]_(Whole!vars)
        => [\/ pos' > pos /\ ~Whole!Stuck
            \/ result' # "parsing"
            \/ Whole!Stuck /\ Whole!Stuck']_(Whole!vars)
  <2>. SUFFICES ASSUME Within, Whole!Next
                PROVE  \/ pos' > pos /\ ~Whole!Stuck
                       \/ result' # "parsing"
                       \/ Whole!Stuck /\ Whole!Stuck'
    OBVIOUS
  <2>1. (Moved /\ ~Whole!Stuck) \/ Ended \/ Stood
    BY WithinStep
  <2>. QED  BY <2>1 DEF Moved, Ended, Stood
<1>. QED  BY <1>1, <1>2, <1>3, <1>4, PTL DEF Whole!Spec, TurnsMoveOn

-----------------------------------------------------------------------------
(* What is read of a text and of a text that begins it. *)

Begins(c, t) == Len(c) <= Len(t) /\ \A i \in 1 .. Len(c) : c[i] = t[i]

(* Before the end of the shorter text both read the same. *)
LEMMA AtSame ==
    ASSUME NEW c \in Seq(Lexemes), NEW t \in Seq(Lexemes), Begins(c, t)
    PROVE  /\ End(c) \in Nat /\ End(t) \in Nat /\ End(c) <= End(t)
           /\ \A q \in 1 .. End(c) : q # End(c) => At(c, q) = At(t, q)
BY DEF Begins, At, End

LEMMA FirstSame ==
    ASSUME NEW c \in Seq(Lexemes), NEW t \in Seq(Lexemes), Begins(c, t),
           NEW p \in 1 .. End(c), NEW l, First(c, p, l) # End(c)
    PROVE  First(t, p, l) = First(c, p, l)
<1>. DEFINE q == First(c, p, l)
            u == First(t, p, l)
<1>1. /\ End(c) \in Nat /\ End(t) \in Nat /\ End(c) <= End(t) /\ p \in Nat /\ 1 <= p
      /\ \A r \in 1 .. End(c) : r # End(c) => At(c, r) = At(t, r)
  BY AtSame
<1>2. q \in p .. End(c) /\ At(c, q) \in l /\ \A r \in p .. q - 1 : At(c, r) \notin l
  BY FirstIs
<1>3. p \in 1 .. End(t)
  BY <1>1
<1>4. u \in p .. End(t) /\ (u = End(t) \/ At(t, u) \in l) /\ \A r \in p .. u - 1 : At(t, r) \notin l
  BY <1>3, FirstIs
<1>. HIDE DEF q, u
<1>5. q # End(c)
  BY DEF q
<1>6. At(t, q) \in l
  BY <1>1, <1>2, <1>5
<1>7. ~(q < u)
  BY <1>1, <1>2, <1>4, <1>6
<1>8. ~(u < q)
  <2>. SUFFICES ASSUME u < q PROVE FALSE
    OBVIOUS
  <2>1. u \in p .. q - 1 /\ u # End(c) /\ u \in 1 .. End(c) /\ u # End(t)
    BY <1>1, <1>2, <1>4
  <2>2. At(c, u) = At(t, u) /\ At(t, u) \in l
    BY <1>1, <1>4, <2>1
  <2>. QED  BY <1>2, <2>1, <2>2
<1>9. u = q
  BY <1>1, <1>2, <1>4, <1>7, <1>8
<1>. QED  BY <1>9 DEF u, q

LEMMA SkipSame ==
    ASSUME NEW c \in Seq(Lexemes), NEW t \in Seq(Lexemes), Begins(c, t),
           NEW p \in 1 .. End(c), Skip(c, p) # End(c)
    PROVE  Skip(t, p) = Skip(c, p) /\ At(t, Skip(t, p)) = At(c, Skip(c, p))
<1>. DEFINE q == Skip(c, p)
            u == Skip(t, p)
<1>1. /\ End(c) \in Nat /\ End(t) \in Nat /\ End(c) <= End(t) /\ p \in Nat /\ 1 <= p
      /\ \A r \in 1 .. End(c) : r # End(c) => At(c, r) = At(t, r)
  BY AtSame
<1>2. q \in p .. End(c) /\ ~Blank(c, p, q) /\ \A r \in p .. q - 1 : Blank(c, p, r)
  BY SkipIs
<1>3. p \in 1 .. End(t)
  BY <1>1
<1>4. u \in p .. End(t) /\ (u = End(t) \/ ~Blank(t, p, u)) /\ \A r \in p .. u - 1 : Blank(t, p, r)
  BY <1>3, SkipIs
<1>5. ASSUME NEW r \in p .. q PROVE Blank(c, p, r) <=> Blank(t, p, r)
  <2>. HIDE DEF q
  <2>0. q # End(c)
    BY DEF q
  <2>1. \A x \in p .. r : At(c, x) = At(t, x)
    <3>1. \A x \in p .. r : x \in 1 .. End(c) /\ x # End(c)
      BY <1>1, <1>2, <1>5, <2>0
    <3>. QED  BY <1>1, <3>1
  <2>2. r \in p .. r /\ \A x \in p .. r : \A y \in x .. r : y \in p .. r
    BY <1>1, <1>2, <1>5
  <2>. QED  BY <2>1, <2>2, Zenon DEF Blank
<1>. HIDE DEF q, u
<1>6. q # End(c)
  BY DEF q
<1>7. ~(q < u)
  <2>1. q \in p .. q
    BY <1>1, <1>2
  <2>2. ~Blank(t, p, q)
    BY <1>2, <1>5, <2>1
  <2>3. q < u => q \in p .. u - 1
    BY <1>1, <1>2, <1>4
  <2>. QED  BY <1>4, <2>2, <2>3
<1>8. ~(u < q)
  <2>. SUFFICES ASSUME u < q PROVE FALSE
    OBVIOUS
  <2>1. u \in p .. q - 1 /\ u \in p .. q /\ u # End(t)
    BY <1>1, <1>2, <1>4
  <2>2. Blank(c, p, u) /\ ~Blank(t, p, u)
    BY <1>2, <1>4, <2>1
  <2>. QED  BY <1>5, <2>1, <2>2
<1>9. u = q
  BY <1>1, <1>2, <1>4, <1>7, <1>8
<1>10. q \in 1 .. End(c)
  BY <1>1, <1>2
<1>11. At(t, q) = At(c, q)
  BY <1>1, <1>6, <1>10
<1>. QED  BY <1>9, <1>11 DEF u, q

LEMMA WordSame ==
    ASSUME NEW c \in Seq(Lexemes), NEW t \in Seq(Lexemes), Begins(c, t),
           NEW p \in 1 .. End(c), Skip(c, p) # End(c)
    PROVE  Word(t, p) = Word(c, p)
<1>1. Skip(t, p) = Skip(c, p) /\ At(t, Skip(t, p)) = At(c, Skip(c, p))
  BY SkipSame
<1>. QED  BY <1>1, Zenon DEF Word

LEMMA PartSame ==
    ASSUME NEW c \in Seq(Lexemes), NEW t \in Seq(Lexemes), Begins(c, t),
           NEW p \in 1 .. End(c), NEW q \in 1 .. End(c)
    PROVE  SubSeq(t, p, q - 1) = SubSeq(c, p, q - 1)
<1>1. Len(c) \in Nat /\ p \in Nat /\ q \in Nat /\ 1 <= p /\ q - 1 <= Len(c)
  BY DEF End
<1>. DEFINE m == q - 1
            x == SubSeq(c, p, m)
            y == SubSeq(t, p, m)
<1>2. \A i \in p .. m : c[i] \in Lexemes /\ t[i] = c[i]
  BY <1>1 DEF Begins
<1>3. m \in Int /\ \A i \in 1 .. m - p + 1 : p + i - 1 \in p .. m
  BY <1>1
<1>. HIDE DEF m
<1>4. /\ x \in Seq(Lexemes) /\ Len(x) = IF p <= m THEN m - p + 1 ELSE 0
      /\ \A i \in 1 .. m - p + 1 : x[i] = c[p + i - 1]
  BY <1>1, <1>2, <1>3, SubSeqProperties
<1>5. /\ y \in Seq(Lexemes) /\ Len(y) = IF p <= m THEN m - p + 1 ELSE 0
      /\ \A i \in 1 .. m - p + 1 : y[i] = t[p + i - 1]
  BY <1>1, <1>2, <1>3, SubSeqProperties
<1>6. \A i \in 1 .. m - p + 1 : x[i] = y[i]
  BY <1>2, <1>3, <1>4, <1>5
<1>7. \A i \in 1 .. Len(x) : i \in 1 .. m - p + 1
  BY <1>1, <1>3, <1>4
<1>. HIDE DEF x, y
<1>8. x = y
  BY <1>4, <1>5, <1>6, <1>7, SeqEqual
<1>. QED  BY <1>8 DEF x, y, m

LEMMA RestSame ==
    ASSUME NEW c \in Seq(Lexemes), NEW t \in Seq(Lexemes), Begins(c, t),
           NEW p \in 1 .. End(c), Rest(c, p).next # End(c)
    PROVE  Rest(t, p) = Rest(c, p)
<1>. DEFINE l == {"\n", "#"}
            q == First(c, p, l)
<1>1. Rest(c, p).next = q
  BY DEF Rest
<1>2. First(t, p, l) = q
  <2>. HIDE DEF l
  <2>. QED  BY <1>1, FirstSame
<1>3. q \in 1 .. End(c)
  <2>1. q \in p .. End(c) /\ End(c) \in Nat
    BY AtSame, FirstIs
  <2>. HIDE DEF q
  <2>. QED  BY <2>1
<1>4. SubSeq(t, p, q - 1) = SubSeq(c, p, q - 1)
  <2>. HIDE DEF q
  <2>. QED  BY <1>3, PartSame
<1>. QED  BY <1>2, <1>4, Zenon DEF Rest

-----------------------------------------------------------------------------
(* A turn of two parses that stand at the same place. *)

Together ==
    /\ Ending \notin Lexemes
    /\ file.text \in Seq(Lexemes) /\ cfile.text \in Seq(Lexemes) /\ Begins(cfile.text, file.text)
    /\ pos \in 1 .. End(cfile.text)
    /\ \A a, b \in list : a = b
    /\ cpos = pos /\ cblock = block /\ clist = list
    /\ csite = site /\ csites = sites /\ cresult = result

SameTurn ==
    /\ cpos' \in 1 .. Cut!End
    /\ cpos' = pos' /\ cblock' = block' /\ clist' = list'
    /\ csite' = site' /\ csites' = sites' /\ cresult' = result'

CutStops == cresult' \in {"ok", "error", "panic"} /\ csites' = csites

CutComesToEnd == csites' = csites /\ cpos' = Cut!End

Result == SameTurn \/ CutStops \/ CutComesToEnd

(* What the readers of two such parses find, up to the end of the cut file. *)
LEMMA ReadsTogether ==
    ASSUME Together
    PROVE  /\ Cut!End \in Nat /\ pos \in 1 .. Cut!End
           /\ Cut!Skip(pos) # Cut!End => Whole!Skip(pos) # Whole!End
           /\ \A p \in 1 .. Cut!End :
                /\ Cut!Skip(p) \in p .. Cut!End
                /\ Cut!Word(p).next \in 1 .. Cut!End
                /\ Cut!Rest(p).next \in 1 .. Cut!End /\ Cut!Rest(p).words \in Seq(Lexemes)
                /\ \A l : Cut!First(p, l) \in p .. Cut!End
                /\ Cut!Skip(p) # Cut!End =>
                     /\ Whole!Skip(p) = Cut!Skip(p) /\ Whole!Word(p) = Cut!Word(p)
                     /\ \A l : Whole!Expected(p, l) <=> Cut!Expected(p, l)
                /\ Cut!Skip(p) = Cut!End =>
                     /\ Cut!Word(p).word = Nothing /\ Cut!Word(p).next = Cut!End
                     /\ \A l : l # Ending => ~Cut!Expected(p, l)
                /\ Cut!Rest(p).next # Cut!End => Whole!Rest(p) = Cut!Rest(p)
                /\ \A l : Cut!First(p, l) # Cut!End => Whole!First(p, l) = Cut!First(p, l)
<1>. DEFINE c == cfile.text
            t == file.text
<1>1. /\ c \in Seq(Lexemes) /\ t \in Seq(Lexemes) /\ Begins(c, t) /\ pos \in 1 .. End(c)
      /\ Ending \notin Lexemes
  BY DEF Together
<1>. HIDE DEF c, t
<1>2. End(c) \in Nat /\ End(t) \in Nat /\ End(c) <= End(t)
  BY <1>1, AtSame
<1>3. Skip(c, pos) # End(c) => Skip(t, pos) # End(t)
  <2>1. Skip(c, pos) # End(c) => Skip(t, pos) = Skip(c, pos)
    BY <1>1, SkipSame
  <2>2. Skip(c, pos) \in pos .. End(c) /\ pos \in Nat
    BY <1>1, <1>2, SkipIs
  <2>. QED  BY <1>2, <2>1, <2>2
<1>4. ASSUME NEW p \in 1 .. End(c)
      PROVE  /\ Skip(c, p) \in p .. End(c)
             /\ Word(c, p).next \in 1 .. End(c)
             /\ Rest(c, p).next \in 1 .. End(c) /\ Rest(c, p).words \in Seq(Lexemes)
             /\ \A l : First(c, p, l) \in p .. End(c)
  BY <1>1, <1>4, WordIs, RestIs, FirstIs
<1>5. ASSUME NEW p \in 1 .. End(c), Skip(c, p) # End(c)
      PROVE  Skip(t, p) = Skip(c, p) /\ Word(t, p) = Word(c, p) /\ At(t, Skip(t, p)) = At(c, Skip(c, p))
  BY <1>1, <1>5, SkipSame, WordSame
<1>6. ASSUME NEW p \in 1 .. End(c), Skip(c, p) = End(c)
      PROVE  Word(c, p).word = Nothing /\ Word(c, p).next = End(c) /\ At(c, Skip(c, p)) = Ending
  <2>1. Word(c, p).word = Nothing /\ Word(c, p).next = End(c)
    BY <1>1, <1>6, WordIs
  <2>2. End(c) \in 1 .. End(c)
    BY <1>2, <1>6
  <2>3. At(c, End(c)) = Ending
    BY <1>1, <2>2, EndIs
  <2>. QED  BY <1>6, <2>1, <2>3
<1>7. ASSUME NEW p \in 1 .. End(c), Rest(c, p).next # End(c) PROVE Rest(t, p) = Rest(c, p)
  BY <1>1, <1>7, RestSame
<1>8. ASSUME NEW p \in 1 .. End(c), NEW l, First(c, p, l) # End(c) PROVE First(t, p, l) = First(c, p, l)
  BY <1>1, <1>8, FirstSame
<1>9. /\ Cut!End = End(c)
      /\ \A p : /\ Cut!Skip(p) = Skip(c, p)
                /\ Cut!Word(p) = Word(c, p)
                /\ Cut!Rest(p) = Rest(c, p)
                /\ \A l : Cut!First(p, l) = First(c, p, l)
                /\ \A l : Cut!Expected(p, l) <=> At(c, Skip(c, p)) = l
  BY ReadersOfCut DEF c
<1>10. /\ Whole!End = End(t)
       /\ \A p : /\ Whole!Skip(p) = Skip(t, p)
                 /\ Whole!Word(p) = Word(t, p)
                 /\ Whole!Rest(p) = Rest(t, p)
                 /\ \A l : Whole!First(p, l) = First(t, p, l)
                 /\ \A l : Whole!Expected(p, l) <=> At(t, Skip(t, p)) = l
  BY ReadersOfWhole DEF t
<1>11. Cut!End \in Nat /\ pos \in 1 .. Cut!End /\ (Cut!Skip(pos) # Cut!End => Whole!Skip(pos) # Whole!End)
  BY <1>1, <1>2, <1>3, <1>9, <1>10
<1>12. ASSUME NEW p \in 1 .. Cut!End
       PROVE  /\ Cut!Skip(p) \in p .. Cut!End
              /\ Cut!Word(p).next \in 1 .. Cut!End
              /\ Cut!Rest(p).next \in 1 .. Cut!End /\ Cut!Rest(p).words \in Seq(Lexemes)
              /\ \A l : Cut!First(p, l) \in p .. Cut!End
  BY <1>4, <1>9, <1>12
<1>13. ASSUME NEW p \in 1 .. Cut!End, Cut!Skip(p) # Cut!End
       PROVE  /\ Whole!Skip(p) = Cut!Skip(p) /\ Whole!Word(p) = Cut!Word(p)
              /\ \A l : Whole!Expected(p, l) <=> Cut!Expected(p, l)
  BY <1>5, <1>9, <1>10, <1>13
<1>14. ASSUME NEW p \in 1 .. Cut!End, Cut!Skip(p) = Cut!End
       PROVE  /\ Cut!Word(p).word = Nothing /\ Cut!Word(p).next = Cut!End
              /\ \A l : l # Ending => ~Cut!Expected(p, l)
  BY <1>6, <1>9, <1>14
<1>15. ASSUME NEW p \in 1 .. Cut!End, Cut!Rest(p).next # Cut!End PROVE Whole!Rest(p) = Cut!Rest(p)
  BY <1>7, <1>9, <1>10, <1>15
<1>16. ASSUME NEW p \in 1 .. Cut!End, NEW l, Cut!First(p, l) # Cut!End
       PROVE  Whole!First(p, l) = Cut!First(p, l)
  BY <1>8, <1>9, <1>10, <1>16
<1>. QED  BY <1>11, <1>12, <1>13, <1>14, <1>15, <1>16, Zenon

(* Each kind of turn that both can take. *)
LEMMA CutStop ==
    ASSUME NEW r \in {"ok", "error", "panic"}, Cut!Stop(r)
    PROVE  CutStops
BY DEF Cut!Stop, CutStops

LEMMA ContinueTogether ==
    ASSUME Together, NEW p \in 1 .. Cut!End, NEW s, Cut!Continue(p, s), Whole!Continue(p, s)
    PROVE  SameTurn
BY DEF Together, Cut!Continue, Whole!Continue, SameTurn

LEMMA ContinueToEnd ==
    ASSUME NEW p, p = Cut!End, NEW s, Cut!Continue(p, s)
    PROVE  CutComesToEnd
BY DEF Cut!Continue, CutComesToEnd

LEMMA OpenTogether ==
    ASSUME Together, NEW p \in 1 .. Cut!End, NEW b, NEW s, Cut!Open(b, p, s), Whole!Open(b, p, s)
    PROVE  SameTurn \/ CutStops
<1>. DEFINE open == Cut!Expected(p, Opening)
<1>1. CASE open
  <2>1. Cut!Skip(p) # Cut!End
    BY <1>1, ReadsTogether, Zenon DEF Opening, Ending
  <2>2. /\ Whole!Skip(p) = Cut!Skip(p) /\ Whole!Expected(p, Opening)
        /\ Cut!Skip(p) \in p .. Cut!End /\ Cut!End \in Nat
    BY <1>1, <2>1, ReadsTogether
  <2>3. /\ cblock' = b /\ cpos' = Cut!Skip(p) + 1 /\ csite' = s
        /\ clist' = clist /\ csites' = csites /\ cresult' = cresult
    BY <1>1, Zenon DEF Cut!Open, Opening
  <2>4. /\ block' = b /\ pos' = Cut!Skip(p) + 1 /\ site' = s
        /\ list' = list /\ sites' = sites /\ result' = result
    BY <2>2, Zenon DEF Whole!Open, Opening
  <2>5. Cut!Skip(p) + 1 \in 1 .. Cut!End
    BY <2>1, <2>2
  <2>. QED  BY <2>3, <2>4, <2>5 DEF SameTurn, Together
<1>2. CASE ~open
  <2>1. Cut!Stop("error")
    BY <1>2, Zenon DEF Cut!Open, Opening
  <2>. QED  BY <2>1, CutStop
<1>. QED  BY <1>1, <1>2

LEMMA CommandsTogether ==
    ASSUME Together, Cut!Skip(pos) # Cut!End, Cut!Commands, Whole!Commands
    PROVE  Result
<1>. DEFINE k == Cut!Word(pos)
            rest == Cut!Rest(k.next)
<1>1. /\ Whole!Word(pos) = k /\ Cut!Word(cpos) = k
      /\ rest.next \in 1 .. Cut!End /\ rest.words \in Seq(Lexemes)
      /\ rest.next # Cut!End => Whole!Rest(k.next) = rest
  <2>1. pos \in 1 .. Cut!End /\ k.next \in 1 .. Cut!End /\ Whole!Word(pos) = k /\ cpos = pos
    BY ReadsTogether DEF Together
  <2>. HIDE DEF k
  <2>. QED  BY <2>1, ReadsTogether DEF k
<1>2. csite = site /\ Cut!In("commands")
  BY Zenon DEF Cut!Commands, Together
<1>. HIDE DEF k, rest
<1>3. CASE rest.next = Cut!End
  <2>1. Cut!Stop("error") \/ \E s : Cut!Continue(rest.next, s)
    BY <1>1, Zenon DEF Cut!Commands, rest
  <2>. QED  BY <1>3, <2>1, CutStop, ContinueToEnd DEF Result
<1>4. CASE rest.next # Cut!End
  <2>1. Whole!Rest(k.next) = rest /\ Cut!Rest(k.next) = rest
    BY <1>1, <1>4 DEF rest
  <2>. DEFINE plain  == [site EXCEPT !.commands = Append(@, [type |-> k.word, method |-> "", route |-> rest.words])]
              called == [site EXCEPT !.commands =
                           Append(@, [type |-> k.word, method |-> rest.words[1], route |-> <<rest.words[2]>>])]
  <2>2. \/ k.word # "api-call" /\ Cut!Continue(rest.next, plain)
        \/ k.word = "api-call" /\ Len(rest.words) >= 2 /\ Cut!Continue(rest.next, called)
        \/ k.word = "api-call" /\ Len(rest.words) < 2 /\ Cut!Stop("error")
    BY <1>1, <1>2, <2>1, Zenon DEF Cut!Commands
  <2>3. \/ k.word # "api-call" /\ Whole!Continue(rest.next, plain)
        \/ k.word = "api-call" /\ Len(rest.words) >= 2 /\ Whole!Continue(rest.next, called)
        \/ k.word = "api-call" /\ Len(rest.words) < 2 /\ Whole!Stop("error")
    BY <1>1, <2>1, Zenon DEF Whole!Commands
  <2>. HIDE DEF plain, called
  <2>4. ~(Len(rest.words) >= 2 /\ Len(rest.words) < 2)
    <3>1. Len(rest.words) \in Nat
      BY <1>1
    <3>. QED  BY <3>1
  <2>5. Cut!Stop("error") \/ \E s : Cut!Continue(rest.next, s) /\ Whole!Continue(rest.next, s)
    BY <2>2, <2>3, <2>4, Zenon
  <2>. QED  BY <1>1, <2>5, CutStop, ContinueTogether DEF Result
<1>. QED  BY <1>3, <1>4

LEMMA MetaTogether ==
    ASSUME Together, Cut!Skip(pos) # Cut!End, Cut!Meta, Whole!Meta
    PROVE  Result
<1>. DEFINE k == Cut!Word(pos)
            rest == Cut!Rest(k.next)
<1>1. /\ Whole!Word(pos) = k /\ Cut!Word(cpos) = k
      /\ rest.next \in 1 .. Cut!End
      /\ rest.next # Cut!End => Whole!Rest(k.next) = rest
  <2>1. pos \in 1 .. Cut!End /\ k.next \in 1 .. Cut!End /\ Whole!Word(pos) = k /\ cpos = pos
    BY ReadsTogether DEF Together
  <2>. HIDE DEF k
  <2>. QED  BY <2>1, ReadsTogether DEF k
<1>2. csite = site /\ Cut!In("meta")
  BY Zenon DEF Cut!Meta, Together
<1>. HIDE DEF k, rest
<1>3. CASE rest.next = Cut!End
  <2>1. Cut!Stop("panic") \/ \E s : Cut!Continue(rest.next, s)
    BY <1>1, Zenon DEF Cut!Meta, rest
  <2>. QED  BY <1>3, <2>1, CutStop, ContinueToEnd DEF Result
<1>4. CASE rest.next # Cut!End
  <2>1. Whole!Rest(k.next) = rest /\ Cut!Rest(k.next) = rest
    BY <1>1, <1>4 DEF rest
  <2>. DEFINE line == rest.words
              of(meta) == [site EXCEPT !.meta = meta]
              old == site.meta
              fed == of([old EXCEPT !.feeds = Append(@, [path |-> line[1], options |-> Tail(line)])])
              drawn(words) == of([old EXCEPT !.sitemap =
                                    [path |-> line[1],
                                     dynamic |-> @.dynamic \/ "dynamic=true" \in words]])
              told == of([old EXCEPT !.robots = @ \o line])
              same == of(old)
              Known == {"rss-feed", "sitemap"}
              All == {"rss-feed", "sitemap", "robots"}
  <2>2. \/ k.word \in Known /\ line = <<>> /\ Cut!Stop("panic")
        \/ k.word = "rss-feed" /\ line # <<>> /\ Cut!Continue(rest.next, fed)
        \/ k.word = "sitemap" /\ line # <<>> /\ Cut!Continue(rest.next, drawn(Cut!ToSet(Tail(line))))
        \/ k.word = "robots" /\ Cut!Continue(rest.next, told)
        \/ k.word \notin All /\ Cut!Continue(rest.next, same)
    BY <1>1, <1>2, <2>1, Zenon DEF Cut!Meta
  <2>3. \/ k.word \in Known /\ line = <<>> /\ Whole!Stop("panic")
        \/ k.word = "rss-feed" /\ line # <<>> /\ Whole!Continue(rest.next, fed)
        \/ k.word = "sitemap" /\ line # <<>> /\ Whole!Continue(rest.next, drawn(Whole!ToSet(Tail(line))))
        \/ k.word = "robots" /\ Whole!Continue(rest.next, told)
        \/ k.word \notin All /\ Whole!Continue(rest.next, same)
    BY <1>1, <2>1, Zenon DEF Whole!Meta
  <2>. HIDE DEF line, fed, drawn, told, same
  <2>4. Whole!ToSet(Tail(line)) = Cut!ToSet(Tail(line))
    BY DEF Whole!ToSet, Cut!ToSet
  <2>5. Cut!Stop("panic") \/ \E s : Cut!Continue(rest.next, s) /\ Whole!Continue(rest.next, s)
    BY <2>2, <2>3, <2>4, Zenon
  <2>. QED  BY <1>1, <2>5, CutStop, ContinueTogether DEF Result
<1>. QED  BY <1>3, <1>4


(* The word of a line and the one after it. *)
LEMMA LineTogether ==
    ASSUME Together, Cut!Skip(pos) # Cut!End, NEW k, k = Cut!Word(pos), NEW v, v = Cut!Word(k.next)
    PROVE  /\ Whole!Word(pos) = k /\ Cut!Word(cpos) = k /\ k.next \in 1 .. Cut!End
           /\ v.next \in 1 .. Cut!End
           /\ \/ v.next = Cut!End /\ v.word = Nothing /\ \A l : l # Ending => ~Cut!Expected(k.next, l)
              \/ Whole!Word(k.next) = v
           /\ Cut!Rest(k.next).next \in 1 .. Cut!End
           /\ \/ Cut!Rest(k.next).next = Cut!End
              \/ Whole!Rest(k.next) = Cut!Rest(k.next)
<1>1. pos \in 1 .. Cut!End /\ k.next \in 1 .. Cut!End /\ Whole!Word(pos) = k /\ cpos = pos
  BY ReadsTogether DEF Together
<1>. QED  BY <1>1, ReadsTogether

LEMMA LimitsTogether ==
    ASSUME Together, Cut!Skip(pos) # Cut!End, Cut!Limits, Whole!Limits
    PROVE  Result
<1>. DEFINE k == Cut!Word(pos)
            v == Cut!Word(k.next)
            new == IF k.word \in {"anonymous", "identified", "trusted"}
                   THEN [site EXCEPT !.limits[k.word] = v.word]
                   ELSE site
<1>1. /\ Whole!Word(pos) = k /\ Cut!Word(cpos) = k /\ v.next \in 1 .. Cut!End
      /\ v.next = Cut!End \/ Whole!Word(k.next) = v
      /\ csite = site
  BY LineTogether DEF Together
<1>. HIDE DEF k
<1>2. Cut!Continue(v.next, new)
  BY <1>1, Zenon DEF Cut!Limits, Cut!Tiers
<1>3. Whole!Word(k.next) = v => Whole!Continue(v.next, new)
  BY <1>1, Zenon DEF Whole!Limits, Whole!Tiers
<1>. HIDE DEF v, new
<1>. QED  BY <1>1, <1>2, <1>3, ContinueToEnd, ContinueTogether DEF Result

LEMMA ProxyCacheTogether ==
    ASSUME Together, Cut!Skip(pos) # Cut!End, Cut!ProxyCache, Whole!ProxyCache
    PROVE  Result
<1>. DEFINE k == Cut!Word(pos)
            v == Cut!Word(k.next)
            rest == Cut!Rest(k.next)
            old == site["proxy-cache"]
            of(new) == [site EXCEPT !["proxy-cache"] = new]
            allowed == of([old EXCEPT !.allow = Append(@, v.word)])
            denied == of([old EXCEPT !.deny = @ \/ v.word = "*"])
            setting == of([old EXCEPT !.settings[k.word] = v.word])
            limited == of([old EXCEPT !.limit = v.word])
            opened == of([old EXCEPT !.private = v.word \in Truths])
            led == of([old EXCEPT !.redirects = IF v.word \in Truths THEN "yes" ELSE "no"])
            Settings == {"ttl", "max-size", "storage"}
            Known == Settings \cup {"allow", "deny", "max-redirects", "allow-private-ips",
                                    "allow-redirects"}
<1>1. /\ Whole!Word(pos) = k /\ Cut!Word(cpos) = k /\ v.next \in 1 .. Cut!End
      /\ v.next = Cut!End \/ Whole!Word(k.next) = v
      /\ rest.next \in 1 .. Cut!End
      /\ rest.next = Cut!End \/ Whole!Rest(k.next) = rest
      /\ csite = site
  BY LineTogether DEF Together
<1>. HIDE DEF k
<1>2. \/ k.word = "allow" /\ Cut!Continue(v.next, allowed)
      \/ k.word = "deny" /\ Cut!Continue(v.next, denied)
      \/ k.word \in Settings /\ Cut!Continue(v.next, setting)
      \/ k.word = "max-redirects" /\ v.word \in Numbers /\ Cut!Continue(v.next, limited)
      \/ k.word = "max-redirects" /\ v.word \notin Numbers /\ Cut!Stop("error")
      \/ k.word = "allow-private-ips" /\ Cut!Continue(v.next, opened)
      \/ k.word = "allow-redirects" /\ Cut!Continue(v.next, led)
      \/ k.word \notin Known /\ Cut!Continue(rest.next, site)
  BY <1>1, Zenon DEF Cut!ProxyCache, Cut!Settings
<1>3. Whole!Word(k.next) = v /\ k.word \in Known =>
      \/ k.word = "allow" /\ Whole!Continue(v.next, allowed)
      \/ k.word = "deny" /\ Whole!Continue(v.next, denied)
      \/ k.word \in Settings /\ Whole!Continue(v.next, setting)
      \/ k.word = "max-redirects" /\ v.word \in Numbers /\ Whole!Continue(v.next, limited)
      \/ k.word = "max-redirects" /\ v.word \notin Numbers /\ Whole!Stop("error")
      \/ k.word = "allow-private-ips" /\ Whole!Continue(v.next, opened)
      \/ k.word = "allow-redirects" /\ Whole!Continue(v.next, led)
  BY <1>1, Zenon DEF Whole!ProxyCache, Whole!Settings
<1>4. Whole!Rest(k.next) = rest /\ k.word \notin Known => Whole!Continue(rest.next, site)
  BY <1>1, Zenon DEF Whole!ProxyCache, Whole!Settings
<1>. HIDE DEF v, rest, allowed, denied, setting, limited, opened, led
<1>5. CASE k.word \notin Known
  <2>1. Cut!Continue(rest.next, site)
    BY <1>2, <1>5, Zenon
  <2>. QED  BY <1>1, <1>4, <1>5, <2>1, ContinueToEnd, ContinueTogether DEF Result
<1>6. CASE k.word \in Known
  <2>1. Cut!Stop("error") \/ \E s : Cut!Continue(v.next, s) /\ (Whole!Word(k.next) = v => Whole!Continue(v.next, s))
    BY <1>2, <1>3, <1>6, Zenon
  <2>. QED  BY <1>1, <2>1, CutStop, ContinueToEnd, ContinueTogether DEF Result
<1>. QED  BY <1>5, <1>6


(* Both begin a site alike. *)
LEMMA SameNewSite == \A h : Cut!NewSite(h) = Whole!NewSite(h)
BY Zenon DEF Cut!NewSite, Whole!NewSite, Cut!Tiers, Whole!Tiers, Cut!Names, Whole!Names,
             Cut!Settings, Whole!Settings

LEMMA TopLevelTogether ==
    ASSUME Together, Cut!Skip(pos) # Cut!End, Cut!TopLevel, Whole!TopLevel
    PROVE  Result
<1>. DEFINE k == Cut!Word(pos)
            h == Cut!Word(k.next)
            new == Cut!NewSite(h.word)
<1>1. /\ Whole!Word(pos) = k /\ Cut!Word(cpos) = k /\ h.next \in 1 .. Cut!End
      /\ (h.next = Cut!End /\ h.word = Nothing) \/ Whole!Word(k.next) = h
      /\ Whole!NewSite(h.word) = new
      /\ cpos = pos /\ csite = site
  BY LineTogether, SameNewSite DEF Together
<1>2. Whole!Skip(pos) # Whole!End
  BY ReadsTogether
<1>. HIDE DEF k, new
<1>3. \/ k.word = "site" /\ h.word # Nothing /\ Cut!Open("site", h.next, new)
      \/ Cut!Stop("error")
  BY <1>1, Zenon DEF Cut!TopLevel, Nothing, new
<1>4. k.word = "site" /\ h.word # Nothing => Whole!Open("site", h.next, new)
  BY <1>1, <1>2, Zenon DEF Whole!TopLevel, Nothing, new
<1>. HIDE DEF h
<1>. QED  BY <1>1, <1>3, <1>4, CutStop, OpenTogether DEF Result

LEMMA SiteTogether ==
    ASSUME Together, Cut!Skip(pos) # Cut!End, Cut!Site, Whole!Site
    PROVE  Result
<1>1. /\ pos \in 1 .. Cut!End /\ Cut!End \in Nat /\ cpos = pos /\ csite = site
      /\ Whole!Skip(pos) = Cut!Skip(pos) /\ Whole!Skip(pos) # Whole!End
      /\ Cut!Skip(pos) + 1 \in 1 .. Cut!End
      /\ Whole!Expected(pos, Closing) <=> Cut!Expected(pos, Closing)
  <2>1. /\ pos \in 1 .. Cut!End /\ Cut!End \in Nat /\ cpos = pos /\ csite = site
        /\ Cut!Skip(pos) \in pos .. Cut!End
        /\ Whole!Skip(pos) = Cut!Skip(pos) /\ Whole!Skip(pos) # Whole!End
        /\ Whole!Expected(pos, Closing) <=> Cut!Expected(pos, Closing)
    BY ReadsTogether DEF Together
  <2>. QED  BY <2>1
<1>2. CASE Cut!Expected(pos, Closing)
  <2>. DEFINE p == Cut!Skip(pos) + 1
  <2>1. Cut!CloseSite(p)
    BY <1>1, <1>2, Zenon DEF Cut!Site, Cut!Directive, Closing
  <2>2. Whole!CloseSite(p)
    BY <1>1, <1>2, Zenon DEF Whole!Site, Whole!Directive, Closing
  <2>3. p \in 1 .. Cut!End
    BY <1>1
  <2>. HIDE DEF p
  <2>. QED  BY <2>1, <2>2, <2>3 DEF Cut!CloseSite, Whole!CloseSite, Together, SameTurn, Result
<1>3. CASE ~Cut!Expected(pos, Closing)
  <2>. DEFINE k == Cut!Word(pos)
              v == Cut!Word(k.next)
              Titles == {"host-key", "root", "backend", "authorized-keys"}
              Blocks == {"commands", "meta", "mcp", "proxy-cache", "auth", "limits"}
              port == [site EXCEPT !.port = v.word]
              named == [site EXCEPT ![k.word] = v.word]
              blank == [site EXCEPT ![k.word] = Cut!NewSite("")[k.word]]
  <2>1. /\ Whole!Word(pos) = k /\ Cut!Word(cpos) = k /\ k.next \in 1 .. Cut!End /\ v.next \in 1 .. Cut!End
        /\ v.next = Cut!End \/ Whole!Word(k.next) = v
    BY LineTogether
  <2>0. Whole!NewSite("") = Cut!NewSite("")
    BY SameNewSite, Zenon
  <2>. HIDE DEF k
  <2>2. \/ k.word = "port" /\ v.word \in Numbers /\ Cut!Continue(v.next, port)
        \/ k.word = "port" /\ v.word \notin Numbers /\ Cut!Stop("error")
        \/ k.word \in Titles /\ Cut!Continue(v.next, named)
        \/ k.word \in Blocks /\ Cut!Open(k.word, k.next, blank)
        \/ k.word \notin {"port"} \cup Titles \cup Blocks /\ Cut!Stop("error")
    BY <1>1, <1>3, <2>1, Zenon DEF Cut!Site, Cut!Directive, Cut!Names, Cut!Blocks, Closing
  <2>3. Whole!Directive
    BY <1>1, <1>3, Zenon DEF Whole!Site, Closing
  <2>4. Whole!Word(k.next) = v =>
        \/ k.word = "port" /\ v.word \in Numbers /\ Whole!Continue(v.next, port)
        \/ k.word = "port" /\ v.word \notin Numbers /\ Whole!Stop("error")
        \/ k.word \in Titles /\ Whole!Continue(v.next, named)
        \/ k.word \in Blocks
        \/ k.word \notin {"port"} \cup Titles \cup Blocks /\ Whole!Stop("error")
    BY <2>1, <2>3, Zenon DEF Whole!Directive, Whole!Names, Whole!Blocks
  <2>5. k.word \in Blocks => Whole!Open(k.word, k.next, blank)
    BY <2>0, <2>1, <2>3, Zenon DEF Whole!Directive, Whole!Names, Whole!Blocks
  <2>. HIDE DEF v, port, named, blank
  <2>6. \/ Cut!Stop("error")
        \/ \E s : Cut!Continue(v.next, s) /\ (Whole!Word(k.next) = v => Whole!Continue(v.next, s))
        \/ Cut!Open(k.word, k.next, blank) /\ Whole!Open(k.word, k.next, blank)
    BY <2>2, <2>4, <2>5, Zenon
  <2>. QED  BY <2>1, <2>6, CutStop, ContinueToEnd, ContinueTogether, OpenTogether DEF Result
<1>. QED  BY <1>2, <1>3

LEMMA CloseTogether ==
    ASSUME Together, Cut!Skip(pos) # Cut!End, Cut!Close, Whole!Close
    PROVE  Result
<1>. DEFINE p == Cut!Skip(pos) + 1
            error == block = "mcp" /\ site.mcp.transport = Nothing
            to == IF block = "mcp auth" THEN "mcp" ELSE "site"
<1>1. cpos = pos /\ csite = site /\ cblock = block /\ Whole!Skip(pos) + 1 = p /\ p \in 1 .. Cut!End
  <2>1. /\ cpos = pos /\ csite = site /\ cblock = block /\ Cut!End \in Nat /\ pos \in 1 .. Cut!End
        /\ Cut!Skip(pos) \in pos .. Cut!End
        /\ Whole!Skip(pos) = Cut!Skip(pos)
    BY ReadsTogether DEF Together
  <2>. QED  BY <2>1
<1>. HIDE DEF p
<1>2. \/ error /\ Cut!Stop("error")
      \/ ~error /\ cpos' = p /\ cblock' = to /\ UNCHANGED <<clist, csite, csites, cresult>>
  BY <1>1, Zenon DEF Cut!Close, Nothing, p
<1>3. \/ error /\ Whole!Stop("error")
      \/ ~error /\ pos' = p /\ block' = to /\ UNCHANGED <<list, site, sites, result>>
  BY <1>1, Zenon DEF Whole!Close, Nothing, p
<1>. HIDE DEF error, to
<1>. QED  BY <1>1, <1>2, <1>3, CutStop, Zenon DEF Together, SameTurn, Result

LEMMA TierListTogether ==
    ASSUME Together, Cut!Skip(pos) # Cut!End, Cut!TierList, Whole!TierList
    PROVE  Result
<1>. DEFINE k == Cut!Word(pos)
            p == Cut!Skip(k.next) + 1
            new == {[tier |-> k.word, items |-> <<>>]}
<1>1. /\ Whole!Word(pos) = k /\ Cut!Word(cpos) = k /\ k.next \in 1 .. Cut!End
  BY LineTogether
<1>. HIDE DEF k
<1>2. CASE ~Cut!Expected(k.next, "[")
  <2>1. Cut!Stop("error")
    BY <1>1, <1>2, Zenon DEF Cut!TierList
  <2>. QED  BY <2>1, CutStop DEF Result
<1>3. CASE Cut!Expected(k.next, "[")
  <2>1. /\ Cut!End \in Nat /\ Cut!Skip(k.next) \in k.next .. Cut!End /\ Cut!Skip(k.next) # Cut!End
        /\ Whole!Skip(k.next) = Cut!Skip(k.next) /\ Whole!Expected(k.next, "[")
    <3>1. "[" # Ending
      BY DEF Ending
    <3>. QED  BY <1>1, <1>3, <3>1, ReadsTogether
  <2>2. p \in 1 .. Cut!End
    BY <1>1, <2>1
  <2>3. clist' = new /\ cpos' = p /\ UNCHANGED <<cblock, csite, csites, cresult>>
    BY <1>1, <1>3, Zenon DEF Cut!TierList
  <2>4. list' = new /\ pos' = p /\ UNCHANGED <<block, site, sites, result>>
    BY <1>1, <2>1, Zenon DEF Whole!TierList
  <2>. HIDE DEF p, new
  <2>. QED  BY <2>2, <2>3, <2>4 DEF Together, SameTurn, Result
<1>. QED  BY <1>2, <1>3


(* Single lexemes and stretches of the two texts. *)
LEMMA PlacesTogether ==
    ASSUME Together
    PROVE  /\ \A p \in 1 .. Cut!End : p # Cut!End => Whole!At(p) = Cut!At(p)
           /\ Cut!At(Cut!End) = Ending
           /\ \A p, q \in 1 .. Cut!End :
                SubSeq(file.text, p, q - 1) = SubSeq(cfile.text, p, q - 1)
<1>. DEFINE c == cfile.text
            t == file.text
<1>1. c \in Seq(Lexemes) /\ t \in Seq(Lexemes) /\ Begins(c, t) /\ Ending \notin Lexemes
  BY DEF Together
<1>. HIDE DEF c, t
<1>2. /\ Cut!End = End(c) /\ \A p : Cut!At(p) = At(c, p)
      /\ \A p : Whole!At(p) = At(t, p)
  BY ReadersOfCut, ReadersOfWhole DEF c, t
<1>3. End(c) \in Nat /\ \A p \in 1 .. End(c) : p # End(c) => At(c, p) = At(t, p)
  BY <1>1, AtSame
<1>4. At(c, End(c)) = Ending
  BY <1>3 DEF At
<1>5. \A p, q \in 1 .. End(c) : SubSeq(t, p, q - 1) = SubSeq(c, p, q - 1)
  BY <1>1, PartSame
<1>. QED  BY <1>2, <1>3, <1>4, <1>5 DEF c, t

LEMMA SameTrim == \A item : Cut!Trim(item) = Whole!Trim(item)
BY Zenon DEF Cut!Trim, Whole!Trim, Cut!Max, Whole!Max

LEMMA ListItemTogether ==
    ASSUME Together, Cut!Skip(pos) # Cut!End, Cut!ListItem, Whole!ListItem
    PROVE  Result
<1>. DEFINE q == Cut!Skip(pos)
            e == Cut!First(q, Separators)
            item == Cut!Trim(SubSeq(cfile.text, q, e - 1))
            after(l) == IF item = <<>> THEN list ELSE {[l EXCEPT !.items = Append(@, item)]}
            p == IF Cut!At(e) = Comma THEN e + 1 ELSE e
<1>1. /\ cpos = pos /\ clist = list /\ Cut!End \in Nat /\ q \in 1 .. Cut!End
      /\ Whole!Skip(pos) = q
  <2>1. /\ cpos = pos /\ clist = list /\ Cut!End \in Nat /\ pos \in 1 .. Cut!End
        /\ q \in pos .. Cut!End /\ Whole!Skip(pos) = q
    BY ReadsTogether DEF Together
  <2>. HIDE DEF q
  <2>. QED  BY <2>1
<1>. HIDE DEF q
<1>2. e \in q .. Cut!End /\ (e # Cut!End => Whole!First(q, Separators) = e)
  BY <1>1, ReadsTogether
<1>. HIDE DEF e
<1>3. e \in 1 .. Cut!End
  BY <1>1, <1>2
<1>4. PICK l \in list : clist' = after(l) /\ cpos' = p /\ UNCHANGED <<cblock, csite, csites, cresult>>
  BY <1>1, Zenon DEF Cut!ListItem, Separators, Comma, Bracket, q, e
<1>5. CASE e = Cut!End
  <2>1. Cut!At(e) # Comma
    BY <1>5, PlacesTogether, Zenon DEF Ending, Comma
  <2>. QED  BY <1>4, <1>5, <2>1, Zenon DEF CutComesToEnd, Result
<1>6. CASE e # Cut!End
  <2>1. Whole!First(q, Separators) = e
    BY <1>2, <1>6
  <2>2. Whole!At(e) = Cut!At(e)
    BY <1>3, <1>6, PlacesTogether
  <2>3. SubSeq(file.text, q, e - 1) = SubSeq(cfile.text, q, e - 1)
    BY <1>1, <1>3, PlacesTogether
  <2>4. Whole!Trim(SubSeq(file.text, q, e - 1)) = item
    BY <2>3, SameTrim, Zenon
  <2>. HIDE DEF item
  <2>5. PICK m \in list : list' = after(m) /\ pos' = p /\ UNCHANGED <<block, site, sites, result>>
    BY <1>1, <2>1, <2>2, <2>4, Zenon DEF Whole!ListItem, Separators, Comma, Bracket
  <2>6. m = l
    BY DEF Together
  <2>7. p \in 1 .. Cut!End
    BY <1>1, <1>3, <1>6
  <2>. HIDE DEF after, p
  <2>. QED  BY <1>4, <2>5, <2>6, <2>7 DEF Together, SameTurn, Result
<1>. QED  BY <1>5, <1>6

LEMMA ListEndTogether ==
    ASSUME Together, Cut!Skip(pos) # Cut!End, Cut!ListEnd, Whole!ListEnd
    PROVE  Result
<1>. DEFINE p == Cut!Skip(pos) + 1
            All == {"anonymous", "identified", "trusted"}
            bad(l) == block = "mcp auth" /\ l.tier \notin All
            new(l) == CASE l.tier \notin All -> site
                        [] block = "auth" -> [site EXCEPT !.auth[l.tier] = l.items]
                        [] OTHER -> [site EXCEPT !.mcp.auth[l.tier] = l.items]
<1>1. /\ cpos = pos /\ csite = site /\ cblock = block /\ clist = list
      /\ Whole!Skip(pos) + 1 = p /\ p \in 1 .. Cut!End
  <2>1. /\ cpos = pos /\ csite = site /\ cblock = block /\ clist = list
        /\ Cut!End \in Nat /\ pos \in 1 .. Cut!End
        /\ Cut!Skip(pos) \in pos .. Cut!End
        /\ Whole!Skip(pos) = Cut!Skip(pos)
    BY ReadsTogether DEF Together
  <2>. QED  BY <2>1
<1>. HIDE DEF p
<1>2. PICK l \in list :
        \/ bad(l) /\ Cut!Stop("error")
        \/ /\ ~bad(l) /\ clist' = {} /\ cpos' = p /\ csite' = new(l)
           /\ UNCHANGED <<cblock, csites, cresult>>
  BY <1>1, Zenon DEF Cut!ListEnd, Cut!Tiers, p
<1>3. PICK m \in list :
        \/ bad(m) /\ Whole!Stop("error")
        \/ /\ ~bad(m) /\ list' = {} /\ pos' = p /\ site' = new(m)
           /\ UNCHANGED <<block, sites, result>>
  BY <1>1, Zenon DEF Whole!ListEnd, Whole!Tiers, p
<1>4. l = m
  BY DEF Together
<1>. HIDE DEF bad, new
<1>. QED  BY <1>1, <1>2, <1>3, <1>4, CutStop, Zenon DEF Together, SameTurn, Result

LEMMA McpTogether ==
    ASSUME Together, Cut!Skip(pos) # Cut!End, Cut!Mcp, Whole!Mcp
    PROVE  Result
<1>. DEFINE k == Cut!Word(pos)
            t == Cut!Word(k.next)
            blank == [site EXCEPT !.mcp.auth = [u \in {"anonymous", "identified", "trusted"} |-> <<>>]]
            server(to, words) == [site EXCEPT !.mcp.transport = to, !.mcp.server = words]
<1>1. /\ Whole!Word(pos) = k /\ Cut!Word(cpos) = k /\ k.next \in 1 .. Cut!End /\ t.next \in 1 .. Cut!End
      /\ (t.next = Cut!End /\ t.word = Nothing) \/ Whole!Word(k.next) = t
      /\ csite = site
  BY LineTogether DEF Together
<1>. HIDE DEF k, t
<1>2. CASE k.word = "auth"
  <2>1. Cut!Open("mcp auth", k.next, blank)
    BY <1>1, <1>2, Zenon DEF Cut!Mcp, Cut!Tiers
  <2>2. Whole!Open("mcp auth", k.next, blank)
    BY <1>1, <1>2, Zenon DEF Whole!Mcp, Whole!Tiers
  <2>. HIDE DEF blank
  <2>. DEFINE inner == "mcp auth"
  <2>. HIDE DEF inner
  <2>3. Cut!Open(inner, k.next, blank) /\ Whole!Open(inner, k.next, blank)
    BY <2>1, <2>2, Zenon DEF inner
  <2>. QED  BY <1>1, <2>3, OpenTogether DEF Result
<1>3. CASE k.word \notin {"server", "auth"}
  <2>1. Cut!Stop("error")
    BY <1>1, <1>3, Zenon DEF Cut!Mcp
  <2>. QED  BY <2>1, CutStop DEF Result
<1>4. CASE k.word = "server" /\ t.word \notin {"http", "stdio"}
  <2>1. Cut!Stop("error")
    BY <1>1, <1>4, Zenon DEF Cut!Mcp, t
  <2>. QED  BY <2>1, CutStop DEF Result
<1>5. CASE k.word = "server" /\ t.word = "http"
  <2>. DEFINE v == Cut!Word(t.next)
              new == server("http", <<v.word>>)
  <2>1. Whole!Word(k.next) = t
    BY <1>1, <1>5, Zenon DEF Nothing
  <2>2. v.next \in 1 .. Cut!End /\ (v.next = Cut!End \/ Whole!Word(t.next) = v)
    BY <1>1, ReadsTogether
  <2>3. Cut!Continue(v.next, new)
    BY <1>1, <1>5, Zenon DEF Cut!Mcp, t
  <2>4. Whole!Word(t.next) = v => Whole!Continue(v.next, new)
    BY <1>1, <1>5, <2>1, Zenon DEF Whole!Mcp
  <2>. HIDE DEF v, new
  <2>. QED  BY <2>2, <2>3, <2>4, ContinueToEnd, ContinueTogether DEF Result
<1>6. CASE k.word = "server" /\ t.word = "stdio"
  <2>. DEFINE q == Cut!Skip(t.next)
              close == Cut!First(q + 1, {Quote})
              words == SubSeq(cfile.text, q + 1, close - 1)
              new == server("stdio", words)
              quoted == Cut!At(q) = Quote /\ close # Cut!End
  <2>1. Whole!Word(k.next) = t
    BY <1>1, <1>6, Zenon DEF Nothing
  <2>2. CASE ~quoted
    <3>1. Cut!Stop("error")
      BY <1>1, <1>6, <2>2, Zenon DEF Cut!Mcp, Quote, t
    <3>. QED  BY <3>1, CutStop DEF Result
  <2>3. CASE quoted
    <3>1. Cut!Continue(close + 1, new)
      BY <1>1, <1>6, <2>3, Zenon DEF Cut!Mcp, Quote, t
    <3>2. q # Cut!End
      BY <2>3, PlacesTogether, Zenon DEF Ending, Quote
    <3>3. /\ Cut!End \in Nat /\ q \in t.next .. Cut!End /\ Whole!Skip(t.next) = q
      BY <1>1, <3>2, ReadsTogether
    <3>. HIDE DEF q
    <3>4. q \in 1 .. Cut!End /\ q + 1 \in 1 .. Cut!End
      BY <1>1, <3>2, <3>3
    <3>5. Whole!At(q) = Quote
      BY <2>3, <3>2, <3>4, PlacesTogether
    <3>6. close \in q + 1 .. Cut!End /\ Whole!First(q + 1, {Quote}) = close /\ close # Cut!End
      BY <2>3, <3>4, ReadsTogether
    <3>. HIDE DEF close
    <3>7. close \in 1 .. Cut!End /\ close + 1 \in 1 .. Cut!End
      BY <3>3, <3>4, <3>6
    <3>8. SubSeq(file.text, q + 1, close - 1) = words
      BY <3>4, <3>7, PlacesTogether
    <3>9. close # Whole!End
      <4>1. Cut!End <= Whole!End /\ Whole!End \in Nat
        BY ReadersOfCut, ReadersOfWhole, AtSame DEF Together
      <4>. QED  BY <3>3, <3>7, <4>1
    <3>. HIDE DEF words
    <3>10. Whole!Continue(close + 1, new)
      BY <1>6, <1>1, <2>1, <3>3, <3>5, <3>6, <3>8, <3>9, Zenon DEF Whole!Mcp, Quote
    <3>. HIDE DEF new
    <3>. QED  BY <3>1, <3>7, <3>10, ContinueTogether DEF Result
  <2>. QED  BY <2>2, <2>3
<1>. QED  BY <1>2, <1>3, <1>4, <1>5, <1>6, Zenon


(* At the end of its file a parse stops or stays where it is, and has all   *)
(* the sites it will ever have.                                             *)
LEMMA CutAtEnd ==
    ASSUME Ending \notin Lexemes, cfile.text \in Seq(Lexemes), cpos \in 1 .. Cut!End,
           Cut!Skip(cpos) = Cut!End, Cut!Next
    PROVE  CutStops \/ CutComesToEnd
<1>. DEFINE c == cfile.text
            k == Cut!Word(cpos)
            v == Cut!Word(k.next)
            rest == Cut!Rest(k.next)
            q == Cut!Skip(cpos)
            e == Cut!First(q, Separators)
<1>1. /\ Cut!End = End(c)
      /\ \A p : /\ Cut!At(p) = At(c, p)
                /\ Cut!Skip(p) = Skip(c, p)
                /\ Cut!Word(p) = Word(c, p)
                /\ Cut!Rest(p) = Rest(c, p)
                /\ \A l : Cut!First(p, l) = First(c, p, l)
                /\ \A l : Cut!Expected(p, l) <=> At(c, Skip(c, p)) = l
  BY ReadersOfCut
<1>2. c \in Seq(Lexemes) /\ cpos \in 1 .. End(c) /\ Skip(c, cpos) = End(c)
  BY <1>1
<1>. HIDE DEF c
<1>3. At(c, End(c)) = Ending
  BY <1>2, EndIs
<1>4. /\ k.next = Cut!End /\ k.word = Nothing /\ v.next = Cut!End
      /\ rest.next = Cut!End /\ e = Cut!End
      /\ Cut!Skip(k.next) = Cut!End
  BY <1>1, <1>2, ReadAtEnd
<1>5. Cut!At(Cut!End) = Ending
  BY <1>1, <1>3
<1>6. \A l : l # Ending => ~Cut!Expected(cpos, l) /\ ~Cut!Expected(k.next, l)
  BY <1>1, <1>2, <1>3, <1>4
<1>7. Closing # Ending /\ Bracket # Ending /\ Comma # Ending /\ "[" # Ending
  BY Zenon DEF Closing, Bracket, Comma, Ending
<1>8. ~Cut!Expected(cpos, Closing) /\ ~Cut!Expected(cpos, Bracket) /\ ~Cut!Expected(k.next, "[")
  BY <1>6, <1>7, Zenon
<1>. HIDE DEF k, v, rest, e
<1>9. CASE Cut!TopLevel \/ Cut!Site \/ Cut!Close \/ Cut!ListEnd
  <2>1. k.word # "site"
    BY <1>4, Zenon DEF Nothing
  <2>2. \E r \in {"ok", "error", "panic"} : Cut!Stop(r)
    BY <1>8, <1>9, <2>1, Zenon
       DEF Cut!TopLevel, Cut!Site, Cut!Directive, Cut!Close, Cut!ListEnd, Closing, Bracket, k
  <2>. QED  BY <2>2, CutStop
<1>10. CASE Cut!Commands \/ Cut!Meta
  <2>1. Cut!Stop("error") \/ Cut!Stop("panic") \/ \E s : Cut!Continue(rest.next, s)
    BY <1>10, Zenon DEF Cut!Commands, Cut!Meta, rest, k
  <2>. QED  BY <1>4, <2>1, CutStop, ContinueToEnd
<1>11. CASE Cut!Mcp \/ Cut!TierList
  <2>1. k.word # "server" /\ k.word # "auth"
    BY <1>4, Zenon DEF Nothing
  <2>2. Cut!Stop("error")
    BY <1>8, <1>11, <2>1, Zenon DEF Cut!Mcp, Cut!TierList, k
  <2>. QED  BY <2>2, CutStop
<1>12. CASE Cut!ProxyCache \/ Cut!Limits
  <2>1. Cut!Stop("error") \/ \E s : Cut!Continue(rest.next, s) \/ Cut!Continue(v.next, s)
    BY <1>12, Zenon DEF Cut!ProxyCache, Cut!Limits, rest, v, k
  <2>. QED  BY <1>4, <2>1, CutStop, ContinueToEnd
<1>13. CASE Cut!ListItem
  <2>1. csites' = csites /\ cpos' = IF Cut!At(e) = Comma THEN e + 1 ELSE e
    BY <1>13, Zenon DEF Cut!ListItem, Separators, Comma, Bracket, q, e
  <2>2. cpos' = Cut!End
    BY <1>4, <1>5, <1>7, <2>1, Zenon
  <2>. QED  BY <2>1, <2>2 DEF CutComesToEnd
<1>. QED  BY <1>9, <1>10, <1>11, <1>12, <1>13 DEF Cut!Next

-----------------------------------------------------------------------------
(* The two parses of a file and of the beginning of it. *)

(* A turn is one of a parse that goes on. *)
LEMMA CutNext == Cut!Next => cfile' = cfile /\ cresult = "parsing"
<1>1. CASE Cut!TopLevel \/ Cut!Site \/ Cut!Close
  BY <1>1, Zenon DEF Cut!TopLevel, Cut!Site, Cut!Directive, Cut!CloseSite, Cut!Close,
                     Cut!In, Cut!Open, Cut!Stop, Cut!Continue
<1>2. CASE Cut!Commands \/ Cut!Meta \/ Cut!Mcp \/ Cut!ProxyCache \/ Cut!Limits
  BY <1>2, Zenon DEF Cut!Commands, Cut!Meta, Cut!Mcp, Cut!ProxyCache, Cut!Limits,
                     Cut!In, Cut!Open, Cut!Stop, Cut!Continue
<1>3. CASE Cut!TierList \/ Cut!ListItem \/ Cut!ListEnd
  BY <1>3, Zenon DEF Cut!TierList, Cut!ListItem, Cut!ListEnd, Cut!In, Cut!Stop
<1>. QED  BY <1>1, <1>2, <1>3 DEF Cut!Next

(* The whole file's parse only adds sites, one at a time. *)
LEMMA SitesGrow == Whole!Next => sites' = sites \/ sites' = Append(sites, site)
<1>1. CASE Whole!TopLevel \/ Whole!Site \/ Whole!Close
  BY <1>1, Zenon DEF Whole!TopLevel, Whole!Site, Whole!Directive, Whole!CloseSite, Whole!Close,
                     Whole!In, Whole!Open, Whole!Stop, Whole!Continue
<1>2. CASE Whole!Commands \/ Whole!Meta \/ Whole!Mcp \/ Whole!ProxyCache \/ Whole!Limits
  BY <1>2, Zenon DEF Whole!Commands, Whole!Meta, Whole!Mcp, Whole!ProxyCache, Whole!Limits,
                     Whole!In, Whole!Open, Whole!Stop, Whole!Continue
<1>3. CASE Whole!TierList \/ Whole!ListItem \/ Whole!ListEnd
  BY <1>3, Zenon DEF Whole!TierList, Whole!ListItem, Whole!ListEnd, Whole!In, Whole!Stop
<1>. QED  BY <1>1, <1>2, <1>3 DEF Whole!Next

OneList(lists) == \A a, b \in lists : a = b

LEMMA OneListStays == OneList(list) /\ Whole!Next => OneList(list')
<1>. SUFFICES ASSUME OneList(list), Whole!Next PROVE OneList(list')
  OBVIOUS
<1>1. CASE Whole!TopLevel \/ Whole!Site \/ Whole!Close
  <2>1. list' = list
    BY <1>1, Zenon DEF Whole!TopLevel, Whole!Site, Whole!Directive, Whole!CloseSite, Whole!Close,
                       Whole!In, Whole!Open, Whole!Stop, Whole!Continue
  <2>. QED  BY <2>1
<1>2. CASE Whole!Commands \/ Whole!Meta \/ Whole!Mcp \/ Whole!ProxyCache \/ Whole!Limits
  <2>1. list' = list
    BY <1>2, Zenon DEF Whole!Commands, Whole!Meta, Whole!Mcp, Whole!ProxyCache, Whole!Limits,
                       Whole!In, Whole!Open, Whole!Stop, Whole!Continue
  <2>. QED  BY <2>1
<1>3. CASE Whole!TierList \/ Whole!ListItem \/ Whole!ListEnd
  <2>1. list' = list \/ list' = {} \/ \E l : list' = {l}
    BY <1>3, Zenon DEF Whole!TierList, Whole!ListItem, Whole!ListEnd, Whole!In, Whole!Stop
  <2>. QED  BY <2>1 DEF OneList
<1>. QED  BY <1>1, <1>2, <1>3 DEF Whole!Next

(* Which turn it is depends on the block, the list and the closing bracket. *)
Inner == {"commands", "meta", "mcp", "proxy-cache", "auth", "limits", "mcp auth"}

Turn(lists, in, closing, bracket) ==
    IF lists # {} THEN IF bracket THEN "end" ELSE "item"
    ELSE IF in \in Inner /\ closing THEN "close"
    ELSE IF in \in {"auth", "mcp auth"} THEN "tiers"
    ELSE in

(* Each action is the turn that its guard says. *)
LEMMA CutTurn ==
    LET turn == Turn(clist, cblock, Cut!Expected(cpos, Closing), Cut!Expected(cpos, Bracket))
    IN  /\ Cut!TopLevel => turn = "top"
        /\ Cut!Site => turn = "site"
        /\ Cut!Close => turn = "close"
        /\ Cut!Commands => turn = "commands"
        /\ Cut!Meta => turn = "meta"
        /\ Cut!Mcp => turn = "mcp"
        /\ Cut!ProxyCache => turn = "proxy-cache"
        /\ Cut!Limits => turn = "limits"
        /\ Cut!TierList => turn = "tiers"
        /\ Cut!ListItem => turn = "item"
        /\ Cut!ListEnd => turn = "end"
<1>. DEFINE turn == Turn(clist, cblock, Cut!Expected(cpos, Closing), Cut!Expected(cpos, Bracket))
<1>1. Cut!TopLevel => turn = "top"
  BY Zenon DEF Cut!TopLevel, Turn, Inner, Cut!In
<1>2. Cut!Site => turn = "site"
  BY Zenon DEF Cut!Site, Turn, Inner, Cut!In
<1>3. Cut!Close => turn = "close"
  BY Zenon DEF Cut!Close, Turn, Inner, Cut!Blocks, Closing
<1>4. Cut!Commands => turn = "commands"
  BY Zenon DEF Cut!Commands, Turn, Inner, Cut!In, Closing
<1>5. Cut!Meta => turn = "meta"
  BY Zenon DEF Cut!Meta, Turn, Inner, Cut!In, Closing
<1>6. Cut!Mcp => turn = "mcp"
  BY Zenon DEF Cut!Mcp, Turn, Inner, Cut!In, Closing
<1>7. Cut!ProxyCache => turn = "proxy-cache"
  BY Zenon DEF Cut!ProxyCache, Turn, Inner, Cut!In, Closing
<1>8. Cut!Limits => turn = "limits"
  BY Zenon DEF Cut!Limits, Turn, Inner, Cut!In, Closing
<1>9. Cut!TierList => turn = "tiers"
  BY Zenon DEF Cut!TierList, Turn, Inner, Cut!In, Closing
<1>10. Cut!ListItem => turn = "item"
  BY Zenon DEF Cut!ListItem, Turn, Inner, Cut!Expected, Bracket
<1>11. Cut!ListEnd => turn = "end"
  BY Zenon DEF Cut!ListEnd, Turn, Inner, Cut!Expected, Bracket
<1>. QED  BY <1>1, <1>2, <1>3, <1>4, <1>5, <1>6, <1>7, <1>8, <1>9, <1>10, <1>11, Zenon

LEMMA WholeTurn ==
    LET turn == Turn(list, block, Whole!Expected(pos, Closing), Whole!Expected(pos, Bracket))
    IN  /\ Whole!TopLevel => turn = "top"
        /\ Whole!Site => turn = "site"
        /\ Whole!Close => turn = "close"
        /\ Whole!Commands => turn = "commands"
        /\ Whole!Meta => turn = "meta"
        /\ Whole!Mcp => turn = "mcp"
        /\ Whole!ProxyCache => turn = "proxy-cache"
        /\ Whole!Limits => turn = "limits"
        /\ Whole!TierList => turn = "tiers"
        /\ Whole!ListItem => turn = "item"
        /\ Whole!ListEnd => turn = "end"
<1>. DEFINE turn == Turn(list, block, Whole!Expected(pos, Closing), Whole!Expected(pos, Bracket))
<1>1. Whole!TopLevel => turn = "top"
  BY Zenon DEF Whole!TopLevel, Turn, Inner, Whole!In
<1>2. Whole!Site => turn = "site"
  BY Zenon DEF Whole!Site, Turn, Inner, Whole!In
<1>3. Whole!Close => turn = "close"
  BY Zenon DEF Whole!Close, Turn, Inner, Whole!Blocks, Closing
<1>4. Whole!Commands => turn = "commands"
  BY Zenon DEF Whole!Commands, Turn, Inner, Whole!In, Closing
<1>5. Whole!Meta => turn = "meta"
  BY Zenon DEF Whole!Meta, Turn, Inner, Whole!In, Closing
<1>6. Whole!Mcp => turn = "mcp"
  BY Zenon DEF Whole!Mcp, Turn, Inner, Whole!In, Closing
<1>7. Whole!ProxyCache => turn = "proxy-cache"
  BY Zenon DEF Whole!ProxyCache, Turn, Inner, Whole!In, Closing
<1>8. Whole!Limits => turn = "limits"
  BY Zenon DEF Whole!Limits, Turn, Inner, Whole!In, Closing
<1>9. Whole!TierList => turn = "tiers"
  BY Zenon DEF Whole!TierList, Turn, Inner, Whole!In, Closing
<1>10. Whole!ListItem => turn = "item"
  BY Zenon DEF Whole!ListItem, Turn, Inner, Whole!Expected, Bracket
<1>11. Whole!ListEnd => turn = "end"
  BY Zenon DEF Whole!ListEnd, Turn, Inner, Whole!Expected, Bracket
<1>. QED  BY <1>1, <1>2, <1>3, <1>4, <1>5, <1>6, <1>7, <1>8, <1>9, <1>10, <1>11, Zenon

(* Where both stand at the same line they take the same turn. *)
LEMMA TurnTogether ==
    ASSUME Together, Cut!Next, Whole!Next
    PROVE  Result
<1>1. CASE Cut!Skip(pos) = Cut!End
  <2>1. /\ Ending \notin Lexemes /\ cfile.text \in Seq(Lexemes) /\ cpos = pos /\ pos \in 1 .. Cut!End
    BY ReadsTogether DEF Together
  <2>. QED  BY <1>1, <2>1, CutAtEnd DEF Result
<1>2. CASE Cut!Skip(pos) # Cut!End
  <2>. DEFINE turn == Turn(list, block, Cut!Expected(pos, Closing), Cut!Expected(pos, Bracket))
              whole == Turn(list, block, Whole!Expected(pos, Closing), Whole!Expected(pos, Bracket))
  <2>1. cpos = pos /\ clist = list /\ cblock = block
    BY DEF Together
  <2>2. /\ Whole!Expected(pos, Closing) <=> Cut!Expected(pos, Closing)
        /\ Whole!Expected(pos, Bracket) <=> Cut!Expected(pos, Bracket)
    BY <1>2, ReadsTogether
  <2>3. whole = turn
    BY <2>2, Zenon DEF Turn
  <2>. HIDE DEF turn, whole
  <2>4. /\ Cut!TopLevel => turn = "top"
        /\ Cut!Site => turn = "site"
        /\ Cut!Close => turn = "close"
        /\ Cut!Commands => turn = "commands"
        /\ Cut!Meta => turn = "meta"
        /\ Cut!Mcp => turn = "mcp"
        /\ Cut!ProxyCache => turn = "proxy-cache"
        /\ Cut!Limits => turn = "limits"
        /\ Cut!TierList => turn = "tiers"
        /\ Cut!ListItem => turn = "item"
        /\ Cut!ListEnd => turn = "end"
    BY <2>1, CutTurn, Zenon DEF turn
  <2>5. /\ Whole!TopLevel => turn = "top"
        /\ Whole!Site => turn = "site"
        /\ Whole!Close => turn = "close"
        /\ Whole!Commands => turn = "commands"
        /\ Whole!Meta => turn = "meta"
        /\ Whole!Mcp => turn = "mcp"
        /\ Whole!ProxyCache => turn = "proxy-cache"
        /\ Whole!Limits => turn = "limits"
        /\ Whole!TierList => turn = "tiers"
        /\ Whole!ListItem => turn = "item"
        /\ Whole!ListEnd => turn = "end"
    BY <2>3, WholeTurn, Zenon DEF whole
  <2>6. /\ Cut!TopLevel \/ Cut!Site \/ Cut!Close \/ Cut!Commands \/ Cut!Meta \/ Cut!Mcp
           \/ Cut!ProxyCache \/ Cut!Limits \/ Cut!TierList \/ Cut!ListItem \/ Cut!ListEnd
        /\ Whole!TopLevel \/ Whole!Site \/ Whole!Close \/ Whole!Commands \/ Whole!Meta \/ Whole!Mcp
           \/ Whole!ProxyCache \/ Whole!Limits \/ Whole!TierList \/ Whole!ListItem \/ Whole!ListEnd
    BY Zenon DEF Cut!Next, Whole!Next
  <2>7. \/ Cut!TopLevel /\ Whole!TopLevel
        \/ Cut!Site /\ Whole!Site
        \/ Cut!Close /\ Whole!Close
        \/ Cut!Commands /\ Whole!Commands
        \/ Cut!Meta /\ Whole!Meta
        \/ Cut!Mcp /\ Whole!Mcp
        \/ Cut!ProxyCache /\ Whole!ProxyCache
        \/ Cut!Limits /\ Whole!Limits
        \/ Cut!TierList /\ Whole!TierList
        \/ Cut!ListItem /\ Whole!ListItem
        \/ Cut!ListEnd /\ Whole!ListEnd
    BY <2>4, <2>5, <2>6
  <2>. QED
    BY <1>2, <2>7, TopLevelTogether, SiteTogether, CloseTogether, CommandsTogether, MetaTogether,
       McpTogether, ProxyCacheTogether, LimitsTogether, TierListTogether, ListItemTogether,
       ListEndTogether
<1>. QED  BY <1>1, <1>2


(* Both parses, turn by turn; when one has ended the other goes on alone.   *)
BothInit == Whole!Init /\ Cut!Init /\ Begins(cfile.text, file.text)

BothNext ==
    \/ Whole!Next /\ Cut!Next
    \/ Whole!Next /\ cresult # "parsing" /\ UNCHANGED Cut!vars
    \/ result # "parsing" /\ Cut!Next /\ UNCHANGED Whole!vars

BothSpec == BothInit /\ [][BothNext]_<<Whole!vars, Cut!vars>>

(* They stay together, or the cut one is at the end of its file with the    *)
(* sites that it has.                                                       *)
IsList(s) == \E S : s \in Seq(S)

Alike ==
    /\ Ending \notin Lexemes
    /\ file.text \in Seq(Lexemes) /\ cfile.text \in Seq(Lexemes) /\ Begins(cfile.text, file.text)
    /\ IsList(sites) /\ IsList(csites) /\ Begins(csites, sites)
    /\ OneList(list)
    /\ Together \/ cresult # "parsing" \/ cpos = Cut!End

(* Beginnings of lists of sites. *)
LEMMA BeginsSelf == ASSUME NEW s, IsList(s) PROVE Begins(s, s)
<1>1. PICK S : s \in Seq(S)
  BY DEF IsList
<1>. QED  BY <1>1 DEF Begins

LEMMA BeginsAppend ==
    ASSUME NEW c, NEW s, IsList(c), IsList(s), Begins(c, s), NEW e
    PROVE  IsList(Append(s, e)) /\ Begins(c, Append(s, e))
<1>1. PICK S : s \in Seq(S)
  BY DEF IsList
<1>2. PICK C : c \in Seq(C)
  BY DEF IsList
<1>3. s \in Seq(S \cup {e})
  BY <1>1
<1>4. Append(s, e) \in Seq(S \cup {e})
  BY <1>3
<1>5. /\ Len(Append(s, e)) = Len(s) + 1 /\ Len(s) \in Nat /\ Len(c) \in Nat
      /\ \A i \in 1 .. Len(s) : Append(s, e)[i] = s[i]
  BY <1>3
<1>6. Begins(c, Append(s, e))
  BY <1>5 DEF Begins
<1>. QED  BY <1>4, <1>6 DEF IsList

(* They begin alike. *)
LEMMA AlikeInit == Readable /\ BothInit => Alike
<1>. SUFFICES ASSUME Readable, BothInit PROVE Alike
  OBVIOUS
<1>1. /\ file \in Configs /\ pos = 1 /\ block = "top" /\ list = {} /\ sites = <<>> /\ result = "parsing"
      /\ cfile \in Configs /\ cpos = 1 /\ cblock = "top" /\ clist = {} /\ csites = <<>>
      /\ cresult = "parsing"
  BY Zenon DEF BothInit, Whole!Init, Cut!Init
<1>2. csite = site
  BY SameNewSite, Zenon DEF BothInit, Whole!Init, Cut!Init
<1>3. /\ Ending \notin Lexemes /\ file.text \in Seq(Lexemes) /\ cfile.text \in Seq(Lexemes)
      /\ Begins(cfile.text, file.text)
  BY <1>1 DEF Readable, BothInit
<1>4. IsList(sites) /\ IsList(csites) /\ Begins(csites, sites) /\ OneList(list)
  <2>1. <<>> \in Seq({})
    OBVIOUS
  <2>2. IsList(<<>>)
    BY <2>1 DEF IsList
  <2>. QED  BY <1>1, <2>2, BeginsSelf DEF OneList
<1>5. pos \in 1 .. End(cfile.text)
  BY <1>1, <1>3 DEF End
<1>6. Together
  BY <1>1, <1>2, <1>3, <1>5 DEF Together
<1>. QED  BY <1>3, <1>4, <1>6 DEF Alike

(* What a turn of either does to the sites. *)
LEMMA WholeAdds ==
    ASSUME Alike, Whole!Next
    PROVE  /\ file' = file /\ result = "parsing" /\ OneList(list')
           /\ IsList(sites') /\ Begins(csites, sites')
<1>1. file' = file /\ result = "parsing" /\ OneList(list')
  BY FileStays, OneListStays DEF Alike
<1>2. IsList(sites) /\ IsList(csites) /\ Begins(csites, sites)
  BY DEF Alike
<1>3. sites' = sites \/ sites' = Append(sites, site)
  BY SitesGrow
<1>. QED  BY <1>1, <1>2, <1>3, BeginsAppend

(* A parse that has come to the end of its file stays there. *)
LEMMA CutEndStays ==
    ASSUME Alike, cpos = Cut!End, Cut!Next
    PROVE  csites' = csites /\ (cresult' # "parsing" \/ cpos' = Cut!End)
<1>1. Ending \notin Lexemes /\ cfile.text \in Seq(Lexemes) /\ Cut!End = End(cfile.text)
  BY ReadersOfCut DEF Alike
<1>2. cpos \in 1 .. Cut!End
  <2>1. End(cfile.text) \in Nat /\ 1 <= End(cfile.text)
    BY <1>1 DEF End
  <2>. QED  BY <1>1, <2>1
<1>3. Cut!Skip(cpos) = Cut!End
  <2>1. Skip(cfile.text, cpos) \in cpos .. End(cfile.text) /\ End(cfile.text) \in Nat
    BY <1>1, <1>2, WordIs, EndIs
  <2>2. Cut!Skip(cpos) = Skip(cfile.text, cpos)
    BY ReadersOfCut
  <2>. QED  BY <1>1, <2>1, <2>2
<1>4. CutStops \/ CutComesToEnd
  BY <1>1, <1>2, <1>3, CutAtEnd
<1>. QED  BY <1>4 DEF CutStops, CutComesToEnd

(* Each turn of either keeps them alike. *)
LEMMA AlikeStep ==
    Alike /\ [BothNext]_<<Whole!vars, Cut!vars>> => Alike'
<1>. SUFFICES ASSUME Alike, [BothNext]_<<Whole!vars, Cut!vars>> PROVE Alike'
  OBVIOUS
<1>1. ASSUME cfile' = cfile PROVE Cut!End' = Cut!End
  BY <1>1 DEF Cut!End
<1>2. CASE Whole!Next /\ Cut!Next
  <2>1. /\ file' = file /\ OneList(list') /\ IsList(sites') /\ Begins(csites, sites')
        /\ result = "parsing"
    BY <1>2, WholeAdds
  <2>2. cfile' = cfile /\ cresult = "parsing"
    BY <1>2, CutNext
  <2>3. ASSUME csites' = csites, cresult' # "parsing" \/ cpos' = Cut!End PROVE Alike'
    BY <1>1, <2>1, <2>2, <2>3 DEF Alike
  <2>4. CASE Together
    <3>1. SameTurn \/ CutStops \/ CutComesToEnd
      BY <1>2, <2>4, TurnTogether DEF Result
    <3>2. CASE CutStops \/ CutComesToEnd
      BY <2>3, <3>2 DEF CutStops, CutComesToEnd
    <3>3. CASE SameTurn
      <4>1. pos' \in 1 .. End(cfile.text)
        BY <3>3, ReadersOfCut DEF SameTurn
      <4>2. \A a, b \in list' : a = b
        BY <2>1 DEF OneList
      <4>3. Together'
        BY <2>1, <2>2, <3>3, <4>1, <4>2 DEF Alike, Together, SameTurn
      <4>4. IsList(csites') /\ Begins(csites', sites')
        BY <2>1, <3>3, BeginsSelf DEF SameTurn
      <4>. QED  BY <2>1, <2>2, <4>3, <4>4 DEF Alike
    <3>. QED  BY <3>1, <3>2, <3>3
  <2>5. CASE cpos = Cut!End
    BY <1>2, <2>3, <2>5, CutEndStays
  <2>. QED  BY <2>2, <2>4, <2>5 DEF Alike
<1>3. CASE Whole!Next /\ cresult # "parsing" /\ UNCHANGED Cut!vars
  <2>1. file' = file /\ OneList(list') /\ IsList(sites') /\ Begins(csites, sites')
    BY <1>3, WholeAdds
  <2>. QED  BY <1>3, <2>1 DEF Alike, Cut!vars
<1>4. CASE result # "parsing" /\ Cut!Next /\ UNCHANGED Whole!vars
  <2>1. cfile' = cfile /\ cresult = "parsing"
    BY <1>4, CutNext
  <2>2. cpos = Cut!End
    BY <1>4, <2>1 DEF Alike, Together
  <2>3. csites' = csites /\ (cresult' # "parsing" \/ cpos' = Cut!End)
    BY <1>4, <2>2, CutEndStays
  <2>. QED  BY <1>1, <1>4, <2>1, <2>3 DEF Alike, Whole!vars
<1>5. CASE UNCHANGED <<Whole!vars, Cut!vars>>
  <2>1. Cut!End' = Cut!End
    BY <1>1, <1>5 DEF Cut!vars
  <2>. QED  BY <1>5, <2>1 DEF Alike, Together, Whole!vars, Cut!vars
<1>. QED  BY <1>2, <1>3, <1>4, <1>5 DEF BothNext

(* A configuration that ends too early, anywhere, gives no other sites than *)
(* the whole one, in the same order (parser.go).                            *)
CutAddsNoSite == Begins(csites, sites)

THEOREM CutsAddNoSites ==
    ASSUME Readable
    PROVE  BothSpec => []CutAddsNoSite
<1>1. BothInit => Alike
  BY AlikeInit
<1>2. Alike /\ [BothNext]_<<Whole!vars, Cut!vars>> => Alike'
  BY AlikeStep
<1>3. Alike => CutAddsNoSite
  BY DEF Alike, CutAddsNoSite
<1>. QED  BY <1>1, <1>2, <1>3, PTL DEF BothSpec

(* The beginning of a list is what IsPrefix calls a prefix. *)
LEMMA BeginsIsPrefix ==
    ASSUME NEW c, NEW s, IsList(c), IsList(s), Begins(c, s)
    PROVE  Cut!IsPrefix(c, s)
<1>1. PICK S : c \in Seq(S)
  BY DEF IsList
<1>2. PICK T : s \in Seq(T)
  BY DEF IsList
<1>. DEFINE n == Len(c)
<1>3. n \in Nat /\ n <= Len(s) /\ \A i \in 1 .. n : c[i] \in S \cup T /\ s[i] \in S \cup T /\ c[i] = s[i]
  BY <1>1, <1>2 DEF Begins
<1>. DEFINE x == SubSeq(c, 1, n)
            y == SubSeq(s, 1, n)
<1>4. /\ x \in Seq(S \cup T) /\ Len(x) = IF 1 <= n THEN n - 1 + 1 ELSE 0
      /\ \A i \in 1 .. n - 1 + 1 : x[i] = c[1 + i - 1]
  <2>. HIDE DEF n
  <2>. QED  BY <1>3, SubSeqProperties
<1>5. /\ y \in Seq(S \cup T) /\ Len(y) = IF 1 <= n THEN n - 1 + 1 ELSE 0
      /\ \A i \in 1 .. n - 1 + 1 : y[i] = s[1 + i - 1]
  <2>. HIDE DEF n
  <2>. QED  BY <1>3, SubSeqProperties
<1>. HIDE DEF n, x, y
<1>6. Len(x) = n /\ Len(y) = n /\ \A i \in 1 .. n : x[i] = y[i]
  BY <1>3, <1>4, <1>5
<1>7. x = y
  BY <1>4, <1>5, <1>6, SeqEqual
<1>. QED  BY <1>3, <1>7 DEF Cut!IsPrefix, n, x, y

(* So DamageIsNoticed holds of every "tail" of a file that is parsed as it  *)
(* is written, wherever the file is cut (parser.go).                        *)
TailIsNoticed ==
    /\ file.damage = "nothing" /\ result # "parsing" /\ Whole!ParsedAsWritten
    /\ cfile.damage = "tail" /\ cfile.sites = file.sites
    => Cut!DamageIsNoticed

THEOREM TailsAreNoticed ==
    ASSUME Readable
    PROVE  BothSpec => []TailIsNoticed
<1>1. BothInit => Alike
  BY AlikeInit
<1>2. Alike /\ [BothNext]_<<Whole!vars, Cut!vars>> => Alike'
  BY AlikeStep
<1>3. Alike => TailIsNoticed
  <2>. SUFFICES ASSUME Alike, file.damage = "nothing", result # "parsing", Whole!ParsedAsWritten,
                       cfile.damage = "tail", cfile.sites = file.sites
                PROVE  Cut!DamageIsNoticed
    BY DEF TailIsNoticed
  <2>1. sites = cfile.sites
    BY Zenon DEF Whole!ParsedAsWritten
  <2>2. Cut!IsPrefix(csites, sites)
    BY BeginsIsPrefix DEF Alike
  <2>3. "tail" \notin {"{", "site", "mcp", "auth", "limits"}
    BY Zenon
  <2>. QED  BY <2>1, <2>2, <2>3, Zenon DEF Cut!DamageIsNoticed
<1>. QED  BY <1>1, <1>2, <1>3, PTL DEF BothSpec

=============================================================================
