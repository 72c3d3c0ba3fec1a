----------------------- MODULE ServerLifecycle_proofs -----------------------
(***************************************************************************)
(* Proofs about ServerLifecycle, for any number of sites, restarts and     *)
(* connections: the host key of a site, and when ListenAndServe returns.   *)
(***************************************************************************)
EXTENDS ServerLifecycle, TLAPS

\* New has come to its end.
Up == {"up", "closing", "closed"}

\* What a site's clients see is what its file holds, and it holds it for good.
Keys ==
    /\ \A s \in Sites :
          /\ shown[s] \subseteq {keyFile[s]}
          /\ hostKey[s] # NoKey => hostKey[s] = keyFile[s]
          /\ main \in Up => hostKey[s] # NoKey
          /\ main \in {"new", "writing"} /\ s < site => hostKey[s] # NoKey
    /\ main = "down" => site = 1
    /\ main # "down" => starts >= 1
    /\ main = "writing" => keyFile[site] = Torn

\* An accept loop only ends with the server, and a loop that was started runs.
Loops ==
    /\ main \notin Up => serve = "off"
    /\ serve = "off" => next = 1
    /\ serve = "waiting" => next = N + 1
    /\ serve = "returned" => closed
    /\ mu = "close" => closed /\ main = "closing"
    /\ \A s \in Sites :
          /\ main \notin Up => loop[s] = "off"
          /\ s < next => loop[s] # "off"
          /\ listener[s] = "closed" => closed
          /\ loop[s] \in {"errClosed", "ended"} => closed

IInv == TypeOK /\ Keys /\ Loops

-----------------------------------------------------------------------------

LEMMA Fewer == 1 \in Sites /\ N \in Nat /\ N >= 1 /\ \A s \in Sites : s \in Nat /\ 1 <= s /\ s <= N
BY SitesAssumption DEF Sites

LEMMA InitIInv == Init => IInv
<1>. SUFFICES ASSUME Init PROVE IInv
  OBVIOUS
<1>1. TypeOK
  <2>1. 0 \in 0 .. MaxStarts /\ 0 \in 0 .. MaxConns /\ 1 \in 1 .. N + 1 /\ 0 \in Torn .. 0 /\ 0 \in 0 .. 0
    BY BoundsAssumption, SitesAssumption DEF Torn
  <2>2. hostKey \in [Sites -> 0 .. 0] /\ keyFile \in [Sites -> Torn .. 0]
    BY <2>1 DEF Init, Each, NoKey
  <2>3. listener \in [Sites -> {"nil", "open", "closed"}] /\ faulty \in [Sites -> BOOLEAN]
    BY DEF Init, Each
  <2>4. /\ loop \in [Sites -> {"off", "accept", "error", "errClosed", "ended"}]
        /\ conns \in [Sites -> 0 .. MaxConns] /\ shown \in [Sites -> SUBSET (1 .. 0)]
    BY <2>1 DEF Init, Each
  <2>5. starts = 0 /\ main = "down" /\ site \in Sites /\ serve = "off" /\ next = 1 /\ mu = "free"
        /\ closed = FALSE /\ closing = 1
    BY Fewer DEF Init
  <2>. QED  BY <2>1, <2>2, <2>3, <2>4, <2>5 DEF TypeOK
<1>2. Keys
  BY Fewer DEF Init, Keys, Each, Up, NoKey
<1>3. Loops
  BY Fewer DEF Init, Loops, Each, Up
<1>. QED  BY <1>1, <1>2, <1>3 DEF IInv

(* The process is down: what is on disk stays. *)
LEMMA DownIInv ==
    ASSUME IInv, Down, UNCHANGED <<starts, disk>>
    PROVE  IInv'
<1>1. TypeOK'
  <2>1. /\ starts' = starts /\ keyFile' = keyFile /\ shown' = shown /\ starts \in Nat
        /\ 0 \in 0 .. MaxConns
    BY BoundsAssumption DEF disk, IInv, TypeOK
  <2>2. hostKey' \in [Sites -> 0 .. starts] /\ conns' \in [Sites -> 0 .. MaxConns]
    <3>1. NoKey \in 0 .. starts
      BY <2>1 DEF NoKey
    <3>. QED  BY <2>1, <3>1 DEF Down, Each
  <2>3. listener' \in [Sites -> {"nil", "open", "closed"}] /\ faulty' \in [Sites -> BOOLEAN]
        /\ loop' \in [Sites -> {"off", "accept", "error", "errClosed", "ended"}]
    BY DEF Down, Each
  <2>4. main' = "down" /\ site' \in Sites /\ serve' = "off" /\ next' = 1 /\ mu' = "free"
        /\ closed' = FALSE /\ closing' = 1 /\ 1 \in 1 .. N + 1
    BY Fewer DEF Down
  <2>. QED  BY <2>1, <2>2, <2>3, <2>4 DEF IInv, TypeOK
<1>2. Keys'
  BY Fewer DEF IInv, Keys, Down, disk, Each, NoKey, Up
<1>3. Loops'
  BY Fewer DEF Loops, Down, Each, Up
<1>. QED  BY <1>1, <1>2, <1>3 DEF IInv

LEMMA StartIInv ==
    ASSUME IInv, Start
    PROVE  IInv'
<1>1. /\ main = "down" /\ main' = "new" /\ starts' = starts + 1 /\ starts < MaxStarts
      /\ site' = site /\ hostKey' = hostKey /\ serve' = serve /\ next' = next
      /\ listener' = listener /\ faulty' = faulty /\ loop' = loop /\ mu' = mu
      /\ closed' = closed /\ closing' = closing /\ conns' = conns /\ keyFile' = keyFile
      /\ shown' = shown
  BY DEF Start, life, disk
<1>2. starts \in Nat /\ starts' \in 0 .. MaxStarts /\ starts' \in Nat /\ starts <= starts'
  BY <1>1, BoundsAssumption DEF IInv, TypeOK
<1>3. TypeOK'
  <2>1. hostKey' \in [Sites -> 0 .. starts']
    BY <1>1, <1>2 DEF IInv, TypeOK
  <2>2. keyFile' \in [Sites -> Torn .. starts']
    BY <1>1, <1>2 DEF IInv, TypeOK, Torn
  <2>3. shown' \in [Sites -> SUBSET (1 .. starts')]
    <3>1. 1 .. starts \subseteq 1 .. starts'
      BY <1>2
    <3>. QED  BY <1>1, <3>1 DEF IInv, TypeOK
  <2>. QED  BY <1>1, <1>2, <2>1, <2>2, <2>3 DEF IInv, TypeOK
<1>4. Keys'
  <2>1. starts' >= 1
    BY <1>1, <1>2
  <2>. QED  BY <1>1, <2>1, Fewer DEF IInv, Keys, Up
<1>5. Loops'
  BY <1>1 DEF IInv, Loops, Up
<1>. QED  BY <1>3, <1>4, <1>5 DEF IInv

-----------------------------------------------------------------------------
(* New *)

(* A site has its key: the next one, or the server is up. *)
LEMMA NextSiteIInv ==
    ASSUME IInv, NextSite, main \in {"new", "writing"}, NEW k \in 1 .. starts,
           hostKey' = [hostKey EXCEPT ![site] = k],
           keyFile' = [keyFile EXCEPT ![site] = k],
           shown[site] \subseteq {k},
           UNCHANGED <<starts, next, listener, faulty, loop, mu, closed, closing, conns, shown>>
    PROVE  IInv'
<1>1. /\ site \in Sites /\ starts \in Nat
      /\ \A s \in Sites : /\ hostKey'[s] = IF s = site THEN k ELSE hostKey[s]
                          /\ keyFile'[s] = IF s = site THEN k ELSE keyFile[s]
  BY DEF IInv, TypeOK
<1>2. \/ site = N /\ main' = "up" /\ serve' = "listening" /\ site' = site
      \/ site < N /\ site' = site + 1 /\ main' = "new" /\ serve' = serve
  BY <1>1, Fewer DEF NextSite
<1>3. TypeOK'
  <2>1. site' \in Sites
    BY <1>1, <1>2, Fewer DEF Sites
  <2>2. hostKey' \in [Sites -> 0 .. starts] /\ keyFile' \in [Sites -> Torn .. starts]
    <3>1. k \in 0 .. starts /\ k \in Torn .. starts
      BY <1>1 DEF Torn
    <3>. QED  BY <3>1 DEF IInv, TypeOK
  <2>3. main' \in {"new", "up"} /\ serve' \in {"listening", serve}
    BY <1>2
  <2>. QED  BY <2>1, <2>2, <2>3 DEF IInv, TypeOK
<1>4. k # NoKey
  BY <1>1 DEF NoKey
<1>5. Keys'
  <2>1. \A s \in Sites : shown'[s] \subseteq {keyFile'[s]}
    BY <1>1 DEF IInv, Keys
  <2>2. \A s \in Sites : hostKey'[s] # NoKey => hostKey'[s] = keyFile'[s]
    BY <1>1 DEF IInv, Keys
  <2>3. \A s \in Sites : s < site \/ s = site => hostKey'[s] # NoKey
    BY <1>1, <1>4 DEF IInv, Keys
  <2>4. \A s \in Sites : main' \in Up => hostKey'[s] # NoKey
    BY <1>1, <1>2, <2>3, Fewer DEF Up
  <2>5. \A s \in Sites : main' \in {"new", "writing"} /\ s < site' => hostKey'[s] # NoKey
    BY <1>1, <1>2, <2>3, Fewer
  <2>6. starts' >= 1 /\ main' \in {"new", "up"}
    BY <1>2 DEF IInv, Keys
  <2>. QED  BY <2>1, <2>2, <2>4, <2>5, <2>6 DEF Keys
<1>6. Loops'
  BY <1>2 DEF IInv, Loops, Up
<1>. QED  BY <1>3, <1>5, <1>6 DEF IInv

LEMMA LoadKeyIInv ==
    ASSUME IInv, LoadKey
    PROVE  IInv'
<1>1. site \in Sites /\ keyFile[site] \in 1 .. starts
  BY DEF LoadKey, IInv, TypeOK, NoKey, Torn
<1>2. keyFile' = [keyFile EXCEPT ![site] = keyFile[site]]
  BY <1>1 DEF LoadKey, disk, IInv, TypeOK
<1>3. shown[site] \subseteq {keyFile[site]}
  BY <1>1 DEF IInv, Keys
<1>. QED  BY <1>1, <1>2, <1>3, NextSiteIInv DEF LoadKey, disk

(* A site without a key file has no clients yet. *)
LEMMA CreateKeyFileIInv ==
    ASSUME IInv, CreateKeyFile
    PROVE  IInv'
<1>1. /\ main = "new" /\ main' = "writing" /\ keyFile[site] = NoKey /\ site \in Sites
      /\ keyFile' = [keyFile EXCEPT ![site] = Torn]
      /\ starts' = starts /\ site' = site /\ hostKey' = hostKey /\ serve' = serve
      /\ next' = next /\ listener' = listener /\ faulty' = faulty /\ loop' = loop
      /\ mu' = mu /\ closed' = closed /\ closing' = closing /\ conns' = conns
      /\ shown' = shown
  BY DEF CreateKeyFile, life, IInv, TypeOK
<1>2. shown[site] = {} /\ hostKey[site] = NoKey
  BY <1>1 DEF IInv, TypeOK, Keys, NoKey
<1>3. TypeOK'
  <2>1. keyFile' \in [Sites -> Torn .. starts]
    BY <1>1 DEF IInv, TypeOK, Torn
  <2>. QED  BY <1>1, <2>1 DEF IInv, TypeOK
<1>4. Keys'
  BY <1>1, <1>2 DEF IInv, Keys, TypeOK, Up
<1>5. Loops'
  BY <1>1 DEF IInv, Loops, Up
<1>. QED  BY <1>3, <1>4, <1>5 DEF IInv

LEMMA WriteKeyIInv ==
    ASSUME IInv, WriteKey
    PROVE  IInv'
<1>1. /\ main = "writing" /\ keyFile[site] = Torn /\ site \in Sites /\ starts \in Nat
  BY DEF WriteKey, IInv, TypeOK, Keys
<1>2. shown[site] = {}
  BY <1>1 DEF IInv, TypeOK, Keys, Torn
<1>3. starts \in 1 .. starts
  BY <1>1 DEF IInv, TypeOK, Keys
<1>. QED  BY <1>1, <1>2, <1>3, NextSiteIInv DEF WriteKey

-----------------------------------------------------------------------------
(* ListenAndServe *)

(* The steps of ListenAndServe and of the loops leave the keys alone. *)
LEMMA KeysStay ==
    ASSUME Keys, UNCHANGED <<starts, main, site, hostKey, keyFile, shown>>
    PROVE  Keys'
BY DEF Keys, Up

LEMMA ListenIInv ==
    ASSUME IInv, Listen
    PROVE  IInv'
<1>1. /\ serve = "listening" /\ next <= N /\ next \in Sites /\ next' = next + 1 /\ next \in Nat
      /\ main \in Up
  BY SitesAssumption DEF Listen, IInv, TypeOK, Loops, Sites
<1>2. \A s \in Sites : /\ loop'[s] = IF s = next THEN "accept" ELSE loop[s]
                       /\ listener'[s] = IF s = next THEN "open" ELSE listener[s]
  BY DEF Listen, IInv, TypeOK
<1>3. TypeOK'
  <2>1. next' \in 1 .. N + 1
    BY <1>1, SitesAssumption
  <2>. QED  BY <1>1, <2>1 DEF Listen, disk, IInv, TypeOK
<1>4. Keys'
  BY KeysStay DEF Listen, disk, IInv
<1>5. Loops'
  <2>1. \A s \in Sites : s < next' => loop'[s] # "off"
    BY <1>1, <1>2, Fewer DEF IInv, Loops
  <2>2. \A s \in Sites : listener'[s] = "closed" => closed
    BY <1>2 DEF IInv, Loops
  <2>3. \A s \in Sites : loop'[s] \in {"errClosed", "ended"} => closed
    BY <1>2 DEF IInv, Loops
  <2>. QED  BY <1>1, <2>1, <2>2, <2>3 DEF Listen, IInv, Loops
<1>. QED  BY <1>3, <1>4, <1>5 DEF IInv

(* Only where ListenAndServe stands changes. *)
LEMMA ServeIInv ==
    ASSUME IInv, serve # "off", serve' \in {"failed", "waiting", "returned"},
           serve' = "waiting" => next = N + 1,
           serve' = "returned" => closed,
           UNCHANGED <<starts, main, site, hostKey, next, listener, faulty, loop, mu, closed,
                       closing, conns, disk>>
    PROVE  IInv'
<1>1. TypeOK'
  BY DEF disk, IInv, TypeOK
<1>2. Keys'
  BY KeysStay DEF disk, IInv
<1>3. Loops'
  BY DEF IInv, Loops, Up
<1>. QED  BY <1>1, <1>2, <1>3 DEF IInv

(* The first site's loop was started, so it ended, and only a closed server *)
(* ends it.                                                                 *)
LEMMA ReturnIInv ==
    ASSUME IInv, Return
    PROVE  IInv'
<1>1. next = N + 1 /\ 1 \in Sites /\ 1 < next
  BY Fewer DEF Return, IInv, Loops
<1>2. loop[1] = "ended"
  BY <1>1 DEF Return, IInv, Loops
<1>3. closed
  BY <1>1, <1>2 DEF IInv, Loops
<1>. QED  BY <1>3, ServeIInv DEF Return

-----------------------------------------------------------------------------
(* acceptLoop *)

LEMMA AcceptIInv ==
    ASSUME IInv, NEW s \in Sites, Accept(s)
    PROVE  IInv'
<1>1. /\ loop[s] = "accept" /\ conns[s] < MaxConns /\ conns' = [conns EXCEPT ![s] = @ + 1]
      /\ shown' = [shown EXCEPT ![s] = @ \cup {hostKey[s]}]
      /\ starts' = starts /\ main' = main /\ site' = site /\ hostKey' = hostKey
      /\ serve' = serve /\ next' = next /\ listener' = listener /\ faulty' = faulty
      /\ loop' = loop /\ mu' = mu /\ closed' = closed /\ closing' = closing
      /\ keyFile' = keyFile
  BY DEF Accept
<1>2. main \in Up /\ hostKey[s] # NoKey /\ hostKey[s] = keyFile[s]
  BY <1>1 DEF IInv, Keys, Loops
<1>3. hostKey[s] \in 1 .. starts /\ starts \in Nat
  BY <1>2 DEF IInv, TypeOK, NoKey
<1>4. TypeOK'
  <2>1. conns' \in [Sites -> 0 .. MaxConns]
    <3>1. conns[s] + 1 \in 0 .. MaxConns
      BY <1>1, BoundsAssumption DEF IInv, TypeOK
    <3>. QED  BY <1>1, <3>1 DEF IInv, TypeOK
  <2>2. shown' \in [Sites -> SUBSET (1 .. starts)]
    <3>1. shown[s] \cup {hostKey[s]} \in SUBSET (1 .. starts)
      BY <1>3 DEF IInv, TypeOK
    <3>. QED  BY <1>1, <3>1 DEF IInv, TypeOK
  <2>. QED  BY <1>1, <2>1, <2>2 DEF IInv, TypeOK
<1>5. Keys'
  <2>1. \A t \in Sites : shown'[t] \subseteq {keyFile[t]}
    BY <1>1, <1>2 DEF IInv, TypeOK, Keys
  <2>. QED  BY <1>1, <2>1 DEF IInv, Keys, Up
<1>6. Loops'
  BY <1>1 DEF IInv, Loops, Up
<1>. QED  BY <1>4, <1>5, <1>6 DEF IInv

(* A loop moves on; where it gives up, the server is closed. *)
LEMMA LoopIInv ==
    ASSUME IInv, NEW s \in Sites, loop[s] # "off",
           NEW to \in {"accept", "error", "errClosed", "ended"},
           to \in {"errClosed", "ended"} => closed,
           loop' = [loop EXCEPT ![s] = to],
           UNCHANGED <<starts, main, site, hostKey, serve, next, listener, faulty, mu, closed,
                       closing, conns, disk>>
    PROVE  IInv'
<1>1. \A t \in Sites : loop'[t] = IF t = s THEN to ELSE loop[t]
  BY DEF IInv, TypeOK
<1>2. TypeOK'
  BY DEF disk, IInv, TypeOK
<1>3. Keys'
  BY KeysStay DEF disk, IInv
<1>4. Loops'
  <2>1. \A t \in Sites : main \notin Up => loop'[t] = "off"
    BY <1>1 DEF IInv, Loops
  <2>2. \A t \in Sites : t < next => loop'[t] # "off"
    BY <1>1 DEF IInv, Loops
  <2>3. \A t \in Sites : loop'[t] \in {"errClosed", "ended"} => closed
    BY <1>1 DEF IInv, Loops
  <2>. QED  BY <2>1, <2>2, <2>3 DEF IInv, Loops, Up
<1>. QED  BY <1>2, <1>3, <1>4 DEF IInv

LEMMA AcceptFailsIInv ==
    ASSUME IInv, NEW s \in Sites, AcceptFails(s)
    PROVE  IInv'
<1>1. CASE listener[s] = "closed" /\ loop' = [loop EXCEPT ![s] = "errClosed"]
  <2>1. closed
    BY <1>1 DEF IInv, Loops
  <2>. QED  BY <1>1, <2>1, LoopIInv DEF AcceptFails
<1>2. CASE listener[s] = "open" /\ loop' = [loop EXCEPT ![s] = "error"]
  BY <1>2, LoopIInv DEF AcceptFails
<1>. QED  BY <1>1, <1>2 DEF AcceptFails

LEMMA AfterErrorIInv ==
    ASSUME IInv, NEW s \in Sites, AfterError(s)
    PROVE  IInv'
<1>. DEFINE to == IF closed \/ loop[s] = "errClosed" THEN "ended" ELSE "accept"
<1>1. loop' = [loop EXCEPT ![s] = to] /\ loop[s] # "off"
  BY DEF AfterError
<1>2. to \in {"accept", "error", "errClosed", "ended"}
  OBVIOUS
<1>3. to \in {"errClosed", "ended"} => closed
  BY DEF IInv, Loops
<1>. HIDE DEF to
<1>. QED  BY <1>1, <1>2, <1>3, LoopIInv DEF AfterError

LEMMA BreakIInv ==
    ASSUME IInv, NEW s \in Sites, Break(s)
    PROVE  IInv'
<1>1. TypeOK'
  BY DEF Break, disk, IInv, TypeOK
<1>2. Keys'
  BY KeysStay DEF Break, disk, IInv
<1>3. Loops'
  BY DEF Break, IInv, Loops, Up
<1>. QED  BY <1>1, <1>2, <1>3 DEF IInv

-----------------------------------------------------------------------------
(* The signal and Close *)

LEMMA SignalIInv ==
    ASSUME IInv, Signal
    PROVE  IInv'
<1>1. TypeOK'
  BY DEF Signal, life, disk, IInv, TypeOK
<1>2. Keys'
  BY DEF Signal, disk, IInv, Keys, Up
<1>3. Loops'
  BY DEF Signal, life, IInv, Loops, Up
<1>. QED  BY <1>1, <1>2, <1>3 DEF IInv

LEMMA LockMuIInv ==
    ASSUME IInv, LockMu
    PROVE  IInv'
<1>1. TypeOK'
  BY DEF LockMu, disk, IInv, TypeOK
<1>2. Keys'
  BY KeysStay DEF LockMu, disk, IInv
<1>3. Loops'
  BY DEF LockMu, IInv, Loops, Up
<1>. QED  BY <1>1, <1>2, <1>3 DEF IInv

LEMMA CloseListenerIInv ==
    ASSUME IInv, CloseListener
    PROVE  IInv'
<1>1. closing \in Sites /\ closing' = closing + 1 /\ closing' \in 1 .. N + 1
  BY SitesAssumption DEF CloseListener, IInv, TypeOK, Sites
<1>2. closed
  BY DEF CloseListener, IInv, Loops
<1>3. listener' \in [Sites -> {"nil", "open", "closed"}]
  BY DEF CloseListener, IInv, TypeOK
<1>4. TypeOK'
  BY <1>1, <1>3 DEF CloseListener, disk, IInv, TypeOK
<1>5. Keys'
  BY KeysStay DEF CloseListener, disk, IInv
<1>6. Loops'
  BY <1>2 DEF CloseListener, IInv, Loops, Up
<1>. QED  BY <1>4, <1>5, <1>6 DEF IInv

LEMMA UnlockMuIInv ==
    ASSUME IInv, UnlockMu
    PROVE  IInv'
<1>1. TypeOK'
  BY DEF UnlockMu, disk, IInv, TypeOK
<1>2. Keys'
  BY DEF UnlockMu, disk, IInv, Keys, Loops, Up
<1>3. Loops'
  BY DEF UnlockMu, disk, IInv, Loops, Up
<1>. QED  BY <1>1, <1>2, <1>3 DEF IInv

-----------------------------------------------------------------------------

LEMMA StutterIInv ==
    ASSUME IInv, UNCHANGED vars
    PROVE  IInv'
<1>1. TypeOK'
  BY DEF vars, IInv, TypeOK
<1>2. Keys'
  BY KeysStay DEF vars, IInv
<1>3. Loops'
  BY DEF vars, IInv, Loops, Up
<1>. QED  BY <1>1, <1>2, <1>3 DEF IInv

LEMMA NextIInv == IInv /\ [Next]_vars => IInv'
<1>. SUFFICES ASSUME IInv, [Next]_vars PROVE IInv'
  OBVIOUS
<1>1. CASE Start
  BY <1>1, StartIInv
<1>2. CASE New
  BY <1>2, LoadKeyIInv, CreateKeyFileIInv, WriteKeyIInv, DownIInv DEF New, NewFails
<1>3. CASE Serve
  <2>1. CASE Listen
    BY <2>1, ListenIInv
  <2>2. CASE ListenFails
    BY <2>2, ServeIInv DEF ListenFails
  <2>3. CASE Wait
    BY <2>3, ServeIInv DEF Wait
  <2>4. CASE Return
    BY <2>4, ReturnIInv
  <2>5. CASE Fatal
    BY <2>5, DownIInv DEF Fatal
  <2>. QED  BY <1>3, <2>1, <2>2, <2>3, <2>4, <2>5 DEF Serve
<1>4. CASE Close
  BY <1>4, LockMuIInv, CloseListenerIInv, UnlockMuIInv, DownIInv DEF Close, Exit
<1>5. CASE \E s \in Sites : AcceptLoop(s) \/ Break(s)
  BY <1>5, AcceptIInv, AcceptFailsIInv, AfterErrorIInv, BreakIInv DEF AcceptLoop
<1>6. CASE Signal
  BY <1>6, SignalIInv
<1>7. CASE Kill
  BY <1>7, DownIInv DEF Kill
<1>8. CASE UNCHANGED vars
  BY <1>8, StutterIInv
<1>. QED  BY <1>1, <1>2, <1>3, <1>4, <1>5, <1>6, <1>7, <1>8 DEF Next

LEMMA Invariant == Spec => []IInv
BY InitIInv, NextIInv, PTL DEF Spec

-----------------------------------------------------------------------------

(* Every variable of the daemon stays in its type. *)
THEOREM TypeCorrect == Spec => []TypeOK
<1>1. IInv => TypeOK
  BY DEF IInv
<1>. QED  BY <1>1, Invariant, PTL

(* However often the daemon is killed, fails and starts again, the clients  *)
(* of a site see one host key only (New, loadHostKey).                      *)
THEOREM KeyIsOne == Spec => []OneHostKey
<1>1. IInv => OneHostKey
  BY DEF IInv, Keys, OneHostKey
<1>. QED  BY <1>1, Invariant, PTL

(* ListenAndServe returns nil only when the server is being closed          *)
(* (ListenAndServe, acceptLoop, Close).                                     *)
THEOREM ReturnMeansClosed == Spec => []ReturnsOnlyWhenClosed
<1>1. IInv => ReturnsOnlyWhenClosed
  BY DEF IInv, Loops, ReturnsOnlyWhenClosed
<1>. QED  BY <1>1, Invariant, PTL

=============================================================================
